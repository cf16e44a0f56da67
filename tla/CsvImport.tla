----------------------------- MODULE CsvImport -----------------------------
(***************************************************************************)
(* The body of one bulk import: the caller sends a table as RFC 4180 bytes,*)
(* the server reads them one at a time through readCsvRecordStream and     *)
(* hands every record to ImportRunner inside one transaction               *)
(* (core/infra/http/csv/streaming_csv_reader.ts,                           *)
(* core/application/import/import_runner.ts).                              *)
(*                                                                         *)
(* doc     the caller's side: what the bytes sent so far mean              *)
(* reader  the local variables of readCsvRecordStream                      *)
(* batch   the local variables of ImportRunner.run, and what it committed  *)
(*                                                                         *)
(* The chunks of the body cannot be told apart: the reader keeps all its   *)
(* state between two bytes.  Decoding a field's bytes as text is left out: *)
(* a value is the sequence of its bytes.                                   *)
(***************************************************************************)
EXTENDS Integers, FiniteSets, Sequences, SequencesExt

CONSTANTS
    MaxImportBytes,     \* MAX_IMPORT_BYTES
    MaxFieldBytes,      \* MAX_IMPORT_FIELD_BYTES
    MaxColumns,         \* MAX_IMPORT_COLUMNS
    MaxRows,            \* MAX_IMPORT_ROWS
    MaxReported,        \* MAX_REPORTED_ERRORS
    Letter,             \* the one byte that is no delimiter
    Columns,            \* how many columns the caller's header names
    MaxBody             \* bound: bytes a caller sends

ASSUME CsvAssumption ==
    /\ {MaxImportBytes, MaxFieldBytes, MaxRows, MaxReported} \subseteq Nat \ {0}
    /\ Columns \in Nat \ {0, 1} /\ Columns <= MaxColumns
    /\ MaxColumns \in Nat /\ MaxBody \in Nat
    /\ Letter \notin {"comma", "quote", "cr", "lf"}

VARIABLES doc, reader, batch
csvVars == <<doc, reader, batch>>

Bytes == {Letter, "comma", "quote", "cr", "lf"}

(* REQUIRED_COLUMNS: one required column, named by one letter.            *)
Required == <<Letter>>

(***************************************************************************)
(* The caller                                                              *)
(***************************************************************************)

NoDoc == [at |-> "field", field |-> <<>>, fields |-> <<>>, records |-> <<>>,
          sent |-> 0, end |-> "open"]

EndField(d) ==
    [d EXCEPT !.at = "field", !.field = <<>>, !.fields = Append(@, d.field)]

EndRecord(d) ==
    LET e == EndField(d)
    IN  [e EXCEPT !.fields = <<>>, !.records = Append(@, e.fields)]

Say(d, b, at) == [d EXCEPT !.at = at, !.field = Append(@, b)]

(* What one more byte of an RFC 4180 document may be, and mean.  A record *)
(* has at least Columns fields: every import route requires several       *)
(* columns.                                                                *)
Sent(d, b) ==
    LET full == Len(d.fields) + 1 >= Columns
        ends ==
            CASE b = "comma"         -> {EndField(d)}
              [] b = "lf" /\ full    -> {EndRecord(d)}
              [] b = "cr" /\ full    -> {[d EXCEPT !.at = "cr"]}
              [] OTHER               -> {}
    IN  CASE d.at = "field" /\ b = "quote"  -> {[d EXCEPT !.at = "quoted"]}
          [] d.at \in {"field", "bare"} /\ b = Letter -> {Say(d, b, "bare")}
          [] d.at \in {"field", "bare", "closed"} /\ b \in {"comma", "lf", "cr"} -> ends
          [] d.at = "quoted" /\ b = "quote" -> {[d EXCEPT !.at = "closed"]}
          [] d.at = "quoted" /\ b # "quote" -> {Say(d, b, "quoted")}
          [] d.at = "closed" /\ b = "quote" -> {Say(d, b, "quoted")}
          [] d.at = "cr" /\ b = "lf"        -> {EndRecord(d)}
          [] OTHER                          -> {}

(* Between two records, or inside the last field of one that needs no     *)
(* terminator.                                                             *)
Complete(d) ==
    \/ d.at = "field" /\ d.fields = <<>>
    \/ d.at \in {"field", "bare", "closed"} /\ Len(d.fields) + 1 >= Columns

Closed(d) ==
    IF d.at = "field" /\ d.fields = <<>> THEN d ELSE EndRecord(d)

(***************************************************************************)
(* readCsvRecordStream.  A rejected reader does nothing more: the throw    *)
(* leaves the loop, and what is left of the body is drained and dropped.   *)
(***************************************************************************)

NoHeader == <<>>

NewReader == [header |-> NoHeader, row |-> 1, total |-> 0, fields |-> <<>>, field |-> <<>>,
              quoted |-> FALSE, quotePending |-> FALSE, crPending |-> FALSE,
              rejected |-> FALSE]

Reject(r) == [r EXCEPT !.rejected = TRUE]

Push(r, b) ==
    IF r.rejected \/ Len(r.field) + 1 > MaxFieldBytes THEN Reject(r)
    ELSE [r EXCEPT !.field = Append(@, b)]

FinalizeField(r) ==
    IF r.rejected \/ Len(r.fields) + 1 > MaxColumns THEN Reject(r)
    ELSE [r EXCEPT !.fields = Append(@, r.field), !.field = <<>>]

FinalizeRecord(r) ==
    LET f == FinalizeField(r)
    IN  IF f.rejected THEN f
        ELSE IF f.header = NoHeader
        THEN IF Required \in Range(f.fields)
             THEN [f EXCEPT !.header = f.fields, !.fields = <<>>]
             ELSE Reject(f)
        ELSE [f EXCEPT !.row = @ + 1]

(* The pending CR of an unquoted field was data unless a LF follows.      *)
SettleCr(r, b) ==
    LET s == [r EXCEPT !.crPending = FALSE]
    IN  IF r.crPending /\ b # "lf" THEN Push(s, "cr") ELSE s

(* A quote inside a quoted field closes it unless a second one follows.   *)
SettleQuote(r) ==
    IF r.quotePending THEN [r EXCEPT !.quotePending = FALSE, !.quoted = FALSE] ELSE r

Byte(r, b) ==
    LET c == SettleCr([r EXCEPT !.total = @ + 1], b)
        s == SettleQuote(c)
    IN  IF r.total + 1 > MaxImportBytes \/ c.rejected THEN Reject(r)
        ELSE IF c.quotePending /\ b = "quote"
        THEN Push([c EXCEPT !.quotePending = FALSE], "quote")
        ELSE IF s.quoted
        THEN IF b = "quote" THEN [s EXCEPT !.quotePending = TRUE] ELSE Push(s, b)
        ELSE CASE b = "quote" /\ s.field = <<>> -> [s EXCEPT !.quoted = TRUE]
               [] b = "comma"                   -> FinalizeField(s)
               [] b = "cr"                      -> [s EXCEPT !.crPending = TRUE]
               [] b = "lf"                      -> FinalizeRecord(s)
               [] OTHER                         -> Push(s, b)

(* Fault: only a field that holds a byte shows that a record is open. *)
AtEndOfBytes(r) ==
    IF r.field # <<>> THEN FinalizeRecord(SettleCr(r, "none"))
    ELSE IF r.header = NoHeader THEN Reject(r) ELSE r

(* After the last byte: a record without its terminator still counts.     *)
AtEnd(r) ==
    LET s == [SettleCr(r, "none") EXCEPT !.quotePending = FALSE, !.quoted = FALSE]
    IN  IF s.rejected THEN s
        ELSE IF s.field # <<>> \/ s.fields # <<>> THEN FinalizeRecord(s)
        ELSE IF s.header = NoHeader THEN Reject(s)
        ELSE s

(* buildRecordValues: a later column of the same name wins, a missing     *)
(* field is empty.                                                         *)
BuildRecordValues(header, record) ==
    [name \in Range(header) |->
        LET i == CHOOSE j \in DOMAIN header :
                    header[j] = name /\ \A k \in DOMAIN header : header[k] = name => k <= j
        IN  IF i \in DOMAIN record THEN record[i] ELSE <<>>]

(***************************************************************************)
(* ImportRunner.run.  Whether a row is valid is the use case's: here a row *)
(* is refused when the required column is empty.                           *)
(***************************************************************************)

NewBatch == [rows |-> 0, written |-> <<>>, failures |-> <<>>, state |-> "reading",
             committed |-> <<>>]

Valid(values) == values[Required] # <<>>

Rejected(b) == [b EXCEPT !.state = "rejected", !.written = <<>>]

AppliedRow(b, row, values) ==
    LET n == [b EXCEPT !.rows = @ + 1]
        f == [n EXCEPT !.failures = Append(@, row)]
    IN  IF n.rows > MaxRows THEN Rejected(f)
        ELSE IF ~Valid(values)
        THEN IF Len(f.failures) >= MaxReported THEN Rejected(f) ELSE f
        ELSE IF b.failures # <<>> THEN n
        ELSE [n EXCEPT !.written = Append(@, values)]

(* What the loop does with the reader's next state: a row it yielded is   *)
(* applied, a throw of the reader rejects the batch.                       *)
Consumed(b, before, after) ==
    IF after.rejected THEN Rejected(b)
    ELSE IF after.row > before.row
    THEN AppliedRow(b, after.row, BuildRecordValues(after.header, after.fields))
    ELSE b

Yielded(before, after) ==
    IF after.row > before.row THEN [after EXCEPT !.fields = <<>>] ELSE after

(* The transaction commits only when no row failed.                       *)
Ended(b) ==
    IF b.state = "rejected" \/ b.failures # <<>> THEN Rejected(b)
    ELSE [b EXCEPT !.state = "imported", !.written = <<>>, !.committed = b.written]

(***************************************************************************)
(* Steps of a body                                                         *)
(***************************************************************************)

CsvInit == doc = NoDoc /\ reader = NewReader /\ batch = NewBatch

SendByte(b) ==
    /\ batch.state = "reading" /\ doc.sent < MaxBody
    /\ \E d \in Sent(doc, b) : doc' = [d EXCEPT !.sent = @ + 1]
    /\ LET r == Byte(reader, b)
       IN  /\ reader' = Yielded(reader, r)
           /\ batch' = Consumed(batch, reader, r)

EndBody ==
    /\ batch.state = "reading" /\ Complete(doc)
    /\ doc' = [Closed(doc) EXCEPT !.end = "sent"]
    /\ LET r == AtEnd(reader)
       IN  /\ reader' = Yielded(reader, r)
           /\ batch' = Ended(Consumed(batch, reader, r))

(* The connection breaks: reader.read() rejects, and so does the batch.   *)
BreakBody ==
    /\ batch.state = "reading"
    /\ doc' = [doc EXCEPT !.end = "broken"]
    /\ batch' = Rejected(batch)
    /\ UNCHANGED reader

CsvNext == (\E b \in Bytes : SendByte(b)) \/ EndBody \/ BreakBody
CsvSpec == CsvInit /\ [][CsvNext]_csvVars

(***************************************************************************)
(* Properties                                                              *)
(***************************************************************************)

(* The caller's rows as the import names them: row 2 is the first one.    *)
Row(d, n) == BuildRecordValues(d.records[1], d.records[n])
TableRows(d) == [i \in 1 .. Len(d.records) - 1 |-> Row(d, i + 1)]
InvalidRows(d) == {n \in 2 .. Len(d.records) : ~Valid(Row(d, n))}

HasRequired(d) == d.records # <<>> /\ Required \in Range(d.records[1])

TooLarge(record) ==
    Len(record) > MaxColumns \/ \E field \in Range(record) : Len(field) > MaxFieldBytes

Oversized(d) ==
    \/ d.sent > MaxImportBytes
    \/ Len(d.records) - 1 > MaxRows
    \/ \E record \in Range(d.records) \union {d.fields} : TooLarge(record)
    \/ Len(d.field) > MaxFieldBytes

Acceptable(d) ==
    d.end = "sent" /\ HasRequired(d) /\ ~Oversized(d) /\ InvalidRows(d) = {}

(* The report is the first MaxReported of these rows, in order.           *)
Reports(failures, rows) ==
    /\ Len(failures) <= MaxReported /\ Range(failures) \subseteq rows
    /\ \A i, j \in DOMAIN failures : i < j => failures[i] < failures[j]
    /\ \A n \in rows \ Range(failures) :
          Len(failures) = MaxReported /\ \A i \in DOMAIN failures : failures[i] < n

(* An import writes exactly the rows of the table the caller sent, in     *)
(* order, whatever quoting and line ends encode it, or, for any flaw of   *)
(* the table or the connection, nothing at all; it gives up before the    *)
(* end only over a flaw no further byte mends; and as long as only rows   *)
(* are at fault, the report names exactly the first MaxReported of them   *)
(* (streaming_csv_reader.ts:119, import_runner.ts:28).                     *)
ImportIsTheTable ==
    /\ batch.state = "imported" => /\ Acceptable(doc)
                                   /\ batch.committed = TableRows(doc)
    /\ batch.state = "rejected" => /\ ~Acceptable(doc)
                                   /\ batch.committed = <<>>
    /\ batch.state = "rejected" /\ doc.end = "open" =>
           \/ Oversized(doc)
           \/ doc.records # <<>> /\ ~HasRequired(doc)
           \/ Len(batch.failures) = MaxReported
    /\ HasRequired(doc) /\ ~Oversized(doc) => Reports(batch.failures, InvalidRows(doc))

=============================================================================
