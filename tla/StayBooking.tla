---------------------------- MODULE StayBooking ----------------------------
(***************************************************************************)
(* Stays of one property, the ledger entries they cause and the deletion   *)
(* of the property: booking, batch import, update, cancellation and the    *)
(* cascade of DeleteProperty, with the in-memory event dispatcher between  *)
(* booking and finance.                                                    *)
(*                                                                         *)
(* Only the cascade and the import run in a transaction; their writes are  *)
(* the rows in done until they commit, and are gone when they throw.       *)
(* Everything else reads, checks and saves in statements of its own.       *)
(***************************************************************************)
EXTENDS Integers, FiniteSets

CONSTANTS
    Stays,          \* identifiers new stays may get
    Requests,       \* requests that may be in flight at once
    Prices,
    MaxRefund,      \* bound: a stay with more reverted is not canceled again
    MaxTime,        \* bound: the last instant
    MaxFailures     \* bound: requests killed by a crash or a failed call

ASSUME BookingAssumption ==
    Prices \subseteq Nat /\ {MaxRefund, MaxTime, MaxFailures} \subseteq Nat

Times == 0 .. MaxTime

VARIABLES
    now,
    deleted,        \* properties.deleted_at
    stay,           \* stays table
    revenue,        \* what the ledger has recorded for each stay
    refund,         \* what it has reverted
    req,            \* requests in flight
    failures,
    lost,           \* history: stays saved whose event no handler recorded
    raced,          \* history: pairs of which one was written when the
                    \* other had passed its check and was still to be
    overlapped      \* history: two requests have been in flight at once

vars == <<now, deleted, stay, revenue, refund, req, failures, lost, raced, overlapped>>
ledger == <<revenue, refund, lost>>

-----------------------------------------------------------------------------
Row == [st : {"none", "live", "canceled"}, in : Times, out : Times,
        price : Prices \cup {0}]
NoRow == [st |-> "none", in |-> 0, out |-> 0, price |-> 0]
(* What Stay.create and Stay.update accept; the past is allowed. *)
Accepted == {s \in Row : s.st = "live" /\ s.in < s.out /\ s.price \in Prices}
(* An update leaves out what it keeps; a price it names is positive. *)
Update(row) == {d \in Accepted : d.price > 0 \/ d.price = row.price}
MayCancel(row) == row.in > now
Cancel(row) == [row EXCEPT !.st = "canceled"]

(* A request holds the stays it has loaded or made in rows; a transaction  *)
(* has written those in done and still has those in todo to cancel.        *)
Request == [pc : {"idle", "scan", "next", "owner", "policy", "insert",
                  "exists", "write", "booked", "canceled", "property"},
            kind : {"none", "book", "update", "cancel", "import", "delete",
                    "property"},
            on : SUBSET Stays, rows : [Stays -> Row],
            todo : SUBSET Stays, done : SUBSET Stays]
Idle == [pc |-> "idle", kind |-> "none", on |-> {},
         rows |-> [s \in Stays |-> NoRow], todo |-> {}, done |-> {}]

TypeOK ==
    /\ now \in Times /\ deleted \in BOOLEAN
    /\ stay \in [Stays -> Row]
    /\ revenue \in [Stays -> Nat] /\ refund \in [Stays -> Nat]
    /\ req \in [Requests -> Request]
    /\ \A r \in Requests :
          /\ req[r].pc = "idle" => req[r] = Idle
          /\ req[r].done # {} => req[r].kind \in {"delete", "import"}
          /\ \A s \in req[r].todo : req[r].rows[s].in > 0
    /\ failures \in 0 .. MaxFailures
    /\ lost \subseteq {s \in Stays : stay[s].st # "none"}
    /\ raced \subseteq SUBSET Stays /\ overlapped \in BOOLEAN

Init ==
    /\ now = 0 /\ deleted = FALSE
    /\ stay = [s \in Stays |-> NoRow]
    /\ revenue = [s \in Stays |-> 0] /\ refund = [s \in Stays |-> 0]
    /\ req = [r \in Requests |-> Idle]
    /\ failures = 0
    /\ lost = {}
    /\ raced = {} /\ overlapped = FALSE

-----------------------------------------------------------------------------
(* Fault: the executor of a transaction leaks to every request. *)
InTxAlways(r) == TRUE
InTx(r) == req[r].kind \in {"delete", "import"}
(* The table as the statements of a request see it. *)
Seen(r) == [s \in Stays |-> IF s \in req[r].done THEN req[r].rows[s]
                                                 ELSE stay[s]]
Fresh(s) == stay[s].st = "none" /\ \A r \in Requests : s \notin req[r].on

(* The stay a request is working on. *)
At(r, s) == req[r].pc # "idle" /\ req[r].on = {s}

GoTo(r, pc) == req' = [req EXCEPT ![r].pc = pc]
End(r) == req' = [req EXCEPT ![r] = Idle]
Begin(r, kind, pc, on, rows) ==
    /\ req[r].pc = "idle"
    /\ req' = [req EXCEPT ![r] = [Idle EXCEPT !.pc = pc, !.kind = kind,
                                              !.on = on, !.rows = rows]]
    /\ UNCHANGED <<now, deleted, stay, ledger, failures, raced>>

(* Fault: only the first instant is looked at. *)
OccupiedAtCheckIn(rows, s, d) ==
    \E t \in Stays \ {s} : /\ rows[t].st = "live"
                           /\ rows[t].out >= d.in /\ rows[t].in <= d.in
Occupied(rows, s, d) ==
    \E t \in Stays \ {s} : /\ rows[t].st = "live"
                           /\ rows[t].out >= d.in /\ rows[t].in <= d.out

(* History: what a request has found free and not yet written for others   *)
(* to see, and what races with its write.                                  *)
Cleared(q) ==
    {s \in q.on : \/ q.kind = "import"
                  \/ q.kind \in {"book", "update"} /\ q.pc \in {"insert", "exists", "write"}}
WritesLive(r) ==
    raced' = raced \cup {{s, t} : s \in Cleared(req[r]),
                                  t \in UNION {Cleared(req[q]) : q \in Requests \ {r}}}

-----------------------------------------------------------------------------
(* BookStay.                                                               *)

BookRead(r) ==
    /\ ~deleted
    /\ \E s \in Stays, d \in Accepted :
          /\ Fresh(s)
          /\ Begin(r, "book", "policy", {s}, [Idle.rows EXCEPT ![s] = d])

(* Also of an update, where it excludes the stay itself. *)
Policy(r) ==
    \E s \in Stays :
       /\ At(r, s) /\ req[r].pc = "policy"
       /\ IF Occupied(Seen(r), s, req[r].rows[s]) THEN End(r)
          ELSE GoTo(r, IF req[r].kind = "book" THEN "insert" ELSE "exists")
       /\ UNCHANGED <<now, deleted, stay, ledger, failures, raced>>

BookInsert(r) ==
    \E s \in Stays :
       /\ At(r, s) /\ req[r].pc = "insert"
       /\ stay' = [stay EXCEPT ![s] = req[r].rows[s]]
       /\ WritesLive(r)
       /\ GoTo(r, "booked")
       /\ UNCHANGED <<now, deleted, ledger, failures>>

(* newRevenue and newExpense throw for an amount of zero. *)
NewRevenue(amount) == amount > 0
NewExpense(amount) == amount < 0

(* The stay is there even if its request has failed.                       *)
RecordRevenue(s, price) ==
    IF NewRevenue(price)
    THEN revenue' = [revenue EXCEPT ![s] = @ + price] /\ UNCHANGED lost
    ELSE lost' = lost \cup {s} /\ UNCHANGED revenue

StayBookedEvent(r) ==
    \E s \in Stays :
       /\ At(r, s) /\ req[r].pc = "booked"
       /\ RecordRevenue(s, req[r].rows[s].price)
       /\ End(r)
       /\ UNCHANGED <<now, deleted, stay, refund, failures, raced>>

-----------------------------------------------------------------------------
(* CancelStay and UpdateStay.                                              *)

CancelFind(r) ==
    \E s \in Stays :
       /\ stay[s].st = "live" /\ refund[s] <= MaxRefund
       /\ Begin(r, "cancel", "owner", {s}, [Idle.rows EXCEPT ![s] = stay[s]])

UpdateFind(r) ==
    \E s \in Stays :
       /\ stay[s].st = "live"
       /\ \E d \in Update(stay[s]) :
             Begin(r, "update", "owner", {s}, [Idle.rows EXCEPT ![s] = d])

(* ensureOwnership, then stay.cancel() or stay.update(). *)
EnsureOwnership(r) ==
    \E s \in Stays :
       /\ At(r, s) /\ req[r].pc = "owner"
       /\ \/ deleted /\ End(r)
          \/ ~deleted /\ req[r].kind = "update" /\ GoTo(r, "policy")
          \/ /\ ~deleted /\ req[r].kind = "cancel"
             /\ IF ~MayCancel(req[r].rows[s]) THEN End(r)
                ELSE req' = [req EXCEPT ![r].rows[s] = Cancel(@),
                                        ![r].pc = "exists"]
       /\ UNCHANGED <<now, deleted, stay, ledger, failures, raced>>

Exists(r, s) == Seen(r)[s].st = "live"

(* saveStay inserts what it does not find, and the id is taken. *)
SaveExists(r) ==
    \E s \in Stays :
       /\ At(r, s) /\ req[r].pc = "exists"
       /\ IF Exists(r, s) THEN GoTo(r, "write") ELSE End(r)
       /\ UNCHANGED <<now, deleted, stay, ledger, failures, raced>>

(* A transaction that has updated the row makes other writers wait. *)
Unlocked(r, s) == \A q \in Requests \ {r} : s \notin req[q].done

SaveWrite(r) ==
    \E s \in Stays :
       /\ At(r, s) /\ req[r].pc = "write" /\ Unlocked(r, s)
       /\ \/ /\ InTx(r)
             /\ req' = [req EXCEPT ![r].pc = "canceled",
                                   ![r].done = @ \cup {s}]
             /\ UNCHANGED <<stay, raced>>
          \/ /\ ~InTx(r)
             /\ stay' = [stay EXCEPT ![s] = req[r].rows[s]]
             /\ IF req[r].kind = "cancel" THEN GoTo(r, "canceled") ELSE End(r)
             /\ WritesLive(r)
       /\ UNCHANGED <<now, deleted, ledger, failures>>

RevertRevenue(s, price) ==
    IF NewExpense(-price)
    THEN refund' = [refund EXCEPT ![s] = @ + price] /\ UNCHANGED lost
    ELSE lost' = lost \cup {s} /\ UNCHANGED refund

StayCanceledEvent(r) ==
    \E s \in Stays :
       /\ At(r, s) /\ req[r].pc = "canceled" /\ req[r].kind = "cancel"
       /\ RevertRevenue(s, req[r].rows[s].price)
       /\ End(r)
       /\ UNCHANGED <<now, deleted, stay, revenue, failures, raced>>

-----------------------------------------------------------------------------
(* DeleteProperty.                                                         *)

DeleteRead(r) ==
    /\ ~deleted /\ \A s \in Stays : refund[s] <= MaxRefund
    /\ Begin(r, "delete", "scan", {}, Idle.rows)

(* Fault: what has begun is not asked for. *)
PendingFuture(s) == stay[s].st = "live" /\ stay[s].in > now
Pending(s) == stay[s].st = "live" /\ stay[s].out >= now

(* releaseFutureOccupancy: allFutureFromProperty, ensureNoStayInProgress. *)
ReleaseFutureOccupancy(r) ==
    LET pending == {s \in Stays : Pending(s)}
    IN  /\ req[r].pc = "scan"
        /\ IF \E s \in pending : ~MayCancel(stay[s]) THEN End(r)
           ELSE req' = [req EXCEPT ![r].pc = "next", ![r].todo = pending,
                   ![r].rows = [s \in Stays |-> IF s \in pending THEN stay[s]
                                                ELSE NoRow]]
        /\ UNCHANGED <<now, deleted, stay, ledger, failures, raced>>

(* The next stay by check_in; one that has begun meanwhile ends it all. *)
CancelNext(r) ==
    /\ req[r].kind = "delete" /\ req[r].pc = "next" /\ req[r].todo # {}
    /\ \E s \in req[r].todo :
          /\ \A t \in req[r].todo : req[r].rows[s].in <= req[r].rows[t].in
          /\ IF ~MayCancel(req[r].rows[s]) THEN End(r)
             ELSE req' = [req EXCEPT ![r].pc = "exists", ![r].on = {s},
                                     ![r].todo = @ \ {s},
                                     ![r].rows[s] = Cancel(@)]
    /\ UNCHANGED <<now, deleted, stay, ledger, failures, raced>>

(* The reversal joins the transaction; a free stay throws in newExpense    *)
(* and takes the transaction back.                                         *)
CascadeCanceledEvent(r) ==
    \E s \in Stays :
       /\ At(r, s) /\ req[r].pc = "canceled" /\ req[r].kind = "delete"
       /\ IF NewExpense(-req[r].rows[s].price)
          THEN req' = [req EXCEPT ![r].pc = "next", ![r].on = {}]
          ELSE End(r)
       /\ UNCHANGED <<now, deleted, stay, ledger, failures, raced>>

(* softDelete, save and commit. *)
DeleteCommit(r) ==
    /\ req[r].kind = "delete" /\ req[r].pc = "next" /\ req[r].todo = {}
    /\ deleted' = TRUE
    /\ stay' = Seen(r)
    /\ refund' = [s \in Stays |-> IF s \in req[r].done
                                  THEN refund[s] + req[r].rows[s].price
                                  ELSE refund[s]]
    /\ End(r)
    /\ UNCHANGED <<now, revenue, lost, failures, raced>>

-----------------------------------------------------------------------------
(* ImportBatchStays: each row is checked against the rows before it.       *)

(* stayImportRecordSchema: both days, in order; a price may be 0.          *)
Importable == Accepted

ImportStart(r) == ~deleted /\ Begin(r, "import", "next", {}, Idle.rows)

(* Fault: a row that records no revenue is kept. *)
RejectedIfOccupied(r, s, d) == Occupied(Seen(r), s, d)
(* Occupied, or newRevenue refuses the price. *)
Rejected(r, s, d) == Occupied(Seen(r), s, d) \/ ~NewRevenue(d.price)

(* One rejected row rejects the batch: the rows after it are only checked. *)
ImportRow(r) ==
    /\ req[r].kind = "import" /\ req[r].pc = "next"
    /\ \E s \in Stays, d \in Importable :
          /\ Fresh(s)
          /\ IF Rejected(r, s, d) THEN End(r)
             ELSE req' = [req EXCEPT ![r].rows[s] = d, ![r].on = @ \cup {s},
                                     ![r].done = @ \cup {s}]
    /\ UNCHANGED <<now, deleted, stay, ledger, failures, raced>>

ImportCommit(r) ==
    /\ req[r].kind = "import" /\ req[r].pc = "next" /\ req[r].done # {}
    /\ stay' = Seen(r)
    /\ revenue' = [s \in Stays |-> IF s \in req[r].done
                                   THEN revenue[s] + req[r].rows[s].price
                                   ELSE revenue[s]]
    /\ WritesLive(r)
    /\ End(r)
    /\ UNCHANGED <<now, deleted, refund, lost, failures>>

-----------------------------------------------------------------------------
(* UpdateProperty writes the whole row it has read, deleted_at included.   *)
UpdatePropertyRead(r) ==
    ~deleted /\ Begin(r, "property", "property", {}, Idle.rows)
UpdatePropertySave(r) ==
    /\ req[r].pc = "property"
    /\ deleted' = FALSE
    /\ End(r)
    /\ UNCHANGED <<now, stay, ledger, failures, raced>>

Tick == /\ now < MaxTime /\ now' = now + 1
        /\ UNCHANGED <<deleted, stay, ledger, req, failures, raced>>

(* A statement fails or the process dies: a transaction is rolled back.    *)
Die(r) ==
    /\ req[r].pc # "idle" /\ failures < MaxFailures
    /\ failures' = failures + 1
    /\ lost' = IF req[r].pc \in {"booked", "canceled"} /\ ~InTx(r)
               THEN lost \cup req[r].on ELSE lost
    /\ End(r)
    /\ UNCHANGED <<now, deleted, stay, revenue, refund, raced>>

Step ==
    \/ \E r \in Requests :
          \/ BookRead(r) \/ Policy(r) \/ BookInsert(r) \/ StayBookedEvent(r)
          \/ CancelFind(r) \/ UpdateFind(r) \/ EnsureOwnership(r)
          \/ SaveExists(r) \/ SaveWrite(r) \/ StayCanceledEvent(r)
          \/ DeleteRead(r) \/ ReleaseFutureOccupancy(r) \/ CancelNext(r)
          \/ CascadeCanceledEvent(r) \/ DeleteCommit(r)
          \/ ImportStart(r) \/ ImportRow(r) \/ ImportCommit(r)
          \/ UpdatePropertyRead(r) \/ UpdatePropertySave(r) \/ Die(r)
    \/ Tick

Together == \E p, q \in Requests : p # q /\ "idle" \notin {req[p].pc, req[q].pc}
Next == Step /\ overlapped' = (overlapped \/ Together')

Spec == Init /\ [][Next]_vars

-----------------------------------------------------------------------------
(* What the calendar of a property and the dashboard (from = to = now)     *)
(* show of the table.                                                      *)
Listed(from, to) ==
    {s \in Stays : stay[s].st = "live" /\ stay[s].out >= from /\ stay[s].in <= to}

(* Whichever of booking, import and update made or moved them, two live    *)
(* stays have an instant in common, both ends included, only if one was    *)
(* written between the check and the write of the other                    *)
(* (PostgresBookingPolicy).  So without overlapping requests the calendar  *)
(* shows one guest at any instant, and the dashboard one active stay; a    *)
(* day two stays share is fine, the first being over before the second.    *)
NoDoubleBooking ==
    \A i \in Times : \A s, t \in Listed(i, i) : s # t => {s, t} \in raced

(* A deleted property has no live stay left but those that were over, also *)
(* when stays begin during the cascade or it fails half way, as long as no *)
(* two requests have overlapped (UpdateProperty and BookStay may undo it). *)
DeletionIsTotal ==
    deleted /\ ~overlapped => \A s \in Stays : stay[s].st = "live" => stay[s].out < now

(* The two tables agree at rest: every stay has its revenue, once, and     *)
(* exactly the canceled ones have a reversal, at the price they have now   *)
(* (an update changes the price and not the ledger), except where a        *)
(* request failed between saving the stay and recording its event, as long *)
(* as no two requests have overlapped.                                     *)
LedgerInStep ==
    ~overlapped => \A s \in Stays : s \notin lost /\ (\A r \in Requests : s \notin req[r].on) =>
       /\ IF stay[s].st = "none" THEN revenue[s] = 0 ELSE revenue[s] \in Prices \ {0}
       /\ refund[s] = IF stay[s].st = "canceled" THEN stay[s].price ELSE 0
=============================================================================
