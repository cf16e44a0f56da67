------------------------- MODULE StayBookingProofs -------------------------
(***************************************************************************)
(* Proofs about StayBooking: its types and which stays may overlap, for    *)
(* any number of requests, and, as long as no two requests have overlapped *)
(* (the code protects no more), that a deletion is total and that the      *)
(* ledger follows the stays. At the end, what CalendarDates computes, for  *)
(* every zone, day and month.                                              *)
(***************************************************************************)
EXTENDS StayBooking, CalendarDates, FiniteSetTheorems, TLAPS

-----------------------------------------------------------------------------
(* Types. A request that is to save a stay holds one, and one that is to   *)
(* dispatch the event of a stay has saved it, unless in a transaction.     *)

InTransaction(q) == q.kind \in {"delete", "import"}
HoldsRows(q, table) ==
    /\ q.pc = "idle" => q = Idle
    /\ q.done # {} => InTransaction(q)
    /\ q.pc \in {"insert", "booked"} => ~InTransaction(q)
    /\ q.pc = "scan" => q.kind = "delete" /\ q.on = {} /\ q.done = {}
    /\ q.kind # "delete" => q.todo = {}
    /\ \A s \in q.todo : q.rows[s].in > 0
    /\ \A s \in q.on \cup q.done : q.rows[s].st # "none"
    /\ q.pc \in {"booked", "canceled"} /\ ~InTransaction(q)
          => \A s \in q.on : table[s].st # "none"

TablesOK ==
    /\ now \in Times /\ deleted \in BOOLEAN
    /\ stay \in [Stays -> Row]
    /\ revenue \in [Stays -> Nat] /\ refund \in [Stays -> Nat]
    /\ failures \in 0 .. MaxFailures
    /\ lost \subseteq {s \in Stays : stay[s].st # "none"}
RequestsOK ==
    /\ req \in [Requests -> Request]
    /\ \A r \in Requests : HoldsRows(req[r], stay)

TypeInv == TablesOK /\ RequestsOK

-----------------------------------------------------------------------------
(* One request at a time: the one that moves, in a step of it.             *)

Single == \A p, q \in Requests : "idle" \notin {req[p].pc, req[q].pc} => p = q
Alone(r) == \A p \in Requests \ {r} : req[p].pc = "idle" /\ req'[p].pc = "idle"

(* What each kind of request knows of the stay it works on.                *)
Booking(r) ==
    /\ req[r].pc \in {"policy", "insert", "booked"} /\ req[r].done = {}
    /\ \E s \in Stays :
          /\ req[r].on = {s} /\ req[r].rows[s] \in Accepted
          /\ IF req[r].pc = "booked" THEN stay[s] = req[r].rows[s] ELSE stay[s].st = "none"
Canceling(r) ==
    /\ req[r].pc \in {"owner", "exists", "write", "canceled"} /\ req[r].done = {}
    /\ \E s \in Stays :
          /\ req[r].on = {s}
          /\ IF req[r].pc = "canceled"
             THEN stay[s].st = "canceled" /\ req[r].rows[s] = stay[s]
             ELSE /\ stay[s].st = "live"
                  /\ req[r].rows[s] = IF req[r].pc = "owner" THEN stay[s] ELSE Cancel(stay[s])
Updating(r) ==
    /\ req[r].pc \in {"owner", "policy", "exists", "write"} /\ req[r].done = {}
    /\ \E s \in Stays :
          /\ req[r].on = {s} /\ req[r].rows[s] \in Accepted /\ stay[s].st = "live"
(* A deletion has seen every stay that was not over: canceled, about to    *)
(* be, or still to do.                                                     *)
Deleting(r) ==
    /\ req[r].pc \in {"scan", "next", "exists", "write", "canceled"}
    /\ req[r].pc = "scan" => req[r].todo = {} /\ req[r].done = {}
    /\ req[r].pc \in {"scan", "next"} => req[r].on = {}
    /\ req[r].pc \in {"exists", "write"} => \E s \in Stays : req[r].on = {s}
    /\ req[r].pc = "canceled" => req[r].on \subseteq req[r].done
    /\ \A s \in req[r].todo : stay[s].st = "live" /\ req[r].rows[s] = stay[s]
    /\ \A s \in req[r].on \cup req[r].done :
          /\ s \notin req[r].todo
          /\ stay[s].st = "live" /\ req[r].rows[s] = Cancel(stay[s])
    /\ req[r].pc # "scan" => \A s \in Stays : stay[s].st = "live" =>
          s \in req[r].todo \cup req[r].on \cup req[r].done \/ stay[s].out < now
Importing(r) ==
    /\ req[r].pc = "next" /\ req[r].on = req[r].done
    /\ \A s \in req[r].done :
          stay[s].st = "none" /\ req[r].rows[s] \in Accepted /\ req[r].rows[s].price > 0

Working(r) ==
    \/ req[r].pc = "idle"
    \/ req[r].kind = "book" /\ Booking(r)
    \/ req[r].kind = "cancel" /\ Canceling(r)
    \/ req[r].kind = "update" /\ Updating(r)
    \/ req[r].kind = "delete" /\ Deleting(r)
    \/ req[r].kind = "import" /\ Importing(r)
    \/ req[r].kind = "property" /\ req[r].pc = "property"

(* The two tables agree on every stay, but for one whose event is on its   *)
(* way or was lost.                                                        *)
Recorded(s) == IF stay[s].st = "none" THEN revenue[s] = 0 ELSE revenue[s] \in Prices \ {0}
Reverted(s) == refund[s] = IF stay[s].st = "canceled" THEN stay[s].price ELSE 0
Announces(r, s) == s \in req[r].on /\ req[r].pc \in {"booked", "canceled"} /\ ~InTx(r)
LedgerInv ==
    \A s \in Stays \ lost :
       /\ (\A r \in Requests : ~Announces(r, s)) => Recorded(s) /\ Reverted(s)
       /\ \A r \in Requests : Announces(r, s) =>
             /\ refund[s] = 0
             /\ IF req[r].pc = "booked" THEN revenue[s] = 0 ELSE Recorded(s)

Emptied == deleted => \A s \in Stays : stay[s].st = "live" => stay[s].out < now

BookingInv ==
    /\ \A r \in Requests : Working(r)
    /\ \A r \in Requests : req[r].pc \notin {"idle", "owner"} => ~deleted
    /\ LedgerInv /\ Emptied

-----------------------------------------------------------------------------
(* Types: what the actions have in common.                                 *)

LEMMA IdleTyped == Idle \in Request /\ (\A table : HoldsRows(Idle, table)) /\ NoRow \in Row
<1>1. NoRow \in Row
  BY BookingAssumption DEF NoRow, Row, Times
<1>2. Idle.rows \in [Stays -> Row]
  BY <1>1 DEF Idle
<1> QED
  BY <1>1, <1>2 DEF Idle, Request, HoldsRows, InTransaction

LEMMA PriceIsNat ==
    ASSUME NEW d \in Row
    PROVE  d.price \in Nat
<1>1. d.price \in Prices \cup {0}
  BY DEF Row
<1>2. CASE d.price \in Prices
  BY <1>2, BookingAssumption
<1>3. CASE d.price = 0
  BY <1>3
<1> QED
  BY <1>1, <1>2, <1>3

LEMMA CancelTyped ==
    ASSUME NEW d \in Row
    PROVE  /\ Cancel(d) \in Row /\ Cancel(d).st = "canceled"
           /\ Cancel(d).in = d.in /\ Cancel(d).out = d.out /\ Cancel(d).price = d.price
BY DEF Cancel, Row

(* One request moves and no stay ceases to exist.                          *)
LEMMA RequestMoves ==
    ASSUME RequestsOK, NEW r \in Requests, NEW q \in Request,
           req' = [req EXCEPT ![r] = q],
           HoldsRows(q, stay'),
           \A s \in Stays : stay[s].st # "none" => stay'[s].st # "none"
    PROVE  RequestsOK'
<1>1. req' \in [Requests -> Request]
  BY DEF RequestsOK
<1>2. ASSUME NEW p \in Requests PROVE HoldsRows(req'[p], stay')
  <2>1. CASE p = r
    BY <2>1 DEF RequestsOK
  <2>2. CASE p # r
    <3>1. req'[p] = req[p] /\ HoldsRows(req[p], stay) /\ req[p].on \subseteq Stays
      BY <2>2 DEF RequestsOK, Request
    <3> QED
      BY <3>1 DEF HoldsRows
  <2> QED
    BY <2>1, <2>2
<1> QED
  BY <1>1, <1>2 DEF RequestsOK

LEMMA OnlyMoves ==
    ASSUME TypeInv, NEW r \in Requests, NEW q \in Request,
           req' = [req EXCEPT ![r] = q], HoldsRows(q, stay),
           UNCHANGED <<now, deleted, stay, revenue, refund, lost, failures>>
    PROVE  TypeInv'
<1>1. RequestsOK'
  BY RequestMoves DEF TypeInv
<1> QED
  BY <1>1 DEF TypeInv, TablesOK

LEMMA GoToTyped ==
    ASSUME TypeInv, NEW r \in Requests,
           NEW pc \in {"scan", "next", "owner", "policy", "insert", "exists", "write"},
           req[r].pc # "idle", GoTo(r, pc),
           pc = "insert" => ~InTransaction(req[r]), pc # "scan",
           UNCHANGED <<now, deleted, stay, revenue, refund, lost, failures>>
    PROVE  TypeInv'
<1>1. PICK q : q = [req[r] EXCEPT !.pc = pc]
  OBVIOUS
<1>2. req[r] \in Request /\ HoldsRows(req[r], stay)
  BY DEF TypeInv, RequestsOK
<1>3. q \in Request /\ HoldsRows(q, stay)
  BY <1>1, <1>2 DEF Request, HoldsRows, InTransaction
<1> QED
  BY <1>1, <1>3, OnlyMoves DEF GoTo

LEMMA EndTyped ==
    ASSUME TypeInv, NEW r \in Requests, End(r),
           UNCHANGED <<now, deleted, stay, revenue, refund, lost, failures>>
    PROVE  TypeInv'
BY IdleTyped, OnlyMoves DEF End

LEMMA BeginTyped ==
    ASSUME TypeInv, NEW r \in Requests,
           NEW kind \in {"book", "update", "cancel", "import", "delete", "property"},
           NEW pc \in {"scan", "next", "owner", "policy", "property"},
           NEW on \in SUBSET Stays, NEW rows \in [Stays -> Row],
           Begin(r, kind, pc, on, rows), \A s \in on : rows[s].st # "none",
           pc = "scan" => kind = "delete" /\ on = {}
    PROVE  TypeInv'
<1>1. PICK q : q = [Idle EXCEPT !.pc = pc, !.kind = kind, !.on = on, !.rows = rows]
  OBVIOUS
<1>2. q \in Request /\ HoldsRows(q, stay)
  BY <1>1 DEF Idle, Request, HoldsRows, InTransaction
<1> QED
  BY <1>1, <1>2, OnlyMoves DEF Begin, ledger

(* One lemma per group of actions.                                         *)
LEMMA BeginningsTyped ==
    ASSUME TypeInv, NEW r \in Requests,
           \/ BookRead(r) \/ CancelFind(r) \/ UpdateFind(r)
           \/ DeleteRead(r) \/ ImportStart(r) \/ UpdatePropertyRead(r)
    PROVE  TypeInv'
<1>1. Idle.rows = [s \in Stays |-> NoRow] /\ NoRow \in Row /\ stay \in [Stays -> Row]
  BY IdleTyped DEF Idle, TypeInv, TablesOK
<1>2. CASE BookRead(r)
  <2>1. PICK s \in Stays, d \in Accepted :
           Begin(r, "book", "policy", {s}, [Idle.rows EXCEPT ![s] = d])
    BY <1>2 DEF BookRead
  <2>2. PICK rows : rows = [Idle.rows EXCEPT ![s] = d]
    OBVIOUS
  <2>3. rows \in [Stays -> Row] /\ rows[s].st # "none"
    BY <1>1, <2>2 DEF Accepted
  <2> QED
    BY <2>1, <2>2, <2>3, BeginTyped
<1>3. CASE CancelFind(r)
  <2>1. PICK s \in Stays : /\ stay[s].st = "live"
                           /\ Begin(r, "cancel", "owner", {s}, [Idle.rows EXCEPT ![s] = stay[s]])
    BY <1>3 DEF CancelFind
  <2>2. PICK rows : rows = [Idle.rows EXCEPT ![s] = stay[s]]
    OBVIOUS
  <2>3. rows \in [Stays -> Row] /\ rows[s].st # "none"
    BY <1>1, <2>1, <2>2
  <2> QED
    BY <2>1, <2>2, <2>3, BeginTyped
<1>4. CASE UpdateFind(r)
  <2>1. PICK s \in Stays, d \in Accepted :
           Begin(r, "update", "owner", {s}, [Idle.rows EXCEPT ![s] = d])
    BY <1>4 DEF UpdateFind, Update
  <2>2. PICK rows : rows = [Idle.rows EXCEPT ![s] = d]
    OBVIOUS
  <2>3. rows \in [Stays -> Row] /\ rows[s].st # "none"
    BY <1>1, <2>2 DEF Accepted
  <2> QED
    BY <2>1, <2>2, <2>3, BeginTyped
<1>5. CASE DeleteRead(r) \/ ImportStart(r) \/ UpdatePropertyRead(r)
  <2>1. Idle.rows \in [Stays -> Row]
    BY <1>1
  <2> QED
    BY <1>5, <2>1, BeginTyped DEF DeleteRead, ImportStart, UpdatePropertyRead
<1> QED
  BY <1>2, <1>3, <1>4, <1>5

LEMMA ChecksTyped ==
    ASSUME TypeInv, NEW r \in Requests,
           Policy(r) \/ EnsureOwnership(r) \/ SaveExists(r)
    PROVE  TypeInv'
<1>1. UNCHANGED <<now, deleted, stay, revenue, refund, lost, failures>>
  BY DEF Policy, EnsureOwnership, SaveExists, ledger
<1>2. req[r].pc # "idle" /\ req[r] \in Request /\ HoldsRows(req[r], stay)
  BY DEF Policy, EnsureOwnership, SaveExists, TypeInv, RequestsOK
<1>3. CASE Policy(r) \/ SaveExists(r)
  <2>1. \/ End(r) \/ \E pc \in {"exists", "write"} : GoTo(r, pc)
        \/ GoTo(r, "insert") /\ ~InTransaction(req[r])
    BY <1>3 DEF Policy, SaveExists, InTransaction
  <2> QED
    BY <1>1, <1>2, <2>1, EndTyped, GoToTyped
<1>4. CASE EnsureOwnership(r)
  <2>1. PICK s \in Stays :
           \/ End(r) \/ GoTo(r, "policy")
           \/ /\ At(r, s)
              /\ req' = [req EXCEPT ![r].rows[s] = Cancel(@), ![r].pc = "exists"]
    BY <1>4 DEF EnsureOwnership
  <2>2. CASE End(r) \/ GoTo(r, "policy")
    BY <1>1, <1>2, <2>2, EndTyped, GoToTyped
  <2>3. CASE At(r, s) /\ req' = [req EXCEPT ![r].rows[s] = Cancel(@), ![r].pc = "exists"]
    <3>1. PICK q : q = [req[r] EXCEPT !.rows[s] = Cancel(@), !.pc = "exists"]
      OBVIOUS
    <3>2. req' = [req EXCEPT ![r] = q]
      BY <2>3, <3>1 DEF TypeInv, RequestsOK
    <3>3. PICK rows : rows = [req[r].rows EXCEPT ![s] = Cancel(req[r].rows[s])]
      OBVIOUS
    <3>4. q = [req[r] EXCEPT !.rows = rows, !.pc = "exists"]
      BY <3>1, <3>3
    <3>5. /\ rows \in [Stays -> Row] /\ rows[s].st = "canceled"
          /\ \A t \in Stays \ {s} : rows[t] = req[r].rows[t]
          /\ rows[s].in = req[r].rows[s].in
      BY <1>2, <3>3, CancelTyped DEF Request
    <3>6. q \in Request /\ HoldsRows(q, stay)
      BY <1>2, <3>4, <3>5 DEF Request, HoldsRows, InTransaction
    <3> QED
      BY <1>1, <3>2, <3>6, OnlyMoves
  <2> QED
    BY <2>1, <2>2, <2>3
<1> QED
  BY <1>3, <1>4

(* The statements that write a stay, and the handlers of its events.       *)
LEMMA BookInsertTyped ==
    ASSUME TypeInv, NEW r \in Requests, BookInsert(r)
    PROVE  TypeInv'
<1>1. PICK s \in Stays :
         /\ req[r].on = {s} /\ req[r].pc = "insert"
         /\ stay' = [stay EXCEPT ![s] = req[r].rows[s]]
         /\ GoTo(r, "booked")
  BY DEF BookInsert, At
<1>2. UNCHANGED <<now, deleted, revenue, refund, lost, failures>>
  BY DEF BookInsert, ledger
<1>3. req[r] \in Request /\ HoldsRows(req[r], stay)
  BY DEF TypeInv, RequestsOK
<1>4. PICK q : q = [req[r] EXCEPT !.pc = "booked"]
  OBVIOUS
<1>5. q \in Request /\ req[r].rows[s] \in Row /\ req[r].rows[s].st # "none"
  BY <1>1, <1>3, <1>4 DEF Request, HoldsRows
<1>6. stay' \in [Stays -> Row] /\ \A t \in Stays : stay[t].st # "none" => stay'[t].st # "none"
  BY <1>1, <1>5 DEF TypeInv, TablesOK
<1>7. HoldsRows(q, stay')
  <2>1. /\ q.pc = "booked" /\ q.done = req[r].done /\ q.kind = req[r].kind
        /\ q.todo = req[r].todo /\ q.on = {s} /\ q.rows = req[r].rows
    BY <1>1, <1>3, <1>4 DEF Request
  <2>2. stay'[s].st # "none"
    BY <1>1, <1>5 DEF TypeInv, TablesOK
  <2> QED
    BY <1>1, <1>3, <2>1, <2>2 DEF HoldsRows, InTransaction
<1>8. RequestsOK'
  BY <1>1, <1>4, <1>5, <1>6, <1>7, RequestMoves DEF GoTo, TypeInv
<1> QED
  BY <1>2, <1>6, <1>8 DEF TypeInv, TablesOK

LEMMA EventsTyped ==
    ASSUME TypeInv, NEW r \in Requests, StayBookedEvent(r) \/ StayCanceledEvent(r)
    PROVE  TypeInv'
<1>1. /\ UNCHANGED <<now, deleted, stay, failures>> /\ End(r)
      /\ req[r] \in Request /\ HoldsRows(req[r], stay)
  BY DEF StayBookedEvent, StayCanceledEvent, TypeInv, RequestsOK
<1>2. PICK s \in Stays :
         /\ req[r].on = {s}
         /\ \/ req[r].pc = "booked" /\ RecordRevenue(s, req[r].rows[s].price) /\ refund' = refund
            \/ /\ req[r].pc = "canceled" /\ req[r].kind = "cancel"
               /\ RevertRevenue(s, req[r].rows[s].price) /\ revenue' = revenue
  BY DEF StayBookedEvent, StayCanceledEvent, At
<1>3. req[r].rows[s].price \in Nat
  <2>1. req[r].rows[s] \in Row
    BY <1>1 DEF Request
  <2> QED
    BY <2>1, PriceIsNat
<1>4. revenue' \in [Stays -> Nat] /\ refund' \in [Stays -> Nat]
  BY <1>2, <1>3 DEF RecordRevenue, RevertRevenue, TypeInv, TablesOK
<1>6. lost' \subseteq {t \in Stays : stay[t].st # "none"}
  <2>1. lost' \subseteq lost \cup {s}
    BY <1>2 DEF RecordRevenue, RevertRevenue
  <2>2. stay[s].st # "none"
    BY <1>1, <1>2 DEF HoldsRows, InTransaction
  <2> QED
    BY <2>1, <2>2 DEF TypeInv, TablesOK
<1>7. RequestsOK'
  BY <1>1, IdleTyped, RequestMoves DEF End, TypeInv
<1> QED
  BY <1>1, <1>4, <1>6, <1>7 DEF TypeInv, TablesOK

LEMMA SaveWriteTyped ==
    ASSUME TypeInv, NEW r \in Requests, SaveWrite(r)
    PROVE  TypeInv'
<1>1. PICK s \in Stays :
         /\ req[r].on = {s} /\ req[r].pc = "write"
         /\ \/ /\ InTx(r)
               /\ req' = [req EXCEPT ![r].pc = "canceled", ![r].done = @ \cup {s}]
               /\ UNCHANGED stay
            \/ /\ ~InTx(r)
               /\ stay' = [stay EXCEPT ![s] = req[r].rows[s]]
               /\ IF req[r].kind = "cancel" THEN GoTo(r, "canceled") ELSE End(r)
  BY DEF SaveWrite, At
<1>2. UNCHANGED <<now, deleted, revenue, refund, lost, failures>>
  BY DEF SaveWrite, ledger
<1>3. req[r] \in Request /\ HoldsRows(req[r], stay)
  BY DEF TypeInv, RequestsOK
<1>4. req[r].rows[s] \in Row /\ req[r].rows[s].st # "none"
  BY <1>1, <1>3 DEF Request, HoldsRows
<1>5. CASE InTx(r)
  <2>1. PICK q : q = [req[r] EXCEPT !.pc = "canceled", !.done = @ \cup {s}]
    OBVIOUS
  <2>2. q \in Request /\ HoldsRows(q, stay)
    BY <1>1, <1>3, <1>5, <2>1 DEF Request, HoldsRows, InTx, InTransaction
  <2>3. req' = [req EXCEPT ![r] = q]
    BY <1>1, <1>5, <2>1 DEF TypeInv, RequestsOK
  <2> QED
    BY <1>1, <1>2, <1>5, <2>2, <2>3, OnlyMoves
<1>6. CASE ~InTx(r)
  <2>1. /\ stay' \in [Stays -> Row] /\ stay'[s].st # "none"
        /\ \A t \in Stays : stay[t].st # "none" => stay'[t].st # "none"
    BY <1>1, <1>4, <1>6 DEF TypeInv, TablesOK
  <2>2. PICK q : q = IF req[r].kind = "cancel" THEN [req[r] EXCEPT !.pc = "canceled"] ELSE Idle
    OBVIOUS
  <2>3. req' = [req EXCEPT ![r] = q]
    BY <1>1, <1>6, <2>2 DEF GoTo, End
  <2>4. q \in Request /\ HoldsRows(q, stay')
    <3>1. CASE req[r].kind = "cancel"
      BY <1>1, <1>3, <2>1, <2>2, <3>1 DEF Request, HoldsRows, InTransaction
    <3>2. CASE req[r].kind # "cancel"
      BY <2>2, <3>2, IdleTyped
    <3> QED
      BY <3>1, <3>2
  <2>5. RequestsOK'
    BY <2>1, <2>3, <2>4, RequestMoves DEF TypeInv
  <2> QED
    BY <1>2, <2>1, <2>5 DEF TypeInv, TablesOK
<1> QED
  BY <1>5, <1>6

(* The deletion, up to its commit.                                         *)
LEMMA ReleaseTyped ==
    ASSUME TypeInv, NEW r \in Requests, ReleaseFutureOccupancy(r)
    PROVE  TypeInv'
<1>1. UNCHANGED <<now, deleted, stay, revenue, refund, lost, failures>> /\ req[r].pc = "scan"
  BY DEF ReleaseFutureOccupancy, ledger
<1>2. req[r] \in Request /\ HoldsRows(req[r], stay) /\ stay \in [Stays -> Row] /\ now \in Nat
  BY BookingAssumption DEF TypeInv, RequestsOK, TablesOK, Times
<1>3. PICK pending : pending = {s \in Stays : Pending(s)}
  OBVIOUS
<1>4. CASE \E s \in pending : ~MayCancel(stay[s])
  BY <1>1, <1>3, <1>4, EndTyped DEF ReleaseFutureOccupancy
<1>5. CASE ~ \E s \in pending : ~MayCancel(stay[s])
  <2>1. PICK rows : rows = [s \in Stays |-> IF s \in pending THEN stay[s] ELSE NoRow]
    OBVIOUS
  <2>2. PICK q : q = [req[r] EXCEPT !.pc = "next", !.todo = pending, !.rows = rows]
    OBVIOUS
  <2>3. req' = [req EXCEPT ![r] = q]
    BY <1>2, <1>3, <1>5, <2>1, <2>2 DEF ReleaseFutureOccupancy, TypeInv, RequestsOK
  <2>4. rows \in [Stays -> Row] /\ \A s \in pending : rows[s].in > 0
    BY <1>2, <1>3, <1>5, <2>1, IdleTyped DEF MayCancel, Row, Times
  <2>5. q \in Request /\ HoldsRows(q, stay)
    BY <1>1, <1>2, <1>3, <2>2, <2>4 DEF Request, HoldsRows, InTransaction
  <2> QED
    BY <1>1, <2>3, <2>5, OnlyMoves
<1> QED
  BY <1>4, <1>5

LEMMA CascadeTyped ==
    ASSUME TypeInv, NEW r \in Requests, CancelNext(r) \/ CascadeCanceledEvent(r)
    PROVE  TypeInv'
<1>1. UNCHANGED <<now, deleted, stay, revenue, refund, lost, failures>>
  BY DEF CancelNext, CascadeCanceledEvent, ledger
<1>2. req[r] \in Request /\ HoldsRows(req[r], stay)
  BY DEF TypeInv, RequestsOK
<1>3. CASE End(r)
  BY <1>1, <1>3, EndTyped
<1>4. CASE CancelNext(r) /\ ~End(r)
  <2>1. PICK s \in req[r].todo :
           req' = [req EXCEPT ![r].pc = "exists", ![r].on = {s},
                              ![r].todo = @ \ {s}, ![r].rows[s] = Cancel(@)]
    BY <1>4 DEF CancelNext
  <2>2. PICK rows : rows = [req[r].rows EXCEPT ![s] = Cancel(req[r].rows[s])]
    OBVIOUS
  <2>3. PICK q : q = [req[r] EXCEPT !.pc = "exists", !.on = {s}, !.todo = @ \ {s}, !.rows = rows]
    OBVIOUS
  <2>4. req' = [req EXCEPT ![r] = q]
    BY <2>1, <2>2, <2>3 DEF TypeInv, RequestsOK
  <2>5. /\ rows \in [Stays -> Row] /\ rows[s].st = "canceled" /\ s \in Stays
        /\ \A t \in Stays \ {s} : rows[t] = req[r].rows[t]
    BY <1>2, <2>2, CancelTyped DEF Request
  <2>6. q \in Request /\ HoldsRows(q, stay)
    BY <1>2, <2>3, <2>5 DEF Request, HoldsRows, InTransaction
  <2> QED
    BY <1>1, <2>4, <2>6, OnlyMoves
<1>5. CASE CascadeCanceledEvent(r) /\ ~End(r)
  <2>1. PICK q : q = [req[r] EXCEPT !.pc = "next", !.on = {}]
    OBVIOUS
  <2>2. req' = [req EXCEPT ![r] = q]
    BY <1>5, <2>1 DEF CascadeCanceledEvent, TypeInv, RequestsOK
  <2>3. q \in Request /\ HoldsRows(q, stay)
    BY <1>2, <2>1 DEF Request, HoldsRows, InTransaction
  <2> QED
    BY <1>1, <2>2, <2>3, OnlyMoves
<1> QED
  BY <1>3, <1>4, <1>5

(* What a transaction sees are stays of the table and of its own.          *)
LEMMA SeenTyped ==
    ASSUME TypeInv, NEW r \in Requests
    PROVE  /\ Seen(r) \in [Stays -> Row]
           /\ \A s \in Stays : stay[s].st # "none" => Seen(r)[s].st # "none"
BY DEF TypeInv, TablesOK, RequestsOK, Seen, HoldsRows, Request

LEMMA CommitsTyped ==
    ASSUME TypeInv, NEW r \in Requests, DeleteCommit(r) \/ ImportCommit(r)
    PROVE  TypeInv'
<1>1. UNCHANGED <<now, lost, failures>> /\ End(r) /\ stay' = Seen(r)
  BY DEF DeleteCommit, ImportCommit
<1>2. \A s \in Stays : req[r].rows[s].price \in Nat
  <2>1. \A s \in Stays : req[r].rows[s] \in Row
    BY DEF TypeInv, RequestsOK, Request
  <2> QED
    BY <2>1, PriceIsNat
<1>3. revenue' \in [Stays -> Nat] /\ refund' \in [Stays -> Nat] /\ deleted' \in BOOLEAN
  <2>1. CASE DeleteCommit(r)
    BY <1>2, <2>1 DEF DeleteCommit, TypeInv, TablesOK
  <2>2. CASE ImportCommit(r)
    BY <1>2, <2>2 DEF ImportCommit, TypeInv, TablesOK
  <2> QED
    BY <2>1, <2>2
<1>4. /\ stay' \in [Stays -> Row]
      /\ \A s \in Stays : stay[s].st # "none" => stay'[s].st # "none"
  BY <1>1, SeenTyped
<1>5. RequestsOK'
  BY <1>1, <1>4, IdleTyped, RequestMoves DEF End, TypeInv
<1> QED
  BY <1>1, <1>3, <1>4, <1>5 DEF TypeInv, TablesOK

LEMMA ImportRowTyped ==
    ASSUME TypeInv, NEW r \in Requests, ImportRow(r)
    PROVE  TypeInv'
<1>1. UNCHANGED <<now, deleted, stay, revenue, refund, lost, failures>>
      /\ req[r].kind = "import" /\ req[r].pc = "next"
  BY DEF ImportRow, ledger
<1>2. req[r] \in Request /\ HoldsRows(req[r], stay)
  BY DEF TypeInv, RequestsOK
<1>3. PICK s \in Stays, d \in Accepted :
         \/ End(r)
         \/ req' = [req EXCEPT ![r].rows[s] = d, ![r].on = @ \cup {s}, ![r].done = @ \cup {s}]
  BY DEF ImportRow, Importable
<1>4. CASE End(r)
  BY <1>1, <1>4, EndTyped
<1>5. CASE ~End(r)
  <2>1. PICK rows : rows = [req[r].rows EXCEPT ![s] = d]
    OBVIOUS
  <2>2. PICK q : q = [req[r] EXCEPT !.rows = rows, !.on = @ \cup {s}, !.done = @ \cup {s}]
    OBVIOUS
  <2>3. req' = [req EXCEPT ![r] = q]
    BY <1>3, <1>5, <2>1, <2>2 DEF TypeInv, RequestsOK
  <2>4. /\ rows \in [Stays -> Row] /\ rows[s] = d /\ d.st = "live" /\ d.in >= 0
        /\ \A t \in Stays \ {s} : rows[t] = req[r].rows[t]
    BY <1>2, <2>1 DEF Request, Accepted, Row, Times
  <2>5. q \in Request /\ HoldsRows(q, stay)
    <3>1. /\ q.pc = "next" /\ q.kind = "import" /\ q.todo = req[r].todo /\ q.rows = rows
          /\ q.on = req[r].on \cup {s} /\ q.done = req[r].done \cup {s} /\ q \in Request
      BY <1>1, <1>2, <2>2, <2>4 DEF Request
    <3>2. \A t \in q.todo : q.rows[t].in > 0
      BY <1>1, <1>2, <2>4, <3>1 DEF HoldsRows
    <3>3. \A t \in q.on \cup q.done : q.rows[t].st # "none"
      <4>1. \A t \in req[r].on \cup req[r].done : t \in Stays /\ req[r].rows[t].st # "none"
        BY <1>2 DEF HoldsRows, Request
      <4> QED
        BY <2>4, <3>1, <4>1
    <3>4. q.todo = {}
      BY <1>1, <1>2, <3>1 DEF HoldsRows
    <3> QED
      BY <3>1, <3>2, <3>3, <3>4 DEF HoldsRows, InTransaction
  <2> QED
    BY <1>1, <2>3, <2>5, OnlyMoves
<1> QED
  BY <1>4, <1>5

LEMMA SavePropertyTyped ==
    ASSUME TypeInv, NEW r \in Requests, UpdatePropertySave(r)
    PROVE  TypeInv'
<1>1. UNCHANGED <<now, stay, revenue, refund, lost, failures>> /\ End(r) /\ deleted' = FALSE
  BY DEF UpdatePropertySave, ledger
<1>2. RequestsOK'
  BY <1>1, IdleTyped, RequestMoves DEF End, TypeInv
<1> QED
  BY <1>1, <1>2 DEF TypeInv, TablesOK

LEMMA DieTyped ==
    ASSUME TypeInv, NEW r \in Requests, Die(r)
    PROVE  TypeInv'
<1>1. UNCHANGED <<now, deleted, stay, revenue, refund>> /\ End(r)
  BY DEF Die
<1>2. failures' \in 0 .. MaxFailures
  BY BookingAssumption DEF Die, TypeInv, TablesOK
<1>3. lost' \subseteq {s \in Stays : stay[s].st # "none"}
  <2>1. req[r] \in Request /\ HoldsRows(req[r], stay)
    BY DEF TypeInv, RequestsOK
  <2> QED
    BY <2>1 DEF Die, TypeInv, TablesOK, HoldsRows, InTx, InTransaction, Request
<1>4. RequestsOK'
  BY <1>1, IdleTyped, RequestMoves DEF End, TypeInv
<1> QED
  BY <1>1, <1>2, <1>3, <1>4 DEF TypeInv, TablesOK

LEMMA TypeStep == TypeInv /\ [Next]_vars => TypeInv'
<1> SUFFICES ASSUME TypeInv, [Next]_vars PROVE TypeInv'
  OBVIOUS
<1>1. CASE Tick \/ UNCHANGED vars
  BY <1>1, BookingAssumption DEF Tick, vars, ledger, TypeInv, TablesOK, RequestsOK, Times
<1> QED
  BY <1>1, BeginningsTyped, ChecksTyped, BookInsertTyped, EventsTyped, SaveWriteTyped,
     ReleaseTyped, CascadeTyped, CommitsTyped, ImportRowTyped, SavePropertyTyped, DieTyped
     DEF Next, Step

LEMMA InitTyped == Init => TypeInv
<1> SUFFICES ASSUME Init PROVE TypeInv
  OBVIOUS
<1>1. TablesOK
  <2>1. 0 \in Times /\ 0 \in 0 .. MaxFailures
    BY BookingAssumption DEF Times
  <2> QED
    BY <2>1, IdleTyped DEF Init, TablesOK
<1>2. RequestsOK
  BY IdleTyped DEF Init, RequestsOK
<1> QED
  BY <1>1, <1>2 DEF TypeInv

LEMMA FlagTyped == Spec => [](overlapped \in BOOLEAN)
<1>1. Init => overlapped \in BOOLEAN
  BY DEF Init
<1>2. overlapped \in BOOLEAN /\ [Next]_vars => (overlapped \in BOOLEAN)'
  BY DEF Next, vars
<1> QED
  BY <1>1, <1>2, PTL DEF Spec

-----------------------------------------------------------------------------
(* One request at a time: the steps that leave the tables alone.           *)

Announcing(r) == req[r].pc \in {"booked", "canceled"} /\ ~InTx(r)

LEMMA Steady ==
    ASSUME BookingInv, NEW r \in Requests, Alone(r),
           UNCHANGED <<now, deleted, stay, revenue, refund, lost>>,
           ~Announcing(r), ~Announcing(r)', Working(r)',
           req'[r].pc \notin {"idle", "owner"} => ~deleted
    PROVE  BookingInv'
<1>1. \A p \in Requests \ {r} : req[p].pc = "idle" /\ req'[p].pc = "idle"
  BY DEF Alone
<1>2. \A p \in Requests : Working(p)'
  BY <1>1 DEF Working
<1>3. LedgerInv'
  <2>1. \A s \in Stays \ lost : Recorded(s) /\ Reverted(s)
    BY <1>1 DEF BookingInv, LedgerInv, Announces, Announcing
  <2>2. \A s \in Stays, p \in Requests : ~(Announces(p, s)')
    BY <1>1 DEF Announces, Announcing
  <2> QED
    BY <2>1, <2>2 DEF LedgerInv, Recorded, Reverted
<1>4. Emptied'
  BY DEF BookingInv, Emptied
<1> QED
  BY <1>1, <1>2, <1>3, <1>4 DEF BookingInv

LEMMA Stops ==
    ASSUME TypeInv, BookingInv, NEW r \in Requests, Alone(r), End(r),
           UNCHANGED <<now, deleted, stay, revenue, refund, lost>>, ~Announcing(r)
    PROVE  BookingInv'
<1>1. req'[r].pc = "idle"
  BY DEF End, TypeInv, RequestsOK, Idle
<1> QED
  BY <1>1, Steady DEF Announcing, Working

LEMMA BeginsWith ==
    ASSUME RequestsOK, NEW r \in Requests, NEW kind, NEW pc, NEW on, NEW rows,
           Begin(r, kind, pc, on, rows)
    PROVE  /\ req[r].pc = "idle" /\ UNCHANGED <<now, deleted, stay, revenue, refund, lost, failures>>
           /\ req'[r].pc = pc /\ req'[r].kind = kind /\ req'[r].on = on /\ req'[r].rows = rows
           /\ req'[r].todo = {} /\ req'[r].done = {}
BY DEF Begin, RequestsOK, ledger, Idle

LEMMA BeginningsKeep ==
    ASSUME TypeInv, BookingInv, NEW r \in Requests, Alone(r),
           \/ BookRead(r) \/ CancelFind(r) \/ UpdateFind(r)
           \/ DeleteRead(r) \/ ImportStart(r) \/ UpdatePropertyRead(r)
    PROVE  BookingInv'
<1>1. Idle.rows = [s \in Stays |-> NoRow]
  BY DEF Idle
<1>2. CASE BookRead(r)
  <2>1. PICK s \in Stays, d \in Accepted :
           /\ stay[s].st = "none"
           /\ Begin(r, "book", "policy", {s}, [Idle.rows EXCEPT ![s] = d])
    BY <1>2 DEF BookRead, Fresh
  <2>2. PICK rows : rows = [Idle.rows EXCEPT ![s] = d]
    OBVIOUS
  <2>3. rows[s] = d
    BY <1>1, <2>2
  <2>4. /\ req[r].pc = "idle" /\ UNCHANGED <<now, deleted, stay, revenue, refund, lost>>
        /\ req'[r].pc = "policy" /\ req'[r].kind = "book" /\ req'[r].on = {s}
        /\ req'[r].rows = rows /\ req'[r].done = {}
    BY <2>1, <2>2, BeginsWith DEF TypeInv
  <2>5. Working(r)' /\ ~Announcing(r)' /\ ~Announcing(r) /\ ~deleted
    BY <1>2, <2>1, <2>3, <2>4 DEF BookRead, Working, Booking, Announcing
  <2> QED
    BY <2>4, <2>5, Steady
<1>3. CASE CancelFind(r)
  <2>1. PICK s \in Stays : /\ stay[s].st = "live"
                           /\ Begin(r, "cancel", "owner", {s}, [Idle.rows EXCEPT ![s] = stay[s]])
    BY <1>3 DEF CancelFind
  <2>2. PICK rows : rows = [Idle.rows EXCEPT ![s] = stay[s]]
    OBVIOUS
  <2>3. rows[s] = stay[s]
    BY <1>1, <2>2
  <2>4. /\ req[r].pc = "idle" /\ UNCHANGED <<now, deleted, stay, revenue, refund, lost>>
        /\ req'[r].pc = "owner" /\ req'[r].kind = "cancel" /\ req'[r].on = {s}
        /\ req'[r].rows = rows /\ req'[r].done = {}
    BY <2>1, <2>2, BeginsWith DEF TypeInv
  <2>5. Working(r)' /\ ~Announcing(r)' /\ ~Announcing(r)
    BY <2>1, <2>3, <2>4 DEF Working, Canceling, Announcing
  <2> QED
    BY <2>4, <2>5, Steady
<1>4. CASE UpdateFind(r)
  <2>1. PICK s \in Stays, d \in Accepted :
           /\ stay[s].st = "live"
           /\ Begin(r, "update", "owner", {s}, [Idle.rows EXCEPT ![s] = d])
    BY <1>4 DEF UpdateFind, Update
  <2>2. PICK rows : rows = [Idle.rows EXCEPT ![s] = d]
    OBVIOUS
  <2>3. rows[s] = d
    BY <1>1, <2>2
  <2>4. /\ req[r].pc = "idle" /\ UNCHANGED <<now, deleted, stay, revenue, refund, lost>>
        /\ req'[r].pc = "owner" /\ req'[r].kind = "update" /\ req'[r].on = {s}
        /\ req'[r].rows = rows /\ req'[r].done = {}
    BY <2>1, <2>2, BeginsWith DEF TypeInv
  <2>5. Working(r)' /\ ~Announcing(r)' /\ ~Announcing(r)
    BY <2>1, <2>3, <2>4 DEF Working, Updating, Announcing
  <2> QED
    BY <2>4, <2>5, Steady
<1>5. CASE DeleteRead(r) \/ ImportStart(r) \/ UpdatePropertyRead(r)
  <2>1. PICK kind \in {"delete", "import", "property"} :
           /\ ~deleted
           /\ Begin(r, kind, CASE kind = "delete" -> "scan" [] kind = "import" -> "next"
                               [] OTHER -> "property", {}, Idle.rows)
    BY <1>5 DEF DeleteRead, ImportStart, UpdatePropertyRead
  <2>2. /\ req[r].pc = "idle" /\ UNCHANGED <<now, deleted, stay, revenue, refund, lost>>
        /\ req'[r].kind = kind /\ req'[r].on = {}
        /\ req'[r].pc = CASE kind = "delete" -> "scan" [] kind = "import" -> "next"
                          [] OTHER -> "property"
        /\ req'[r].todo = {} /\ req'[r].done = {}
    BY <2>1, BeginsWith DEF TypeInv
  <2>3. ~Announcing(r) /\ ~Announcing(r)'
    BY <2>2 DEF Announcing, InTx
  <2>4. Working(r)'
    <3>1. CASE kind = "delete"
      BY <2>2, <3>1 DEF Working, Deleting
    <3>2. CASE kind = "import"
      BY <2>2, <3>2 DEF Working, Importing
    <3>3. CASE kind = "property"
      BY <2>2, <3>3 DEF Working
    <3> QED
      BY <3>1, <3>2, <3>3
  <2> QED
    BY <2>1, <2>2, <2>3, <2>4, Steady
<1> QED
  BY <1>2, <1>3, <1>4, <1>5

LEMMA MovesTo ==
    ASSUME RequestsOK, NEW r \in Requests, NEW pc, GoTo(r, pc)
    PROVE  /\ req'[r].pc = pc /\ req'[r].kind = req[r].kind /\ req'[r].on = req[r].on
           /\ req'[r].rows = req[r].rows /\ req'[r].todo = req[r].todo
           /\ req'[r].done = req[r].done
BY DEF GoTo, RequestsOK, Request

LEMMA PolicyKeeps ==
    ASSUME TypeInv, BookingInv, NEW r \in Requests, Alone(r), Policy(r)
    PROVE  BookingInv'
<1>1. PICK s \in Stays :
         /\ req[r].on = {s} /\ req[r].pc = "policy"
         /\ IF Occupied(Seen(r), s, req[r].rows[s]) THEN End(r)
            ELSE GoTo(r, IF req[r].kind = "book" THEN "insert" ELSE "exists")
  BY DEF Policy, At
<1>2. UNCHANGED <<now, deleted, stay, revenue, refund, lost>> /\ ~Announcing(r)
  BY <1>1 DEF Policy, ledger, Announcing
<1>3. Working(r) /\ ~deleted /\ RequestsOK
  BY <1>1 DEF BookingInv, TypeInv
<1>4. CASE End(r)
  BY <1>2, <1>4, Stops
<1>5. CASE ~End(r)
  <2>2. CASE req[r].kind = "book"
    <3>1. Booking(r)
      BY <1>1, <1>3, <2>2 DEF Working
    <3>2. /\ req'[r].pc = "insert" /\ req'[r].kind = "book" /\ req'[r].on = {s}
          /\ req'[r].rows = req[r].rows /\ req'[r].done = {}
      BY <1>1, <1>3, <1>5, <2>2, <3>1, MovesTo DEF Booking
    <3>4. req[r].rows[s] \in Accepted /\ stay[s].st = "none"
      BY <1>1, <3>1 DEF Booking
    <3>5. Booking(r)'
      BY <1>2, <3>2, <3>4 DEF Booking
    <3>6. Working(r)' /\ ~Announcing(r)'
      BY <3>2, <3>5 DEF Working, Announcing
    <3> QED
      BY <1>2, <1>3, <3>6, Steady
  <2>3. CASE req[r].kind # "book"
    <3>1. req[r].kind = "update" /\ Updating(r)
      BY <1>1, <1>3, <2>3 DEF Working, Canceling, Deleting, Importing
    <3>2. /\ req'[r].pc = "exists" /\ req'[r].kind = "update" /\ req'[r].on = {s}
          /\ req'[r].rows = req[r].rows /\ req'[r].done = {}
      BY <1>1, <1>3, <1>5, <2>3, <3>1, MovesTo DEF Updating
    <3>4. req[r].rows[s] \in Accepted /\ stay[s].st = "live"
      BY <1>1, <3>1 DEF Updating
    <3>5. Updating(r)'
      BY <1>2, <3>2, <3>4 DEF Updating
    <3>6. Working(r)' /\ ~Announcing(r)'
      BY <3>2, <3>5 DEF Working, Announcing
    <3> QED
      BY <1>2, <1>3, <3>6, Steady
  <2> QED
    BY <2>2, <2>3
<1> QED
  BY <1>4, <1>5

LEMMA EnsureOwnershipKeeps ==
    ASSUME TypeInv, BookingInv, NEW r \in Requests, Alone(r), EnsureOwnership(r)
    PROVE  BookingInv'
<1>1. PICK s \in Stays :
         /\ req[r].on = {s} /\ req[r].pc = "owner"
         /\ \/ deleted /\ End(r)
            \/ ~deleted /\ req[r].kind = "update" /\ GoTo(r, "policy")
            \/ /\ ~deleted /\ req[r].kind = "cancel"
               /\ IF ~MayCancel(req[r].rows[s]) THEN End(r)
                  ELSE req' = [req EXCEPT ![r].rows[s] = Cancel(@), ![r].pc = "exists"]
  BY DEF EnsureOwnership, At
<1>2. UNCHANGED <<now, deleted, stay, revenue, refund, lost>> /\ ~Announcing(r)
  BY <1>1 DEF EnsureOwnership, ledger, Announcing
<1>3. Working(r) /\ RequestsOK /\ req[r] \in Request
  BY DEF BookingInv, TypeInv, RequestsOK
<1>4. CASE End(r)
  BY <1>2, <1>4, Stops
<1>5. CASE ~deleted /\ req[r].kind = "update" /\ GoTo(r, "policy")
  <2>1. Updating(r)
    BY <1>1, <1>3, <1>5 DEF Working
  <2>2. /\ req'[r].pc = "policy" /\ req'[r].kind = "update" /\ req'[r].on = {s}
        /\ req'[r].rows = req[r].rows /\ req'[r].done = {}
    BY <1>1, <1>3, <1>5, <2>1, MovesTo DEF Updating
  <2>3. Updating(r)'
    BY <1>1, <1>2, <2>1, <2>2 DEF Updating
  <2>4. Working(r)' /\ ~Announcing(r)'
    BY <2>2, <2>3 DEF Working, Announcing
  <2> QED
    BY <1>2, <1>5, <2>4, Steady
<1>6. CASE /\ ~deleted /\ req[r].kind = "cancel"
           /\ req' = [req EXCEPT ![r].rows[s] = Cancel(@), ![r].pc = "exists"]
  <2>1. Canceling(r)
    BY <1>1, <1>3, <1>6 DEF Working
  <2>2. stay[s].st = "live" /\ req[r].rows[s] = stay[s] /\ req[r].done = {}
    BY <1>1, <2>1 DEF Canceling
  <2>3. PICK q : q = [req[r] EXCEPT !.rows[s] = Cancel(@), !.pc = "exists"]
    OBVIOUS
  <2>4. req'[r] = q
    BY <1>3, <1>6, <2>3 DEF RequestsOK
  <2>5. PICK rows : rows = [req[r].rows EXCEPT ![s] = Cancel(req[r].rows[s])]
    OBVIOUS
  <2>6. rows[s] = Cancel(stay[s])
    BY <1>3, <2>2, <2>5 DEF Request
  <2>7. /\ q.pc = "exists" /\ q.kind = "cancel" /\ q.on = {s} /\ q.done = {} /\ q.rows = rows
    BY <1>1, <1>3, <1>6, <2>2, <2>3, <2>5 DEF Request
  <2>8. Canceling(r)'
    BY <1>2, <2>2, <2>4, <2>6, <2>7 DEF Canceling
  <2>9. Working(r)' /\ ~Announcing(r)'
    BY <2>4, <2>7, <2>8 DEF Working, Announcing
  <2> QED
    BY <1>2, <1>6, <2>9, Steady
<1> QED
  BY <1>1, <1>4, <1>5, <1>6

LEMMA SaveExistsKeeps ==
    ASSUME TypeInv, BookingInv, NEW r \in Requests, Alone(r), SaveExists(r)
    PROVE  BookingInv'
<1>1. PICK s \in Stays :
         /\ req[r].on = {s} /\ req[r].pc = "exists"
         /\ End(r) \/ GoTo(r, "write")
  BY DEF SaveExists, At
<1>2. UNCHANGED <<now, deleted, stay, revenue, refund, lost>> /\ ~Announcing(r)
  BY <1>1 DEF SaveExists, ledger, Announcing
<1>3. Working(r) /\ RequestsOK /\ ~deleted
  BY <1>1 DEF BookingInv, TypeInv
<1>4. CASE End(r)
  BY <1>2, <1>4, Stops
<1>5. CASE GoTo(r, "write")
  <2>1. /\ req'[r].pc = "write" /\ req'[r].kind = req[r].kind /\ req'[r].on = req[r].on
        /\ req'[r].rows = req[r].rows /\ req'[r].todo = req[r].todo /\ req'[r].done = req[r].done
    BY <1>3, <1>5, MovesTo
  <2>2. CASE req[r].kind = "cancel" /\ Canceling(r)
    <3>1. Canceling(r)'
      BY <1>1, <1>2, <2>1, <2>2 DEF Canceling
    <3> QED
      BY <1>2, <1>3, <2>1, <2>2, <3>1, Steady DEF Working, Announcing
  <2>3. CASE req[r].kind = "update" /\ Updating(r)
    <3>1. Updating(r)'
      BY <1>1, <1>2, <2>1, <2>3 DEF Updating
    <3> QED
      BY <1>2, <1>3, <2>1, <2>3, <3>1, Steady DEF Working, Announcing
  <2>4. CASE req[r].kind = "delete" /\ Deleting(r)
    <3>1. Deleting(r)'
      BY <1>1, <1>2, <2>1, <2>4 DEF Deleting
    <3> QED
      BY <1>2, <1>3, <2>1, <2>4, <3>1, Steady DEF Working, Announcing
  <2> QED
    BY <1>1, <1>3, <2>2, <2>3, <2>4 DEF Working, Booking, Importing
<1> QED
  BY <1>1, <1>4, <1>5

(* The deletion: every stay that is not over is on one of its lists.       *)
LEMMA ReleaseKeeps ==
    ASSUME TypeInv, BookingInv, NEW r \in Requests, Alone(r), ReleaseFutureOccupancy(r)
    PROVE  BookingInv'
<1>1. /\ UNCHANGED <<now, deleted, stay, revenue, refund, lost>> /\ req[r].pc = "scan"
      /\ ~Announcing(r)
  BY DEF ReleaseFutureOccupancy, ledger, Announcing
<1>2. /\ Working(r) /\ ~deleted /\ req[r] \in Request /\ HoldsRows(req[r], stay)
      /\ req \in [Requests -> Request] /\ now \in Nat /\ stay \in [Stays -> Row]
  BY <1>1, BookingAssumption DEF BookingInv, TypeInv, RequestsOK, TablesOK, Times
<1>3. req[r].kind = "delete" /\ req[r].on = {} /\ req[r].done = {}
  BY <1>1, <1>2 DEF HoldsRows
<1>4. PICK pending : pending = {s \in Stays : Pending(s)}
  OBVIOUS
<1>5. CASE End(r)
  BY <1>1, <1>5, Stops
<1>6. CASE ~End(r)
  <2>1. PICK rows : rows = [s \in Stays |-> IF s \in pending THEN stay[s] ELSE NoRow]
    OBVIOUS
  <2>2. PICK q : q = [req[r] EXCEPT !.pc = "next", !.todo = pending, !.rows = rows]
    OBVIOUS
  <2>3. req'[r] = q
    <3>1. req' = [req EXCEPT ![r].pc = "next", ![r].todo = pending, ![r].rows = rows]
      BY <1>4, <1>6, <2>1 DEF ReleaseFutureOccupancy
    <3> QED
      BY <1>2, <2>2, <3>1
  <2>4. /\ q.pc = "next" /\ q.kind = "delete" /\ q.on = {} /\ q.done = {}
        /\ q.todo = pending /\ q.rows = rows
    BY <1>2, <1>3, <2>2 DEF Request
  <2>5. \A s \in pending : s \in Stays /\ stay[s].st = "live" /\ rows[s] = stay[s]
    BY <1>4, <2>1 DEF Pending
  <2>6. \A s \in Stays : stay[s].st = "live" => s \in pending \/ stay[s].out < now
    <3>1. \A s \in Stays : stay[s].out \in Nat
      BY <1>2, BookingAssumption DEF Row, Times
    <3> QED
      BY <1>2, <1>4, <3>1 DEF Pending
  <2>7. Deleting(r)'
    BY <1>1, <2>3, <2>4, <2>5, <2>6 DEF Deleting
  <2> QED
    BY <1>1, <1>2, <2>3, <2>4, <2>7, Steady DEF Working, Announcing
<1> QED
  BY <1>5, <1>6

LEMMA CancelNextKeeps ==
    ASSUME TypeInv, BookingInv, NEW r \in Requests, Alone(r), CancelNext(r)
    PROVE  BookingInv'
<1>1. /\ UNCHANGED <<now, deleted, stay, revenue, refund, lost>>
      /\ req[r].kind = "delete" /\ req[r].pc = "next" /\ ~Announcing(r)
  BY DEF CancelNext, ledger, Announcing
<1>2. Working(r) /\ ~deleted /\ req[r] \in Request /\ req \in [Requests -> Request]
  BY <1>1 DEF BookingInv, TypeInv, RequestsOK
<1>3. Deleting(r)
  BY <1>1, <1>2 DEF Working
<1>4. CASE End(r)
  BY <1>1, <1>4, Stops
<1>5. CASE ~End(r)
  <2>1. PICK s \in req[r].todo :
           req' = [req EXCEPT ![r].pc = "exists", ![r].on = {s},
                              ![r].todo = @ \ {s}, ![r].rows[s] = Cancel(@)]
    BY <1>5 DEF CancelNext
  <2>2. PICK rows : rows = [req[r].rows EXCEPT ![s] = Cancel(req[r].rows[s])]
    OBVIOUS
  <2>3. PICK q : q = [req[r] EXCEPT !.pc = "exists", !.on = {s}, !.todo = @ \ {s}, !.rows = rows]
    OBVIOUS
  <2>4. req'[r] = q
    BY <1>2, <2>1, <2>2, <2>3
  <2>5. /\ q.pc = "exists" /\ q.kind = "delete" /\ q.on = {s} /\ q.todo = req[r].todo \ {s}
        /\ q.done = req[r].done /\ q.rows = rows
    BY <1>1, <1>2, <2>3 DEF Request
  <2>6. s \in Stays /\ stay[s].st = "live" /\ req[r].rows[s] = stay[s] /\ req[r].on = {}
    BY <1>1, <1>2, <1>3, <2>1 DEF Deleting, Request
  <2>7. rows[s] = Cancel(stay[s]) /\ \A t \in Stays \ {s} : rows[t] = req[r].rows[t]
    BY <1>2, <2>2, <2>6 DEF Request
  <2>8. Deleting(r)'
    <3>1. \A t \in req[r].todo \ {s} : stay[t].st = "live" /\ rows[t] = stay[t]
      BY <1>2, <1>3, <2>7 DEF Deleting, Request
    <3>2. s \notin req[r].done
      BY <1>3, <2>1 DEF Deleting
    <3>3. \A t \in {s} \cup req[r].done :
             t \notin req[r].todo \ {s} /\ stay[t].st = "live" /\ rows[t] = Cancel(stay[t])
      BY <1>2, <1>3, <2>6, <2>7, <3>2 DEF Deleting, Request
    <3>4. \A t \in Stays : stay[t].st = "live" =>
             t \in (req[r].todo \ {s}) \cup {s} \cup req[r].done \/ stay[t].out < now
      BY <1>1, <1>3, <2>6 DEF Deleting
    <3> QED
      BY <1>1, <2>4, <2>5, <2>6, <3>1, <3>3, <3>4 DEF Deleting
  <2> QED
    BY <1>1, <1>2, <2>4, <2>5, <2>8, Steady DEF Working, Announcing
<1> QED
  BY <1>4, <1>5

LEMMA CascadeKeeps ==
    ASSUME TypeInv, BookingInv, NEW r \in Requests, Alone(r), CascadeCanceledEvent(r)
    PROVE  BookingInv'
<1>1. /\ UNCHANGED <<now, deleted, stay, revenue, refund, lost>>
      /\ req[r].kind = "delete" /\ req[r].pc = "canceled" /\ ~Announcing(r)
  BY DEF CascadeCanceledEvent, ledger, Announcing, InTx
<1>2. Working(r) /\ ~deleted /\ req[r] \in Request /\ req \in [Requests -> Request]
  BY <1>1 DEF BookingInv, TypeInv, RequestsOK
<1>3. Deleting(r)
  BY <1>1, <1>2 DEF Working
<1>4. CASE End(r)
  BY <1>1, <1>4, Stops
<1>5. CASE ~End(r)
  <2>1. PICK q : q = [req[r] EXCEPT !.pc = "next", !.on = {}]
    OBVIOUS
  <2>2. req'[r] = q
    BY <1>2, <1>5, <2>1 DEF CascadeCanceledEvent
  <2>3. /\ q.pc = "next" /\ q.kind = "delete" /\ q.on = {} /\ q.todo = req[r].todo
        /\ q.done = req[r].done /\ q.rows = req[r].rows
    BY <1>1, <1>2, <2>1 DEF Request
  <2>4. Deleting(r)'
    BY <1>1, <1>3, <2>2, <2>3 DEF Deleting
  <2> QED
    BY <1>1, <1>2, <2>2, <2>3, <2>4, Steady DEF Working, Announcing
<1> QED
  BY <1>4, <1>5

(* The imports, up to their commit.                                        *)
LEMMA ImportRowKeeps ==
    ASSUME TypeInv, BookingInv, NEW r \in Requests, Alone(r), ImportRow(r)
    PROVE  BookingInv'
<1>1. /\ UNCHANGED <<now, deleted, stay, revenue, refund, lost>>
      /\ req[r].kind = "import" /\ req[r].pc = "next" /\ ~Announcing(r)
  BY DEF ImportRow, ledger, Announcing
<1>2. Working(r) /\ ~deleted /\ req[r] \in Request /\ req \in [Requests -> Request]
  BY <1>1 DEF BookingInv, TypeInv, RequestsOK
<1>3. Importing(r)
  BY <1>1, <1>2 DEF Working
<1>4. CASE End(r)
  BY <1>1, <1>4, Stops
<1>5. CASE ~End(r)
  <2>1. PICK s \in Stays, d \in Accepted :
           /\ Fresh(s) /\ ~Rejected(r, s, d)
           /\ req' = [req EXCEPT ![r].rows[s] = d, ![r].on = @ \cup {s}, ![r].done = @ \cup {s}]
    <3>1. ASSUME NEW s \in Stays, NEW d \in Importable,
                 Fresh(s), IF Rejected(r, s, d) THEN End(r)
                           ELSE req' = [req EXCEPT ![r].rows[s] = d, ![r].on = @ \cup {s},
                                                   ![r].done = @ \cup {s}]
          PROVE  /\ ~Rejected(r, s, d)
                 /\ req' = [req EXCEPT ![r].rows[s] = d, ![r].on = @ \cup {s},
                                       ![r].done = @ \cup {s}]
      <4>1. ~Rejected(r, s, d)
        BY <1>5, <3>1
      <4> QED
        BY <3>1, <4>1, Zenon
    <3> QED
      BY <3>1, Zenon DEF ImportRow, Importable
  <2>2. PICK rows : rows = [req[r].rows EXCEPT ![s] = d]
    OBVIOUS
  <2>3. PICK q : q = [req[r] EXCEPT !.rows = rows, !.on = @ \cup {s}, !.done = @ \cup {s}]
    OBVIOUS
  <2>4. req'[r] = q
    BY <1>2, <2>1, <2>2, <2>3
  <2>5. /\ q.pc = "next" /\ q.kind = "import" /\ q.rows = rows
        /\ q.on = req[r].on \cup {s} /\ q.done = req[r].done \cup {s}
    BY <1>1, <1>2, <2>3 DEF Request
  <2>6. rows[s] = d /\ \A t \in Stays \ {s} : rows[t] = req[r].rows[t]
    BY <1>2, <2>2 DEF Request
  <2>7. stay[s].st = "none" /\ d.price > 0
    <3>1. d.price \in Nat
      BY PriceIsNat DEF Accepted
    <3> QED
      BY <2>1, <3>1 DEF Fresh, Rejected, NewRevenue, Accepted
  <2>8. \A t \in req[r].done \cup {s} :
           t \in Stays /\ stay[t].st = "none" /\ rows[t] \in Accepted /\ rows[t].price > 0
    BY <1>2, <1>3, <2>6, <2>7 DEF Importing, Request
  <2>10. Importing(r)'
    <3>1. req[r].on = req[r].done
      BY <1>3 DEF Importing
    <3> QED
      BY <1>1, <2>4, <2>5, <2>8, <3>1 DEF Importing
  <2> QED
    BY <1>1, <1>2, <2>4, <2>5, <2>10, Steady DEF Working, Announcing
<1> QED
  BY <1>4, <1>5

-----------------------------------------------------------------------------
(* The steps that write the tables. What the ledger owes before and after. *)

LEMMA LedgerAt ==
    ASSUME BookingInv, NEW r \in Requests, Alone(r), NEW s \in Stays \ lost
    PROVE  /\ s \notin req[r].on \/ ~Announcing(r) => Recorded(s) /\ Reverted(s)
           /\ s \in req[r].on /\ Announcing(r)
                 => /\ refund[s] = 0
                    /\ IF req[r].pc = "booked" THEN revenue[s] = 0 ELSE Recorded(s)
BY DEF Alone, BookingInv, LedgerInv, Announces, Announcing

LEMMA LedgerRests ==
    ASSUME NEW r \in Requests, Alone(r), ~Announcing(r)',
           \A s \in Stays \ lost' : Recorded(s)' /\ Reverted(s)'
    PROVE  LedgerInv'
BY DEF Alone, LedgerInv, Announces, Announcing

LEMMA LedgerAnnounces ==
    ASSUME NEW r \in Requests, Alone(r), NEW s \in Stays, Announcing(r)', req'[r].on = {s},
           \A t \in Stays \ lost' : t # s => Recorded(t)' /\ Reverted(t)',
           s \notin lost' => /\ refund'[s] = 0
                             /\ IF req'[r].pc = "booked" THEN revenue'[s] = 0 ELSE Recorded(s)'
    PROVE  LedgerInv'
<1>1. \A p \in Requests, t \in Stays : p # r => ~Announces(p, t)'
  BY DEF Alone, Announces
<1>2. \A t \in Stays : Announces(r, t)' <=> t = s
  BY DEF Announces, Announcing
<1>3. ASSUME NEW t \in Stays, t \notin lost'
      PROVE  /\ (\A p \in Requests : ~Announces(p, t)') => Recorded(t)' /\ Reverted(t)'
             /\ \A p \in Requests : Announces(p, t)' =>
                   /\ refund'[t] = 0
                   /\ IF req'[p].pc = "booked" THEN revenue'[t] = 0 ELSE Recorded(t)'
  BY <1>1, <1>2, <1>3
<1> QED
  BY <1>3 DEF LedgerInv

LEMMA Kept ==
    ASSUME NEW r \in Requests, Alone(r), Working(r)', ~deleted', LedgerInv'
    PROVE  BookingInv'
BY DEF Alone, BookingInv, Emptied, Working

LEMMA BookInsertKeeps ==
    ASSUME TypeInv, BookingInv, NEW r \in Requests, Alone(r), BookInsert(r)
    PROVE  BookingInv'
<1>1. PICK s \in Stays :
         /\ req[r].on = {s} /\ req[r].pc = "insert"
         /\ stay' = [stay EXCEPT ![s] = req[r].rows[s]]
         /\ GoTo(r, "booked")
  BY DEF BookInsert, At
<1>2. UNCHANGED <<now, deleted, revenue, refund, lost>>
  BY DEF BookInsert, ledger
<1>3. /\ Working(r) /\ ~deleted /\ RequestsOK /\ HoldsRows(req[r], stay)
      /\ stay \in [Stays -> Row]
  BY <1>1 DEF BookingInv, TypeInv, TablesOK, RequestsOK
<1>4. req[r].kind = "book" /\ Booking(r)
  BY <1>1, <1>3 DEF Working, Canceling, Updating, Deleting, Importing
<1>5. /\ req[r].rows[s] \in Accepted /\ stay[s].st = "none" /\ req[r].done = {}
  BY <1>1, <1>4 DEF Booking
<1>6. /\ req'[r].pc = "booked" /\ req'[r].kind = "book" /\ req'[r].on = {s}
      /\ req'[r].rows = req[r].rows /\ req'[r].done = {}
  BY <1>1, <1>3, <1>4, <1>5, MovesTo
<1>7. stay'[s] = req[r].rows[s] /\ \A t \in Stays \ {s} : stay'[t] = stay[t]
  BY <1>1, <1>3
<1>9. Working(r)' /\ Announcing(r)'
  BY <1>5, <1>6, <1>7 DEF Working, Booking, Announcing, InTx
<1>10. LedgerInv'
  <2>1. \A t \in Stays \ lost : Recorded(t) /\ Reverted(t)
    BY <1>1, LedgerAt DEF Announcing
  <2>2. \A t \in Stays \ lost' : t # s => Recorded(t)' /\ Reverted(t)'
    BY <1>2, <1>7, <2>1 DEF Recorded, Reverted
  <2>3. s \notin lost' => refund'[s] = 0 /\ revenue'[s] = 0
    BY <1>2, <1>5, <2>1 DEF Recorded, Reverted
  <2> QED
    BY <1>6, <1>9, <2>2, <2>3, LedgerAnnounces
<1> QED
  BY <1>2, <1>3, <1>9, <1>10, Kept

LEMMA StayBookedKeeps ==
    ASSUME TypeInv, BookingInv, NEW r \in Requests, Alone(r), StayBookedEvent(r)
    PROVE  BookingInv'
<1>1. PICK s \in Stays :
         req[r].on = {s} /\ req[r].pc = "booked" /\ RecordRevenue(s, req[r].rows[s].price)
  BY DEF StayBookedEvent, At
<1>2. UNCHANGED <<now, deleted, stay, refund>> /\ End(r)
  BY DEF StayBookedEvent
<1>3. /\ Working(r) /\ ~deleted /\ req \in [Requests -> Request]
      /\ HoldsRows(req[r], stay) /\ revenue \in [Stays -> Nat]
  BY <1>1 DEF BookingInv, TypeInv, RequestsOK, TablesOK
<1>4. req[r].kind = "book" /\ Booking(r)
  BY <1>1, <1>3 DEF Working, Canceling, Updating, Deleting, Importing
<1>5. stay[s] = req[r].rows[s] /\ stay[s] \in Accepted
  BY <1>1, <1>4 DEF Booking
<1>6. req'[r].pc = "idle" /\ Working(r)' /\ ~Announcing(r)'
  BY <1>2, <1>3 DEF End, Idle, Working, Announcing
<1>7. \A t \in Stays \ lost' : Recorded(t)' /\ Reverted(t)'
  <2>1. lost \subseteq lost' /\ \A t \in Stays \ {s} : revenue'[t] = revenue[t]
    BY <1>1, <1>3 DEF RecordRevenue
  <2>2. ASSUME NEW t \in Stays \ lost', t # s PROVE Recorded(t)' /\ Reverted(t)'
    <3>1. Recorded(t) /\ Reverted(t)
      BY <1>1, <2>1, <2>2, LedgerAt
    <3> QED
      BY <1>2, <2>1, <2>2, <3>1 DEF Recorded, Reverted
  <2>3. ASSUME s \notin lost' PROVE Recorded(s)' /\ Reverted(s)'
    <3>1. refund[s] = 0 /\ revenue[s] = 0
      BY <1>1, <1>4, <2>1, <2>3, LedgerAt DEF Announcing, InTx
    <3>2. stay[s].price \in Nat /\ stay[s].price \in Prices \cup {0} /\ stay[s].st = "live"
      BY <1>5, PriceIsNat DEF Accepted, Row
    <3>3. stay[s].price > 0 /\ revenue'[s] = revenue[s] + stay[s].price
      BY <1>1, <1>3, <1>5, <2>3 DEF RecordRevenue, NewRevenue
    <3> QED
      BY <1>2, <3>1, <3>2, <3>3 DEF Recorded, Reverted
  <2> QED
    BY <2>2, <2>3
<1>8. LedgerInv'
  BY <1>6, <1>7, LedgerRests
<1> QED
  BY <1>2, <1>3, <1>6, <1>8, Kept

LEMMA SaveInTransactionKeeps ==
    ASSUME TypeInv, BookingInv, NEW r \in Requests, Alone(r), SaveWrite(r), InTx(r)
    PROVE  BookingInv'
<1>1. PICK s \in Stays :
         /\ req[r].on = {s} /\ req[r].pc = "write"
         /\ req' = [req EXCEPT ![r].pc = "canceled", ![r].done = @ \cup {s}]
         /\ UNCHANGED stay
  BY DEF SaveWrite, At
<1>2. UNCHANGED <<now, deleted, stay, revenue, refund, lost>> /\ ~Announcing(r)
  BY <1>1 DEF SaveWrite, ledger, Announcing
<1>3. /\ Working(r) /\ ~deleted /\ req[r] \in Request /\ req \in [Requests -> Request]
  BY <1>1 DEF BookingInv, TypeInv, RequestsOK
<1>4. req[r].kind = "delete" /\ Deleting(r)
  BY <1>1, <1>3 DEF InTx, Working, Importing
<1>5. PICK q : q = [req[r] EXCEPT !.pc = "canceled", !.done = @ \cup {s}]
  OBVIOUS
<1>6. req'[r] = q
  BY <1>1, <1>3, <1>5
<1>7. /\ q.pc = "canceled" /\ q.kind = "delete" /\ q.on = {s} /\ q.todo = req[r].todo
      /\ q.done = req[r].done \cup {s} /\ q.rows = req[r].rows
  BY <1>1, <1>3, <1>4, <1>5 DEF Request
<1>8. Deleting(r)'
  <2>1. \A t \in req[r].todo : stay[t].st = "live" /\ req[r].rows[t] = stay[t]
    BY <1>4 DEF Deleting
  <2>2. \A t \in {s} \cup req[r].done :
           t \notin req[r].todo /\ stay[t].st = "live" /\ req[r].rows[t] = Cancel(stay[t])
    BY <1>1, <1>4 DEF Deleting
  <2>3. \A t \in Stays : stay[t].st = "live" =>
           t \in req[r].todo \cup {s} \cup req[r].done \/ stay[t].out < now
    BY <1>1, <1>4 DEF Deleting
  <2> QED
    BY <1>2, <1>6, <1>7, <2>1, <2>2, <2>3 DEF Deleting
<1>9. Working(r)' /\ ~Announcing(r)'
  BY <1>6, <1>7, <1>8 DEF Working, Announcing, InTx
<1> QED
  BY <1>2, <1>3, <1>9, Steady

LEMMA SaveKeeps ==
    ASSUME TypeInv, BookingInv, NEW r \in Requests, Alone(r), SaveWrite(r), ~InTx(r)
    PROVE  BookingInv'
<1>1. PICK s \in Stays :
         /\ req[r].on = {s} /\ req[r].pc = "write"
         /\ stay' = [stay EXCEPT ![s] = req[r].rows[s]]
         /\ IF req[r].kind = "cancel" THEN GoTo(r, "canceled") ELSE End(r)
  BY DEF SaveWrite, At
<1>2. UNCHANGED <<now, deleted, revenue, refund, lost>>
  BY DEF SaveWrite, ledger
<1>3. /\ Working(r) /\ ~deleted /\ RequestsOK /\ req \in [Requests -> Request]
      /\ stay \in [Stays -> Row]
  BY <1>1 DEF BookingInv, TypeInv, TablesOK, RequestsOK
<1>4. stay'[s] = req[r].rows[s] /\ \A t \in Stays \ {s} : stay'[t] = stay[t]
  BY <1>1, <1>3
<1>5. \A t \in Stays \ lost : Recorded(t) /\ Reverted(t)
  BY <1>1, LedgerAt DEF Announcing
<1>6. CASE req[r].kind = "cancel"
  <2>1. Canceling(r)
    BY <1>1, <1>3, <1>6 DEF Working
  <2>2. stay[s].st = "live" /\ req[r].rows[s] = Cancel(stay[s]) /\ req[r].done = {}
    BY <1>1, <2>1 DEF Canceling
  <2>3. stay[s] \in Row
    BY <1>3
  <2>4. stay'[s].st = "canceled" /\ stay'[s] = req[r].rows[s]
    BY <1>4, <2>2, <2>3, CancelTyped
  <2>5. /\ req'[r].pc = "canceled" /\ req'[r].kind = "cancel" /\ req'[r].on = {s}
        /\ req'[r].rows = req[r].rows /\ req'[r].done = {}
    BY <1>1, <1>3, <1>6, <2>2, MovesTo
  <2>6. Working(r)' /\ Announcing(r)'
    BY <2>4, <2>5 DEF Working, Canceling, Announcing, InTx
  <2>8. \A t \in Stays \ lost' : t # s => Recorded(t)' /\ Reverted(t)'
    BY <1>2, <1>4, <1>5 DEF Recorded, Reverted
  <2>9. s \notin lost' => refund'[s] = 0 /\ Recorded(s)'
    BY <1>2, <1>5, <2>2, <2>4 DEF Recorded, Reverted
  <2>10. LedgerInv'
    BY <2>5, <2>6, <2>8, <2>9, LedgerAnnounces
  <2> QED
    BY <1>2, <1>3, <2>6, <2>10, Kept
<1>7. CASE req[r].kind # "cancel"
  <2>1. req[r].kind = "update" /\ Updating(r)
    BY <1>1, <1>3, <1>7 DEF Working, Booking, InTx
  <2>2. req[r].rows[s] \in Accepted /\ stay[s].st = "live"
    BY <1>1, <2>1 DEF Updating
  <2>3. req'[r].pc = "idle" /\ Working(r)' /\ ~Announcing(r)'
    BY <1>1, <1>3, <1>7 DEF End, Idle, Working, Announcing
  <2>4. req[r].rows[s] \in Row /\ req[r].rows[s].st = "live"
    BY <2>2 DEF Accepted
  <2>6. \A t \in Stays \ lost' : Recorded(t)' /\ Reverted(t)'
    BY <1>2, <1>4, <1>5, <2>2, <2>4 DEF Recorded, Reverted
  <2>7. LedgerInv'
    BY <2>3, <2>6, LedgerRests
  <2> QED
    BY <1>2, <1>3, <2>3, <2>7, Kept
<1> QED
  BY <1>6, <1>7

LEMMA StayCanceledKeeps ==
    ASSUME TypeInv, BookingInv, NEW r \in Requests, Alone(r), StayCanceledEvent(r)
    PROVE  BookingInv'
<1>1. PICK s \in Stays :
         /\ req[r].on = {s} /\ req[r].pc = "canceled" /\ req[r].kind = "cancel"
         /\ RevertRevenue(s, req[r].rows[s].price)
  BY DEF StayCanceledEvent, At
<1>2. UNCHANGED <<now, deleted, stay, revenue>> /\ End(r)
  BY DEF StayCanceledEvent
<1>3. /\ Working(r) /\ ~deleted /\ req \in [Requests -> Request]
      /\ stay \in [Stays -> Row] /\ refund \in [Stays -> Nat]
  BY <1>1 DEF BookingInv, TypeInv, RequestsOK, TablesOK
<1>4. Canceling(r)
  BY <1>1, <1>3 DEF Working
<1>5. stay[s].st = "canceled" /\ req[r].rows[s] = stay[s] /\ stay[s] \in Row
  BY <1>1, <1>3, <1>4 DEF Canceling
<1>6. req'[r].pc = "idle" /\ Working(r)' /\ ~Announcing(r)'
  BY <1>2, <1>3 DEF End, Idle, Working, Announcing
<1>7. \A t \in Stays \ lost' : Recorded(t)' /\ Reverted(t)'
  <2>1. lost \subseteq lost' /\ \A t \in Stays \ {s} : refund'[t] = refund[t]
    BY <1>1, <1>3 DEF RevertRevenue
  <2>2. ASSUME NEW t \in Stays \ lost', t # s PROVE Recorded(t)' /\ Reverted(t)'
    <3>1. Recorded(t) /\ Reverted(t)
      BY <1>1, <2>1, <2>2, LedgerAt
    <3> QED
      BY <1>2, <2>1, <2>2, <3>1 DEF Recorded, Reverted
  <2>3. ASSUME s \notin lost' PROVE Recorded(s)' /\ Reverted(s)'
    <3>1. refund[s] = 0 /\ Recorded(s)
      BY <1>1, <1>4, <2>1, <2>3, LedgerAt DEF Announcing, InTx
    <3>2. stay[s].price \in Nat
      BY <1>5, PriceIsNat
    <3>3. refund'[s] = refund[s] + stay[s].price
      BY <1>1, <1>3, <1>5, <2>3 DEF RevertRevenue
    <3> QED
      BY <1>2, <1>5, <3>1, <3>2, <3>3 DEF Recorded, Reverted
  <2> QED
    BY <2>2, <2>3
<1>8. LedgerInv'
  BY <1>6, <1>7, LedgerRests
<1> QED
  BY <1>2, <1>3, <1>6, <1>8, Kept

LEMMA DeleteCommitKeeps ==
    ASSUME TypeInv, BookingInv, NEW r \in Requests, Alone(r), DeleteCommit(r)
    PROVE  BookingInv'
<1>1. /\ req[r].kind = "delete" /\ req[r].pc = "next" /\ req[r].todo = {}
      /\ stay' = Seen(r) /\ End(r) /\ UNCHANGED <<now, revenue, lost>>
      /\ refund' = [s \in Stays |-> IF s \in req[r].done THEN refund[s] + req[r].rows[s].price
                                                         ELSE refund[s]]
  BY DEF DeleteCommit
<1>2. /\ Working(r) /\ req \in [Requests -> Request]
      /\ stay \in [Stays -> Row] /\ refund \in [Stays -> Nat]
  BY DEF BookingInv, TypeInv, RequestsOK, TablesOK
<1>3. Deleting(r) /\ req[r].on = {}
  BY <1>1, <1>2 DEF Working, Deleting
<1>4. \A s \in req[r].done :
         stay[s].st = "live" /\ req[r].rows[s] = Cancel(stay[s])
  BY <1>3 DEF Deleting
<1>5. ASSUME NEW s \in Stays
      PROVE  IF s \in req[r].done
             THEN stay[s].st = "live" /\ stay'[s].st = "canceled" /\ stay'[s].price = stay[s].price
                  /\ refund'[s] = refund[s] + stay[s].price
             ELSE stay'[s] = stay[s] /\ refund'[s] = refund[s]
  <2>1. CASE s \in req[r].done
    <3>1. stay[s] \in Row /\ req[r].rows[s] = Cancel(stay[s])
      BY <1>2, <1>4, <2>1
    <3>2. stay'[s] = req[r].rows[s] /\ refund'[s] = refund[s] + req[r].rows[s].price
      BY <1>1, <2>1 DEF Seen
    <3> QED
      BY <1>4, <2>1, <3>1, <3>2, CancelTyped
  <2>2. CASE s \notin req[r].done
    BY <1>1, <2>2 DEF Seen
  <2> QED
    BY <2>1, <2>2
<1>6. req'[r].pc = "idle" /\ Working(r)' /\ ~Announcing(r)' /\ ~Announcing(r)
  BY <1>1, <1>2 DEF End, Idle, Working, Announcing
<1>8. Emptied'
  <2>1. ASSUME NEW s \in Stays, stay'[s].st = "live" PROVE stay'[s].out < now'
    <3>1. s \notin req[r].done /\ stay'[s] = stay[s]
      BY <1>5, <2>1
    <3> QED
      BY <1>1, <1>3, <2>1, <3>1 DEF Deleting
  <2> QED
    BY <2>1 DEF Emptied
<1>9. LedgerInv'
  <2>1. ASSUME NEW s \in Stays \ lost PROVE Recorded(s)' /\ Reverted(s)'
    <3>1. Recorded(s) /\ Reverted(s)
      BY <1>6, LedgerAt
    <3>2. CASE s \in req[r].done
      <4>1. stay[s].price \in Nat
        BY <1>2, PriceIsNat
      <4> QED
        BY <1>1, <1>5, <3>1, <3>2, <4>1 DEF Recorded, Reverted
    <3>3. CASE s \notin req[r].done
      BY <1>1, <1>5, <3>1, <3>3 DEF Recorded, Reverted
    <3> QED
      BY <3>2, <3>3
  <2> QED
    BY <1>1, <1>6, <2>1, LedgerRests
<1>10. \A p \in Requests \ {r} : req'[p].pc = "idle" /\ Working(p)'
  BY DEF Alone, Working
<1> QED
  BY <1>6, <1>8, <1>9, <1>10 DEF BookingInv

LEMMA ImportCommitKeeps ==
    ASSUME TypeInv, BookingInv, NEW r \in Requests, Alone(r), ImportCommit(r)
    PROVE  BookingInv'
<1>1. /\ req[r].kind = "import" /\ req[r].pc = "next"
      /\ stay' = Seen(r) /\ End(r) /\ UNCHANGED <<now, deleted, refund, lost>>
      /\ revenue' = [s \in Stays |-> IF s \in req[r].done THEN revenue[s] + req[r].rows[s].price
                                                          ELSE revenue[s]]
  BY DEF ImportCommit
<1>2. /\ Working(r) /\ ~deleted /\ req \in [Requests -> Request] /\ stay \in [Stays -> Row]
  BY <1>1 DEF BookingInv, TypeInv, RequestsOK, TablesOK
<1>3. Importing(r)
  BY <1>1, <1>2 DEF Working
<1>4. req'[r].pc = "idle" /\ Working(r)' /\ ~Announcing(r)' /\ ~Announcing(r)
  BY <1>1, <1>2 DEF End, Idle, Working, Announcing
<1>6. ASSUME NEW s \in Stays \ lost PROVE Recorded(s)' /\ Reverted(s)'
  <2>1. Recorded(s) /\ Reverted(s)
    BY <1>4, LedgerAt
  <2>2. CASE s \in req[r].done
    <3>1. /\ stay[s].st = "none" /\ req[r].rows[s].st = "live" /\ req[r].rows[s] \in Row
          /\ req[r].rows[s].price > 0
      BY <1>3, <2>2 DEF Importing, Accepted
    <3>2. req[r].rows[s].price \in Nat /\ req[r].rows[s].price \in Prices \cup {0}
      BY <3>1, PriceIsNat DEF Row
    <3>3. stay'[s] = req[r].rows[s] /\ revenue'[s] = revenue[s] + req[r].rows[s].price
      BY <1>1, <2>2 DEF Seen
    <3> QED
      BY <1>1, <2>1, <3>1, <3>2, <3>3 DEF Recorded, Reverted
  <2>3. CASE s \notin req[r].done
    <3>1. stay'[s] = stay[s] /\ revenue'[s] = revenue[s]
      BY <1>1, <2>3 DEF Seen
    <3> QED
      BY <1>1, <2>1, <3>1 DEF Recorded, Reverted
  <2> QED
    BY <2>2, <2>3
<1>7. LedgerInv'
  BY <1>1, <1>4, <1>6, LedgerRests
<1> QED
  BY <1>1, <1>2, <1>4, <1>7, Kept

LEMMA SavePropertyKeeps ==
    ASSUME TypeInv, BookingInv, NEW r \in Requests, Alone(r), UpdatePropertySave(r)
    PROVE  BookingInv'
<1>1. /\ UNCHANGED <<now, stay, revenue, refund, lost>> /\ deleted' = FALSE /\ End(r)
      /\ req[r].pc = "property"
  BY DEF UpdatePropertySave, ledger
<1>2. req'[r].pc = "idle" /\ Working(r)' /\ ~Announcing(r)' /\ ~Announcing(r)
  BY <1>1 DEF TypeInv, RequestsOK, End, Idle, Working, Announcing
<1>3. LedgerInv'
  <2>1. \A s \in Stays \ lost : Recorded(s) /\ Reverted(s)
    BY <1>2, LedgerAt
  <2>2. \A s \in Stays \ lost' : Recorded(s)' /\ Reverted(s)'
    BY <1>1, <2>1 DEF Recorded, Reverted
  <2> QED
    BY <1>2, <2>2, LedgerRests
<1> QED
  BY <1>1, <1>2, <1>3, Kept

LEMMA DieKeeps ==
    ASSUME TypeInv, BookingInv, NEW r \in Requests, Alone(r), Die(r)
    PROVE  BookingInv'
<1>1. /\ UNCHANGED <<now, deleted, stay, revenue, refund>> /\ End(r)
      /\ lost' = IF Announcing(r) THEN lost \cup req[r].on ELSE lost
  BY DEF Die, Announcing
<1>2. req'[r].pc = "idle" /\ Working(r)' /\ ~Announcing(r)'
  BY <1>1 DEF TypeInv, RequestsOK, End, Idle, Working, Announcing
<1>3. LedgerInv'
  <2>1. ASSUME NEW s \in Stays \ lost' PROVE Recorded(s) /\ Reverted(s)
    BY <1>1, <2>1, LedgerAt
  <2>2. \A s \in Stays \ lost' : Recorded(s)' /\ Reverted(s)'
    BY <1>1, <2>1 DEF Recorded, Reverted
  <2> QED
    BY <1>2, <2>2, LedgerRests
<1>4. Emptied'
  BY <1>1 DEF BookingInv, Emptied
<1>5. \A p \in Requests \ {r} : req'[p].pc = "idle" /\ Working(p)'
  BY DEF Alone, Working
<1> QED
  BY <1>2, <1>3, <1>4, <1>5 DEF BookingInv

(* Time only makes more stays be over.                                     *)
LEMMA TickKeeps ==
    ASSUME TypeInv, BookingInv, Tick
    PROVE  BookingInv'
<1>1. UNCHANGED <<deleted, stay, revenue, refund, lost, req>> /\ now' = now + 1
  BY DEF Tick, ledger
<1>2. now \in Nat /\ \A s \in Stays : stay[s].out \in Nat
  BY BookingAssumption DEF TypeInv, TablesOK, Times, Row
<1>3. \A s \in Stays : stay[s].out < now => stay[s].out < now'
  BY <1>1, <1>2
<1>4. ASSUME NEW r \in Requests PROVE Working(r)'
  <2>1. Working(r)
    BY DEF BookingInv
  <2>2. CASE req[r].kind = "delete" /\ Deleting(r)
    <3>1. Deleting(r)'
      BY <1>1, <1>3, <2>2 DEF Deleting
    <3> QED
      BY <1>1, <2>2, <3>1 DEF Working
  <2>3. CASE ~(req[r].kind = "delete" /\ Deleting(r))
    BY <1>1, <2>1, <2>3 DEF Working, Booking, Canceling, Updating, Importing
  <2> QED
    BY <2>2, <2>3
<1>5. Emptied'
  BY <1>1, <1>3 DEF BookingInv, Emptied
<1>6. LedgerInv'
  BY <1>1 DEF BookingInv, LedgerInv, Announces, InTx, Recorded, Reverted
<1> QED
  BY <1>1, <1>4, <1>5, <1>6 DEF BookingInv

LEMMA StandsStill ==
    ASSUME BookingInv, UNCHANGED <<now, deleted, stay, revenue, refund, lost, req>>
    PROVE  BookingInv'
<1>1. ASSUME NEW r \in Requests PROVE Working(r)'
  <2>1. Working(r)
    BY DEF BookingInv
  <2>2. Booking(r) => Booking(r)'
    BY DEF Booking
  <2>3. (Canceling(r) => Canceling(r)') /\ (Updating(r) => Updating(r)')
    BY DEF Canceling, Updating
  <2>4. Deleting(r) => Deleting(r)'
    BY DEF Deleting
  <2>5. Importing(r) => Importing(r)'
    BY DEF Importing
  <2> QED
    BY <2>1, <2>2, <2>3, <2>4, <2>5 DEF Working
<1>2. LedgerInv' /\ Emptied'
  BY DEF BookingInv, LedgerInv, Announces, InTx, Recorded, Reverted, Emptied
<1> QED
  BY <1>1, <1>2 DEF BookingInv

(* A step is of one request, which is at work before it or after it.       *)
Moves(r) ==
    \/ BookRead(r) \/ Policy(r) \/ BookInsert(r) \/ StayBookedEvent(r)
    \/ CancelFind(r) \/ UpdateFind(r) \/ EnsureOwnership(r)
    \/ SaveExists(r) \/ SaveWrite(r) \/ StayCanceledEvent(r)
    \/ DeleteRead(r) \/ ReleaseFutureOccupancy(r) \/ CancelNext(r)
    \/ CascadeCanceledEvent(r) \/ DeleteCommit(r)
    \/ ImportStart(r) \/ ImportRow(r) \/ ImportCommit(r)
    \/ UpdatePropertyRead(r) \/ UpdatePropertySave(r) \/ Die(r)

LEMMA MovesAlone ==
    ASSUME RequestsOK, NEW r \in Requests, Moves(r)
    PROVE  /\ \A p \in Requests \ {r} : req'[p] = req[p]
           /\ req[r].pc # "idle" \/ req'[r].pc # "idle"
<1>1. ASSUME NEW kind, NEW pc, NEW on, NEW rows, Begin(r, kind, pc, on, rows), pc # "idle"
      PROVE  (\A p \in Requests \ {r} : req'[p] = req[p]) /\ req'[r].pc # "idle"
  <2>1. req'[r].pc = pc
    BY <1>1, BeginsWith
  <2> QED
    BY <1>1, <2>1 DEF Begin, RequestsOK
<1>2. CASE \/ BookRead(r) \/ CancelFind(r) \/ UpdateFind(r)
           \/ DeleteRead(r) \/ ImportStart(r) \/ UpdatePropertyRead(r)
  <2>1. CASE BookRead(r)
    BY <1>1, <2>1, Zenon DEF BookRead
  <2>2. CASE CancelFind(r)
    BY <1>1, <2>2, Zenon DEF CancelFind
  <2>3. CASE UpdateFind(r)
    BY <1>1, <2>3, Zenon DEF UpdateFind
  <2>4. CASE DeleteRead(r) \/ ImportStart(r) \/ UpdatePropertyRead(r)
    BY <1>1, <2>4, Zenon DEF DeleteRead, ImportStart, UpdatePropertyRead
  <2> QED
    BY <1>2, <2>1, <2>2, <2>3, <2>4
<1>3. CASE Policy(r) \/ BookInsert(r) \/ StayBookedEvent(r) \/ EnsureOwnership(r)
  BY <1>3 DEF Policy, BookInsert, StayBookedEvent, EnsureOwnership, At, GoTo, End, RequestsOK
<1>4. CASE SaveExists(r) \/ StayCanceledEvent(r) \/ CancelNext(r) \/ Die(r)
  BY <1>4 DEF SaveExists, StayCanceledEvent, CancelNext, Die, At, GoTo, End, RequestsOK
<1>5. CASE SaveWrite(r)
  BY <1>5 DEF SaveWrite, At, GoTo, End, RequestsOK
<1>6. CASE ReleaseFutureOccupancy(r) \/ CascadeCanceledEvent(r)
  BY <1>6 DEF ReleaseFutureOccupancy, CascadeCanceledEvent, GoTo, End, RequestsOK
<1>7. CASE DeleteCommit(r) \/ ImportRow(r) \/ ImportCommit(r) \/ UpdatePropertySave(r)
  BY <1>7 DEF DeleteCommit, ImportRow, ImportCommit, UpdatePropertySave, GoTo, End, RequestsOK
<1> QED
  BY <1>2, <1>3, <1>4, <1>5, <1>6, <1>7 DEF Moves

LEMMA InTurnAlone ==
    ASSUME RequestsOK, Single, Single', NEW r \in Requests, Moves(r)
    PROVE  Alone(r)
BY MovesAlone DEF Single, Alone

LEMMA MoveKeeps ==
    ASSUME TypeInv, BookingInv, NEW r \in Requests, Alone(r), Moves(r)
    PROVE  BookingInv'
BY BeginningsKeep, PolicyKeeps, BookInsertKeeps, StayBookedKeeps, EnsureOwnershipKeeps,
   SaveExistsKeeps, SaveKeeps, SaveInTransactionKeeps, StayCanceledKeeps,
   ReleaseKeeps, CancelNextKeeps, CascadeKeeps, DeleteCommitKeeps,
   ImportRowKeeps, ImportCommitKeeps, SavePropertyKeeps, DieKeeps DEF Moves

(* What is alone races with nothing.                                       *)
LEMMA NothingRaces ==
    ASSUME RequestsOK, NEW r \in Requests, Alone(r), Moves(r), raced = {}
    PROVE  raced' = {}
<1>1. ASSUME NEW p \in Requests \ {r} PROVE Cleared(req[p]) = {}
  <2>1. req[p] = Idle
    BY DEF Alone, RequestsOK, HoldsRows
  <2> QED
    BY <2>1 DEF Idle, Cleared
<1>2. WritesLive(r) => raced' = {}
  BY <1>1 DEF WritesLive
<1> QED
  BY <1>2 DEF Moves, Begin, BookRead, Policy, BookInsert, StayBookedEvent,
     CancelFind, UpdateFind, EnsureOwnership, SaveExists, SaveWrite, StayCanceledEvent,
     DeleteRead, ReleaseFutureOccupancy, CancelNext, CascadeCanceledEvent, DeleteCommit,
     ImportStart, ImportRow, ImportCommit, UpdatePropertyRead, UpdatePropertySave, Die

(* As long as no two requests have overlapped.                             *)
InTurn == ~overlapped => Single /\ BookingInv /\ raced = {}

LEMMA InTurnStep == TypeInv /\ InTurn /\ [Next]_vars => InTurn'
<1> SUFFICES ASSUME TypeInv, InTurn, [Next]_vars, ~overlapped'
             PROVE  Single' /\ BookingInv' /\ raced' = {}
  BY DEF InTurn
<1>1. CASE UNCHANGED vars
  <2>1. UNCHANGED <<now, deleted, stay, revenue, refund, lost, req, raced, overlapped>>
    BY <1>1 DEF vars
  <2>2. ~overlapped
    BY <2>1
  <2>3. Single /\ BookingInv /\ raced = {}
    BY <2>2 DEF InTurn
  <2>4. BookingInv'
    BY <2>1, <2>3, StandsStill
  <2> QED
    BY <2>1, <2>3, <2>4 DEF Single
<1>2. CASE Next
  <2>1. Step /\ ~overlapped /\ ~Together'
    BY <1>2 DEF Next
  <2>2. Single /\ BookingInv /\ raced = {}
    BY <2>1 DEF InTurn
  <2>3. Single'
    BY <2>1 DEF Together, Single
  <2>4. CASE Tick
    <3>1. raced' = raced
      BY <2>4 DEF Tick
    <3> QED
      BY <2>2, <2>3, <2>4, <3>1, TickKeeps
  <2>5. ASSUME NEW r \in Requests, Moves(r) PROVE BookingInv' /\ raced' = {}
    <3>1. RequestsOK /\ Alone(r)
      BY <2>2, <2>3, <2>5, InTurnAlone DEF TypeInv
    <3> QED
      BY <2>2, <2>5, <3>1, MoveKeeps, NothingRaces
  <2> QED
    BY <2>1, <2>3, <2>4, <2>5 DEF Step, Moves
<1> QED
  BY <1>1, <1>2

LEMMA InitKeeps == Init => BookingInv
<1> SUFFICES ASSUME Init PROVE BookingInv
  OBVIOUS
<1>1. \A r \in Requests : req[r] = Idle /\ req[r].pc = "idle"
  BY DEF Init, Idle
<1>2. \A s \in Stays : stay[s].st = "none" /\ revenue[s] = 0 /\ refund[s] = 0
  BY DEF Init, NoRow
<1>3. \A s \in Stays : Recorded(s) /\ Reverted(s)
  BY <1>2 DEF Recorded, Reverted
<1>4. LedgerInv
  BY <1>1, <1>3 DEF LedgerInv, Announces
<1>5. Emptied
  BY <1>2 DEF Emptied
<1> QED
  BY <1>1, <1>4, <1>5 DEF BookingInv, Working

LEMMA InTurnAlways == Spec => [](TypeInv /\ InTurn)
<1>1. Init => TypeInv /\ InTurn
  <2>1. Init => Single /\ raced = {}
    BY DEF Init, Single, Idle
  <2> QED
    BY <2>1, InitTyped, InitKeeps DEF InTurn
<1>2. TypeInv /\ InTurn /\ [Next]_vars => (TypeInv /\ InTurn)'
  BY TypeStep, InTurnStep
<1> QED
  BY <1>1, <1>2, PTL DEF Spec

-----------------------------------------------------------------------------
(* Which stays may overlap, for any number of requests.                    *)

Apart(d, e) == d.out < e.in \/ e.out < d.in

(* What a request has found free is free of all live stays but those       *)
(* written since; what cancels holds no row that lives.                    *)
FoundFree(q, table, pairs) ==
    \A t \in Cleared(q), s \in Stays \ Cleared(q) :
       table[s].st = "live" => Apart(table[s], q.rows[t]) \/ {s, t} \in pairs
Clean(q, table, pairs) ==
    /\ q.kind = "import" => q.on = q.done /\ \A s \in q.on : q.rows[s].st = "live"
    /\ q.kind = "import" => \A s, t \in q.on : s # t => Apart(q.rows[s], q.rows[t])
    /\ q.kind = "delete" => \A s \in q.on \cup q.done : q.rows[s].st # "live"
    /\ q.kind = "cancel" /\ q.pc # "owner" => \A s \in q.on : q.rows[s].st # "live"
    /\ q.pc = "policy" => q.kind \in {"book", "update"}
    /\ q.pc = "insert" => q.kind = "book"
    /\ q.pc \in {"exists", "write"} => q.kind \in {"book", "update", "cancel", "delete"}
    /\ FoundFree(q, table, pairs)
ApartInv ==
    /\ raced \subseteq SUBSET Stays
    /\ \A s, t \in Stays : s # t /\ stay[s].st = "live" /\ stay[t].st = "live"
          => Apart(stay[s], stay[t]) \/ {s, t} \in raced
    /\ \A r \in Requests : Clean(req[r], stay, raced)

LEMMA IdleClean == Cleared(Idle) = {} /\ \A table, pairs : Clean(Idle, table, pairs)
  BY DEF Idle, Cleared, Clean, FoundFree

(* No row comes to live.                                                   *)
LEMMA ApartMoves ==
    ASSUME TypeInv, ApartInv, NEW r \in Requests, NEW q, req' = [req EXCEPT ![r] = q],
           \A s \in Stays : stay'[s].st = "live" => stay'[s] = stay[s],
           UNCHANGED raced, Clean(q, stay, raced)
    PROVE  ApartInv'
<1>1. \A p \in Requests : Clean(req'[p], stay, raced)
  BY DEF TypeInv, RequestsOK, ApartInv
<1>2. ASSUME NEW p \in Requests PROVE Clean(req'[p], stay', raced')
  <2>1. FoundFree(req'[p], stay, raced)
    BY <1>1 DEF Clean
  <2>2. FoundFree(req'[p], stay', raced')
    <3>1. ASSUME NEW t \in Cleared(req'[p]), NEW s \in Stays \ Cleared(req'[p]),
                 stay'[s].st = "live"
          PROVE  Apart(stay'[s], req'[p].rows[t]) \/ {s, t} \in raced'
      <4>1. stay'[s] = stay[s] /\ raced' = raced
        BY <3>1
      <4> QED
        BY <2>1, <3>1, <4>1 DEF FoundFree
    <3> QED
      BY <3>1 DEF FoundFree
  <2> QED
    BY <1>1, <2>2 DEF Clean
<1> QED
  BY <1>2 DEF ApartInv

LEMMA EndApart ==
    ASSUME TypeInv, ApartInv, NEW r \in Requests, End(r), UNCHANGED <<stay, raced>>
    PROVE  ApartInv'
  BY IdleClean, ApartMoves DEF End

(* What a request has found free comes to live.                            *)
LEMMA ApartWrites ==
    ASSUME TypeInv, ApartInv, NEW r \in Requests, NEW q, req' = [req EXCEPT ![r] = q],
           WritesLive(r), Clean(q, stay, raced), Cleared(q) = {},
           \A s \in Stays : stay'[s] = IF s \in Cleared(req[r]) THEN req[r].rows[s] ELSE stay[s],
           \A s, t \in Cleared(req[r]) : s # t => Apart(req[r].rows[s], req[r].rows[t])
    PROVE  ApartInv'
<1> DEFINE W == Cleared(req[r])
<1>1. \A p \in Requests : Cleared(req[p]) \subseteq Stays
  BY DEF TypeInv, RequestsOK, Request, Cleared
<1>2. raced \subseteq raced' /\ raced' \subseteq SUBSET Stays
  BY <1>1 DEF WritesLive, ApartInv
<1>3. ASSUME NEW s \in W, NEW p \in Requests \ {r}, NEW t \in Cleared(req[p])
      PROVE  {s, t} \in raced'
  BY DEF WritesLive
<1>4. FoundFree(req[r], stay, raced)
  BY DEF ApartInv, Clean
<1>5. ASSUME NEW s \in Stays, NEW t \in Stays, s # t,
             stay'[s].st = "live", stay'[t].st = "live"
      PROVE  Apart(stay'[s], stay'[t]) \/ {s, t} \in raced'
  <2>1. CASE s \in W /\ t \in W
    BY <1>5, <2>1
  <2>2. CASE s \notin W /\ t \in W
    BY <1>2, <1>4, <1>5, <2>2 DEF FoundFree
  <2>3. CASE s \in W /\ t \notin W
    <3>1. Apart(stay[t], req[r].rows[s]) \/ {t, s} \in raced
      BY <1>4, <1>5, <2>3 DEF FoundFree
    <3>2. {t, s} = {s, t}
      OBVIOUS
    <3> QED
      BY <1>2, <2>3, <3>1, <3>2 DEF Apart
  <2>4. CASE s \notin W /\ t \notin W
    BY <1>2, <1>5, <2>4 DEF ApartInv
  <2> QED
    BY <2>1, <2>2, <2>3, <2>4
<1>6. ASSUME NEW p \in Requests PROVE Clean(req'[p], stay', raced')
  <2>1. CASE p = r
    <3>1. req'[p] = q
      BY <2>1 DEF TypeInv, RequestsOK
    <3>2. FoundFree(q, stay', raced')
      BY DEF FoundFree
    <3> QED
      BY <3>1, <3>2 DEF Clean
  <2>2. CASE p # r
    <3>1. req'[p] = req[p] /\ Clean(req[p], stay, raced)
      BY <2>2 DEF TypeInv, RequestsOK, ApartInv
    <3>2. ASSUME NEW t \in Cleared(req[p]), NEW s \in Stays \ Cleared(req[p]),
                 stay'[s].st = "live"
          PROVE  Apart(stay'[s], req[p].rows[t]) \/ {s, t} \in raced'
      <4>1. CASE s \in W
        BY <1>3, <2>2, <4>1
      <4>2. CASE s \notin W
        BY <1>2, <3>1, <3>2, <4>2 DEF Clean, FoundFree
      <4> QED
        BY <4>1, <4>2
    <3>3. FoundFree(req[p], stay', raced')
      BY <3>2 DEF FoundFree
    <3> QED
      BY <3>1, <3>3 DEF Clean
  <2> QED
    BY <2>1, <2>2
<1> QED
  BY <1>2, <1>5, <1>6 DEF ApartInv

(* The beginnings have found nothing yet.                                  *)
LEMMA BeginApart ==
    ASSUME TypeInv, ApartInv, NEW r \in Requests, NEW kind, NEW pc, NEW on, NEW rows,
           Begin(r, kind, pc, on, rows), pc \in {"scan", "next", "owner", "policy", "property"},
           kind \in {"import", "delete"} => on = {},
           kind = "cancel" => pc = "owner", pc = "policy" => kind = "book"
    PROVE  ApartInv'
<1>1. PICK q : q = [Idle EXCEPT !.pc = pc, !.kind = kind, !.on = on, !.rows = rows]
  OBVIOUS
<1>2. q.pc = pc /\ q.kind = kind /\ q.on = on /\ q.done = {}
  BY <1>1 DEF Idle
<1>3. Cleared(q) = {}
  BY <1>2 DEF Cleared
<1>4. FoundFree(q, stay, raced)
  BY <1>3 DEF FoundFree
<1>5. Clean(q, stay, raced)
  BY <1>2, <1>4 DEF Clean
<1> QED
  BY <1>1, <1>5, ApartMoves DEF Begin

LEMMA BeginningsApart ==
    ASSUME TypeInv, ApartInv, NEW r \in Requests,
           \/ BookRead(r) \/ CancelFind(r) \/ UpdateFind(r)
           \/ DeleteRead(r) \/ ImportStart(r) \/ UpdatePropertyRead(r)
    PROVE  ApartInv'
<1>1. CASE BookRead(r)
  BY <1>1, BeginApart DEF BookRead
<1>2. CASE CancelFind(r)
  BY <1>2, BeginApart DEF CancelFind
<1>3. CASE UpdateFind(r)
  BY <1>3, BeginApart DEF UpdateFind
<1>4. CASE DeleteRead(r) \/ ImportStart(r) \/ UpdatePropertyRead(r)
  BY <1>4, BeginApart DEF DeleteRead, ImportStart, UpdatePropertyRead
<1> QED
  BY <1>1, <1>2, <1>3, <1>4

(* The policy is what finds a stay free, for a booking and an update.      *)
LEMMA FreeIsApart ==
    ASSUME NEW table \in [Stays -> Row], NEW s \in Stays, NEW d \in Row,
           ~Occupied(table, s, d), NEW t \in Stays, t # s, table[t].st = "live"
    PROVE  Apart(table[t], d) /\ Apart(d, table[t])
<1>1. d.in \in Nat /\ d.out \in Nat /\ table[t].in \in Nat /\ table[t].out \in Nat
  BY BookingAssumption DEF Row, Times
<1> QED
  BY <1>1 DEF Occupied, Apart

LEMMA PolicyApart ==
    ASSUME TypeInv, ApartInv, NEW r \in Requests, Policy(r)
    PROVE  ApartInv'
<1>1. PICK s \in Stays :
         /\ req[r].on = {s} /\ req[r].pc = "policy"
         /\ IF Occupied(Seen(r), s, req[r].rows[s]) THEN End(r)
            ELSE GoTo(r, IF req[r].kind = "book" THEN "insert" ELSE "exists")
  BY DEF Policy, At
<1>2. UNCHANGED <<stay, raced>>
  BY DEF Policy
<1>3. /\ req[r] \in Request /\ HoldsRows(req[r], stay) /\ Clean(req[r], stay, raced)
      /\ stay \in [Stays -> Row]
  BY DEF TypeInv, RequestsOK, TablesOK, ApartInv
<1>4. req[r].kind \in {"book", "update"} /\ req[r].done = {}
  BY <1>1, <1>3 DEF Clean, HoldsRows, InTransaction
<1>5. Seen(r) = stay
  BY <1>3, <1>4 DEF Seen
<1>6. CASE ~Occupied(stay, s, req[r].rows[s])
           /\ GoTo(r, IF req[r].kind = "book" THEN "insert" ELSE "exists")
  <2>1. PICK q : q = [req[r] EXCEPT !.pc = IF req[r].kind = "book" THEN "insert" ELSE "exists"]
    OBVIOUS
  <2>2. /\ q.pc = (IF req[r].kind = "book" THEN "insert" ELSE "exists") /\ q.kind = req[r].kind
        /\ q.on = {s} /\ q.rows = req[r].rows
    BY <1>1, <1>3, <2>1 DEF Request
  <2>3. Cleared(q) = {s} /\ q.rows[s] \in Row
    BY <1>3, <1>4, <2>2 DEF Cleared, Request
  <2>4. FoundFree(q, stay, raced)
    BY <1>3, <1>6, <2>2, <2>3, FreeIsApart DEF FoundFree
  <2>5. Clean(q, stay, raced)
    BY <1>4, <2>2, <2>4 DEF Clean
  <2>6. req' = [req EXCEPT ![r] = q]
    BY <1>6, <2>1 DEF GoTo
  <2> QED
    BY <1>2, <2>5, <2>6, ApartMoves
<1> QED
  BY <1>1, <1>2, <1>5, <1>6, EndApart

LEMMA EnsureOwnershipApart ==
    ASSUME TypeInv, ApartInv, NEW r \in Requests, EnsureOwnership(r)
    PROVE  ApartInv'
<1>1. PICK s \in Stays :
         /\ req[r].on = {s} /\ req[r].pc = "owner"
         /\ \/ End(r)
            \/ req[r].kind = "update" /\ GoTo(r, "policy")
            \/ /\ req[r].kind = "cancel"
               /\ req' = [req EXCEPT ![r].rows[s] = Cancel(@), ![r].pc = "exists"]
  BY DEF EnsureOwnership, At
<1>2. UNCHANGED <<stay, raced>>
  BY DEF EnsureOwnership
<1>3. req[r] \in Request /\ req \in [Requests -> Request]
  BY DEF TypeInv, RequestsOK
<1>4. CASE req[r].kind = "update" /\ GoTo(r, "policy")
  <2>1. PICK q : q = [req[r] EXCEPT !.pc = "policy"]
    OBVIOUS
  <2>2. q.pc = "policy" /\ q.kind = "update"
    BY <1>3, <1>4, <2>1 DEF Request
  <2>3. FoundFree(q, stay, raced)
    BY <2>2 DEF FoundFree, Cleared
  <2>4. Clean(q, stay, raced)
    BY <2>2, <2>3 DEF Clean
  <2>5. req' = [req EXCEPT ![r] = q]
    BY <1>4, <2>1 DEF GoTo
  <2> QED
    BY <1>2, <2>4, <2>5, ApartMoves
<1>5. CASE /\ req[r].kind = "cancel"
           /\ req' = [req EXCEPT ![r].rows[s] = Cancel(@), ![r].pc = "exists"]
  <2>1. PICK q : q = [req[r] EXCEPT !.rows[s] = Cancel(@), !.pc = "exists"]
    OBVIOUS
  <2>2. PICK rows : rows = [req[r].rows EXCEPT ![s] = Cancel(req[r].rows[s])]
    OBVIOUS
  <2>3. rows[s].st # "live"
    <3>1. rows[s] = Cancel(req[r].rows[s]) /\ req[r].rows[s] \in Row
      BY <1>3, <2>2 DEF Request
    <3> QED
      BY <3>1, CancelTyped
  <2>4. q.pc = "exists" /\ q.kind = "cancel" /\ q.on = {s} /\ q.rows = rows
    BY <1>1, <1>3, <1>5, <2>1, <2>2 DEF Request
  <2>5. FoundFree(q, stay, raced)
    BY <2>4 DEF FoundFree, Cleared
  <2>6. Clean(q, stay, raced)
    BY <2>3, <2>4, <2>5 DEF Clean
  <2>7. req' = [req EXCEPT ![r] = q]
    BY <1>3, <1>5, <2>1
  <2> QED
    BY <1>2, <2>6, <2>7, ApartMoves
<1> QED
  BY <1>1, <1>2, <1>4, <1>5, EndApart

LEMMA SaveExistsApart ==
    ASSUME TypeInv, ApartInv, NEW r \in Requests, SaveExists(r)
    PROVE  ApartInv'
<1>1. req[r].pc = "exists" /\ (End(r) \/ GoTo(r, "write")) /\ UNCHANGED <<stay, raced>>
  BY DEF SaveExists
<1>2. CASE GoTo(r, "write")
  <2>1. PICK q : q = [req[r] EXCEPT !.pc = "write"]
    OBVIOUS
  <2>2. req[r] \in Request /\ Clean(req[r], stay, raced)
    BY DEF TypeInv, RequestsOK, ApartInv
  <2>3. /\ q.pc = "write" /\ q.kind = req[r].kind /\ q.on = req[r].on /\ q.rows = req[r].rows
        /\ q.done = req[r].done
    BY <2>1, <2>2 DEF Request
  <2>4. Cleared(q) = Cleared(req[r])
    BY <1>1, <2>3 DEF Cleared
  <2>5. FoundFree(q, stay, raced)
    BY <2>2, <2>3, <2>4 DEF FoundFree, Clean
  <2>6. Clean(q, stay, raced)
    BY <1>1, <2>2, <2>3, <2>5 DEF Clean
  <2>7. req' = [req EXCEPT ![r] = q]
    BY <1>2, <2>1 DEF GoTo
  <2> QED
    BY <1>1, <2>6, <2>7, ApartMoves
<1> QED
  BY <1>1, <1>2, EndApart

LEMMA BookInsertApart ==
    ASSUME TypeInv, ApartInv, NEW r \in Requests, BookInsert(r)
    PROVE  ApartInv'
<1>1. PICK s \in Stays :
         /\ req[r].on = {s} /\ req[r].pc = "insert"
         /\ stay' = [stay EXCEPT ![s] = req[r].rows[s]]
         /\ WritesLive(r) /\ GoTo(r, "booked")
  BY DEF BookInsert, At
<1>2. req[r] \in Request /\ Clean(req[r], stay, raced) /\ stay \in [Stays -> Row]
  BY DEF TypeInv, RequestsOK, TablesOK, ApartInv
<1>3. req[r].kind = "book"
  BY <1>1, <1>2 DEF Clean
<1>4. Cleared(req[r]) = {s}
  BY <1>1, <1>3 DEF Cleared
<1>5. PICK q : q = [req[r] EXCEPT !.pc = "booked"]
  OBVIOUS
<1>6. q.pc = "booked" /\ q.kind = "book"
  BY <1>2, <1>3, <1>5 DEF Request
<1>7. Cleared(q) = {}
  BY <1>6 DEF Cleared
<1>8. Clean(q, stay, raced)
  BY <1>6, <1>7 DEF Clean, FoundFree
<1>9. req' = [req EXCEPT ![r] = q]
  BY <1>1, <1>5 DEF GoTo
<1>10. \A t \in Stays : stay'[t] = IF t \in {s} THEN req[r].rows[t] ELSE stay[t]
  BY <1>1, <1>2
<1> QED
  BY <1>1, <1>4, <1>7, <1>8, <1>9, <1>10, ApartWrites

LEMMA SaveWriteApart ==
    ASSUME TypeInv, ApartInv, NEW r \in Requests, SaveWrite(r)
    PROVE  ApartInv'
<1>1. PICK s \in Stays :
         /\ req[r].on = {s} /\ req[r].pc = "write"
         /\ \/ /\ InTx(r)
               /\ req' = [req EXCEPT ![r].pc = "canceled", ![r].done = @ \cup {s}]
               /\ UNCHANGED <<stay, raced>>
            \/ /\ ~InTx(r)
               /\ stay' = [stay EXCEPT ![s] = req[r].rows[s]]
               /\ IF req[r].kind = "cancel" THEN GoTo(r, "canceled") ELSE End(r)
               /\ WritesLive(r)
  BY DEF SaveWrite, At
<1>2. /\ req[r] \in Request /\ Clean(req[r], stay, raced) /\ stay \in [Stays -> Row]
      /\ req \in [Requests -> Request]
  BY DEF TypeInv, RequestsOK, TablesOK, ApartInv
<1>3. req[r].kind \in {"book", "update", "cancel", "delete"}
  BY <1>1, <1>2 DEF Clean
<1>4. CASE InTx(r)
  <2>1. req[r].kind = "delete"
    BY <1>3, <1>4 DEF InTx
  <2>2. PICK q : q = [req[r] EXCEPT !.pc = "canceled", !.done = @ \cup {s}]
    OBVIOUS
  <2>3. /\ q.pc = "canceled" /\ q.kind = "delete" /\ q.on = {s} /\ q.rows = req[r].rows
        /\ q.done = req[r].done \cup {s}
    BY <1>1, <1>2, <2>1, <2>2 DEF Request
  <2>4. \A t \in q.on \cup q.done : q.rows[t].st # "live"
    BY <1>1, <1>2, <2>1, <2>3 DEF Clean
  <2>5. FoundFree(q, stay, raced)
    BY <2>3 DEF FoundFree, Cleared
  <2>6. Clean(q, stay, raced)
    BY <2>3, <2>4, <2>5 DEF Clean
  <2>7. req' = [req EXCEPT ![r] = q] /\ UNCHANGED <<stay, raced>>
    BY <1>1, <1>2, <1>4, <2>2
  <2> QED
    BY <2>6, <2>7, ApartMoves
<1>5. CASE ~InTx(r) /\ req[r].kind = "cancel"
  <2>1. Cleared(req[r]) = {}
    BY <1>5 DEF Cleared
  <2>2. UNCHANGED raced
    <3> DEFINE pairs == {{u, t} : u \in Cleared(req[r]),
                                  t \in UNION {Cleared(req[q]) : q \in Requests \ {r}}}
    <3>1. WritesLive(r)
      BY <1>1, <1>5
    <3>2. raced' = raced \cup pairs
      BY <3>1 DEF WritesLive
    <3>3. pairs = {}
      BY <2>1
    <3> HIDE DEF pairs
    <3> QED
      BY <3>2, <3>3
  <2>3. req[r].rows[s].st # "live"
    BY <1>1, <1>2, <1>5 DEF Clean
  <2>4. \A t \in Stays : stay'[t].st = "live" => stay'[t] = stay[t]
    BY <1>1, <1>2, <1>5, <2>3
  <2>5. PICK q : q = [req[r] EXCEPT !.pc = "canceled"]
    OBVIOUS
  <2>6. /\ q.pc = "canceled" /\ q.kind = "cancel" /\ q.on = {s} /\ q.rows = req[r].rows
    BY <1>1, <1>2, <1>5, <2>5 DEF Request
  <2>7. FoundFree(q, stay, raced)
    BY <2>6 DEF FoundFree, Cleared
  <2>8. Clean(q, stay, raced)
    BY <2>3, <2>6, <2>7 DEF Clean
  <2>9. req' = [req EXCEPT ![r] = q]
    BY <1>1, <1>5, <2>5 DEF GoTo
  <2> QED
    BY <2>2, <2>4, <2>8, <2>9, ApartMoves
<1>6. CASE ~InTx(r) /\ req[r].kind # "cancel"
  <2>1. req[r].kind \in {"book", "update"}
    BY <1>3, <1>6 DEF InTx
  <2>2. Cleared(req[r]) = {s}
    BY <1>1, <2>1 DEF Cleared
  <2>3. \A t \in Stays : stay'[t] = IF t \in {s} THEN req[r].rows[t] ELSE stay[t]
    BY <1>1, <1>2, <1>6
  <2>4. End(r) /\ WritesLive(r)
    BY <1>1, <1>6
  <2> QED
    BY <2>2, <2>3, <2>4, IdleClean, ApartWrites DEF End
<1> QED
  BY <1>4, <1>5, <1>6

(* The deletion only cancels.                                              *)
LEMMA DeletionApart ==
    ASSUME TypeInv, ApartInv, NEW r \in Requests,
           \/ ReleaseFutureOccupancy(r) \/ CancelNext(r)
           \/ CascadeCanceledEvent(r) \/ DeleteCommit(r)
    PROVE  ApartInv'
<1>1. /\ req[r] \in Request /\ HoldsRows(req[r], stay) /\ Clean(req[r], stay, raced)
      /\ stay \in [Stays -> Row] /\ req \in [Requests -> Request]
  BY DEF TypeInv, RequestsOK, TablesOK, ApartInv
<1>2. ASSUME NEW q, q.kind = "delete", q.pc \in {"next", "exists"},
             \A s \in q.on \cup q.done : q.rows[s].st # "live",
             req' = [req EXCEPT ![r] = q], UNCHANGED <<stay, raced>>
      PROVE  ApartInv'
  <2>1. FoundFree(q, stay, raced)
    BY <1>2 DEF FoundFree, Cleared
  <2>2. Clean(q, stay, raced)
    BY <1>2, <2>1 DEF Clean
  <2> QED
    BY <1>2, <2>2, ApartMoves
<1>3. CASE ReleaseFutureOccupancy(r)
  <2>1. req[r].pc = "scan" /\ UNCHANGED <<stay, raced>>
    BY <1>3 DEF ReleaseFutureOccupancy
  <2>2. req[r].kind = "delete" /\ req[r].on = {} /\ req[r].done = {}
    BY <1>1, <2>1 DEF HoldsRows
  <2>3. CASE End(r)
    BY <2>1, <2>3, EndApart
  <2>4. CASE ~End(r)
    <3>1. PICK todo, rows :
             req' = [req EXCEPT ![r].pc = "next", ![r].todo = todo, ![r].rows = rows]
      BY <1>3, <2>4 DEF ReleaseFutureOccupancy
    <3>2. PICK q : q = [req[r] EXCEPT !.pc = "next", !.todo = todo, !.rows = rows]
      OBVIOUS
    <3>3. q.pc = "next" /\ q.kind = "delete" /\ q.on = {} /\ q.done = {}
      BY <1>1, <2>2, <3>2 DEF Request
    <3>4. req' = [req EXCEPT ![r] = q]
      BY <1>1, <3>1, <3>2
    <3> QED
      BY <1>2, <2>1, <3>3, <3>4
  <2> QED
    BY <2>3, <2>4
<1>4. CASE CancelNext(r)
  <2>1. req[r].kind = "delete" /\ UNCHANGED <<stay, raced>>
    BY <1>4 DEF CancelNext
  <2>2. CASE End(r)
    BY <2>1, <2>2, EndApart
  <2>3. CASE ~End(r)
    <3>1. PICK s \in req[r].todo :
             req' = [req EXCEPT ![r].pc = "exists", ![r].on = {s}, ![r].todo = @ \ {s},
                                ![r].rows[s] = Cancel(@)]
      BY <1>4, <2>3 DEF CancelNext
    <3>2. PICK rows : rows = [req[r].rows EXCEPT ![s] = Cancel(req[r].rows[s])]
      OBVIOUS
    <3>3. PICK q : q = [req[r] EXCEPT !.pc = "exists", !.on = {s}, !.todo = @ \ {s}, !.rows = rows]
      OBVIOUS
    <3>4. /\ q.pc = "exists" /\ q.kind = "delete" /\ q.on = {s} /\ q.rows = rows
          /\ q.done = req[r].done
      BY <1>1, <2>1, <3>3 DEF Request
    <3>5. s \in Stays /\ req[r].done \subseteq Stays /\ req[r].rows \in [Stays -> Row]
      BY <1>1 DEF Request
    <3>6. rows[s].st # "live" /\ \A t \in req[r].done : t # s => rows[t] = req[r].rows[t]
      BY <3>2, <3>5, CancelTyped
    <3>7. \A t \in q.on \cup q.done : q.rows[t].st # "live"
      BY <1>1, <2>1, <3>4, <3>6 DEF Clean
    <3>8. req' = [req EXCEPT ![r] = q]
      BY <1>1, <3>1, <3>2, <3>3
    <3> QED
      BY <1>2, <2>1, <3>4, <3>7, <3>8
  <2> QED
    BY <2>2, <2>3
<1>5. CASE CascadeCanceledEvent(r)
  <2>1. /\ req[r].kind = "delete" /\ UNCHANGED <<stay, raced>>
        /\ End(r) \/ req' = [req EXCEPT ![r].pc = "next", ![r].on = {}]
    BY <1>5 DEF CascadeCanceledEvent
  <2>2. CASE End(r)
    BY <2>1, <2>2, EndApart
  <2>3. CASE req' = [req EXCEPT ![r].pc = "next", ![r].on = {}]
    <3>1. PICK q : q = [req[r] EXCEPT !.pc = "next", !.on = {}]
      OBVIOUS
    <3>2. /\ q.pc = "next" /\ q.kind = "delete" /\ q.on = {} /\ q.rows = req[r].rows
          /\ q.done = req[r].done
      BY <1>1, <2>1, <3>1 DEF Request
    <3>3. \A t \in q.on \cup q.done : q.rows[t].st # "live"
      BY <1>1, <2>1, <3>2 DEF Clean
    <3>4. req' = [req EXCEPT ![r] = q]
      BY <1>1, <2>3, <3>1
    <3> QED
      BY <1>2, <2>1, <3>2, <3>3, <3>4
  <2> QED
    BY <2>1, <2>2, <2>3
<1>6. CASE DeleteCommit(r)
  <2>1. req[r].kind = "delete" /\ stay' = Seen(r) /\ End(r) /\ UNCHANGED raced
    BY <1>6 DEF DeleteCommit
  <2>2. \A s \in req[r].done : req[r].rows[s].st # "live"
    BY <1>1, <2>1 DEF Clean
  <2>3. \A s \in Stays : stay'[s].st = "live" => stay'[s] = stay[s]
    BY <2>1, <2>2 DEF Seen
  <2> QED
    BY <2>1, <2>3, IdleClean, ApartMoves DEF End
<1> QED
  BY <1>3, <1>4, <1>5, <1>6

(* An import finds its rows free of each other as well.                    *)
LEMMA ImportRowApart ==
    ASSUME TypeInv, ApartInv, NEW r \in Requests, ImportRow(r)
    PROVE  ApartInv'
<1>1. req[r].kind = "import" /\ req[r].pc = "next" /\ UNCHANGED <<stay, raced>>
  BY DEF ImportRow
<1>2. /\ req[r] \in Request /\ Clean(req[r], stay, raced) /\ stay \in [Stays -> Row]
      /\ req \in [Requests -> Request] /\ req[r].on \subseteq Stays
      /\ req[r].rows \in [Stays -> Row]
  BY DEF TypeInv, RequestsOK, TablesOK, ApartInv, Request
<1>3. CASE End(r)
  BY <1>1, <1>3, EndApart
<1>4. CASE ~End(r)
  <2>1. PICK s \in Stays, d \in Accepted :
           /\ Fresh(s) /\ ~Rejected(r, s, d)
           /\ req' = [req EXCEPT ![r].rows[s] = d, ![r].on = @ \cup {s}, ![r].done = @ \cup {s}]
    <3>1. ASSUME NEW s \in Stays, NEW d \in Importable,
                 Fresh(s), IF Rejected(r, s, d) THEN End(r)
                           ELSE req' = [req EXCEPT ![r].rows[s] = d, ![r].on = @ \cup {s},
                                                   ![r].done = @ \cup {s}]
          PROVE  /\ ~Rejected(r, s, d)
                 /\ req' = [req EXCEPT ![r].rows[s] = d, ![r].on = @ \cup {s},
                                       ![r].done = @ \cup {s}]
      <4>1. ~Rejected(r, s, d)
        BY <1>4, <3>1
      <4> QED
        BY <3>1, <4>1, Zenon
    <3> QED
      BY <3>1, Zenon DEF ImportRow, Importable
  <2>2. PICK rows : rows = [req[r].rows EXCEPT ![s] = d]
    OBVIOUS
  <2>3. PICK q : q = [req[r] EXCEPT !.rows = rows, !.on = @ \cup {s}, !.done = @ \cup {s}]
    OBVIOUS
  <2>4. /\ q.pc = "next" /\ q.kind = "import" /\ q.rows = rows
        /\ q.on = req[r].on \cup {s} /\ q.done = req[r].done \cup {s}
    BY <1>1, <1>2, <2>3 DEF Request
  <2>5. rows[s] = d /\ \A t \in Stays \ {s} : rows[t] = req[r].rows[t]
    BY <1>2, <2>2
  <2>6. req' = [req EXCEPT ![r] = q]
    BY <1>2, <2>1, <2>2, <2>3
  <2>7. /\ ~Occupied(Seen(r), s, d) /\ d \in Row /\ s \notin req[r].on
        /\ req[r].on = req[r].done
    BY <1>1, <1>2, <2>1 DEF Rejected, Accepted, Fresh, Clean
  <2>8. Seen(r) \in [Stays -> Row]
    BY SeenTyped
  <2>9. ASSUME NEW t \in Stays \ {s}, Seen(r)[t].st = "live"
        PROVE  Apart(Seen(r)[t], d) /\ Apart(d, Seen(r)[t])
    BY <2>7, <2>8, <2>9, FreeIsApart
  <2>10. \A t \in req[r].on : Apart(req[r].rows[t], d) /\ Apart(d, req[r].rows[t])
    <3>1. \A t \in req[r].on : /\ t \in Stays \ {s} /\ Seen(r)[t] = req[r].rows[t]
                               /\ req[r].rows[t].st = "live"
      BY <1>1, <1>2, <2>7 DEF Seen, Clean
    <3> QED
      BY <2>9, <3>1
  <2>11. \A t, u \in q.on : t # u => Apart(q.rows[t], q.rows[u])
    BY <1>1, <1>2, <2>4, <2>5, <2>7, <2>10 DEF Clean
  <2>12. Cleared(req[r]) = req[r].on /\ Cleared(q) = req[r].on \cup {s}
    BY <1>1, <2>4 DEF Cleared
  <2>13. \A t \in Stays \ q.on : stay[t].st = "live" => Apart(stay[t], d)
    <3>1. \A t \in Stays \ q.on : t \in Stays \ {s} /\ Seen(r)[t] = stay[t]
      BY <2>4, <2>7 DEF Seen
    <3> QED
      BY <2>9, <3>1
  <2>14. FoundFree(q, stay, raced)
    BY <1>2, <2>4, <2>5, <2>7, <2>12, <2>13 DEF FoundFree, Clean
  <2>15. q.on = q.done /\ \A t \in q.on : q.rows[t].st = "live"
    BY <1>1, <1>2, <2>4, <2>5, <2>7 DEF Clean, Accepted
  <2>16. Clean(q, stay, raced)
    BY <2>4, <2>11, <2>14, <2>15 DEF Clean
  <2> QED
    BY <1>1, <2>6, <2>16, ApartMoves
<1> QED
  BY <1>3, <1>4

LEMMA ImportCommitApart ==
    ASSUME TypeInv, ApartInv, NEW r \in Requests, ImportCommit(r)
    PROVE  ApartInv'
<1>1. req[r].kind = "import" /\ stay' = Seen(r) /\ WritesLive(r) /\ End(r)
  BY DEF ImportCommit
<1>2. Clean(req[r], stay, raced)
  BY DEF ApartInv
<1>3. Cleared(req[r]) = req[r].done /\ req[r].on = req[r].done
  BY <1>1, <1>2 DEF Cleared, Clean
<1>4. \A s \in Stays : stay'[s] = IF s \in Cleared(req[r]) THEN req[r].rows[s] ELSE stay[s]
  BY <1>1, <1>3 DEF Seen
<1>5. \A s, t \in Cleared(req[r]) : s # t => Apart(req[r].rows[s], req[r].rows[t])
  BY <1>1, <1>2, <1>3 DEF Clean
<1> QED
  BY <1>1, <1>4, <1>5, IdleClean, ApartWrites DEF End

LEMMA ApartStep == TypeInv /\ ApartInv /\ [Next]_vars => ApartInv'
<1> SUFFICES ASSUME TypeInv, ApartInv, [Next]_vars PROVE ApartInv'
  OBVIOUS
<1>1. CASE Tick \/ UNCHANGED vars
  BY <1>1 DEF Tick, vars, ApartInv, Clean, FoundFree, Cleared
<1>2. ASSUME NEW r \in Requests,
             \/ StayBookedEvent(r) \/ StayCanceledEvent(r) \/ UpdatePropertySave(r) \/ Die(r)
      PROVE  ApartInv'
  BY <1>2, EndApart DEF StayBookedEvent, StayCanceledEvent, UpdatePropertySave, Die
<1>3. ASSUME NEW r \in Requests,
             \/ BookRead(r) \/ Policy(r) \/ BookInsert(r)
             \/ CancelFind(r) \/ UpdateFind(r) \/ EnsureOwnership(r)
             \/ SaveExists(r) \/ SaveWrite(r)
      PROVE  ApartInv'
  BY <1>3, BeginningsApart, PolicyApart, BookInsertApart, EnsureOwnershipApart,
     SaveExistsApart, SaveWriteApart
<1>4. ASSUME NEW r \in Requests,
             \/ DeleteRead(r) \/ ReleaseFutureOccupancy(r) \/ CancelNext(r)
             \/ CascadeCanceledEvent(r) \/ DeleteCommit(r)
             \/ ImportStart(r) \/ ImportRow(r) \/ ImportCommit(r) \/ UpdatePropertyRead(r)
      PROVE  ApartInv'
  BY <1>4, BeginningsApart, DeletionApart, ImportRowApart, ImportCommitApart
<1> QED
  BY <1>1, <1>2, <1>3, <1>4 DEF Next, Step

LEMMA ApartAlways == Spec => [](TypeInv /\ ApartInv)
<1>1. Init => TypeInv /\ ApartInv
  <2>1. Init => ApartInv
    BY IdleClean DEF Init, ApartInv, NoRow
  <2> QED
    BY <2>1, InitTyped
<1>2. TypeInv /\ ApartInv /\ [Next]_vars => (TypeInv /\ ApartInv)'
  BY TypeStep, ApartStep
<1> QED
  BY <1>1, <1>2, PTL DEF Spec

-----------------------------------------------------------------------------
(* The theorems.                                                           *)

(* Every variable keeps its type, whatever the number of requests: a row   *)
(* is only waiting in a transaction, what a deletion still has to cancel   *)
(* begins after the first day, and an event lost is that of a saved stay.  *)
THEOREM TypeCorrect == Spec => []TypeOK
<1>1. TypeInv /\ ApartInv /\ overlapped \in BOOLEAN => TypeOK
  BY DEF TypeInv, TablesOK, RequestsOK, HoldsRows, InTransaction, TypeOK, ApartInv
<1> QED
  BY <1>1, ApartAlways, FlagTyped, PTL

(* NoDoubleBooking, for any number of requests, stays and instants: two    *)
(* live stays have an instant in common only if one was written between    *)
(* the check and the write of the other. Bookings, updates and imports all *)
(* look for what is occupied before they write, the import among the rows  *)
(* of its own batch too, and nothing else makes a stay live.               *)
THEOREM DoubleBookingCorrect == Spec => []NoDoubleBooking
<1>1. TypeInv /\ ApartInv => NoDoubleBooking
  <2> SUFFICES ASSUME TypeInv, ApartInv, NEW i \in Times,
                      NEW s \in Listed(i, i), NEW t \in Listed(i, i), s # t
               PROVE  {s, t} \in raced
    BY DEF NoDoubleBooking
  <2>1. /\ stay[s].in \in Nat /\ stay[s].out \in Nat /\ stay[t].in \in Nat /\ stay[t].out \in Nat
        /\ i \in Nat
    BY BookingAssumption DEF TypeInv, TablesOK, Times, Row, Listed
  <2>2. ~Apart(stay[s], stay[t])
    BY <2>1 DEF Listed, Apart
  <2> QED
    BY <2>2 DEF Listed, ApartInv
<1> QED
  BY <1>1, ApartAlways, PTL

(* As long as no two requests have overlapped, no two live stays have an   *)
(* instant in common (postgres_booking_policy.ts:16-24).                   *)
THEOREM NoOverlapInTurn ==
    Spec => [](~overlapped => \A i \in Times : \A s, t \in Listed(i, i) : s = t)
<1>1. NoDoubleBooking /\ InTurn
         => (~overlapped => \A i \in Times : \A s, t \in Listed(i, i) : s = t)
  BY DEF NoDoubleBooking, InTurn
<1> QED
  BY <1>1, DoubleBookingCorrect, InTurnAlways, PTL

(* As long as no two requests have overlapped, a deleted property has no   *)
(* live stay that was not over: the cascade has them all on its list, as   *)
(* of the instant it scanned, and commits only when the list is empty.     *)
THEOREM DeletionCorrect == Spec => []DeletionIsTotal
<1>1. InTurn => DeletionIsTotal
  BY DEF InTurn, BookingInv, Emptied, DeletionIsTotal
<1> QED
  BY <1>1, InTurnAlways, PTL

(* As long as no two requests have overlapped, the ledger follows the      *)
(* stays: each has its revenue once and exactly the canceled ones their    *)
(* reversal, but for those whose event was lost between the save and its   *)
(* handler.                                                                *)
THEOREM LedgerCorrect == Spec => []LedgerInStep
<1>1. InTurn => LedgerInStep
  BY DEF InTurn, BookingInv, LedgerInv, LedgerInStep, Recorded, Reverted, Announces
<1> QED
  BY <1>1, InTurnAlways, PTL

-----------------------------------------------------------------------------
(* Days and wall clocks.                                                   *)

(* A clock that the owner's zone shows at some instant is shown at the     *)
(* instant atWallClock returns, around a change of the offset, forward or  *)
(* back, wherever it lies and on whichever side of UTC the zone is.        *)
THEOREM ClockIsKept ==
    ASSUME NEW at \in Int, NEW before \in Int, NEW after \in Int,
           NEW clock \in Int, NEW instant \in Int,
           ClockAt(Changing(at, before, after), instant) = clock
    PROVE  ClockAt(Changing(at, before, after),
                   AtWallClock(Changing(at, before, after), clock)) = clock
<1> DEFINE zone == Changing(at, before, after)
<1>1. \A i \in Int : zone[i] = IF i < at THEN before ELSE after
    BY DEF Changing
<1>2. clock - zone[clock] \in Int
    BY <1>1
<1>3. AtWallClock(zone, clock) \in Int
    BY <1>1, <1>2 DEF AtWallClock
<1>4. instant + zone[instant] = clock
    BY DEF ClockAt
<1>. HIDE DEF zone
<1>5. ClockAt(zone, AtWallClock(zone, clock)) = clock
    BY <1>1, <1>2, <1>3, <1>4 DEF ClockAt, AtWallClock
<1>. QED
    BY <1>5 DEF zone

(* A clock the zone never shows lies in the stretch it skips, and comes    *)
(* out one stretch earlier or one later: at midnight, possibly on the day  *)
(* before.                                                                 *)
THEOREM SkippedClockMoves ==
    ASSUME NEW at \in Int, NEW before \in Int, NEW after \in Int,
           NEW clock \in Int,
           \A i \in Int : ClockAt(Changing(at, before, after), i) # clock
    PROVE  /\ at + before <= clock /\ clock < at + after
           /\ ClockAt(Changing(at, before, after),
                      AtWallClock(Changing(at, before, after), clock))
                 \in {clock - (after - before), clock + (after - before)}
<1> DEFINE zone == Changing(at, before, after)
<1>1. \A i \in Int : zone[i] = IF i < at THEN before ELSE after
    BY DEF Changing
<1>2. \A i \in Int : i + zone[i] # clock
    BY DEF ClockAt
<1>. HIDE DEF zone
<1>3. ~(clock - before < at)
    <2>1. SUFFICES ASSUME clock - before < at PROVE FALSE
        OBVIOUS
    <2>2. zone[clock - before] = before
        BY <1>1, <2>1
    <2>. QED
        BY <1>2, <2>2
<1>4. clock - after < at
    <2>1. SUFFICES ASSUME ~(clock - after < at) PROVE FALSE
        OBVIOUS
    <2>2. zone[clock - after] = after
        BY <1>1, <2>1
    <2>. QED
        BY <1>2, <2>2
<1>5. ClockAt(zone, AtWallClock(zone, clock))
         \in {clock - (after - before), clock + (after - before)}
    <2>1. CASE clock < at
        <3>1. zone[clock] = before /\ zone[clock - before] = after
            BY <1>1, <1>3, <2>1
        <3>2. AtWallClock(zone, clock) = clock - after
            BY <3>1 DEF AtWallClock
        <3>3. zone[clock - after] = before
            BY <1>1, <1>4
        <3>. QED
            BY <3>2, <3>3 DEF ClockAt
    <2>2. CASE ~(clock < at)
        <3>1. zone[clock] = after /\ zone[clock - after] = before
            BY <1>1, <1>4, <2>2
        <3>2. AtWallClock(zone, clock) = clock - before
            BY <3>1 DEF AtWallClock
        <3>3. zone[clock - before] = after
            BY <1>1, <1>3
        <3>. QED
            BY <3>2, <3>3 DEF ClockAt
    <2>. QED
        BY <2>1, <2>2
<1>. QED
    BY <1>3, <1>4, <1>5 DEF zone

(* Clocks further apart than the zone ever moves its own stay in order.    *)
LEMMA LaterClockIsLater ==
    ASSUME NEW zone \in Zones, NEW least \in Int, NEW most \in Int,
           \A i \in Int : least <= zone[i] /\ zone[i] <= most,
           NEW clock \in Int, NEW later \in Int,
           later - clock > most - least
    PROVE  AtWallClock(zone, clock) < AtWallClock(zone, later)
<1>1. \A i \in Int : zone[i] \in Int
    BY DEF Zones
<1>2. zone[clock - zone[clock]] \in least .. most
    BY <1>1
<1>3. zone[later - zone[later]] \in least .. most
    BY <1>1
<1>. QED
    BY <1>2, <1>3 DEF AtWallClock

(* Whatever the settings of a property hold, the two times used are times  *)
(* of day.                                                                 *)
LEMMA CheckTimesAreTimes ==
    ASSUME NEW checkIn, NEW checkOut
    PROVE  /\ CheckTimesOf(checkIn, checkOut).in \in ClockTimes \cap Int
           /\ CheckTimesOf(checkIn, checkOut).out \in ClockTimes \cap Int
<1>1. DefaultCheckIn \in ClockTimes /\ DefaultCheckOut \in ClockTimes
    BY DEF DefaultCheckIn, DefaultCheckOut, ClockTimes, MinutesOfDay
<1>2. \A t \in ClockTimes : t \in Int
    BY DEF ClockTimes, MinutesOfDay
<1>3. \A value, fallback : fallback \in ClockTimes =>
         TimeOfSetting(value, fallback) \in ClockTimes
    BY DEF TimeOfSetting
<1>. QED
    BY <1>1, <1>2, <1>3 DEF CheckTimesOf

(* The schema compares the days only. Whatever times a property has set,   *)
(* an imported stay ends after it begins as long as the zone moves its     *)
(* clocks by less than what lies between check-out and the next check-in:  *)
(* Stay.create never refuses what isBefore accepted.                       *)
THEOREM ImportedStayIsOrdered ==
    ASSUME NEW zone \in Zones, NEW least \in Int, NEW most \in Int,
           \A i \in Int : least <= zone[i] /\ zone[i] <= most,
           NEW checkIn, NEW checkOut, NEW times, times = CheckTimesOf(checkIn, checkOut),
           most - least < MinutesOfDay + times.out - times.in,
           NEW in \in Int, NEW out \in Int, in < out
    PROVE  StayBetween(zone, times, in, out).in < StayBetween(zone, times, in, out).out
<1>1. times.in \in Int /\ times.out \in Int
    BY CheckTimesAreTimes
<1>2. Clock(in, times.in) \in Int /\ Clock(out, times.out) \in Int
    BY <1>1 DEF Clock, MinutesOfDay
<1>3. Clock(out, times.out) - Clock(in, times.in) > most - least
    BY <1>1 DEF Clock, MinutesOfDay
<1>4. AtWallClock(zone, Clock(in, times.in)) < AtWallClock(zone, Clock(out, times.out))
    BY <1>2, <1>3, LaterClockIsLater
<1>. QED
    BY <1>4 DEF StayBetween

(* A stay may begin on the day another ends, at any time of the year, when *)
(* the property's check-out is earlier than its check-in by more than the  *)
(* zone moves its clocks.                                                  *)
THEOREM SameDayTurnover ==
    ASSUME NEW zone \in Zones, NEW least \in Int, NEW most \in Int,
           \A i \in Int : least <= zone[i] /\ zone[i] <= most,
           NEW checkIn, NEW checkOut, NEW times, times = CheckTimesOf(checkIn, checkOut),
           most - least < times.in - times.out,
           NEW first \in Int, NEW day \in Int, NEW last \in Int
    PROVE  StayBetween(zone, times, first, day).out < StayBetween(zone, times, day, last).in
<1>1. times.in \in Int /\ times.out \in Int
    BY CheckTimesAreTimes
<1>2. Clock(day, times.out) \in Int /\ Clock(day, times.in) \in Int
    BY <1>1 DEF Clock, MinutesOfDay
<1>3. Clock(day, times.in) - Clock(day, times.out) > most - least
    BY <1>1 DEF Clock, MinutesOfDay
<1>4. AtWallClock(zone, Clock(day, times.out)) < AtWallClock(zone, Clock(day, times.in))
    BY <1>2, <1>3, LaterClockIsLater
<1>. QED
    BY <1>4 DEF StayBetween

(* monthlyRevenueForProperties counts an entry in two months only if it    *)
(* stands at the very instant the later one begins.                        *)
THEOREM MonthsMeetAtMidnight ==
    ASSUME NEW start, Months(start), NEW m \in Int, NEW n \in Int, m < n,
           NEW instant \in Int, InMonth(start, m, instant), InMonth(start, n, instant)
    PROVE  n = m + 1 /\ instant = start[n]
<1>1. start[m + 1] \in Int /\ start[n] \in Int
    BY DEF Months
<1>2. n = m + 1
    <2>1. SUFFICES ASSUME m + 1 < n PROVE FALSE
        OBVIOUS
    <2>2. start[m + 1] < start[n]
        BY <2>1 DEF Months
    <2>. QED
        BY <1>1, <2>2 DEF InMonth
<1>. QED
    BY <1>1, <1>2 DEF InMonth

(* It does: an entry imported for the first day of a month by an owner in  *)
(* the zone of the server is counted in that month and in the one before.  *)
THEOREM FirstDayCountsTwice ==
    ASSUME NEW start, Months(start), NEW m \in Int, NEW offset \in Int,
           NEW day \in Int, start[m] = Clock(day, Midnight) - offset
    PROVE  LET instant == EntryOn([i \in Int |-> offset], day)
           IN  InMonth(start, m, instant) /\ InMonth(start, m - 1, instant)
<1>1. EntryOn([i \in Int |-> offset], day) = start[m]
    BY DEF EntryOn, AtWallClock, Clock, Midnight, MinutesOfDay
<1>2. start[m] \in Int /\ start[m + 1] \in Int /\ start[m - 1] \in Int
    BY DEF Months
<1>3. start[m - 1] < start[m] /\ start[m] < start[m + 1]
    BY DEF Months
<1>. QED
    BY <1>1, <1>2, <1>3 DEF InMonth

=============================================================================
