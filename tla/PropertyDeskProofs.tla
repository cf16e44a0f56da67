------------------------ MODULE PropertyDeskProofs -------------------------
(***************************************************************************)
(* Proofs about PropertyDesk, for any number of properties, rows, keys and *)
(* requests in flight, any plans and any limit: the tables keep their      *)
(* indexes and keys, the owner stays within the plan and a property within *)
(* its settings, what is deleted stays so, and a reconciliation answers    *)
(* for what held all along.                                                *)
(***************************************************************************)
EXTENDS PropertyDesk, FiniteSetTheorems, TLAPS

-----------------------------------------------------------------------------
(* The inductive invariant, in parts.                                      *)

(* What a request carries, by its operation and the kind it is about.      *)
Shape(w) ==
    /\ w \in Task /\ IsFiniteSet(w.done)
    /\ w.pc = "idle" \/ w.op = "none" \/ w.on = "none" => w = Idle
    /\ w.done # {} => w.op = "import"
    /\ w.op = "import" => w.on \in {"property", "entry"}
    /\ w.op = "import" /\ w.on = "entry" => w.p \in Props
    /\ w.op \in {"update", "delete"} /\ w.on = "property"
         => w.p \in Props /\ w.pc = "write"
    /\ w.op \in {"update", "delete"} /\ w.on \in Kinds
         => w.r \in Rows /\ (w.op = "update" => w.text \in Texts)
    /\ w.op = "create" /\ w.on \in Kinds
         => /\ w.text \in Texts
            /\ IF w.on = "app" THEN w.p = None ELSE w.p \in Props
            /\ IF Typed(w.on) THEN w.key \in Keys ELSE w.key = None

(* The lock under which a request counts and inserts.                      *)
Locked(w) ==
    /\ w.on = "property" /\ (w.pc \in {"count", "insert"} \/ w.done # {})
         => w.lock = "owner"
    /\ w.op = "create" /\ w.on = "setting" /\ w.pc \in {"count", "insert"}
         => w.lock = w.p

(* What the tables still hold of what a request has read: its property and *)
(* its row exist, what it inserts is nobody else's, and what it is about   *)
(* to save was live, or has been deleted under it.                         *)
Stands(w) ==
    /\ w.p \in Props => prop[w.p] # "none"
    /\ w.r \in Rows => w.on \in Kinds /\ row[w.r].kind = w.on
    /\ \A x \in w.done : IF w.on = "property" THEN x \in Props /\ prop[x] = "none"
                         ELSE x \in Rows /\ row[x].st = "none"
    /\ w.op = "update" /\ w.pc = "write"
         => IF w.on = "property" THEN prop[w.p] = "live" \/ w.p \in late
            ELSE row[w.r].st = "live" \/ w.r \in late

(* Who holds a lock has counted what is still there.                       *)
Kept == Live \ late
Within(w) ==
    /\ w.quota <= highest
    /\ w.on = "property" /\ w.lock = "owner"
         => Cardinality(Kept) + Cardinality(w.done) <= highest
    /\ w.on = "property" /\ w.pc = "insert"
         => Cardinality(Kept) + Cardinality(w.done) < highest
    /\ w.op = "create" /\ w.on = "setting" /\ w.pc = "insert"
         => Cardinality(Active("setting", w.p)) < MaxSettings

RequestOK(w) == Shape(w) /\ Locked(w) /\ Stands(w) /\ Within(w)

RequestsOK ==
    /\ task \in [Tasks -> Task]
    /\ \A t \in Tasks : RequestOK(task[t])
    /\ \A t, u \in Tasks :
          t # u => /\ task[t].done \cap task[u].done = {}
                   /\ task[t].lock # "none" => task[t].lock # task[u].lock

RowOK(d) ==
    /\ d \in Row
    /\ d.st = "none" <=> d.kind = "none"
    /\ d.st = "none" => d = NoRow
    /\ d.kind = "source" => d.text \in Texts
    /\ d.of # None => prop[d.of] # "none"
    /\ d.st = "live" /\ Typed(d.kind) => d.type = TypeOf[d.text]
Unique(d, e) ==
    d.kind = e.kind /\ d.key # None /\ d.key = e.key
       => \/ d.kind = "setting" /\ (d.of # e.of \/ "deleted" \in {d.st, e.st})
          \/ d.kind \notin {"setting", "app"}
RowsOK ==
    /\ row \in [Rows -> Row]
    /\ \A r \in Rows : RowOK(row[r])
    /\ \A r, s \in Rows : r # s => Unique(row[r], row[s])

(* A deleted setting is redacted, but for one a late update wrote to.      *)
RedactedOK ==
    \A r \in Rows \ late :
       row[r].st = "deleted" /\ row[r].kind = "setting" => row[r].text = None

LimitsOK ==
    /\ IsFiniteSet(Live) /\ Cardinality(Kept) <= highest
    /\ \A p \in Props : /\ IsFiniteSet(Active("setting", p))
                        /\ Cardinality(Active("setting", p)) <= MaxSettings

PropsOK ==
    /\ prop \in [Props -> {"none", "live", "deleted"}]
    /\ late \subseteq Props \cup Rows

DeskInv == PropsOK /\ RowsOK /\ RedactedOK /\ LimitsOK /\ RequestsOK

CountersOK ==
    /\ quota \in Quotas /\ highest \in Quotas /\ quota <= highest
    /\ stays \in [Props -> SUBSET Texts] /\ recon \in Recon
    /\ left \in [Operations -> Nat] /\ failures \in 0 .. MaxFailures
    /\ watch \in [steady : SUBSET Bookings, booked : SUBSET Bookings,
                  silent : SUBSET Bookings]

(* While a reconciliation reads, what it must report is still to be read,  *)
(* in the feed it has read, or in its answer, and what it must not report  *)
(* is in none of the last two.                                             *)
ReconOK ==
    recon.pc = "reading" =>
       /\ \A b \in watch.steady :
             /\ b \in Reported /\ b[1] \in Live /\ b[2] \notin stays[b[1]]
             /\ \/ b[1] \in recon.todo \/ b \in recon.answer
                \/ b[1] \in recon.read /\ b \in recon.feed
       /\ \A b \in watch.booked : b[2] \in stays[b[1]] /\ b \notin recon.answer
       /\ \A b \in watch.silent : b \notin Reported \cup recon.feed \cup recon.answer

Inv == CountersOK /\ DeskInv /\ ReconOK /\ ReconcileAnswers

-----------------------------------------------------------------------------
(* Facts about the constants and the records.                              *)

LEMMA Constants ==
    /\ MaxSettings \in Nat /\ MaxFailures \in Nat /\ Quotas \subseteq Nat
    /\ \A x \in Texts : TypeOf[x] \in Types
    /\ Budgets \subseteq [Operations -> Nat]
    /\ None \notin Props /\ None \notin Rows /\ None \notin Keys /\ None \notin Texts
    /\ Props \cap Rows = {} /\ "none" \notin Props /\ "owner" \notin Props
BY DeskAssumption DEF Types

LEMMA IdleOK == highest \in Nat => RequestOK(Idle)
<1>. SUFFICES ASSUME highest \in Nat PROVE RequestOK(Idle)
    OBVIOUS
<1>1. Idle \in Task
    BY DEF Idle, Task
<1>2. Shape(Idle)
    BY <1>1, FS_EmptySet DEF Shape, Idle, Kinds
<1>3. Locked(Idle)
    BY DEF Locked, Idle
<1>4. Stands(Idle)
    BY Constants DEF Stands, Idle
<1>5. Within(Idle)
    BY DEF Within, Idle
<1>. QED
    BY <1>2, <1>3, <1>4, <1>5 DEF RequestOK

LEMMA NoRowOK == RowOK(NoRow)
BY DEF RowOK, NoRow, Row, Typed, Kinds

(* A step that leaves the tables as they are, and one request with what it *)
(* needs.                                                                  *)
LEMMA RequestMoves ==
    ASSUME DeskInv, UNCHANGED <<tables, highest>>,
           NEW t \in Tasks, NEW w, task' = [task EXCEPT ![t] = w], RequestOK(w),
           \A u \in Tasks \ {t} : /\ w.done \cap task[u].done = {}
                                  /\ w.lock # "none" => w.lock # task[u].lock
    PROVE  DeskInv'
<1>1. prop' = prop /\ row' = row /\ late' = late /\ highest' = highest
    BY DEF tables
<1>2. PropsOK' /\ RowsOK' /\ RedactedOK' /\ LimitsOK'
    BY <1>1 DEF DeskInv, PropsOK, RowsOK, RedactedOK, LimitsOK, Live, Active, Kept, RowOK
<1>4. task' \in [Tasks -> Task]
    BY DEF DeskInv, RequestsOK, RequestOK, Shape
<1>5. \A u \in Tasks : RequestOK(task'[u])
    BY DEF DeskInv, RequestsOK
<1>6. \A u \in Tasks : Stands(task[u])' /\ Within(task[u])'
    BY <1>1, <1>5 DEF RequestOK, Stands, Within, Kept, Live, Active
<1>7. \A u \in Tasks : RequestOK(task[u])'
    BY <1>5, <1>6 DEF RequestOK
<1>8. \A u, v \in Tasks :
         u # v => /\ task'[u].done \cap task'[v].done = {}
                  /\ task'[u].lock # "none" => task'[u].lock # task'[v].lock
    BY DEF DeskInv, RequestsOK
<1>. QED
    BY <1>2, <1>4, <1>7, <1>8 DEF DeskInv, RequestsOK

-----------------------------------------------------------------------------
(* Requests begin.                                                         *)

LEMMA Begins ==
    ASSUME DeskInv, NEW t \in Tasks, NEW op, NEW on, NEW pc, NEW fields,
           Begin(t, op, on, pc, fields), fields.done = {}, fields.lock = "none",
           fields \in Task, pc \in {"rows", "lock", "find", "insert", "write"},
           op \in {"create", "update", "delete", "import"},
           on \in Kinds \cup {"property"},
           RequestOK([fields EXCEPT !.op = op, !.on = on, !.pc = pc])
    PROVE  DeskInv'
<1> DEFINE w == [fields EXCEPT !.op = op, !.on = on, !.pc = pc]
<1>1. task' = [task EXCEPT ![t] = w] /\ UNCHANGED <<tables, highest>>
    BY DEF Begin, others
<1>2. w.done = {} /\ w.lock = "none"
    BY DEF Task
<1>. HIDE DEF w
<1>. QED
    BY <1>1, <1>2, RequestMoves DEF w

LEMMA PropertyBegins ==
    ASSUME DeskInv, CountersOK, NEW t \in Tasks,
           \/ CreateProperty(t) \/ ImportProperties(t)
           \/ UpdateProperty(t) \/ DeleteProperty(t)
    PROVE  DeskInv'
<1>1. quota \in Nat /\ quota <= highest /\ highest \in Nat
    BY Constants DEF CountersOK
<1>2. IsFiniteSet({})
    BY FS_EmptySet
<1>3. CASE CreateProperty(t)
    <2> DEFINE f == [Idle EXCEPT !.quota = quota]
               w == [f EXCEPT !.op = "create", !.on = "property", !.pc = "lock"]
    <2>1. f \in Task /\ f.done = {} /\ f.lock = "none" /\ w \in Task
        BY <1>1 DEF Idle, Task
    <2>2. RequestOK(w)
        BY <1>1, <1>2, <2>1, Constants
        DEF RequestOK, Shape, Locked, Stands, Within, Idle, Kinds
    <2>. QED
        BY <1>3, <2>1, <2>2, Begins DEF CreateProperty
<1>4. CASE ImportProperties(t)
    <2> DEFINE f == [Idle EXCEPT !.quota = quota]
               w == [f EXCEPT !.op = "import", !.on = "property", !.pc = "rows"]
    <2>1. f \in Task /\ f.done = {} /\ f.lock = "none" /\ w \in Task
        BY <1>1 DEF Idle, Task
    <2>2. RequestOK(w)
        BY <1>1, <1>2, <2>1, Constants
        DEF RequestOK, Shape, Locked, Stands, Within, Idle, Kinds
    <2>. QED
        BY <1>4, <2>1, <2>2, Begins DEF ImportProperties
<1>5. CASE UpdateProperty(t) \/ DeleteProperty(t)
    <2>1. PICK p \in Live, op \in {"update", "delete"} :
             Begin(t, op, "property", "write", [Idle EXCEPT !.p = p])
        BY <1>5 DEF UpdateProperty, DeleteProperty
    <2> DEFINE f == [Idle EXCEPT !.p = p]
               w == [f EXCEPT !.op = op, !.on = "property", !.pc = "write"]
    <2>2. p \in Props /\ prop[p] = "live"
        BY DEF Live
    <2>3. f \in Task /\ f.done = {} /\ f.lock = "none" /\ w \in Task
        BY <2>2 DEF Idle, Task
    <2>4. RequestOK(w)
        BY <1>1, <1>2, <2>2, <2>3, Constants
        DEF RequestOK, Shape, Locked, Stands, Within, Idle, Kinds
    <2>. QED
        BY <2>1, <2>3, <2>4, Begins
<1>. QED
    BY <1>3, <1>4, <1>5

LEMMA CreationBegins ==
    ASSUME DeskInv, CountersOK, NEW t \in Tasks,
           CreateSetting(t) \/ CreateApp(t) \/ CreateSource(t) \/ RecordEntry(t)
    PROVE  DeskInv'
<1>1. highest \in Nat /\ IsFiniteSet({})
    BY Constants, FS_EmptySet DEF CountersOK
<1>2. PICK on \in Kinds, pc \in {"find", "insert"}, p \in Live \cup {None},
           key \in Keys \cup {None}, text \in Texts :
           /\ Create(t, on, pc, p, key, text)
           /\ IF on = "app" THEN p = None ELSE p \in Live
           /\ IF Typed(on) THEN key \in Keys /\ pc = "find" ELSE key = None
    BY DEF CreateSetting, CreateApp, CreateSource, RecordEntry, Kinds, Typed
<1> DEFINE f == [Idle EXCEPT !.p = p, !.key = key, !.text = text]
           w == [f EXCEPT !.op = "create", !.on = on, !.pc = pc]
<1>3. p # None => p \in Props /\ prop[p] = "live"
    BY DEF Live
<1>4. p \in Props \cup {None}
    BY <1>3
<1>5. f \in Task /\ f.done = {} /\ f.lock = "none" /\ w \in Task
    BY <1>4 DEF Idle, Task
<1>6. Shape(w)
    BY <1>1, <1>2, <1>3, <1>5, Constants DEF Shape, Idle, Kinds, Live
<1>7. Locked(w) /\ Stands(w) /\ Within(w)
    BY <1>1, <1>2, <1>3, Constants DEF Locked, Stands, Within, Idle, Kinds, Typed
<1>8. RequestOK(w)
    BY <1>6, <1>7 DEF RequestOK
<1>. QED
    BY <1>2, <1>5, <1>8, Begins DEF Create

LEMMA RowRequestBegins ==
    ASSUME DeskInv, CountersOK, NEW t \in Tasks,
           \/ UpdateSetting(t) \/ UpdateApp(t) \/ UpdateSource(t)
           \/ DeleteSetting(t) \/ DeleteApp(t) \/ DeleteSource(t) \/ DeleteEntry(t)
    PROVE  DeskInv'
<1>1. highest \in Nat /\ IsFiniteSet({})
    BY Constants, FS_EmptySet DEF CountersOK
<1>2. ASSUME NEW r \in Rows
      PROVE  row[r].of \in Props \cup {None} /\ (row[r].of # None => prop[row[r].of] # "none")
    BY DEF DeskInv, RowsOK, RowOK, Row
<1>3. PICK on \in Kinds, op \in {"update", "delete"}, r \in Rows, f \in Task :
         /\ row[r].kind = on /\ f.p = row[r].of /\ f.r = r
         /\ op = "update" => f.text \in Texts
         /\ f.done = {} /\ f.lock = "none" /\ f.quota = 0
         /\ Begin(t, op, on, "find", f)
    <2>1. CASE UpdateSetting(t) \/ UpdateApp(t) \/ UpdateSource(t)
        <3>1. PICK on \in Kinds, r \in Rows, text \in Texts, retype \in BOOLEAN :
                 Patch(t, on, r, text, retype)
            BY <2>1 DEF UpdateSetting, UpdateApp, UpdateSource, Kinds
        <3>. DEFINE f == [Idle EXCEPT !.p = row[r].of, !.r = r, !.text = text,
                                      !.retype = retype]
        <3>2. /\ f \in Task /\ f.p = row[r].of /\ f.r = r /\ f.text = text
              /\ f.done = {} /\ f.lock = "none" /\ f.quota = 0
            BY <1>2 DEF Idle, Task
        <3>. QED
            BY <3>1, <3>2 DEF Patch
    <2>2. CASE DeleteSetting(t) \/ DeleteApp(t) \/ DeleteSource(t) \/ DeleteEntry(t)
        <3>1. PICK on \in Kinds, r \in Rows : Delete(t, on, r)
            BY <2>2 DEF DeleteSetting, DeleteApp, DeleteSource, DeleteEntry, Kinds
        <3>. DEFINE f == [Idle EXCEPT !.p = row[r].of, !.r = r]
        <3>2. /\ f \in Task /\ f.p = row[r].of /\ f.r = r
              /\ f.done = {} /\ f.lock = "none" /\ f.quota = 0
            BY <1>2 DEF Idle, Task
        <3>. QED
            BY <3>1, <3>2 DEF Delete
    <2>. QED
        BY <2>1, <2>2
<1> DEFINE w == [f EXCEPT !.op = op, !.on = on, !.pc = "find"]
<1>4. /\ w \in Task /\ w.p = row[r].of /\ w.r = r /\ w.text = f.text /\ w.done = {}
      /\ w.op = op /\ w.on = on /\ w.pc = "find" /\ w.lock = "none" /\ w.quota = 0
    BY <1>3 DEF Task
<1>. HIDE DEF w
<1>5. Shape(w)
    BY <1>1, <1>2, <1>3, <1>4, Constants DEF Shape, Kinds
<1>6. Locked(w) /\ Stands(w) /\ Within(w)
    BY <1>1, <1>2, <1>3, <1>4, Constants DEF Locked, Stands, Within, Kinds
<1>7. RequestOK(w)
    BY <1>5, <1>6 DEF RequestOK
<1>. QED
    BY <1>3, <1>7, Begins DEF w

LEMMA EntryImportBegins ==
    ASSUME DeskInv, CountersOK, NEW t \in Tasks, ImportEntries(t)
    PROVE  DeskInv'
<1>1. highest \in Nat /\ IsFiniteSet({})
    BY Constants, FS_EmptySet DEF CountersOK
<1>2. PICK p \in Live : Begin(t, "import", "entry", "rows", [Idle EXCEPT !.p = p])
    BY DEF ImportEntries
<1> DEFINE f == [Idle EXCEPT !.p = p]
           w == [f EXCEPT !.op = "import", !.on = "entry", !.pc = "rows"]
<1>3. p \in Props /\ prop[p] = "live"
    BY DEF Live
<1>4. f \in Task /\ f.done = {} /\ f.lock = "none" /\ w \in Task
    BY <1>3 DEF Idle, Task, Kinds
<1>5. RequestOK(w)
    BY <1>1, <1>3, <1>4, Constants DEF RequestOK, Shape, Locked, Stands, Within, Idle, Kinds
<1>. QED
    BY <1>2, <1>4, <1>5, Begins DEF Kinds

-----------------------------------------------------------------------------
(* Requests go on, or end, and the tables stay as they are.                *)

LEMMA Ends ==
    ASSUME DeskInv, CountersOK, UNCHANGED <<tables, highest>>, NEW t \in Tasks, End(t)
    PROVE  DeskInv'
<1>1. RequestOK(Idle) /\ Idle.done = {} /\ Idle.lock = "none"
    BY IdleOK, Constants DEF CountersOK, Idle
<1>. QED
    BY <1>1, RequestMoves DEF End

(* It keeps what it has read, what it has inserted and its lock.           *)
LEMMA GoesTo ==
    ASSUME DeskInv, UNCHANGED <<tables, highest>>, NEW t \in Tasks, NEW pc, GoTo(t, pc),
           RequestOK([task[t] EXCEPT !.pc = pc])
    PROVE  DeskInv'
<1> DEFINE w == [task[t] EXCEPT !.pc = pc]
<1>1. task[t] \in Task /\ task \in [Tasks -> Task]
    BY DEF DeskInv, RequestsOK
<1>2. task' = [task EXCEPT ![t] = w]
    BY <1>1 DEF GoTo
<1>3. w.done = task[t].done /\ w.lock = task[t].lock
    BY <1>1 DEF Task
<1>4. \A u \in Tasks \ {t} : /\ w.done \cap task[u].done = {}
                             /\ w.lock # "none" => w.lock # task[u].lock
    BY <1>3 DEF DeskInv, RequestsOK
<1>. HIDE DEF w
<1>. QED
    BY <1>2, <1>4, RequestMoves DEF w

LEMMA LockTaken ==
    ASSUME DeskInv, UNCHANGED <<tables, highest>>, NEW t \in Tasks, NEW l, Free(t, l),
           task' = [task EXCEPT ![t].lock = l, ![t].pc = "count"],
           RequestOK([task[t] EXCEPT !.lock = l, !.pc = "count"])
    PROVE  DeskInv'
<1> DEFINE w == [task[t] EXCEPT !.lock = l, !.pc = "count"]
<1>1. task[t] \in Task /\ task \in [Tasks -> Task]
    BY DEF DeskInv, RequestsOK
<1>2. task' = [task EXCEPT ![t] = w]
    BY <1>1
<1>3. w.done = task[t].done /\ w.lock = l
    BY <1>1 DEF Task
<1>4. \A u \in Tasks \ {t} : /\ w.done \cap task[u].done = {}
                             /\ w.lock # "none" => w.lock # task[u].lock
    BY <1>3 DEF DeskInv, RequestsOK, Free
<1>. HIDE DEF w
<1>. QED
    BY <1>2, <1>4, RequestMoves DEF w

(* A request counts what it has not yet committed as well.                 *)
LEMMA KeptCounted ==
    ASSUME DeskInv, CountersOK
    PROVE  /\ IsFiniteSet(Live) /\ IsFiniteSet(Kept) /\ highest \in Nat
           /\ Cardinality(Kept) \in Nat /\ Cardinality(Live) \in Nat
           /\ Cardinality(Kept) <= Cardinality(Live)
<1>1. IsFiniteSet(Live) /\ Kept \subseteq Live
    BY DEF DeskInv, LimitsOK, Kept
<1>. QED
    BY <1>1, Constants, FS_Subset, FS_CardinalityType DEF CountersOK

LEMMA AddingMoves ==
    ASSUME DeskInv, CountersOK, NEW t \in Tasks,
           \/ LockOwner(t) \/ EnsureWithinQuota(t) \/ ImportPropertyRow(t)
           \/ ImportReject(t)
    PROVE  DeskInv'
<1> DEFINE w == task[t]
<1>1. RequestOK(w) /\ w \in Task /\ IsFiniteSet(w.done)
    BY DEF DeskInv, RequestsOK, RequestOK, Shape
<1>2. Cardinality(w.done) \in Nat
    BY <1>1, FS_CardinalityType
<1>3. UNCHANGED <<tables, highest>>
    BY DEF LockOwner, EnsureWithinQuota, ImportPropertyRow, ImportReject, Adding, At, others
<1>4. CASE LockOwner(t)
    <2> DEFINE v == [w EXCEPT !.lock = "owner", !.pc = "count"]
    <2>1. w.op \in {"create", "import"} /\ w.on = "property" /\ w.pc = "lock"
        BY <1>4 DEF LockOwner, Adding, At
    <2>2. Cardinality(Kept) + Cardinality(w.done) <= highest
        <3>1. CASE w.done = {}
            BY <3>1, KeptCounted, FS_EmptySet DEF DeskInv, LimitsOK
        <3>2. CASE w.done # {}
            BY <1>1, <2>1, <3>2 DEF RequestOK, Locked, Within
        <3>. QED
            BY <3>1, <3>2
    <2>3. /\ v \in Task /\ v.op = w.op /\ v.on = w.on /\ v.p = w.p /\ v.r = w.r
          /\ v.done = w.done /\ v.quota = w.quota /\ v.lock = "owner" /\ v.pc = "count"
        BY <1>1 DEF Task
    <2>. HIDE DEF w, v
    <2>4. Shape(v) /\ Locked(v) /\ Stands(v) /\ Within(v)
        BY <1>1, <2>1, <2>2, <2>3 DEF RequestOK, Shape, Locked, Stands, Within, Kinds
    <2>. QED
        BY <1>3, <1>4, <2>4, LockTaken DEF LockOwner, RequestOK, w, v
<1>5. CASE EnsureWithinQuota(t) /\ ~End(t)
    <2> DEFINE v == [w EXCEPT !.pc = "insert"]
    <2>1. w.op \in {"create", "import"} /\ w.on = "property" /\ w.pc = "count"
        BY <1>5 DEF EnsureWithinQuota, Adding, At
    <2>2. GoTo(t, "insert") /\ ~(Cardinality(Live) + Cardinality(w.done) >= w.quota)
        BY <1>5 DEF EnsureWithinQuota, CountFromUser
    <2>3. w.quota \in Nat /\ w.quota <= highest
        BY <1>1 DEF RequestOK, Within, Task
    <2>4. Cardinality(Kept) + Cardinality(w.done) < highest
        BY <1>2, <2>2, <2>3, KeptCounted
    <2>5. /\ v \in Task /\ v.op = w.op /\ v.on = w.on /\ v.p = w.p /\ v.r = w.r
          /\ v.done = w.done /\ v.quota = w.quota /\ v.lock = w.lock /\ v.pc = "insert"
        BY <1>1 DEF Task
    <2>. HIDE DEF w, v
    <2>6. Shape(v) /\ Locked(v) /\ Stands(v) /\ Within(v)
        BY <1>1, <2>1, <2>4, <2>5 DEF RequestOK, Shape, Locked, Stands, Within, Kinds
    <2>. QED
        BY <1>3, <2>2, <2>6, GoesTo DEF RequestOK, w, v
<1>6. CASE ImportPropertyRow(t)
    <2> DEFINE v == [w EXCEPT !.pc = "lock"]
    <2>1. w.op = "import" /\ w.on = "property" /\ w.pc = "rows" /\ GoTo(t, "lock")
        BY <1>6 DEF ImportPropertyRow, At
    <2>2. /\ v \in Task /\ v.op = w.op /\ v.on = w.on /\ v.p = w.p /\ v.r = w.r
          /\ v.done = w.done /\ v.quota = w.quota /\ v.lock = w.lock /\ v.pc = "lock"
        BY <1>1 DEF Task
    <2>. HIDE DEF w, v
    <2>3. Shape(v) /\ Locked(v) /\ Stands(v) /\ Within(v)
        BY <1>1, <2>1, <2>2 DEF RequestOK, Shape, Locked, Stands, Within, Kinds
    <2>. QED
        BY <1>3, <2>1, <2>3, GoesTo DEF RequestOK, w, v
<1>. QED
    BY <1>3, <1>4, <1>5, <1>6, Ends DEF ImportReject

LEMMA CreationMoves ==
    ASSUME DeskInv, CountersOK, NEW t \in Tasks,
           \/ FindByKey(t) \/ LockProperty(t) \/ CountActiveSettings(t)
           \/ Conflict(t) \/ Die(t)
    PROVE  DeskInv'
<1> DEFINE w == task[t]
<1>1. RequestOK(w) /\ w \in Task /\ Shape(w)
    BY DEF DeskInv, RequestsOK, RequestOK, Shape
<1>2. UNCHANGED <<tables, highest>>
    BY DEF FindByKey, LockProperty, CountActiveSettings, Conflict, Die, At, others
<1>3. CASE FindByKey(t) /\ ~End(t)
    <2>1. PICK pc \in {"lock", "insert"} :
             /\ w.op = "create" /\ w.on \in {"setting", "app"} /\ w.pc = "find"
             /\ GoTo(t, pc) /\ (w.on = "setting" <=> pc = "lock")
        BY <1>3 DEF FindByKey, At
    <2> DEFINE v == [w EXCEPT !.pc = pc]
    <2>2. /\ v \in Task /\ v.op = w.op /\ v.on = w.on /\ v.p = w.p /\ v.r = w.r
          /\ v.text = w.text /\ v.key = w.key
          /\ v.done = w.done /\ v.quota = w.quota /\ v.lock = w.lock /\ v.pc = pc
        BY <1>1 DEF Task
    <2>. HIDE DEF w, v
    <2>3. Shape(v) /\ Locked(v) /\ Stands(v) /\ Within(v)
        BY <1>1, <2>1, <2>2 DEF RequestOK, Shape, Locked, Stands, Within, Kinds
    <2>. QED
        BY <1>2, <2>1, <2>3, GoesTo DEF RequestOK, w, v
<1>4. CASE LockProperty(t)
    <2> DEFINE v == [w EXCEPT !.lock = w.p, !.pc = "count"]
    <2>1. w.op = "create" /\ w.on = "setting" /\ w.pc = "lock"
        BY <1>4 DEF LockProperty, At
    <2>2. w.p \in Props
        BY <1>1, <2>1 DEF Shape, Kinds
    <2>3. /\ v \in Task /\ v.op = w.op /\ v.on = w.on /\ v.p = w.p /\ v.r = w.r
          /\ v.text = w.text /\ v.key = w.key
          /\ v.done = w.done /\ v.quota = w.quota /\ v.lock = w.p /\ v.pc = "count"
        BY <1>1, <2>2 DEF Task
    <2>. HIDE DEF w, v
    <2>4. Shape(v) /\ Locked(v) /\ Stands(v) /\ Within(v)
        BY <1>1, <2>1, <2>3 DEF RequestOK, Shape, Locked, Stands, Within, Kinds
    <2>. QED
        BY <1>2, <1>4, <2>4, LockTaken DEF LockProperty, RequestOK, w, v
<1>5. CASE CountActiveSettings(t) /\ ~End(t)
    <2>1. /\ w.op = "create" /\ w.on = "setting" /\ w.pc = "count" /\ GoTo(t, "insert")
          /\ ~(Cardinality(Active("setting", w.p)) >= MaxSettings)
        BY <1>5 DEF CountActiveSettings, At
    <2>2. w.p \in Props
        BY <1>1, <2>1 DEF Shape, Kinds
    <2>3. Cardinality(Active("setting", w.p)) < MaxSettings
        BY <2>1, <2>2, Constants, FS_CardinalityType DEF DeskInv, LimitsOK
    <2> DEFINE v == [w EXCEPT !.pc = "insert"]
    <2>4. /\ v \in Task /\ v.op = w.op /\ v.on = w.on /\ v.p = w.p /\ v.r = w.r
          /\ v.text = w.text /\ v.key = w.key
          /\ v.done = w.done /\ v.quota = w.quota /\ v.lock = w.lock /\ v.pc = "insert"
        BY <1>1 DEF Task
    <2>. HIDE DEF w, v
    <2>5. Shape(v) /\ Locked(v) /\ Stands(v) /\ Within(v)
        BY <1>1, <2>1, <2>3, <2>4 DEF RequestOK, Shape, Locked, Stands, Within, Kinds
    <2>. QED
        BY <1>2, <2>1, <2>5, GoesTo DEF RequestOK, w, v
<1>. QED
    BY <1>2, <1>3, <1>4, <1>5, Ends DEF Conflict, Die

LEMMA FindByIdMoves ==
    ASSUME DeskInv, CountersOK, NEW t \in Tasks, FindById(t)
    PROVE  DeskInv'
<1> DEFINE w == task[t]
           v == [w EXCEPT !.pc = "write"]
<1>1. RequestOK(w) /\ w \in Task /\ Shape(w)
    BY DEF DeskInv, RequestsOK, RequestOK, Shape
<1>2. UNCHANGED <<tables, highest>>
    BY DEF FindById, At, others
<1>3. CASE ~End(t)
    <2>1. /\ w.op \in {"update", "delete"} /\ w.on \in Kinds /\ w.pc = "find"
          /\ GoTo(t, "write") /\ Found(w.r)
        BY <1>3 DEF FindById, At
    <2>2. /\ v \in Task /\ v.op = w.op /\ v.on = w.on /\ v.p = w.p /\ v.r = w.r
          /\ v.text = w.text /\ v.key = w.key
          /\ v.done = w.done /\ v.quota = w.quota /\ v.lock = w.lock /\ v.pc = "write"
        BY <1>1 DEF Task
    <2>. HIDE DEF w, v
    <2>3. Shape(v) /\ Locked(v) /\ Stands(v) /\ Within(v)
        BY <1>1, <2>1, <2>2 DEF RequestOK, Shape, Locked, Stands, Within, Kinds, Found
    <2>. QED
        BY <1>2, <2>1, <2>3, GoesTo DEF RequestOK, w, v
<1>. QED
    BY <1>2, <1>3, Ends

(* An identifier nobody has used.                                          *)
LEMMA NewOnes ==
    /\ NewProps # {} => /\ NewProp \in Props /\ prop[NewProp] = "none"
                        /\ \A u \in Tasks : NewProp \notin task[u].done
    /\ NewRows # {} => /\ NewRow \in Rows /\ row[NewRow].st = "none"
                       /\ \A u \in Tasks : NewRow \notin task[u].done
<1>1. NewProps # {} => NewProp \in NewProps
    BY DEF NewProp
<1>2. NewRows # {} => NewRow \in NewRows
    BY DEF NewRow
<1>. QED
    BY <1>1, <1>2 DEF NewProps, NewRows, Pending

(* An import keeps what it has inserted to itself.                         *)
LEMMA ImportInserts ==
    ASSUME DeskInv, CountersOK, NEW t \in Tasks,
           \/ ImportEntryRow(t)
           \/ InsertProperty(t) /\ task[t].op = "import"
    PROVE  DeskInv'
<1> DEFINE w == task[t]
<1>1. RequestOK(w) /\ w \in Task /\ Shape(w) /\ IsFiniteSet(w.done)
    BY DEF DeskInv, RequestsOK, RequestOK, Shape
<1>2. task \in [Tasks -> Task]
    BY DEF DeskInv, RequestsOK
<1>3. UNCHANGED <<tables, highest>>
    BY DEF ImportEntryRow, InsertProperty, Adding, At, others, tables
<1>4. PICK x \in Props \cup Rows :
         /\ w.op = "import" /\ w.on \in {"property", "entry"}
         /\ IF w.on = "property" THEN x \in Props /\ prop[x] = "none" /\ w.pc = "insert"
            ELSE x \in Rows /\ row[x].st = "none"
         /\ \A u \in Tasks : x \notin task[u].done
         /\ task' = [task EXCEPT ![t] = [w EXCEPT !.done = @ \cup {x}, !.pc = "rows"]]
    <2>1. CASE ImportEntryRow(t)
        <3>1. /\ w.op = "import" /\ w.on = "entry" /\ w.pc = "rows" /\ NewRows # {}
              /\ task' = [task EXCEPT ![t].done = @ \cup {NewRow}]
            BY <2>1 DEF ImportEntryRow, At
        <3>2. [w EXCEPT !.done = @ \cup {NewRow}]
                 = [w EXCEPT !.done = @ \cup {NewRow}, !.pc = "rows"]
            BY <1>1, <3>1 DEF Task
        <3>3. task' = [task EXCEPT ![t] = [w EXCEPT !.done = @ \cup {NewRow}, !.pc = "rows"]]
            BY <1>2, <3>1, <3>2
        <3>. QED
            BY <3>1, <3>3, NewOnes
    <2>2. CASE InsertProperty(t) /\ task[t].op = "import"
        <3>1. /\ w.op = "import" /\ w.on = "property" /\ w.pc = "insert" /\ NewProps # {}
              /\ task' = [task EXCEPT ![t].done = @ \cup {NewProp}, ![t].pc = "rows"]
            BY <2>2 DEF InsertProperty, Adding, At
        <3>2. task' = [task EXCEPT ![t] = [w EXCEPT !.done = @ \cup {NewProp}, !.pc = "rows"]]
            BY <1>2, <3>1
        <3>. QED
            BY <3>1, <3>2, NewOnes
    <2>. QED
        BY <2>1, <2>2
<1> DEFINE v == [w EXCEPT !.done = @ \cup {x}, !.pc = "rows"]
<1>5. IsFiniteSet(w.done \cup {x}) /\ Cardinality(w.done) \in Nat
      /\ Cardinality(w.done \cup {x}) \in Nat
      /\ Cardinality(w.done \cup {x}) <= Cardinality(w.done) + 1
    BY <1>1, FS_AddElement, FS_CardinalityType
<1>6. /\ v \in Task /\ v.op = w.op /\ v.on = w.on /\ v.p = w.p /\ v.r = w.r
      /\ v.text = w.text /\ v.key = w.key
      /\ v.done = w.done \cup {x} /\ v.quota = w.quota /\ v.lock = w.lock /\ v.pc = "rows"
    BY <1>1, <1>4 DEF Task
<1>7. \A u \in Tasks \ {t} : /\ v.done \cap task[u].done = {}
                             /\ v.lock # "none" => v.lock # task[u].lock
    BY <1>4, <1>6 DEF DeskInv, RequestsOK
<1>. HIDE DEF w, v
<1>8. Shape(v) /\ Locked(v) /\ Stands(v)
    BY <1>1, <1>4, <1>5, <1>6 DEF RequestOK, Shape, Locked, Stands, Kinds
<1>9. Within(v)
    BY <1>1, <1>4, <1>5, <1>6, KeptCounted DEF RequestOK, Within
<1>. QED
    BY <1>3, <1>4, <1>7, <1>8, <1>9, RequestMoves DEF RequestOK, v

-----------------------------------------------------------------------------
(* A request writes to the tables and ends: what the others rely on.       *)

LEMMA Writes ==
    ASSUME DeskInv, CountersOK, highest' = highest, NEW t \in Tasks, End(t),
           PropsOK', RowsOK', RedactedOK', LimitsOK',
           \A p \in Props : prop[p] # "none" => prop'[p] # "none",
           \A r \in Rows : row[r].kind \in Kinds => row'[r].kind = row[r].kind,
           \A u \in Tasks \ {t} : \A x \in task[u].done :
              IF task[u].on = "property" THEN prop'[x] = "none" ELSE row'[x].st = "none",
           \A u \in Tasks \ {t} : task[u].op = "update" /\ task[u].pc = "write"
              => IF task[u].on = "property"
                 THEN prop'[task[u].p] = "live" \/ task[u].p \in late'
                 ELSE row'[task[u].r].st = "live" \/ task[u].r \in late',
           \/ Cardinality(Kept') <= Cardinality(Kept)
           \/ \A u \in Tasks \ {t} : task[u].lock # "owner",
           \A u \in Tasks \ {t} :
              task[u].op = "create" /\ task[u].on = "setting" /\ task[u].pc = "insert"
              => Cardinality(Active("setting", task[u].p)') < MaxSettings
    PROVE  DeskInv'
<1>1. task \in [Tasks -> Task] /\ task' = [task EXCEPT ![t] = Idle]
    BY DEF DeskInv, RequestsOK, End
<1>2. task' \in [Tasks -> Task]
    BY <1>1, IdleOK, Constants DEF CountersOK, RequestOK, Shape
<1>3. ASSUME NEW u \in Tasks, u # t PROVE RequestOK(task[u])'
    <2> DEFINE w == task[u]
    <2>1. task'[u] = w /\ RequestOK(w) /\ w \in Task
        BY <1>1, <1>3 DEF DeskInv, RequestsOK
    <2>2. Shape(task[u])' /\ Locked(task[u])'
        BY <2>1 DEF RequestOK, Shape, Locked
    <2>3. Stands(task[u])'
        BY <1>3, <2>1 DEF RequestOK, Stands
    <2>4. Within(task[u])'
        <3>1. w.on = "property" /\ w.pc = "insert" => w.lock = "owner"
            BY <2>1 DEF RequestOK, Locked
        <3>2. w.lock = "owner" => Cardinality(Kept') <= Cardinality(Kept)
            BY <1>3
        <3>3. Cardinality(Kept') \in Nat /\ Cardinality(Kept) \in Nat
            <4>1. IsFiniteSet(Live') /\ Kept' \subseteq Live'
                BY DEF LimitsOK, Kept
            <4>. QED
                BY <4>1, FS_Subset, FS_CardinalityType, KeptCounted
        <3>4. Cardinality(w.done) \in Nat /\ highest \in Nat
            BY <2>1, FS_CardinalityType, KeptCounted DEF RequestOK, Shape
        <3>. HIDE DEF w
        <3>5. /\ w.quota <= highest
              /\ w.on = "property" /\ w.lock = "owner"
                   => Cardinality(Kept') + Cardinality(w.done) <= highest
              /\ w.on = "property" /\ w.pc = "insert"
                   => Cardinality(Kept') + Cardinality(w.done) < highest
            BY <2>1, <3>1, <3>2, <3>3, <3>4 DEF RequestOK, Within
        <3>6. task'[u].op = "create" /\ task'[u].on = "setting" /\ task'[u].pc = "insert"
                => Cardinality(Active("setting", task[u].p)') < MaxSettings
            BY <1>3, <2>1 DEF w
        <3>7. /\ task'[u].quota <= highest'
              /\ task'[u].on = "property" /\ task'[u].lock = "owner"
                   => Cardinality(Kept') + Cardinality(task'[u].done) <= highest'
              /\ task'[u].on = "property" /\ task'[u].pc = "insert"
                   => Cardinality(Kept') + Cardinality(task'[u].done) < highest'
            BY <2>1, <3>5
        <3>. QED
            BY <3>6, <3>7 DEF Within
    <2>. QED
        BY <2>2, <2>3, <2>4 DEF RequestOK
<1>4. RequestOK(task[t])'
    <2>1. task'[t] = Idle /\ highest' \in Nat
        BY <1>1, KeptCounted
    <2>2. Idle \in Task /\ IsFiniteSet({})
        BY <2>1, IdleOK, FS_EmptySet DEF RequestOK, Shape
    <2>. QED
        BY <2>1, <2>2, Constants
        DEF RequestOK, Shape, Locked, Stands, Within, Idle, Kinds
<1>5. \A u, v \in Tasks :
         u # v => /\ task'[u].done \cap task'[v].done = {}
                  /\ task'[u].lock # "none" => task'[u].lock # task'[v].lock
    BY <1>1 DEF DeskInv, RequestsOK, Idle
<1>. QED
    BY <1>2, <1>3, <1>4, <1>5 DEF DeskInv, RequestsOK

(* What the rows and the counts of settings say when only properties and   *)
(* late change.                                                            *)
LEMMA RowsRest ==
    ASSUME DeskInv, CountersOK, row' = row, highest' = highest, late \subseteq late',
           \A p \in Props : prop[p] # "none" => prop'[p] # "none",
           IsFiniteSet(Live'), Cardinality(Kept') <= highest
    PROVE  RowsOK' /\ RedactedOK' /\ LimitsOK'
<1>1. RowsOK'
    <2>1. \A r \in Rows : RowOK(row[r])'
        BY DEF DeskInv, RowsOK, RowOK, Row
    <2>. QED
        BY <2>1 DEF DeskInv, RowsOK
<1>2. \A p \in Props : Active("setting", p)' = Active("setting", p)
    BY DEF Active
<1>. QED
    BY <1>1, <1>2 DEF DeskInv, RedactedOK, LimitsOK

LEMMA InsertPropertyKeeps ==
    ASSUME DeskInv, CountersOK, NEW t \in Tasks, InsertProperty(t)
    PROVE  DeskInv'
<1>1. CASE task[t].op = "import"
    BY <1>1, ImportInserts
<1>2. CASE task[t].op # "import"
    <2> DEFINE x == NewProp
               w == task[t]
    <2>1. /\ w.op = "create" /\ w.on = "property" /\ w.pc = "insert" /\ End(t)
          /\ prop' = [prop EXCEPT ![x] = "live"] /\ UNCHANGED <<row, late, highest>>
          /\ NewProps # {}
        BY <1>2 DEF InsertProperty, Adding, At, others
    <2>2. x \in Props /\ prop[x] = "none" /\ \A u \in Tasks : x \notin task[u].done
        BY <2>1, NewOnes
    <2>. HIDE DEF x
    <2>3. RequestOK(w) /\ w.done = {} /\ w.lock = "owner"
        BY <2>1 DEF DeskInv, RequestsOK, RequestOK, Shape, Locked
    <2>4. Cardinality(Kept) < highest
        BY <2>1, <2>3, FS_EmptySet, KeptCounted DEF RequestOK, Within
    <2>5. PropsOK'
        BY <2>1, <2>2 DEF DeskInv, PropsOK
    <2>6. Live' = Live \cup {x} /\ Kept' \subseteq Kept \cup {x}
        BY <2>1, <2>2 DEF DeskInv, PropsOK, Live, Kept
    <2>7. IsFiniteSet(Live') /\ IsFiniteSet(Kept \cup {x})
          /\ Cardinality(Kept \cup {x}) <= Cardinality(Kept) + 1
        <3>1. IsFiniteSet(Live) /\ IsFiniteSet(Kept) /\ Cardinality(Kept) \in Nat
            BY KeptCounted
        <3>2. IsFiniteSet(Live \cup {x})
            BY <3>1, FS_AddElement
        <3>3. IsFiniteSet(Kept \cup {x})
              /\ Cardinality(Kept \cup {x}) <= Cardinality(Kept) + 1
            BY <3>1, FS_AddElement
        <3>. QED
            BY <2>6, <3>2, <3>3
    <2>8. Cardinality(Kept') <= highest
        BY <2>4, <2>6, <2>7, KeptCounted, FS_Subset, FS_CardinalityType
    <2>9. \A p \in Props : p # x => prop'[p] = prop[p]
        BY <2>1, <2>2 DEF DeskInv, PropsOK
    <2>10. \A p \in Props : prop[p] # "none" => prop'[p] # "none"
        BY <2>2, <2>9
    <2>11. RowsOK' /\ RedactedOK' /\ LimitsOK'
        BY <2>1, <2>7, <2>8, <2>10, RowsRest
    <2>12. \A u \in Tasks \ {t} : task[u].lock # "owner"
        BY <2>3 DEF DeskInv, RequestsOK
    <2>13. ASSUME NEW u \in Tasks \ {t}
           PROVE  /\ \A y \in task[u].done : IF task[u].on = "property" THEN prop'[y] = "none"
                                             ELSE row'[y].st = "none"
                  /\ task[u].op = "update" /\ task[u].pc = "write"
                       => IF task[u].on = "property"
                          THEN prop'[task[u].p] = "live" \/ task[u].p \in late'
                          ELSE row'[task[u].r].st = "live" \/ task[u].r \in late'
                  /\ task[u].op = "create" /\ task[u].on = "setting" /\ task[u].pc = "insert"
                       => Cardinality(Active("setting", task[u].p)') < MaxSettings
        <3>1. RequestOK(task[u]) /\ task'[u] = task[u]
            BY <2>1 DEF DeskInv, RequestsOK, End
        <3>2. Active("setting", task[u].p)' = Active("setting", task[u].p)
            BY <2>1, <3>1 DEF Active
        <3>. QED
            BY <2>1, <2>2, <2>9, <3>1, <3>2 DEF RequestOK, Shape, Stands, Within
    <2>. QED
        BY <2>1, <2>5, <2>10, <2>11, <2>12, <2>13, Writes
<1>. QED
    BY <1>1, <1>2

LEMMA ImportPropertiesCommitKeeps ==
    ASSUME DeskInv, CountersOK, NEW t \in Tasks, ImportPropertiesCommit(t)
    PROVE  DeskInv'
<1> DEFINE w == task[t]
           done == w.done
<1>1. /\ w.op = "import" /\ w.on = "property" /\ w.pc = "rows" /\ done # {} /\ End(t)
      /\ prop' = [p \in Props |-> IF p \in done THEN "live" ELSE prop[p]]
      /\ UNCHANGED <<row, late, highest>>
    BY DEF ImportPropertiesCommit, At, others
<1>2. RequestOK(w) /\ w.lock = "owner" /\ IsFiniteSet(done)
    BY <1>1 DEF DeskInv, RequestsOK, RequestOK, Shape, Locked
<1>3. \A p \in done : p \in Props /\ prop[p] = "none"
    BY <1>1, <1>2 DEF RequestOK, Stands
<1>. HIDE DEF done
<1>4. Cardinality(Kept) + Cardinality(done) <= highest /\ Cardinality(done) \in Nat
    BY <1>1, <1>2, FS_CardinalityType DEF RequestOK, Within, done
<1>5. PropsOK'
    BY <1>1 DEF DeskInv, PropsOK
<1>6. Live' = Live \cup done /\ Kept' \subseteq Kept \cup done
    BY <1>1, <1>3 DEF DeskInv, PropsOK, Live, Kept
<1>7. IsFiniteSet(Live') /\ IsFiniteSet(Kept \cup done)
      /\ Cardinality(Kept \cup done) <= Cardinality(Kept) + Cardinality(done)
    <2>1. IsFiniteSet(Kept \cap done) /\ Cardinality(Kept \cap done) \in Nat
        BY <1>2, FS_Subset, FS_CardinalityType, KeptCounted DEF done
    <2>2. IsFiniteSet(Live) /\ IsFiniteSet(Kept) /\ Cardinality(Kept) \in Nat
          /\ IsFiniteSet(done)
        BY <1>2, KeptCounted DEF done
    <2>3. IsFiniteSet(Live \cup done)
        BY <2>2, FS_Union
    <2>4. IsFiniteSet(Kept \cup done)
          /\ Cardinality(Kept \cup done)
               = Cardinality(Kept) + Cardinality(done) - Cardinality(Kept \cap done)
        BY <2>2, FS_Union
    <2>. QED
        BY <1>4, <1>6, <2>1, <2>2, <2>3, <2>4
<1>8. Cardinality(Kept') <= highest
    BY <1>4, <1>6, <1>7, KeptCounted, FS_Subset, FS_CardinalityType
<1>9. \A p \in Props \ done : prop'[p] = prop[p]
    BY <1>1
<1>10. \A p \in Props : prop[p] # "none" => prop'[p] # "none"
    BY <1>3, <1>9
<1>11. RowsOK' /\ RedactedOK' /\ LimitsOK'
    BY <1>1, <1>7, <1>8, <1>10, RowsRest
<1>12. \A u \in Tasks \ {t} : task[u].lock # "owner" /\ task[u].done \cap done = {}
    BY <1>2 DEF DeskInv, RequestsOK, done
<1>13. ASSUME NEW u \in Tasks \ {t}
       PROVE  /\ \A y \in task[u].done : IF task[u].on = "property" THEN prop'[y] = "none"
                                         ELSE row'[y].st = "none"
              /\ task[u].op = "update" /\ task[u].pc = "write"
                   => IF task[u].on = "property"
                      THEN prop'[task[u].p] = "live" \/ task[u].p \in late'
                      ELSE row'[task[u].r].st = "live" \/ task[u].r \in late'
              /\ task[u].op = "create" /\ task[u].on = "setting" /\ task[u].pc = "insert"
                   => Cardinality(Active("setting", task[u].p)') < MaxSettings
    <2>1. RequestOK(task[u]) /\ task'[u] = task[u]
        BY <1>1 DEF DeskInv, RequestsOK, End
    <2>2. Active("setting", task[u].p)' = Active("setting", task[u].p)
        BY <1>1, <2>1 DEF Active
    <2>. QED
        BY <1>1, <1>3, <1>9, <1>12, <2>1, <2>2 DEF RequestOK, Shape, Stands, Within
<1>. QED
    BY <1>1, <1>5, <1>10, <1>11, <1>12, <1>13, Writes

(* A save writes deleted_at as the request has read it: only a late update *)
(* brings a property back, and that one is in late.                        *)
LEMMA SavePropertyKeeps ==
    ASSUME DeskInv, CountersOK, NEW t \in Tasks, SaveProperty(t)
    PROVE  DeskInv'
<1> DEFINE w == task[t]
           p == w.p
<1>1. /\ w.op \in {"update", "delete"} /\ w.on = "property" /\ w.pc = "write" /\ End(t)
      /\ UNCHANGED <<row, highest>>
    BY DEF SaveProperty, At, others
<1>2. RequestOK(w) /\ p \in Props /\ prop[p] # "none"
    BY <1>1 DEF DeskInv, RequestsOK, RequestOK, Shape, Stands
<1>3. PICK status \in {"live", "deleted"} :
         /\ prop' = [prop EXCEPT ![p] = status]
         /\ status = "live" => (prop[p] = "live" \/ p \in late) /\ late' = late
         /\ status = "deleted" => late' = IF Overtaken(p) THEN late \cup {p} ELSE late
    BY <1>1, <1>2 DEF SaveProperty, At, RequestOK, Stands
<1>. HIDE DEF w, p
<1>4. prop \in [Props -> {"none", "live", "deleted"}] /\ late \subseteq Props \cup Rows
    BY DEF DeskInv, PropsOK
<1>5. late \subseteq late' /\ late' \subseteq Props \cup Rows
    BY <1>2, <1>3, <1>4
<1>6. PropsOK'
    BY <1>3, <1>4, <1>5 DEF PropsOK
<1>7. prop'[p] = status /\ \A q \in Props : q # p => prop'[q] = prop[q]
    BY <1>2, <1>3, <1>4
<1>8. \A q \in Props : prop[q] # "none" => prop'[q] # "none"
    BY <1>7
<1>9. Kept' \subseteq Kept /\ Live' \subseteq Live \cup {p}
    BY <1>3, <1>5, <1>7 DEF Kept, Live
<1>10. IsFiniteSet(Live') /\ Cardinality(Kept') <= Cardinality(Kept)
    <2>1. IsFiniteSet(Live) /\ IsFiniteSet(Kept)
        BY KeptCounted
    <2>2. IsFiniteSet(Live \cup {p})
        BY <2>1, FS_AddElement
    <2>3. IsFiniteSet(Live')
        BY <1>9, <2>2, FS_Subset
    <2>4. Cardinality(Kept') <= Cardinality(Kept)
        BY <1>9, <2>1, FS_Subset
    <2>. QED
        BY <2>3, <2>4
<1>11. Cardinality(Kept') <= highest
    <2>1. IsFiniteSet(Kept')
        BY <1>10, FS_Subset DEF Kept
    <2>2. Cardinality(Kept') \in Nat
        BY <2>1, FS_CardinalityType
    <2>3. Cardinality(Kept) <= highest
        BY DEF DeskInv, LimitsOK
    <2>. QED
        BY <1>10, <2>2, <2>3, KeptCounted
<1>12. RowsOK' /\ RedactedOK' /\ LimitsOK'
    BY <1>1, <1>5, <1>8, <1>10, <1>11, RowsRest
<1>13. ASSUME NEW u \in Tasks \ {t}
       PROVE  /\ \A y \in task[u].done : IF task[u].on = "property" THEN prop'[y] = "none"
                                         ELSE row'[y].st = "none"
              /\ task[u].op = "update" /\ task[u].pc = "write"
                   => IF task[u].on = "property"
                      THEN prop'[task[u].p] = "live" \/ task[u].p \in late'
                      ELSE row'[task[u].r].st = "live" \/ task[u].r \in late'
              /\ task[u].op = "create" /\ task[u].on = "setting" /\ task[u].pc = "insert"
                   => Cardinality(Active("setting", task[u].p)') < MaxSettings
    <2>1. RequestOK(task[u]) /\ task'[u] = task[u]
        BY <1>1 DEF DeskInv, RequestsOK, End
    <2>2. Active("setting", task[u].p)' = Active("setting", task[u].p)
        BY <1>1, <2>1 DEF Active
    <2>3. \A y \in task[u].done : IF task[u].on = "property" THEN prop'[y] = "none"
                                  ELSE row'[y].st = "none"
        BY <1>1, <1>2, <1>7, <2>1 DEF RequestOK, Stands
    <2>4. task[u].op = "update" /\ task[u].pc = "write" /\ task[u].on = "property"
             => prop'[task[u].p] = "live" \/ task[u].p \in late'
        <3>1. SUFFICES ASSUME task[u].op = "update", task[u].pc = "write",
                              task[u].on = "property"
                       PROVE  prop'[task[u].p] = "live" \/ task[u].p \in late'
            OBVIOUS
        <3>2. task[u].p \in Props /\ (prop[task[u].p] = "live" \/ task[u].p \in late)
            BY <2>1, <3>1 DEF RequestOK, Shape, Stands
        <3>3. CASE task[u].p # p
            BY <1>5, <1>7, <3>2, <3>3
        <3>4. CASE task[u].p = p /\ status = "deleted"
            <4>1. Overtaken(p)
                BY <1>2, <3>1, <3>4 DEF Overtaken
            <4>. QED
                BY <1>3, <3>4, <4>1
        <3>. QED
            BY <1>7, <3>3, <3>4
    <2>. QED
        BY <1>1, <1>5, <2>1, <2>2, <2>3, <2>4 DEF RequestOK, Stands, Within
<1>. QED
    BY <1>1, <1>6, <1>8, <1>10, <1>12, <1>13, Writes

(* What a write to the rows must leave as it was.                          *)
LEMMA RowWrites ==
    ASSUME DeskInv, CountersOK, prop' = prop, highest' = highest, NEW t \in Tasks, End(t),
           late \subseteq late', late' \subseteq late \cup Rows, RowsOK', RedactedOK',
           \A r \in Rows : row[r].kind \in Kinds => row'[r].kind = row[r].kind,
           \A u \in Tasks \ {t} : \A x \in task[u].done :
              task[u].on # "property" => row'[x].st = "none",
           \A u \in Tasks \ {t} :
              task[u].op = "update" /\ task[u].pc = "write" /\ task[u].on # "property"
              => row'[task[u].r].st = "live" \/ task[u].r \in late',
           \A p \in Props : /\ IsFiniteSet(Active("setting", p)')
                            /\ Cardinality(Active("setting", p)') <= MaxSettings,
           \A u \in Tasks \ {t} :
              task[u].op = "create" /\ task[u].on = "setting" /\ task[u].pc = "insert"
              => Cardinality(Active("setting", task[u].p)') < MaxSettings
    PROVE  DeskInv'
<1>1. PropsOK'
    BY DEF DeskInv, PropsOK
<1>2. Live' = Live
    BY DEF Live
<1>3. Kept' = Kept
    <2>1. Live \subseteq Props /\ Live \cap Rows = {}
        BY Constants DEF Live
    <2>. QED
        BY <1>2, <2>1 DEF Kept
<1>4. LimitsOK'
    BY <1>2, <1>3 DEF DeskInv, LimitsOK
<1>5. ASSUME NEW u \in Tasks \ {t}
      PROVE  /\ \A x \in task[u].done : IF task[u].on = "property" THEN prop'[x] = "none"
                                        ELSE row'[x].st = "none"
             /\ task[u].op = "update" /\ task[u].pc = "write"
                  => IF task[u].on = "property"
                     THEN prop'[task[u].p] = "live" \/ task[u].p \in late'
                     ELSE row'[task[u].r].st = "live" \/ task[u].r \in late'
    <2>1. RequestOK(task[u])
        BY DEF DeskInv, RequestsOK
    <2>. QED
        BY <2>1 DEF RequestOK, Stands
<1>6. Cardinality(Kept') <= Cardinality(Kept)
    BY <1>3, KeptCounted
<1>. QED
    BY <1>1, <1>4, <1>5, <1>6, Writes

(* A new row: the index has refused a second one of its key, and the lock  *)
(* on the property has kept the count.                                     *)
LEMMA InsertKeeps ==
    ASSUME DeskInv, CountersOK, NEW t \in Tasks,
           InsertSetting(t) \/ InsertApp(t) \/ InsertSource(t) \/ InsertEntry(t)
    PROVE  DeskInv'
<1> DEFINE w == task[t]
           x == NewRow
<1>1. PICK on \in Kinds : /\ Insert(t, on)
                          /\ Typed(on) => ~Taken(on, w.p, w.key)
    <2>1. RequestOK(w)
        BY DEF DeskInv, RequestsOK
    <2>2. InsertApp(t) => w.p = None
        BY <2>1 DEF InsertApp, Insert, At, RequestOK, Shape, Kinds
    <2>. QED
        BY <2>2 DEF InsertSetting, InsertApp, InsertSource, InsertEntry, Kinds, Typed
<1> DEFINE d == [st |-> "live", kind |-> on, of |-> w.p, key |-> w.key, text |-> w.text,
                 type |-> IF Typed(on) THEN TypeOf[w.text] ELSE None]
<1>2. /\ w.op = "create" /\ w.on = on /\ w.pc = "insert" /\ End(t)
      /\ row' = [row EXCEPT ![x] = d] /\ UNCHANGED <<prop, late, highest>>
      /\ NewRows # {}
    BY <1>1 DEF Insert, At, others
<1>3. x \in Rows /\ row[x].st = "none" /\ \A u \in Tasks : x \notin task[u].done
    BY <1>2, NewOnes
<1>. HIDE DEF x
<1>4. /\ RequestOK(w) /\ w.text \in Texts
      /\ IF on = "app" THEN w.p = None ELSE w.p \in Props /\ prop[w.p] # "none"
      /\ IF Typed(on) THEN w.key \in Keys ELSE w.key = None
    BY <1>2 DEF DeskInv, RequestsOK, RequestOK, Shape, Stands
<1>5. /\ d \in Row /\ d.st = "live" /\ d.kind = on /\ d.of = w.p /\ d.key = w.key
      /\ d.text = w.text /\ (Typed(on) => d.type = TypeOf[w.text])
    <2>1. d.type \in Types \cup {None} /\ d.key \in Keys \cup {None}
          /\ d.of \in Props \cup {None}
        BY <1>4, Constants
    <2>. QED
        BY <1>4, <2>1 DEF Row
<1>. HIDE DEF d
<1>6. row \in [Rows -> Row]
    BY DEF DeskInv, RowsOK
<1>7. row'[x] = d /\ \A r \in Rows : r # x => row'[r] = row[r]
    BY <1>2, <1>3, <1>6
<1>8. row' \in [Rows -> Row]
    BY <1>2, <1>5, <1>6
<1>9. RowsOK'
    <2>1. ASSUME NEW r \in Rows PROVE RowOK(row[r])'
        <3>1. CASE r = x
            <4>1. RowOK(d)
                BY <1>4, <1>5 DEF RowOK, Kinds
            <4>. QED
                BY <1>2, <1>7, <3>1, <4>1 DEF RowOK
        <3>2. CASE r # x
            BY <1>2, <1>7, <3>2 DEF DeskInv, RowsOK, RowOK
        <3>. QED
            BY <3>1, <3>2
    <2>2. ASSUME NEW r \in Rows, r # x PROVE Unique(d, row[r]) /\ Unique(row[r], d)
        <3>1. RowOK(row[r])
            BY DEF DeskInv, RowsOK
        <3>2. row[r].kind = on => row[r].st \in {"live", "deleted"}
            BY <3>1 DEF RowOK, Row, Kinds
        <3>. QED
            BY <1>1, <1>4, <1>5, <3>2 DEF Unique, Taken, Typed
    <2>3. \A r, s \in Rows : r # s => Unique(row'[r], row'[s])
        BY <1>7, <2>2 DEF DeskInv, RowsOK
    <2>. QED
        BY <1>8, <2>1, <2>3 DEF RowsOK, Unique
<1>10. RedactedOK'
    BY <1>2, <1>5, <1>7 DEF DeskInv, RedactedOK
<1>11. \A r \in Rows : row[r].kind \in Kinds => row'[r].kind = row[r].kind
    BY <1>3, <1>7 DEF DeskInv, RowsOK, RowOK, Kinds
<1>12. ASSUME NEW p \in Props
       PROVE  /\ IsFiniteSet(Active("setting", p)')
              /\ Cardinality(Active("setting", p)') <= MaxSettings
              /\ on # "setting" \/ w.p # p
                   => Active("setting", p)' = Active("setting", p)
    <2>1. IsFiniteSet(Active("setting", p))
          /\ Cardinality(Active("setting", p)) <= MaxSettings
        BY DEF DeskInv, LimitsOK
    <2>2. CASE on # "setting" \/ w.p # p
        <3>1. Active("setting", p)' = Active("setting", p)
            BY <1>3, <1>5, <1>7, <2>2 DEF Active
        <3>. QED
            BY <2>1, <3>1
    <2>3. CASE on = "setting" /\ w.p = p
        <3>1. Active("setting", p)' = Active("setting", p) \cup {x}
            BY <1>3, <1>5, <1>7, <2>3 DEF Active
        <3>2. Cardinality(Active("setting", p)) < MaxSettings
            BY <1>2, <1>4, <2>3 DEF RequestOK, Within
        <3>3. Cardinality(Active("setting", p)) \in Nat
            BY <2>1, FS_CardinalityType
        <3>4. IsFiniteSet(Active("setting", p) \cup {x})
              /\ Cardinality(Active("setting", p) \cup {x})
                   <= Cardinality(Active("setting", p)) + 1
            <4>1. IsFiniteSet(Active("setting", p) \cup {x})
                BY <2>1, FS_AddElement, Zenon
            <4>2. Cardinality(Active("setting", p) \cup {x})
                     = IF x \in Active("setting", p) THEN Cardinality(Active("setting", p))
                       ELSE Cardinality(Active("setting", p)) + 1
                BY <2>1, FS_AddElement, Zenon
            <4>. QED
                BY <3>3, <4>1, <4>2
        <3>5. Cardinality(Active("setting", p) \cup {x}) \in Nat
            BY <3>4, FS_CardinalityType
        <3>. QED
            BY <2>3, <3>1, <3>2, <3>3, <3>4, <3>5, Constants
    <2>. QED
        BY <2>2, <2>3
<1>13. ASSUME NEW u \in Tasks \ {t}
       PROVE  /\ \A y \in task[u].done : task[u].on # "property" => row'[y].st = "none"
              /\ task[u].op = "update" /\ task[u].pc = "write" /\ task[u].on # "property"
                   => row'[task[u].r].st = "live" \/ task[u].r \in late'
              /\ task[u].op = "create" /\ task[u].on = "setting" /\ task[u].pc = "insert"
                   => Cardinality(Active("setting", task[u].p)') < MaxSettings
    <2>1. RequestOK(task[u]) /\ task'[u] = task[u]
        BY <1>2 DEF DeskInv, RequestsOK, End
    <2>2. \A y \in task[u].done : task[u].on # "property" => row'[y].st = "none"
        BY <1>3, <1>7, <2>1 DEF RequestOK, Stands
    <2>3. task[u].op = "update" /\ task[u].pc = "write" /\ task[u].on # "property"
             => row'[task[u].r].st = "live" \/ task[u].r \in late'
        <3>1. SUFFICES ASSUME task[u].op = "update", task[u].pc = "write",
                              task[u].on # "property"
                       PROVE  row'[task[u].r].st = "live" \/ task[u].r \in late'
            OBVIOUS
        <3>2. row[task[u].r].st = "live" \/ task[u].r \in late
            BY <2>1, <3>1 DEF RequestOK, Stands
        <3>3. task[u].r \in Rows
            BY <2>1, <3>1 DEF RequestOK, Shape, Task, Idle
        <3>. QED
            BY <1>2, <1>3, <1>7, <3>2, <3>3
    <2>4. task[u].op = "create" /\ task[u].on = "setting" /\ task[u].pc = "insert"
             => Cardinality(Active("setting", task[u].p)') < MaxSettings
        <3>1. SUFFICES ASSUME task[u].op = "create", task[u].on = "setting",
                              task[u].pc = "insert"
                       PROVE  Cardinality(Active("setting", task[u].p)') < MaxSettings
            OBVIOUS
        <3>2. task[u].p \in Props /\ task[u].lock = task[u].p
            BY <2>1, <3>1 DEF RequestOK, Shape, Locked, Kinds
        <3>3. on = "setting" => w.p # task[u].p
            <4>1. on = "setting" => w.lock = w.p /\ w.p \in Props
                BY <1>2, <1>4 DEF RequestOK, Locked
            <4>2. w.lock # "none" => w.lock # task[u].lock
                BY DEF DeskInv, RequestsOK
            <4>. QED
                BY <3>2, <4>1, <4>2, Constants
        <3>4. Active("setting", task[u].p)' = Active("setting", task[u].p)
            BY <1>3, <1>5, <1>7, <2>1, <3>2, <3>3 DEF Active
        <3>. QED
            BY <2>1, <3>1, <3>4 DEF RequestOK, Within
    <2>. QED
        BY <2>2, <2>3, <2>4
<1>. QED
    BY <1>2, <1>9, <1>10, <1>11, <1>12, <1>13, RowWrites

(* A patch or a deletion of a row leaves alone what the indexes are about, *)
(* and adds no active setting.                                             *)
LEMMA RowSaves ==
    ASSUME DeskInv, CountersOK, NEW t \in Tasks, End(t), prop' = prop, highest' = highest,
           NEW r \in Rows, NEW d \in Row, row' = [row EXCEPT ![r] = d],
           row[r].kind \in Kinds, d.kind = row[r].kind, d.of = row[r].of,
           d.key = row[r].key, RowOK(d), d.st = row[r].st \/ d.st = "deleted",
           late \subseteq late', late' \subseteq late \cup Rows, RedactedOK',
           \A u \in Tasks \ {t} :
              task[u].op = "update" /\ task[u].pc = "write" /\ task[u].on # "property"
              => row'[task[u].r].st = "live" \/ task[u].r \in late'
    PROVE  DeskInv'
<1>1. row \in [Rows -> Row] /\ row[r].st # "none"
    BY DEF DeskInv, RowsOK, RowOK, Kinds
<1>2. row'[r] = d /\ \A s \in Rows : s # r => row'[s] = row[s]
    BY <1>1
<1>3. RowsOK'
    <2>1. ASSUME NEW s \in Rows PROVE RowOK(row[s])'
        BY <1>2 DEF DeskInv, RowsOK, RowOK
    <2>2. ASSUME NEW s \in Rows, s # r PROVE Unique(d, row[s]) /\ Unique(row[s], d)
        <3>1. Unique(row[r], row[s]) /\ Unique(row[s], row[r])
            BY <2>2 DEF DeskInv, RowsOK
        <3>. QED
            BY <3>1 DEF Unique
    <2>3. \A s, q \in Rows : s # q => Unique(row'[s], row'[q])
        BY <1>2, <2>2 DEF DeskInv, RowsOK
    <2>. QED
        BY <1>1, <2>1, <2>3 DEF RowsOK, Unique
<1>4. \A s \in Rows : row[s].kind \in Kinds => row'[s].kind = row[s].kind
    BY <1>2
<1>5. ASSUME NEW u \in Tasks \ {t}
      PROVE  \A x \in task[u].done : task[u].on # "property" => row'[x].st = "none"
    <2>1. RequestOK(task[u])
        BY DEF DeskInv, RequestsOK
    <2>. QED
        BY <1>1, <1>2, <2>1 DEF RequestOK, Stands
<1>6. ASSUME NEW p \in Props
      PROVE  /\ Active("setting", p)' \subseteq Active("setting", p)
             /\ IsFiniteSet(Active("setting", p)')
             /\ Cardinality(Active("setting", p)') \in Nat
             /\ Cardinality(Active("setting", p)') <= Cardinality(Active("setting", p))
             /\ Cardinality(Active("setting", p)) \in Nat
             /\ Cardinality(Active("setting", p)) <= MaxSettings
    <2>1. Active("setting", p)' \subseteq Active("setting", p)
        BY <1>2 DEF Active
    <2>2. IsFiniteSet(Active("setting", p))
          /\ Cardinality(Active("setting", p)) <= MaxSettings
        BY DEF DeskInv, LimitsOK
    <2>3. IsFiniteSet(Active("setting", p)')
          /\ Cardinality(Active("setting", p)') <= Cardinality(Active("setting", p))
        BY <2>1, <2>2, FS_Subset
    <2>. QED
        BY <2>1, <2>2, <2>3, FS_CardinalityType
<1>7. ASSUME NEW u \in Tasks \ {t},
             task[u].op = "create", task[u].on = "setting", task[u].pc = "insert"
      PROVE  Cardinality(Active("setting", task[u].p)') < MaxSettings
    <2>1. RequestOK(task[u]) /\ task'[u] = task[u]
        BY DEF DeskInv, RequestsOK, End
    <2>2. PICK p \in Props : p = task[u].p
        BY <1>7, <2>1 DEF RequestOK, Shape, Kinds
    <2>3. Cardinality(Active("setting", p)) < MaxSettings
        BY <1>7, <2>1, <2>2 DEF RequestOK, Within
    <2>4. Active("setting", task[u].p)' = Active("setting", p)'
        BY <2>1, <2>2 DEF Active
    <2>. QED
        BY <1>6, <2>3, <2>4, Constants
<1>8. \A p \in Props : /\ IsFiniteSet(Active("setting", p)')
                       /\ Cardinality(Active("setting", p)') <= MaxSettings
    BY <1>6, Constants
<1>. QED
    BY <1>3, <1>4, <1>5, <1>7, <1>8, RowWrites

LEMMA UpdateRowKeeps ==
    ASSUME DeskInv, CountersOK, NEW t \in Tasks,
           WriteSetting(t) \/ WriteApp(t) \/ WriteSource(t)
    PROVE  DeskInv'
<1> DEFINE w == task[t]
           r == w.r
           d == Written(row[r], w)
<1>1. PICK on \in {"setting", "app", "source"} : UpdateRow(t, on)
    BY DEF WriteSetting, WriteApp, WriteSource
<1>2. /\ w.op = "update" /\ w.on = on /\ w.pc = "write" /\ End(t)
      /\ row' = [row EXCEPT ![r] = d] /\ UNCHANGED <<prop, late, highest>>
    BY <1>1 DEF UpdateRow, At, others
<1>3. /\ RequestOK(w) /\ r \in Rows /\ w.text \in Texts /\ row[r].kind = on
      /\ row[r].st = "live" \/ r \in late
    BY <1>2 DEF DeskInv, RequestsOK, RequestOK, Shape, Stands, Kinds
<1>4. RowOK(row[r]) /\ row[r] \in Row /\ row \in [Rows -> Row]
    BY <1>3 DEF DeskInv, RowsOK
<1>5. /\ d.st = row[r].st /\ d.kind = row[r].kind /\ d.of = row[r].of
      /\ d.key = row[r].key /\ d.text = w.text /\ d \in Row
      /\ Typed(on) => d.type = TypeOf[w.text]
    <2>1. TypeOf[w.text] \in Types
        BY <1>3, Constants
    <2>. QED
        BY <1>2, <1>3, <1>4, <2>1 DEF Written, Row
<1>. HIDE DEF d, r, w
<1>6. RowOK(d)
    BY <1>2, <1>3, <1>4, <1>5 DEF RowOK, Kinds
<1>7. \A s \in Rows : s # r => row'[s] = row[s]
    BY <1>2, <1>4
<1>8. row'[r] = d
    BY <1>2, <1>3, <1>4
<1>9. RedactedOK'
    BY <1>2, <1>3, <1>5, <1>7, <1>8 DEF DeskInv, RedactedOK
<1>10. ASSUME NEW u \in Tasks \ {t},
              task[u].op = "update", task[u].pc = "write", task[u].on # "property"
       PROVE  row'[task[u].r].st = "live" \/ task[u].r \in late'
    <2>1. RequestOK(task[u])
        BY DEF DeskInv, RequestsOK
    <2>2. task[u].r \in Rows /\ (row[task[u].r].st = "live" \/ task[u].r \in late)
        BY <1>10, <2>1 DEF RequestOK, Shape, Stands, Task, Idle
    <2>. QED
        BY <1>2, <1>5, <1>7, <1>8, <2>2
<1>. QED
    BY <1>2, <1>3, <1>5, <1>6, <1>9, <1>10, RowSaves DEF Kinds

LEMMA DeleteRowKeeps ==
    ASSUME DeskInv, CountersOK, NEW t \in Tasks,
           RemoveSetting(t) \/ RemoveApp(t) \/ RemoveSource(t) \/ RemoveEntry(t)
    PROVE  DeskInv'
<1> DEFINE w == task[t]
           r == w.r
           d == SoftDeleted(row[r])
<1>1. PICK on \in Kinds : DeleteRow(t, on)
    BY DEF RemoveSetting, RemoveApp, RemoveSource, RemoveEntry, Kinds
<1>2. /\ w.op = "delete" /\ w.on = on /\ w.pc = "write" /\ End(t)
      /\ row' = [row EXCEPT ![r] = d] /\ UNCHANGED <<prop, highest>>
      /\ late' = IF Overtaken(r) THEN late \cup {r} ELSE late
    BY <1>1 DEF DeleteRow, At, others
<1>3. RequestOK(w) /\ r \in Rows /\ row[r].kind = on
    BY <1>2 DEF DeskInv, RequestsOK, RequestOK, Shape, Stands
<1>4. RowOK(row[r]) /\ row[r] \in Row /\ row \in [Rows -> Row]
    BY <1>3 DEF DeskInv, RowsOK
<1>5. /\ d.st = "deleted" /\ d.kind = on /\ d.of = row[r].of /\ d.key = row[r].key
      /\ IF on = "setting" THEN d.text = None ELSE d.text = row[r].text
      /\ d \in Row
    BY <1>3, <1>4 DEF SoftDeleted, Redacted, Row
<1>. HIDE DEF d, r, w
<1>6. RowOK(d)
    BY <1>3, <1>4, <1>5 DEF RowOK, Kinds
<1>7. row'[r] = d /\ \A s \in Rows : s # r => row'[s] = row[s]
    BY <1>2, <1>3, <1>4
<1>8. late \subseteq late' /\ late' \subseteq late \cup Rows
    BY <1>2, <1>3
<1>9. RedactedOK'
    BY <1>5, <1>7, <1>8 DEF DeskInv, RedactedOK
<1>10. ASSUME NEW u \in Tasks \ {t},
              task[u].op = "update", task[u].pc = "write", task[u].on # "property"
       PROVE  row'[task[u].r].st = "live" \/ task[u].r \in late'
    <2>1. RequestOK(task[u])
        BY DEF DeskInv, RequestsOK
    <2>2. task[u].r \in Rows /\ (row[task[u].r].st = "live" \/ task[u].r \in late)
        BY <1>10, <2>1 DEF RequestOK, Shape, Stands, Task, Idle
    <2>3. task[u].r = r => Overtaken(r)
        BY <1>3, <1>10, Constants DEF Overtaken
    <2>. QED
        BY <1>2, <1>7, <1>8, <2>2, <2>3
<1>. QED
    BY <1>2, <1>3, <1>5, <1>6, <1>8, <1>9, <1>10, RowSaves

LEMMA ImportEntriesCommitKeeps ==
    ASSUME DeskInv, CountersOK, NEW t \in Tasks, ImportEntriesCommit(t)
    PROVE  DeskInv'
<1> DEFINE w == task[t]
           done == w.done
           d == [NoRow EXCEPT !.st = "live", !.kind = "entry", !.of = w.p]
<1>1. /\ w.op = "import" /\ w.on = "entry" /\ w.pc = "rows" /\ End(t)
      /\ row' = [r \in Rows |-> IF r \in done THEN d ELSE row[r]]
      /\ UNCHANGED <<prop, late, highest>>
    BY DEF ImportEntriesCommit, At, others
<1>2. RequestOK(w) /\ w.p \in Props /\ prop[w.p] # "none"
    BY <1>1 DEF DeskInv, RequestsOK, RequestOK, Shape, Stands
<1>3. \A r \in done : r \in Rows /\ row[r].st = "none"
    BY <1>1, <1>2 DEF RequestOK, Stands
<1>4. /\ d.st = "live" /\ d.kind = "entry" /\ d.of = w.p /\ d.key = None
      /\ d.text = None /\ d.type = None /\ d \in Row
    BY <1>2 DEF NoRow, Row, Kinds
<1>. HIDE DEF d, done, w
<1>5. \A r \in done : row'[r] = d
    BY <1>1, <1>3
<1>6. \A r \in Rows \ done : row'[r] = row[r]
    BY <1>1
<1>7. RowsOK'
    <2>1. RowOK(d)
        BY <1>2, <1>4 DEF RowOK, Kinds, Typed
    <2>2. ASSUME NEW r \in Rows PROVE RowOK(row[r])'
        BY <1>1, <1>5, <1>6, <2>1 DEF DeskInv, RowsOK, RowOK
    <2>3. \A e : Unique(d, e) /\ Unique(e, d)
        BY <1>4 DEF Unique
    <2>4. \A r, s \in Rows : r # s => Unique(row'[r], row'[s])
        BY <1>5, <1>6, <2>3 DEF DeskInv, RowsOK
    <2>5. row' \in [Rows -> Row]
        BY <1>1, <1>4 DEF DeskInv, RowsOK
    <2>. QED
        BY <2>2, <2>4, <2>5 DEF RowsOK, Unique
<1>8. RedactedOK'
    BY <1>1, <1>4, <1>5, <1>6 DEF DeskInv, RedactedOK
<1>9. \A r \in Rows : row[r].kind \in Kinds => row'[r].kind = row[r].kind
    BY <1>3, <1>6 DEF DeskInv, RowsOK, RowOK, Kinds
<1>10. ASSUME NEW p \in Props PROVE Active("setting", p)' = Active("setting", p)
    BY <1>3, <1>4, <1>5, <1>6 DEF Active
<1>11. ASSUME NEW u \in Tasks \ {t}
       PROVE  /\ \A y \in task[u].done : task[u].on # "property" => row'[y].st = "none"
              /\ task[u].op = "update" /\ task[u].pc = "write" /\ task[u].on # "property"
                   => row'[task[u].r].st = "live" \/ task[u].r \in late'
              /\ task[u].op = "create" /\ task[u].on = "setting" /\ task[u].pc = "insert"
                   => Cardinality(Active("setting", task[u].p)') < MaxSettings
    <2>1. RequestOK(task[u]) /\ task'[u] = task[u] /\ task[u].done \cap done = {}
        BY <1>1 DEF DeskInv, RequestsOK, End, done, w
    <2>2. \A y \in task[u].done : task[u].on # "property" => row'[y].st = "none"
        BY <1>6, <2>1 DEF RequestOK, Stands
    <2>3. task[u].op = "update" /\ task[u].pc = "write" /\ task[u].on # "property"
             => task[u].r \in Rows /\ (row[task[u].r].st = "live" \/ task[u].r \in late)
        BY <2>1 DEF RequestOK, Shape, Stands, Task, Idle
    <2>4. task[u].op = "update" /\ task[u].pc = "write" /\ task[u].on # "property"
             => row'[task[u].r].st = "live" \/ task[u].r \in late'
        BY <1>1, <1>4, <1>5, <1>6, <2>3
    <2>5. Active("setting", task[u].p)' = Active("setting", task[u].p)
        BY <1>3, <1>4, <1>5, <1>6, <2>1 DEF Active
    <2>. QED
        BY <2>1, <2>2, <2>4, <2>5 DEF RequestOK, Within
<1>12. \A p \in Props : /\ IsFiniteSet(Active("setting", p)')
                        /\ Cardinality(Active("setting", p)') <= MaxSettings
    BY <1>10 DEF DeskInv, LimitsOK
<1>. QED
    BY <1>1, <1>7, <1>8, <1>9, <1>11, <1>12, RowWrites

-----------------------------------------------------------------------------
(* The plan, the stays and a reconciliation.                               *)

LEMMA SurroundingsKeep ==
    ASSUME DeskInv, CountersOK, UNCHANGED <<tables, task>>,
           highest' \in Nat, highest <= highest'
    PROVE  DeskInv'
<1>1. prop' = prop /\ row' = row /\ late' = late /\ task' = task
    BY DEF tables
<1>2. PropsOK' /\ RowsOK' /\ RedactedOK'
    BY <1>1 DEF DeskInv, PropsOK, RowsOK, RedactedOK, RowOK
<1>3. Live' = Live /\ Kept' = Kept
    BY <1>1 DEF Live, Kept
<1>4. highest \in Nat /\ Cardinality(Kept) \in Nat
    BY KeptCounted
<1>5. \A p : Active("setting", p)' = Active("setting", p)
    BY <1>1 DEF Active
<1>6. LimitsOK'
    BY <1>3, <1>4, <1>5 DEF DeskInv, LimitsOK
<1>7. ASSUME NEW u \in Tasks PROVE RequestOK(task[u])'
    <2> DEFINE w == task[u]
    <2>1. RequestOK(w) /\ w \in Task
        BY DEF DeskInv, RequestsOK
    <2>2. Cardinality(w.done) \in Nat
        BY <2>1, FS_CardinalityType DEF RequestOK, Shape
    <2>3. /\ w.quota <= highest'
          /\ w.on = "property" /\ w.lock = "owner"
               => Cardinality(Kept) + Cardinality(w.done) <= highest'
          /\ w.on = "property" /\ w.pc = "insert"
               => Cardinality(Kept) + Cardinality(w.done) < highest'
        BY <1>4, <2>1, <2>2 DEF RequestOK, Within, Task
    <2>4. Within(task[u])'
        BY <1>1, <1>3, <2>1, <2>3 DEF RequestOK, Within, Active
    <2>. QED
        BY <1>1, <2>1, <2>4 DEF RequestOK, Shape, Locked, Stands
<1>. QED
    BY <1>1, <1>2, <1>6, <1>7 DEF DeskInv, RequestsOK

LEMMA WatchTyped ==
    ASSUME CountersOK, Watch
    PROVE  watch' \in [steady : SUBSET Bookings, booked : SUBSET Bookings,
                       silent : SUBSET Bookings]
<1>1. Reported \subseteq Bookings
    BY DEF Reported
<1>2. watch \in [steady : SUBSET Bookings, booked : SUBSET Bookings,
                 silent : SUBSET Bookings]
    BY DEF CountersOK
<1>3. CASE recon'.pc # "reading"
    BY <1>2, <1>3 DEF Watch
<1>4. CASE recon'.pc = "reading" /\ recon.pc = "idle"
    BY <1>1, <1>4 DEF Watch
<1>5. CASE recon'.pc = "reading" /\ recon.pc # "idle"
    BY <1>2, <1>5 DEF Watch
<1>. QED
    BY <1>3, <1>4, <1>5

(* Whatever changes between two reads, what the history still counts as    *)
(* having held all along does hold.                                        *)
LEMMA ReconRests ==
    ASSUME ReconOK, ReconcileAnswers, CountersOK, Watch, recon' = recon
    PROVE  ReconOK' /\ ReconcileAnswers'
<1>1. CASE recon.pc # "reading"
    <2>1. watch' = watch
        BY <1>1 DEF Watch
    <2>. QED
        BY <1>1, <2>1 DEF ReconOK, ReconcileAnswers
<1>2. CASE recon.pc = "reading"
    <2>1. watch' = [steady |-> {b \in watch.steady : /\ b \in Reported'
                                  /\ b[1] \in Live' /\ b[2] \notin stays'[b[1]]},
                    booked |-> {b \in watch.booked : b[2] \in stays'[b[1]]},
                    silent |-> watch.silent \ Reported']
        BY <1>2 DEF Watch
    <2>. QED
        BY <1>2, <2>1 DEF ReconOK, ReconcileAnswers
<1>. QED
    BY <1>1, <1>2

LEMMA RequestSteps ==
    ASSUME CountersOK, NEW t \in Tasks,
           \/ CreateProperty(t) \/ ImportProperties(t) \/ LockOwner(t)
           \/ EnsureWithinQuota(t) \/ InsertProperty(t)
           \/ ImportPropertyRow(t) \/ ImportPropertiesCommit(t)
           \/ ImportReject(t)
           \/ UpdateProperty(t) \/ DeleteProperty(t) \/ SaveProperty(t)
           \/ CreateSetting(t) \/ CreateApp(t) \/ CreateSource(t)
           \/ RecordEntry(t) \/ FindByKey(t) \/ LockProperty(t)
           \/ CountActiveSettings(t) \/ Conflict(t)
           \/ InsertSetting(t) \/ InsertApp(t) \/ InsertSource(t)
           \/ InsertEntry(t)
           \/ UpdateSetting(t) \/ UpdateApp(t) \/ UpdateSource(t)
           \/ DeleteSetting(t) \/ DeleteApp(t) \/ DeleteSource(t)
           \/ DeleteEntry(t) \/ FindById(t)
           \/ WriteSetting(t) \/ WriteApp(t) \/ WriteSource(t)
           \/ RemoveSetting(t) \/ RemoveApp(t) \/ RemoveSource(t)
           \/ RemoveEntry(t)
           \/ ImportEntries(t) \/ ImportEntryRow(t) \/ ImportEntriesCommit(t)
           \/ Die(t)
    PROVE  /\ UNCHANGED <<quota, highest, stays, recon>>
           /\ left' \in [Operations -> Nat] /\ failures' \in 0 .. MaxFailures
<1>1. left \in [Operations -> Nat] /\ failures \in 0 .. MaxFailures /\ MaxFailures \in Nat
    BY Constants DEF CountersOK
<1>2. ASSUME NEW op, NEW on, NEW pc, NEW fields, Begin(t, op, on, pc, fields)
      PROVE  /\ UNCHANGED <<quota, highest, stays, recon>>
             /\ left' \in [Operations -> Nat] /\ failures' \in 0 .. MaxFailures
    <2> DEFINE x == <<op, on>>
    <2>1. /\ UNCHANGED <<quota, highest, stays, recon, failures>>
          /\ left[x] > 0 /\ left' = [left EXCEPT ![x] = @ - 1]
        BY <1>2 DEF Begin, Spend, others
    <2>. HIDE DEF x
    <2>2. left' \in [Operations -> Nat]
        <3>1. CASE x \in Operations
            <4>1. left[x] \in Nat /\ left[x] - 1 \in Nat
                BY <1>1, <2>1, <3>1
            <4>. QED
                BY <1>1, <2>1, <4>1
        <3>2. CASE x \notin Operations
            <4>1. left' = left
                BY <1>1, <2>1, <3>2, Zenon
            <4>. QED
                BY <1>1, <4>1
        <3>. QED
            BY <3>1, <3>2
    <2>. QED
        BY <1>1, <2>1, <2>2
<1>3. ASSUME NEW op, NEW on, NEW pc, At(t, op, on, pc)
      PROVE  /\ UNCHANGED <<quota, highest, stays, recon>>
             /\ left' \in [Operations -> Nat] /\ failures' \in 0 .. MaxFailures
    BY <1>1, <1>3 DEF At, others
<1>4. CASE \/ CreateProperty(t) \/ ImportProperties(t) \/ UpdateProperty(t)
           \/ DeleteProperty(t) \/ CreateSetting(t) \/ CreateApp(t) \/ CreateSource(t)
           \/ RecordEntry(t) \/ ImportEntries(t)
    BY <1>2, <1>4 DEF CreateProperty, ImportProperties, UpdateProperty, DeleteProperty,
       CreateSetting, CreateApp, CreateSource, RecordEntry, ImportEntries, Create
<1>5. CASE \/ UpdateSetting(t) \/ UpdateApp(t) \/ UpdateSource(t) \/ DeleteSetting(t)
           \/ DeleteApp(t) \/ DeleteSource(t) \/ DeleteEntry(t)
    BY <1>2, <1>5 DEF UpdateSetting, UpdateApp, UpdateSource, DeleteSetting, DeleteApp,
       DeleteSource, DeleteEntry, Patch, Delete
<1>6. CASE \/ LockOwner(t) \/ EnsureWithinQuota(t) \/ InsertProperty(t)
           \/ ImportPropertyRow(t) \/ ImportPropertiesCommit(t) \/ ImportReject(t)
           \/ SaveProperty(t) \/ FindByKey(t) \/ LockProperty(t)
           \/ CountActiveSettings(t) \/ Conflict(t) \/ FindById(t)
    BY <1>3, <1>6 DEF LockOwner, EnsureWithinQuota, InsertProperty, ImportPropertyRow,
       ImportPropertiesCommit, ImportReject, SaveProperty, FindByKey, LockProperty,
       CountActiveSettings, Conflict, FindById, Adding
<1>7. CASE \/ InsertSetting(t) \/ InsertApp(t) \/ InsertSource(t) \/ InsertEntry(t)
           \/ WriteSetting(t) \/ WriteApp(t) \/ WriteSource(t)
           \/ RemoveSetting(t) \/ RemoveApp(t) \/ RemoveSource(t) \/ RemoveEntry(t)
           \/ ImportEntryRow(t) \/ ImportEntriesCommit(t)
    BY <1>3, <1>7 DEF InsertSetting, InsertApp, InsertSource, InsertEntry, Insert,
       WriteSetting, WriteApp, WriteSource, UpdateRow, RemoveSetting, RemoveApp,
       RemoveSource, RemoveEntry, DeleteRow, ImportEntryRow, ImportEntriesCommit
<1>8. CASE Die(t)
    BY <1>1, <1>8 DEF Die, others
<1>. QED
    BY <1>4, <1>5, <1>6, <1>7, <1>8

-----------------------------------------------------------------------------
(* A reconciliation reads.                                                 *)

(* What the feeds of a property report is what its active calendars say.   *)
LEMMA FeedReports ==
    ASSUME DeskInv, NEW p \in Props
    PROVE  /\ {p} \X Feed(p) \subseteq Reported
           /\ \A b \in Reported : b[1] = p => b \in {p} \X Feed(p)
<1>1. ASSUME NEW r \in Active("source", p) PROVE row[r].text \in Texts
    <2>1. r \in Rows /\ row[r].kind = "source"
        BY DEF Active
    <2>. QED
        BY <2>1 DEF DeskInv, RowsOK, RowOK
<1>2. ASSUME NEW b \in {p} \X Feed(p) PROVE b \in Reported
    <2>1. PICK r \in Active("source", p) : b = <<p, row[r].text>>
        BY DEF Feed, Sources
    <2>2. b \in Bookings /\ b[1] = p /\ b[2] = row[r].text
        BY <1>1, <2>1 DEF Bookings
    <2>3. r \in Active("source", b[1]) /\ row[r].text = b[2]
        BY <2>2
    <2>. QED
        BY <2>2, <2>3, Zenon DEF Reported
<1>3. ASSUME NEW b \in Reported, b[1] = p PROVE b \in {p} \X Feed(p)
    <2>1. b \in Bookings /\ \E r \in Active("source", p) : row[r].text = b[2]
        BY <1>3, Zenon DEF Reported
    <2>2. b = <<p, b[2]>> /\ b[2] \in Feed(p)
        BY <1>3, <2>1 DEF Bookings, Feed, Sources
    <2>. QED
        BY <2>2
<1>. QED
    BY <1>2, <1>3

(* A reading step changes neither the tables nor the stays, so what the    *)
(* history counts as having held so far stays as it is.                    *)
LEMMA ReadingKeepsWatch ==
    ASSUME ReconOK, CountersOK, Watch, UNCHANGED <<tables, stays>>, recon.pc = "reading"
    PROVE  watch' = watch
<1>1. Reported' = Reported /\ Live' = Live /\ stays' = stays
    BY DEF Reported, Active, Live, tables
<1>2. watch = [steady |-> watch.steady, booked |-> watch.booked, silent |-> watch.silent]
    BY DEF CountersOK
<1>3. /\ {b \in watch.steady : /\ b \in Reported /\ b[1] \in Live
                               /\ b[2] \notin stays[b[1]]} = watch.steady
      /\ {b \in watch.booked : b[2] \in stays[b[1]]} = watch.booked
      /\ watch.silent \ Reported = watch.silent
    BY DEF ReconOK
<1>. QED
    BY <1>1, <1>2, <1>3 DEF Watch

LEMMA ReconcileKeeps ==
    ASSUME DeskInv, CountersOK, ReconOK, ReconcileAnswers, Watch,
           ReconcileStart \/ ReconcileSources \/ ReconcileStays \/ ReconcileAnswer
    PROVE  DeskInv' /\ CountersOK' /\ ReconOK' /\ ReconcileAnswers'
<1>1. UNCHANGED <<tables, task, quota, highest, stays, failures>>
    BY DEF ReconcileStart, ReconcileSources, ReconcileStays, ReconcileAnswer
<1>2. DeskInv'
    BY <1>1, KeptCounted, SurroundingsKeep
<1>3. recon \in Recon /\ stays \in [Props -> SUBSET Texts]
    BY DEF CountersOK
<1>4. Reported' = Reported /\ Live' = Live /\ stays' = stays
    BY <1>1 DEF Reported, Active, Live, tables
<1>5. left' \in [Operations -> Nat]
    <2>1. CASE ReconcileStart
        BY <2>1 DEF ReconcileStart, Spend, CountersOK, Operations
    <2>2. CASE ~ReconcileStart
        BY <2>2 DEF ReconcileSources, ReconcileStays, ReconcileAnswer, CountersOK
    <2>. QED
        BY <2>1, <2>2
<1>6. ASSUME recon' \in Recon PROVE CountersOK'
    BY <1>1, <1>5, <1>6, WatchTyped DEF CountersOK
<1>7. CASE ReconcileStart
    <2>1. /\ recon.pc = "idle"
          /\ recon' = [pc |-> "reading", todo |-> Live, read |-> {}, feed |-> {},
                       answer |-> {}]
        BY <1>7 DEF ReconcileStart, NoRecon
    <2>2. recon' \in Recon
        BY <2>1 DEF Recon, Live
    <2>3. watch' = [steady |-> {b \in Reported : b[1] \in Live
                                   /\ b[2] \notin stays[b[1]]},
                    booked |-> {b \in Bookings : b[2] \in stays[b[1]]},
                    silent |-> Bookings \ Reported]
        BY <2>1 DEF Watch
    <2>4. ReconOK' /\ ReconcileAnswers'
        BY <1>4, <2>1, <2>3 DEF ReconOK, ReconcileAnswers
    <2>. QED
        BY <1>2, <1>6, <2>2, <2>4
<1>8. CASE ReconcileSources
    <2>1. PICK p \in recon.todo :
             recon' = [recon EXCEPT !.todo = @ \ {p}, !.read = @ \cup {p},
                                    !.feed = @ \cup ({p} \X Feed(p))]
        BY <1>8 DEF ReconcileSources
    <2>2. recon.pc = "reading" /\ p \in Props
        BY <1>3, <1>8 DEF ReconcileSources, Recon
    <2>3. /\ recon'.pc = "reading" /\ recon'.todo = recon.todo \ {p}
          /\ recon'.read = recon.read \cup {p} /\ recon'.answer = recon.answer
          /\ recon'.feed = recon.feed \cup ({p} \X Feed(p))
        BY <1>3, <2>1, <2>2 DEF Recon
    <2>4. {p} \X Feed(p) \subseteq Bookings
        BY <1>2, <2>2, FeedReports DEF Reported
    <2>5. recon' \in Recon
        BY <1>3, <2>1, <2>2, <2>4 DEF Recon
    <2>6. watch' = watch
        BY <1>1, <2>2, ReadingKeepsWatch
    <2>7. ASSUME NEW b \in watch.steady
          PROVE  \/ b[1] \in recon'.todo \/ b \in recon'.answer
                 \/ b[1] \in recon'.read /\ b \in recon'.feed
        <3>1. b \in Reported
            BY <2>2 DEF ReconOK
        <3>2. CASE b[1] = p
            <4>1. b \in {p} \X Feed(p)
                BY <2>2, <3>1, <3>2, FeedReports
            <4>. QED
                BY <2>3, <3>2, <4>1
        <3>3. CASE b[1] # p
            BY <2>2, <2>3, <3>3 DEF ReconOK
        <3>. QED
            BY <3>2, <3>3
    <2>8. \A b \in watch.silent : b \notin recon'.feed
        BY <2>2, <2>3, FeedReports DEF ReconOK
    <2>9. ReconOK'
        BY <1>4, <2>2, <2>3, <2>6, <2>7, <2>8 DEF ReconOK
    <2>10. ReconcileAnswers'
        BY <2>3 DEF ReconcileAnswers
    <2>. QED
        BY <1>2, <1>6, <2>5, <2>9, <2>10
<1>9. CASE ReconcileStays
    <2>1. PICK p \in recon.read :
             recon' = [recon EXCEPT !.read = @ \ {p},
                          !.answer = @ \cup {b \in recon.feed : b[1] = p /\
                                                b[2] \notin stays[p]}]
        BY <1>9 DEF ReconcileStays
    <2>2. recon.pc = "reading"
        BY <1>9 DEF ReconcileStays
    <2>3. /\ recon'.pc = "reading" /\ recon'.todo = recon.todo
          /\ recon'.read = recon.read \ {p} /\ recon'.feed = recon.feed
          /\ recon'.answer = recon.answer \cup {b \in recon.feed : b[1] = p /\
                                                   b[2] \notin stays[p]}
        BY <1>3, <2>1, <2>2 DEF Recon
    <2>4. recon' \in Recon
        BY <1>3, <2>1 DEF Recon
    <2>5. watch' = watch
        BY <1>1, <2>2, ReadingKeepsWatch
    <2>6. ASSUME NEW b \in watch.steady
          PROVE  \/ b[1] \in recon'.todo \/ b \in recon'.answer
                 \/ b[1] \in recon'.read /\ b \in recon'.feed
        BY <2>2, <2>3 DEF ReconOK
    <2>7. \A b \in watch.booked : b \notin recon'.answer
        BY <2>2, <2>3 DEF ReconOK
    <2>8. \A b \in watch.silent : b \notin recon'.answer
        BY <2>2, <2>3 DEF ReconOK
    <2>9. ReconOK'
        BY <1>4, <2>2, <2>3, <2>5, <2>6, <2>7, <2>8 DEF ReconOK
    <2>10. ReconcileAnswers'
        BY <2>3 DEF ReconcileAnswers
    <2>. QED
        BY <1>2, <1>6, <2>4, <2>9, <2>10
<1>10. CASE ReconcileAnswer
    <2>1. /\ recon.pc = "reading" /\ recon.todo = {} /\ recon.read = {}
          /\ recon' = [recon EXCEPT !.pc = "answered"]
        BY <1>10 DEF ReconcileAnswer
    <2>2. recon' \in Recon /\ recon'.pc = "answered" /\ recon'.answer = recon.answer
        BY <1>3, <2>1 DEF Recon
    <2>3. watch' = watch
        BY <2>2 DEF Watch
    <2>4. ReconOK'
        BY <2>2 DEF ReconOK
    <2>5. ReconcileAnswers'
        BY <2>1, <2>2, <2>3 DEF ReconOK, ReconcileAnswers
    <2>. QED
        BY <1>2, <1>6, <2>2, <2>4, <2>5
<1>. QED
    BY <1>7, <1>8, <1>9, <1>10

(* The plan changes, or the calendar of stays.                             *)
LEMMA SurroundingsChange ==
    ASSUME DeskInv, CountersOK, ReconOK, ReconcileAnswers, Watch,
           ChangeQuota \/ ChangeStays
    PROVE  DeskInv' /\ CountersOK' /\ ReconOK' /\ ReconcileAnswers'
<1>1. UNCHANGED <<tables, task, recon, failures>>
    BY DEF ChangeQuota, ChangeStays
<1>2. /\ quota' \in Quotas /\ highest' \in Quotas /\ quota' <= highest'
      /\ highest <= highest'
    <2>1. quota \in Quotas /\ highest \in Quotas /\ quota <= highest /\ highest \in Nat
        BY Constants DEF CountersOK
    <2>2. CASE ChangeQuota
        <3>1. quota' \in Quotas /\ quota' \in Nat
              /\ highest' = IF quota' > highest THEN quota' ELSE highest
            BY <2>2, Constants DEF ChangeQuota
        <3>. QED
            BY <2>1, <3>1
    <2>3. CASE ChangeStays
        <3>1. quota' = quota /\ highest' = highest
            BY <2>3 DEF ChangeStays
        <3>. QED
            BY <2>1, <3>1
    <2>. QED
        BY <2>2, <2>3
<1>3. stays' \in [Props -> SUBSET Texts]
    <2>1. CASE ChangeQuota
        BY <2>1 DEF ChangeQuota, CountersOK
    <2>2. CASE ChangeStays
        <3>1. PICK p \in Live, d \in Texts :
                 stays' = [stays EXCEPT ![p] = IF d \in @ THEN @ \ {d} ELSE @ \cup {d}]
            BY <2>2 DEF ChangeStays
        <3>. QED
            BY <3>1 DEF CountersOK, Live
    <2>. QED
        BY <2>1, <2>2
<1>4. left' \in [Operations -> Nat]
    BY DEF ChangeQuota, ChangeStays, Spend, CountersOK, Operations
<1>5. CountersOK'
    BY <1>1, <1>2, <1>3, <1>4, WatchTyped DEF CountersOK
<1>6. DeskInv'
    BY <1>1, <1>2, Constants, SurroundingsKeep
<1>. QED
    BY <1>1, <1>5, <1>6, ReconRests

-----------------------------------------------------------------------------
(* The invariant.                                                          *)

(* Every action of a request keeps what the tables and the requests say.   *)
LEMMA RequestsKeep ==
    ASSUME DeskInv, CountersOK, NEW t \in Tasks,
           \/ CreateProperty(t) \/ ImportProperties(t) \/ LockOwner(t)
           \/ EnsureWithinQuota(t) \/ InsertProperty(t)
           \/ ImportPropertyRow(t) \/ ImportPropertiesCommit(t)
           \/ ImportReject(t)
           \/ UpdateProperty(t) \/ DeleteProperty(t) \/ SaveProperty(t)
           \/ CreateSetting(t) \/ CreateApp(t) \/ CreateSource(t)
           \/ RecordEntry(t) \/ FindByKey(t) \/ LockProperty(t)
           \/ CountActiveSettings(t) \/ Conflict(t)
           \/ InsertSetting(t) \/ InsertApp(t) \/ InsertSource(t)
           \/ InsertEntry(t)
           \/ UpdateSetting(t) \/ UpdateApp(t) \/ UpdateSource(t)
           \/ DeleteSetting(t) \/ DeleteApp(t) \/ DeleteSource(t)
           \/ DeleteEntry(t) \/ FindById(t)
           \/ WriteSetting(t) \/ WriteApp(t) \/ WriteSource(t)
           \/ RemoveSetting(t) \/ RemoveApp(t) \/ RemoveSource(t)
           \/ RemoveEntry(t)
           \/ ImportEntries(t) \/ ImportEntryRow(t) \/ ImportEntriesCommit(t)
           \/ Die(t)
    PROVE  DeskInv'
<1>1. CASE CreateProperty(t) \/ ImportProperties(t) \/ UpdateProperty(t) \/ DeleteProperty(t)
    BY <1>1, PropertyBegins
<1>2. CASE CreateSetting(t) \/ CreateApp(t) \/ CreateSource(t) \/ RecordEntry(t)
    BY <1>2, CreationBegins
<1>3. CASE \/ UpdateSetting(t) \/ UpdateApp(t) \/ UpdateSource(t)
           \/ DeleteSetting(t) \/ DeleteApp(t) \/ DeleteSource(t) \/ DeleteEntry(t)
    BY <1>3, RowRequestBegins
<1>4. CASE ImportEntries(t)
    BY <1>4, EntryImportBegins
<1>5. CASE LockOwner(t) \/ EnsureWithinQuota(t) \/ ImportPropertyRow(t) \/ ImportReject(t)
    BY <1>5, AddingMoves
<1>6. CASE \/ FindByKey(t) \/ LockProperty(t) \/ CountActiveSettings(t)
           \/ Conflict(t) \/ Die(t)
    BY <1>6, CreationMoves
<1>7. CASE FindById(t)
    BY <1>7, FindByIdMoves
<1>8. CASE InsertProperty(t)
    BY <1>8, InsertPropertyKeeps
<1>9. CASE ImportPropertiesCommit(t)
    BY <1>9, ImportPropertiesCommitKeeps
<1>10. CASE SaveProperty(t)
    BY <1>10, SavePropertyKeeps
<1>11. CASE InsertSetting(t) \/ InsertApp(t) \/ InsertSource(t) \/ InsertEntry(t)
    BY <1>11, InsertKeeps
<1>12. CASE WriteSetting(t) \/ WriteApp(t) \/ WriteSource(t)
    BY <1>12, UpdateRowKeeps
<1>13. CASE RemoveSetting(t) \/ RemoveApp(t) \/ RemoveSource(t) \/ RemoveEntry(t)
    BY <1>13, DeleteRowKeeps
<1>14. CASE ImportEntryRow(t)
    BY <1>14, ImportInserts
<1>15. CASE ImportEntriesCommit(t)
    BY <1>15, ImportEntriesCommitKeeps
<1>. QED
    BY <1>1, <1>2, <1>3, <1>4, <1>5, <1>6, <1>7, <1>8, <1>9, <1>10, <1>11, <1>12,
       <1>13, <1>14, <1>15

LEMMA NextKeeps == Inv /\ [Next]_vars => Inv'
<1>. SUFFICES ASSUME Inv, [Next]_vars PROVE Inv'
    OBVIOUS
<1>1. DeskInv /\ CountersOK /\ ReconOK /\ ReconcileAnswers
    BY DEF Inv
<1>2. CASE Next
    <2>1. Step /\ Watch
        BY <1>2 DEF Next
    <2>2. CASE ReconcileStart \/ ReconcileSources \/ ReconcileStays \/ ReconcileAnswer
        BY <1>1, <2>1, <2>2, ReconcileKeeps DEF Inv
    <2>3. CASE ChangeQuota \/ ChangeStays
        BY <1>1, <2>1, <2>3, SurroundingsChange DEF Inv
    <2>4. ASSUME ~(ReconcileStart \/ ReconcileSources \/ ReconcileStays \/ ReconcileAnswer),
                 ~(ChangeQuota \/ ChangeStays)
          PROVE  Inv'
        <3>1. PICK t \in Tasks :
                 \/ CreateProperty(t) \/ ImportProperties(t) \/ LockOwner(t)
                 \/ EnsureWithinQuota(t) \/ InsertProperty(t)
                 \/ ImportPropertyRow(t) \/ ImportPropertiesCommit(t)
                 \/ ImportReject(t)
                 \/ UpdateProperty(t) \/ DeleteProperty(t) \/ SaveProperty(t)
                 \/ CreateSetting(t) \/ CreateApp(t) \/ CreateSource(t)
                 \/ RecordEntry(t) \/ FindByKey(t) \/ LockProperty(t)
                 \/ CountActiveSettings(t) \/ Conflict(t)
                 \/ InsertSetting(t) \/ InsertApp(t) \/ InsertSource(t)
                 \/ InsertEntry(t)
                 \/ UpdateSetting(t) \/ UpdateApp(t) \/ UpdateSource(t)
                 \/ DeleteSetting(t) \/ DeleteApp(t) \/ DeleteSource(t)
                 \/ DeleteEntry(t) \/ FindById(t)
                 \/ WriteSetting(t) \/ WriteApp(t) \/ WriteSource(t)
                 \/ RemoveSetting(t) \/ RemoveApp(t) \/ RemoveSource(t)
                 \/ RemoveEntry(t)
                 \/ ImportEntries(t) \/ ImportEntryRow(t) \/ ImportEntriesCommit(t)
                 \/ Die(t)
            BY <2>1, <2>4 DEF Step
        <3>2. DeskInv'
            BY <1>1, <3>1, RequestsKeep
        <3>3. /\ UNCHANGED <<quota, highest, stays, recon>>
              /\ left' \in [Operations -> Nat] /\ failures' \in 0 .. MaxFailures
            BY <1>1, <3>1, RequestSteps
        <3>4. CountersOK'
            BY <1>1, <2>1, <3>3, WatchTyped DEF CountersOK
        <3>5. ReconOK' /\ ReconcileAnswers'
            BY <1>1, <2>1, <3>3, ReconRests
        <3>. QED
            BY <3>2, <3>4, <3>5 DEF Inv
    <2>. QED
        BY <2>2, <2>3, <2>4
<1>3. CASE UNCHANGED vars
    <2>1. /\ UNCHANGED <<tables, task, highest, recon, watch, stays>>
          /\ UNCHANGED <<quota, left, failures>>
        BY <1>3 DEF vars, tables
    <2>2. DeskInv'
        BY <1>1, <2>1, KeptCounted, SurroundingsKeep
    <2>3. CountersOK'
        BY <1>1, <2>1 DEF CountersOK
    <2>4. Reported' = Reported /\ Live' = Live
        BY <2>1 DEF Reported, Active, Live, tables
    <2>5. ReconOK' /\ ReconcileAnswers'
        BY <1>1, <2>1, <2>4 DEF ReconOK, ReconcileAnswers
    <2>. QED
        BY <2>2, <2>3, <2>5 DEF Inv
<1>. QED
    BY <1>2, <1>3

LEMMA InitKeeps == Init => Inv
<1>. SUFFICES ASSUME Init PROVE Inv
    OBVIOUS
<1>1. quota \in Nat /\ highest = quota
    BY Constants DEF Init
<1>2. CountersOK
    BY <1>1, Constants DEF Init, CountersOK, NoRecon, Recon
<1>3. PropsOK
    BY DEF Init, PropsOK
<1>4. \A r \in Rows : row[r] = NoRow
    BY DEF Init
<1>5. RowsOK
    <2>1. NoRow \in Row /\ NoRow.key = None
        BY NoRowOK DEF RowOK, NoRow
    <2>2. Unique(NoRow, NoRow)
        BY <2>1 DEF Unique
    <2>3. row \in [Rows -> Row]
        BY <2>1 DEF Init
    <2>. QED
        BY <1>4, <2>2, <2>3, NoRowOK DEF RowsOK
<1>6. RedactedOK
    BY <1>4 DEF RedactedOK, NoRow
<1>7. Live = {} /\ \A p \in Props : Active("setting", p) = {}
    BY <1>4 DEF Live, Active, Init, NoRow
<1>8. IsFiniteSet({}) /\ Cardinality({}) = 0 /\ Kept = {}
    BY <1>7, FS_EmptySet DEF Kept
<1>9. LimitsOK
    BY <1>1, <1>7, <1>8, Constants DEF LimitsOK
<1>10. RequestsOK
    <2>1. task = [t \in Tasks |-> Idle] /\ RequestOK(Idle)
        BY <1>1, IdleOK DEF Init
    <2>2. Idle \in Task /\ Idle.done = {} /\ Idle.lock = "none"
        BY <2>1 DEF RequestOK, Shape, Idle
    <2>3. task \in [Tasks -> Task] /\ \A t \in Tasks : task[t] = Idle
        BY <2>1, <2>2
    <2>. QED
        BY <2>1, <2>2, <2>3 DEF RequestsOK
<1>11. ReconOK /\ ReconcileAnswers
    BY DEF Init, ReconOK, ReconcileAnswers, NoRecon
<1>. QED
    BY <1>2, <1>3, <1>5, <1>6, <1>9, <1>10, <1>11 DEF Inv, DeskInv

LEMMA Invariance == Spec => []Inv
<1>. QED
    BY InitKeeps, NextKeeps, PTL DEF Spec

-----------------------------------------------------------------------------
(* The theorems.                                                           *)

(* The tables keep their unique indexes and foreign keys, a live setting   *)
(* has a value of its type however patches overlap, and an advisory lock   *)
(* has one holder (property_schemas.ts, refineSettingValueForType,         *)
(* pg_advisory_xact_lock).                                                 *)
THEOREM TypeCorrect == Spec => []TypeOK
<1>1. ASSUME Inv PROVE TypeOK
    <2>1. CountersOK /\ PropsOK /\ RowsOK /\ RequestsOK
        BY <1>1 DEF Inv, DeskInv
    <2>2. /\ \A r \in Rows : row[r].of # None => prop[row[r].of] # "none"
          /\ \A r \in Rows : row[r].st = "live" /\ Typed(row[r].kind)
                               => row[r].type = TypeOf[row[r].text]
        BY <2>1 DEF RowsOK, RowOK
    <2>3. \A r, s \in Rows :
             /\ r # s /\ row[r].kind = row[s].kind
             /\ row[r].key # None /\ row[r].key = row[s].key
             => \/ row[r].kind = "setting"
                   /\ (row[r].of # row[s].of \/ "deleted" \in {row[r].st, row[s].st})
                \/ row[r].kind \notin {"setting", "app"}
        BY <2>1 DEF RowsOK, Unique
    <2>4. \A t, u \in Tasks :
             t # u /\ task[t].lock # "none" => task[t].lock # task[u].lock
        BY <2>1 DEF RequestsOK
    <2>. QED
        BY <2>1, <2>2, <2>3, <2>4 DEF TypeOK, CountersOK, PropsOK, RowsOK, RequestsOK
<1>. QED
    BY <1>1, Invariance, PTL

(* However creations and imports of properties overlap while the plan      *)
(* changes, the owner has no more of them than the plan ever allowed, but  *)
(* for one a late update brought back; nor has a property more active      *)
(* settings than MAX_ACTIVE_PROPERTY_SETTINGS (saveNewWithinQuota,         *)
(* PropertySettingPostgresRepository.save).                                *)
THEOREM LimitsCorrect == Spec => []LimitsHold
<1>1. Inv => LimitsHold
    BY DEF Inv, DeskInv, LimitsOK, LimitsHold, Kept
<1>. QED
    BY <1>1, Invariance, PTL

(* Whatever changes while a reconciliation reads table after table, its    *)
(* answer has all that an active calendar of a live property reported      *)
(* throughout and no stay met, and nothing that was booked, or unreported, *)
(* throughout (ReconcileExternalBookingsUseCase).                          *)
THEOREM ReconcileCorrect == Spec => []ReconcileAnswers
<1>1. Inv => ReconcileAnswers
    BY DEF Inv
<1>. QED
    BY <1>1, Invariance, PTL

(* Only a property read before its deletion can come back, by the update   *)
(* that read it.                                                           *)
LEMMA PropertiesStayDeleted ==
    ASSUME Inv, Next, NEW p \in Props, p \notin late, prop[p] = "deleted"
    PROVE  prop'[p] = "deleted"
<1>1. prop \in [Props -> {"none", "live", "deleted"}] /\ DeskInv
    BY DEF Inv, DeskInv, PropsOK
<1>2. ASSUME NEW t \in Tasks, InsertProperty(t) PROVE prop'[p] = "deleted"
    <2>1. NewProp \in Props /\ prop[NewProp] = "none"
        BY <1>2, NewOnes DEF InsertProperty
    <2>2. prop' = prop \/ prop' = [prop EXCEPT ![NewProp] = "live"]
        BY <1>2 DEF InsertProperty
    <2>. QED
        BY <1>1, <2>1, <2>2
<1>3. ASSUME NEW t \in Tasks, ImportPropertiesCommit(t) PROVE prop'[p] = "deleted"
    <2>1. task[t].on = "property" /\ RequestOK(task[t])
        BY <1>1, <1>3 DEF ImportPropertiesCommit, At, DeskInv, RequestsOK
    <2>2. p \notin task[t].done
        BY <2>1 DEF RequestOK, Stands
    <2>3. prop' = [q \in Props |-> IF q \in task[t].done THEN "live" ELSE prop[q]]
        BY <1>3 DEF ImportPropertiesCommit
    <2>. QED
        BY <2>2, <2>3
<1>4. ASSUME NEW t \in Tasks, SaveProperty(t) PROVE prop'[p] = "deleted"
    <2>1. RequestOK(task[t])
        BY <1>1 DEF DeskInv, RequestsOK
    <2>2. CASE At(t, "update", "property", "write")
               /\ prop' = [prop EXCEPT ![task[t].p] = "live"]
        <3>1. task[t].p # p
            BY <2>1, <2>2 DEF At, RequestOK, Stands
        <3>. QED
            BY <1>1, <2>2, <3>1
    <2>3. CASE prop' = [prop EXCEPT ![task[t].p] = "deleted"]
        BY <1>1, <2>3
    <2>. QED
        BY <1>4, <2>2, <2>3 DEF SaveProperty
<1>5. ASSUME \A t \in Tasks : ~InsertProperty(t) /\ ~ImportPropertiesCommit(t)
                              /\ ~SaveProperty(t)
      PROVE  prop' = prop
    <2>1. Step
        BY DEF Next
    <2>2. CASE \/ ReconcileStart \/ ReconcileSources \/ ReconcileStays
               \/ ReconcileAnswer \/ ChangeQuota \/ ChangeStays
        BY <2>2 DEF ReconcileStart, ReconcileSources, ReconcileStays, ReconcileAnswer,
           ChangeQuota, ChangeStays, tables
    <2>3. ASSUME NEW t \in Tasks,
                 \/ CreateProperty(t) \/ ImportProperties(t) \/ UpdateProperty(t)
                 \/ DeleteProperty(t) \/ CreateSetting(t) \/ CreateApp(t)
                 \/ CreateSource(t) \/ RecordEntry(t) \/ ImportEntries(t)
                 \/ UpdateSetting(t) \/ UpdateApp(t) \/ UpdateSource(t)
                 \/ DeleteSetting(t) \/ DeleteApp(t) \/ DeleteSource(t) \/ DeleteEntry(t)
          PROVE  prop' = prop
        BY <2>3 DEF CreateProperty, ImportProperties, UpdateProperty, DeleteProperty,
           CreateSetting, CreateApp, CreateSource, RecordEntry, ImportEntries, Create,
           UpdateSetting, UpdateApp, UpdateSource, DeleteSetting, DeleteApp,
           DeleteSource, DeleteEntry, Patch, Delete, Begin, tables
    <2>4. ASSUME NEW t \in Tasks,
                 \/ LockOwner(t) \/ EnsureWithinQuota(t) \/ ImportPropertyRow(t)
                 \/ ImportReject(t) \/ FindByKey(t) \/ LockProperty(t)
                 \/ CountActiveSettings(t) \/ Conflict(t) \/ FindById(t)
                 \/ ImportEntryRow(t) \/ Die(t)
          PROVE  prop' = prop
        BY <2>4 DEF LockOwner, EnsureWithinQuota, ImportPropertyRow, ImportReject,
           FindByKey, LockProperty, CountActiveSettings, Conflict, FindById,
           ImportEntryRow, Die, tables
    <2>5. ASSUME NEW t \in Tasks,
                 \/ InsertSetting(t) \/ InsertApp(t) \/ InsertSource(t) \/ InsertEntry(t)
                 \/ WriteSetting(t) \/ WriteApp(t) \/ WriteSource(t)
                 \/ RemoveSetting(t) \/ RemoveApp(t) \/ RemoveSource(t) \/ RemoveEntry(t)
                 \/ ImportEntriesCommit(t)
          PROVE  prop' = prop
        BY <2>5 DEF InsertSetting, InsertApp, InsertSource, InsertEntry, Insert,
           WriteSetting, WriteApp, WriteSource, UpdateRow, RemoveSetting, RemoveApp,
           RemoveSource, RemoveEntry, DeleteRow, ImportEntriesCommit
    <2>. QED
        BY <1>5, <2>1, <2>2, <2>3, <2>4, <2>5 DEF Step
<1>. QED
    BY <1>2, <1>3, <1>4, <1>5

(* No write and no insertion touches st of a deleted row.                  *)
LEMMA RowsStayDeleted ==
    ASSUME Inv, Next, NEW r \in Rows, row[r].st = "deleted"
    PROVE  row'[r].st = "deleted"
<1>1. row \in [Rows -> Row] /\ row[r] \in Row /\ DeskInv
    BY DEF Inv, DeskInv, RowsOK
<1>2. ASSUME NEW t \in Tasks,
             InsertSetting(t) \/ InsertApp(t) \/ InsertSource(t) \/ InsertEntry(t)
      PROVE  row'[r].st = "deleted"
    <2>1. PICK d : NewRows # {} /\ row' = [row EXCEPT ![NewRow] = d]
        BY <1>2 DEF InsertSetting, InsertApp, InsertSource, InsertEntry, Insert
    <2>2. NewRow \in Rows /\ NewRow # r
        BY <2>1, NewOnes
    <2>. QED
        BY <1>1, <2>1, <2>2
<1>3. ASSUME NEW t \in Tasks, WriteSetting(t) \/ WriteApp(t) \/ WriteSource(t)
      PROVE  row'[r].st = "deleted"
    <2>1. row' = [row EXCEPT ![task[t].r] = Written(row[task[t].r], task[t])]
        BY <1>3 DEF WriteSetting, WriteApp, WriteSource, UpdateRow
    <2>2. Written(row[r], task[t]).st = "deleted"
        BY <1>1 DEF Written, Row
    <2>. QED
        BY <1>1, <2>1, <2>2
<1>4. ASSUME NEW t \in Tasks,
             RemoveSetting(t) \/ RemoveApp(t) \/ RemoveSource(t) \/ RemoveEntry(t)
      PROVE  row'[r].st = "deleted"
    <2>1. row' = [row EXCEPT ![task[t].r] = SoftDeleted(row[task[t].r])]
        BY <1>4 DEF RemoveSetting, RemoveApp, RemoveSource, RemoveEntry, DeleteRow
    <2>2. SoftDeleted(row[r]).st = "deleted"
        BY <1>1 DEF SoftDeleted, Redacted, Row
    <2>. QED
        BY <1>1, <2>1, <2>2
<1>5. ASSUME NEW t \in Tasks, ImportEntriesCommit(t) PROVE row'[r].st = "deleted"
    <2>1. task[t].on = "entry" /\ RequestOK(task[t])
        BY <1>1, <1>5 DEF ImportEntriesCommit, At, DeskInv, RequestsOK
    <2>2. r \notin task[t].done
        BY <2>1 DEF RequestOK, Stands
    <2>3. row' = [s \in Rows |-> IF s \in task[t].done
                              THEN [NoRow EXCEPT !.st = "live", !.kind = "entry",
                                                 !.of = task[t].p]
                              ELSE row[s]]
        BY <1>5 DEF ImportEntriesCommit
    <2>. QED
        BY <2>2, <2>3
<1>6. ASSUME \A t \in Tasks :
                ~\/ InsertSetting(t) \/ InsertApp(t) \/ InsertSource(t) \/ InsertEntry(t)
                 \/ WriteSetting(t) \/ WriteApp(t) \/ WriteSource(t)
                 \/ RemoveSetting(t) \/ RemoveApp(t) \/ RemoveSource(t) \/ RemoveEntry(t)
                 \/ ImportEntriesCommit(t)
      PROVE  row' = row
    <2>1. Step
        BY DEF Next
    <2>2. CASE \/ ReconcileStart \/ ReconcileSources \/ ReconcileStays
               \/ ReconcileAnswer \/ ChangeQuota \/ ChangeStays
        BY <2>2 DEF ReconcileStart, ReconcileSources, ReconcileStays, ReconcileAnswer,
           ChangeQuota, ChangeStays, tables
    <2>3. ASSUME NEW t \in Tasks,
                 \/ CreateProperty(t) \/ ImportProperties(t) \/ UpdateProperty(t)
                 \/ DeleteProperty(t) \/ CreateSetting(t) \/ CreateApp(t)
                 \/ CreateSource(t) \/ RecordEntry(t) \/ ImportEntries(t)
                 \/ UpdateSetting(t) \/ UpdateApp(t) \/ UpdateSource(t)
                 \/ DeleteSetting(t) \/ DeleteApp(t) \/ DeleteSource(t) \/ DeleteEntry(t)
          PROVE  row' = row
        BY <2>3 DEF CreateProperty, ImportProperties, UpdateProperty, DeleteProperty,
           CreateSetting, CreateApp, CreateSource, RecordEntry, ImportEntries, Create,
           UpdateSetting, UpdateApp, UpdateSource, DeleteSetting, DeleteApp,
           DeleteSource, DeleteEntry, Patch, Delete, Begin, tables
    <2>4. ASSUME NEW t \in Tasks,
                 \/ LockOwner(t) \/ EnsureWithinQuota(t) \/ ImportPropertyRow(t)
                 \/ ImportReject(t) \/ FindByKey(t) \/ LockProperty(t)
                 \/ CountActiveSettings(t) \/ Conflict(t) \/ FindById(t)
                 \/ ImportEntryRow(t) \/ Die(t)
          PROVE  row' = row
        BY <2>4 DEF LockOwner, EnsureWithinQuota, ImportPropertyRow, ImportReject,
           FindByKey, LockProperty, CountActiveSettings, Conflict, FindById,
           ImportEntryRow, Die, tables
    <2>5. ASSUME NEW t \in Tasks,
                 InsertProperty(t) \/ ImportPropertiesCommit(t) \/ SaveProperty(t)
          PROVE  row' = row
        BY <2>5 DEF InsertProperty, ImportPropertiesCommit, SaveProperty
    <2>. QED
        BY <1>6, <2>1, <2>2, <2>3, <2>4, <2>5 DEF Step
<1>. QED
    BY <1>2, <1>3, <1>4, <1>5, <1>6

(* What is deleted stays deleted and a deleted setting redacted, whichever *)
(* requests overlap, unless an update had read it before its deletion: the *)
(* update of a property brings it back, that of a setting its content; no  *)
(* row of the other tables ever comes back (softDelete, findById, update,  *)
(* PropertyPostgresRepository.#updateProperty).                            *)
THEOREM DeletionCorrect == Spec => DeletionSticks
<1> DEFINE A == /\ \A p \in Props \ late :
                      prop[p] = "deleted" => prop'[p] = "deleted"
                /\ \A r \in Rows : row[r].st = "deleted" => row'[r].st = "deleted"
                /\ \A r \in Rows \ late' :
                      row'[r].st = "deleted" /\ row'[r].kind = "setting"
                         => row'[r].text = None
<1>1. ASSUME Inv, [Next]_vars PROVE [A]_vars
    <2>1. RedactedOK'
        BY <1>1, NextKeeps DEF Inv, DeskInv
    <2>2. ASSUME Next PROVE A
        BY <1>1, <2>1, <2>2, PropertiesStayDeleted, RowsStayDeleted DEF RedactedOK
    <2>. HIDE DEF A
    <2>. QED
        BY <1>1, <2>2
<1>. QED
    BY <1>1, Invariance, PTL DEF Spec, DeletionSticks

=============================================================================
