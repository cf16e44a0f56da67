---------------------- MODULE NotificationOutboxProofs ----------------------
(***************************************************************************)
(* Proofs about NotificationOutbox: the invariant its tables, runs and     *)
(* handlers keep together, the bound on duplicates, and that every step is *)
(* one of NotificationLifecycle or none at all.  They hold for any number  *)
(* of notifications, ticks, attempts, crashes and failed saves.  At the    *)
(* end, what the pages of Pages show, for every number of rows and limit.  *)
(***************************************************************************)
EXTENDS NotificationOutbox, Pages, FiniteSetTheorems,
        WellFoundedInduction, TLAPS

-----------------------------------------------------------------------------
(* The inductive invariant.                                                *)

Run == [pc : {"idle", "deliver", "save"}, batch : Seq(Snapshot)]

Typed ==
    /\ row \in [Notes -> Row]
    /\ turnedOff \subseteq Optional
    /\ purged \subseteq Users
    /\ running \in BOOLEAN
    /\ run \in [Runs -> Run]
    /\ \A w \in Runs : run[w].pc = "idle" <=> run[w].batch = <<>>
    /\ task \in [Notes -> Task]
    /\ crashes \in 0 .. MaxCrashes /\ outages \in 0 .. MaxOutages
    /\ emails \in [Notes -> Nat] /\ lost \in [Notes -> Nat]

DueOK ==
    /\ due \in Seq(Notes)
    /\ \A i \in DOMAIN due : row[due[i]].st = "pending"
    /\ IsInjective(due)

(* The guard of the timer: one run at a time.                              *)
OneRun ==
    /\ \A w \in Runs : run[w].pc # "idle" => running
    /\ \A v, w \in Runs : run[v].pc # "idle" /\ run[w].pc # "idle" => v = w

(* The head of a run that has delivered it and not yet saved it.           *)
Settling(w, i) == run[w].pc = "save" /\ i = 1

(* What a run carries are rows no one else settles meanwhile: they are     *)
(* pending still, unless their user was purged.                            *)
Carries(w, i) ==
    LET s == run[w].batch[i] IN
    /\ row[s.note].st \in {"pending", "gone"}
    /\ ~s.read
    /\ s.st = "pending" => s.attempts < MaxAttempts
    /\ Settling(w, i) \/ s.st = "pending"
BatchOK ==
    \A w \in Runs : \A i \in DOMAIN run[w].batch :
       /\ Carries(w, i)
       /\ \A j \in DOMAIN run[w].batch :
             run[w].batch[i].note = run[w].batch[j].note => i = j

RowOK ==
    \A n \in Notes :
       /\ row[n].st = "none" => row[n] = NoRow
       /\ row[n].st = "pending" => row[n].attempts < MaxAttempts
       /\ row[n].read => row[n].st = "sent"
       /\ row[n].st = "gone" => Owner(n) \in purged
       /\ Owner(n) \in purged => row[n].st \in {"none", "gone"}

(* A suspended insert finds no row but that of a purged user, a suspended  *)
(* reader a row that was sent.                                             *)
TaskOK ==
    \A n \in Notes :
       /\ task[n].pc = "create" => row[n].st \in {"none", "gone"}
       /\ task[n].pc = "read" => /\ task[n].seen.st = "sent"
                                 /\ row[n].st \in {"sent", "gone"}

(* The provider has accepted it and the table does not know yet.           *)
Unsaved(n) ==
    \E w \in Runs : /\ run[w].pc = "save"
                    /\ Head(run[w].batch).note = n
                    /\ Head(run[w].batch).st = "sent"
InBatch(n) ==
    \E w \in Runs : \E i \in DOMAIN run[w].batch : run[w].batch[i].note = n

(* What may still be delivered has no e-mail that is not counted as lost.  *)
EmailsOK ==
    \A n \in Notes :
       /\ emails[n] <= lost[n] + 1
       /\ row[n].st = "sent" \/ Unsaved(n) => emails[n] > 0
       /\ (row[n].st \in {"none", "pending"} \/ InBatch(n)) /\ ~Unsaved(n)
             => emails[n] <= lost[n]

OutboxInv ==
    Typed /\ DueOK /\ OneRun /\ BatchOK /\ RowOK /\ TaskOK /\ EmailsOK

-----------------------------------------------------------------------------
(* Facts about the helpers.                                                *)

(* NoRow and Idle are of their types.                                      *)
LEMMA Constants ==
    /\ NoRow \in Row /\ NoTask \in Task /\ Idle \in Run
    /\ Idle.pc = "idle" /\ Idle.batch = <<>>
BY OutboxAssumption DEF NoRow, Row, NoTask, Task, Idle, Run

(* What leaves due keeps its order: the rest is a part of due, each once.  *)
LEMMA LeaveKeepsOrder ==
    ASSUME due \in Seq(Notes), IsInjective(due), NEW ns, Leave(ns)
    PROVE  /\ due' \in Seq(Notes)
           /\ IsInjective(due')
           /\ \A i \in DOMAIN due' :
                 /\ due'[i] \notin ns
                 /\ \E j \in DOMAIN due : due'[i] = due[j]
<1> DEFINE kept == {i \in DOMAIN due : due[i] \notin ns}
<1>1. PICK at \in [1 .. Cardinality(kept) -> kept] :
         /\ \A i, j \in DOMAIN at : i < j => at[i] < at[j]
         /\ due' = [i \in DOMAIN at |-> due[at[i]]]
  BY DEF Leave
<1>2. Cardinality(kept) \in Nat
  <2>1. IsFiniteSet(1 .. Len(due))
    BY FS_Interval
  <2>2. kept \subseteq 1 .. Len(due)
    OBVIOUS
  <2> QED
    BY <2>1, <2>2, FS_Subset, FS_CardinalityType
<1> DEFINE size == Cardinality(kept)
<1>3. at \in [1 .. size -> kept] /\ size \in Nat
  BY <1>2
<1> HIDE DEF size
<1>4. DOMAIN at = 1 .. size /\ \A i \in 1 .. size : at[i] \in kept
  BY <1>3
<1>5. due' = [i \in 1 .. size |-> due[at[i]]]
  BY <1>1, <1>4
<1>6. \A i \in 1 .. size : due[at[i]] \in Notes
  BY <1>4
<1>7. due' \in Seq(Notes) /\ DOMAIN due' = 1 .. size
  BY <1>3, <1>5, <1>6
<1>8. \A i, j \in 1 .. size : i < j => at[i] < at[j]
  BY <1>1, <1>4
<1>9. \A i, j \in 1 .. size : at[i] = at[j] => i = j
  BY <1>8, <1>4, <1>3
<1>10. IsInjective(due')
  BY <1>4, <1>5, <1>7, <1>9 DEF IsInjective
<1> QED
  BY <1>4, <1>5, <1>7, <1>10

(* The batch loses its head, and the run ends with its last note.          *)
LEMMA NextOfBatch ==
    ASSUME NEW b \in Seq(Snapshot), b # <<>>
    PROVE  /\ NextOf(b) \in Run
           /\ NextOf(b).pc \in {"idle", "deliver"}
           /\ NextOf(b).pc = "idle" <=> NextOf(b).batch = <<>>
           /\ NextOf(b).pc # "idle" <=> Len(b) > 1
           /\ \A i \in DOMAIN NextOf(b).batch :
                 /\ i + 1 \in DOMAIN b /\ i + 1 > 1
                 /\ NextOf(b).batch[i] = b[i + 1]
<1>1. CASE Len(b) = 1
  BY <1>1, Constants DEF NextOf
<1>2. CASE Len(b) # 1
  <2>1. Len(b) \in Nat /\ Len(b) > 1
    BY <1>2
  <2>2. /\ Tail(b) \in Seq(Snapshot) /\ Len(Tail(b)) = Len(b) - 1
        /\ \A i \in 1 .. (Len(b) - 1) : Tail(b)[i] = b[i + 1]
    BY <2>1
  <2> DEFINE t == Tail(b)
  <2>3. t \in Seq(Snapshot) /\ Len(t) = Len(b) - 1
    BY <2>2
  <2> HIDE DEF t
  <2>4. t # <<>> /\ DOMAIN t = 1 .. (Len(b) - 1)
    BY <2>1, <2>3
  <2>5. Tail(b) # <<>> /\ DOMAIN Tail(b) = 1 .. (Len(b) - 1)
    BY <2>4 DEF t
  <2>6. NextOf(b) = [pc |-> "deliver", batch |-> Tail(b)]
    BY <1>2 DEF NextOf
  <2>7. \A i \in 1 .. (Len(b) - 1) : i + 1 \in 1 .. Len(b) /\ i + 1 > 1
    BY <2>1
  <2> QED
    BY <2>1, <2>2, <2>5, <2>6, <2>7 DEF Run
<1> QED
  BY <1>1, <1>2

LEMMA BatchTyped ==
    ASSUME Typed, NEW w \in Runs, NEW i \in DOMAIN run[w].batch
    PROVE  run[w].batch[i] \in Snapshot
<1>1. run[w].batch \in Seq(Snapshot)
  BY DEF Typed, Run
<1> QED
  BY <1>1

(* The head of a batch under way is one of its snapshots.                  *)
LEMMA HeadOfBatch ==
    ASSUME Typed, NEW w \in Runs, run[w].pc # "idle"
    PROVE  /\ run[w].batch \in Seq(Snapshot) /\ run[w].batch # <<>>
           /\ Head(run[w].batch) = run[w].batch[1]
           /\ 1 \in DOMAIN run[w].batch
           /\ run[w].batch[1] \in Snapshot
BY DEF Typed, Run

-----------------------------------------------------------------------------
(* Preferences and queueing.                                               *)

LEMMA InitOutbox == Init => OutboxInv
<1> SUFFICES ASSUME Init PROVE OutboxInv
  OBVIOUS
<1>1. Typed
  <2>1. row \in [Notes -> Row] /\ task \in [Notes -> Task] /\ run \in [Runs -> Run]
    BY Constants DEF Init
  <2>2. \A w \in Runs : run[w].pc = "idle" <=> run[w].batch = <<>>
    BY Constants DEF Init
  <2>3. crashes \in 0 .. MaxCrashes /\ outages \in 0 .. MaxOutages
    BY OutboxAssumption DEF Init
  <2>4. emails \in [Notes -> Nat] /\ lost \in [Notes -> Nat]
    BY DEF Init
  <2>5. turnedOff \subseteq Optional /\ purged \subseteq Users /\ running \in BOOLEAN
    BY DEF Init
  <2> QED
    BY <2>1, <2>2, <2>3, <2>4, <2>5 DEF Typed
<1>2. DueOK
  BY DEF Init, DueOK, IsInjective
<1>3. OneRun /\ BatchOK /\ RowOK /\ TaskOK
  BY Constants DEF Init, OneRun, BatchOK, RowOK, TaskOK, NoRow, NoTask
<1>4. EmailsOK
  BY Constants DEF Init, EmailsOK, Unsaved, NoRow
<1> QED
  BY <1>1, <1>2, <1>3, <1>4 DEF OutboxInv

(* Unsaved and InBatch are about the runs alone.                           *)
LEMMA RunsStay ==
    ASSUME UNCHANGED <<row, run, emails, lost>>, EmailsOK
    PROVE  EmailsOK'
BY DEF EmailsOK, Unsaved, InBatch

LEMMA PreferenceStep ==
    ASSUME OutboxInv, NEW n \in Notes, NEW b \in BOOLEAN, UpdatePreference(n, b)
    PROVE  OutboxInv'
<1> USE DEF OutboxInv, UpdatePreference
<1>1. Typed'
  BY DEF Typed, SavePreference, ChangeTo, MayTurnOff, Optional
<1>2. EmailsOK'
  BY RunsStay
<1>3. DueOK' /\ OneRun' /\ BatchOK' /\ RowOK' /\ TaskOK'
  BY DEF DueOK, OneRun, BatchOK, Carries, Settling, RowOK, TaskOK
<1> QED
  BY <1>1, <1>2, <1>3

LEMMA NotifyStep ==
    ASSUME OutboxInv, NEW n \in Notes, Notify(n)
    PROVE  OutboxInv'
<1> USE DEF OutboxInv, Notify
<1>1. Typed'
  BY DEF Typed, Task
<1>2. EmailsOK'
  BY RunsStay
<1>3. TaskOK'
  BY DEF TaskOK, Typed, Task, NoTask
<1>4. DueOK' /\ OneRun' /\ BatchOK' /\ RowOK'
  BY DEF DueOK, OneRun, BatchOK, Carries, Settling, RowOK
<1> QED
  BY <1>1, <1>2, <1>3, <1>4

LEMMA SaveManyStep ==
    ASSUME OutboxInv, NEW n \in Notes, SaveMany(n)
    PROVE  OutboxInv'
<1> USE DEF OutboxInv, SaveMany
<1>1. /\ UNCHANGED row
      \/ /\ Owner(n) \notin purged /\ row[n] = NoRow
         /\ row' = [row EXCEPT ![n].st = "pending"]
  BY DEF Insert, TaskOK, RowOK, Typed
<1>2. /\ \A m \in Notes : m # n => row'[m] = row[m]
      /\ row'[n] = row[n] \/ ( /\ Owner(n) \notin purged /\ row[n] = NoRow
                               /\ row'[n] = [NoRow EXCEPT !.st = "pending"])
  BY <1>1 DEF Typed
<1>3. Typed'
  <2>1. row' \in [Notes -> Row]
    BY <1>1 DEF Typed, Row
  <2>2. task' \in [Notes -> Task]
    BY Constants DEF Typed
  <2> QED
    BY <2>1, <2>2 DEF Typed
<1>4. DueOK'
  BY <1>2 DEF DueOK, NoRow
<1>5. OneRun'
  BY DEF OneRun
<1>6. RowOK'
  BY <1>2, OutboxAssumption DEF RowOK, NoRow
<1>7. TaskOK'
  <2>1. \A m \in Notes \ {n} : task'[m] = task[m] /\ row'[m] = row[m]
    BY <1>2 DEF Typed
  <2>2. task'[n].pc = "idle"
    BY Constants DEF Typed, NoTask
  <2> QED
    BY <2>1, <2>2 DEF TaskOK
<1>8. BatchOK'
  <2>1. \A w \in Runs : \A i \in DOMAIN run[w].batch :
           run[w].batch[i].note \in Notes
    BY BatchTyped DEF Snapshot
  <2>2. \A w \in Runs : \A i \in DOMAIN run[w].batch : Carries(w, i)'
    BY <1>2, <2>1 DEF BatchOK, Carries, Settling, NoRow
  <2> QED
    BY <2>2 DEF BatchOK
<1>9. EmailsOK'
  <2>1. \A m \in Notes : (Unsaved(m)' <=> Unsaved(m)) /\ (InBatch(m)' <=> InBatch(m))
    BY DEF Unsaved, InBatch
  <2> QED
    BY <1>2, <2>1 DEF EmailsOK, NoRow
<1> QED
  BY <1>3, <1>4, <1>5, <1>6, <1>7, <1>8, <1>9

LEMMA ElapseStep ==
    ASSUME OutboxInv, NEW n \in Notes, Elapse(n)
    PROVE  OutboxInv'
<1> USE DEF OutboxInv, Elapse
<1>1. Typed' /\ EmailsOK'
  BY RunsStay DEF Typed
<1>2. DueOK'
  <2>1. \A i \in 1 .. Len(due) : due[i] # n
    BY DEF Contains
  <2>2. /\ due' \in Seq(Notes) /\ Len(due') = Len(due) + 1
        /\ \A i \in 1 .. Len(due) : due'[i] = due[i]
        /\ due'[Len(due) + 1] = n
    BY DEF DueOK
  <2> QED
    BY <2>1, <2>2 DEF DueOK, IsInjective
<1>3. OneRun' /\ BatchOK' /\ RowOK' /\ TaskOK'
  BY DEF OneRun, BatchOK, Carries, Settling, RowOK, TaskOK
<1> QED
  BY <1>1, <1>2, <1>3

-----------------------------------------------------------------------------
(* The delivery run.                                                       *)

(* With the guard free every run is idle.                                  *)
LEMMA ClaimFindsRunsIdle ==
    ASSUME OutboxInv, ~running
    PROVE  /\ \A w \in Runs : run[w].pc = "idle" /\ run[w].batch = <<>>
           /\ \A n \in Notes : ~Unsaved(n) /\ ~InBatch(n)
<1>1. \A w \in Runs : run[w].pc = "idle"
  BY DEF OutboxInv, OneRun
<1>2. \A w \in Runs : run[w].batch = <<>>
  BY <1>1 DEF OutboxInv, Typed
<1> QED
  BY <1>1, <1>2 DEF Unsaved, InBatch

LEMMA ClaimStep ==
    ASSUME OutboxInv, NEW w \in Runs, ClaimDue(w)
    PROVE  OutboxInv'
<1>1. PICK size : size = IF Len(due) < BatchSize THEN Len(due) ELSE BatchSize
  OBVIOUS
<1>2. PICK at \in Injection(1 .. size, 1 .. size) :
         run' = [run EXCEPT ![w] = [pc |-> "deliver",
                    batch |-> [i \in 1 .. size |-> Claimed(due[at[i]])]]]
  BY <1>1 DEF ClaimDue
<1> DEFINE taken == [i \in 1 .. size |-> Claimed(due[at[i]])]
<1>3. /\ MayStart(w) /\ due # <<>> /\ running' = TRUE
      /\ due' = SubSeq(due, size + 1, Len(due))
      /\ UNCHANGED <<row, turnedOff, purged, task, crashes, outages,
                     emails, lost>>
  BY <1>1 DEF ClaimDue
<1>4. due \in Seq(Notes) /\ Len(due) \in Nat /\ Len(due) > 0
  BY <1>3 DEF OutboxInv, DueOK
<1>5. size \in 1 .. Len(due)
  BY <1>1, <1>4, OutboxAssumption
<1>6. \A i \in 1 .. size : /\ at[i] \in 1 .. Len(due) /\ due[at[i]] \in Notes
                           /\ \A j \in 1 .. size : at[i] = at[j] => i = j
  BY <1>2, <1>4, <1>5 DEF Injection, IsInjective
<1>7. \A i \in 1 .. size : /\ taken[i].note = due[at[i]] /\ taken[i].st = "pending"
                           /\ taken[i].attempts < MaxAttempts /\ ~taken[i].read
                           /\ taken[i] \in Snapshot
  <2> TAKE i \in 1 .. size
  <2>1. row[due[at[i]]].st = "pending"
    BY <1>6, <1>4 DEF OutboxInv, DueOK
  <2>2. /\ row[due[at[i]]] \in Row /\ row[due[at[i]]].attempts < MaxAttempts
        /\ ~row[due[at[i]]].read
    BY <1>6, <2>1 DEF OutboxInv, RowOK, Typed
  <2> QED
    BY <1>6, <2>1, <2>2 DEF Claimed, Snapshot, Row
<1>8. taken \in Seq(Snapshot) /\ DOMAIN taken = 1 .. size /\ taken # <<>>
  <2>1. taken \in [1 .. size -> Snapshot] /\ size \in Nat /\ size > 0
    BY <1>5, <1>7
  <2>2. taken \in Seq(Snapshot)
    BY <2>1
  <2> QED
    BY <2>1, <2>2
<1> HIDE DEF taken
<1>9. \A v \in Runs : /\ v # w => run'[v].pc = "idle" /\ run'[v].batch = <<>>
                      /\ v = w => run'[v] = [pc |-> "deliver", batch |-> taken]
  BY <1>2, <1>3, ClaimFindsRunsIdle DEF OutboxInv, Typed, MayStart, taken
<1>10. /\ \A v \in Runs : v # w => DOMAIN run'[v].batch = {}
       /\ run'[w].batch = taken /\ DOMAIN run'[w].batch = 1 .. size
  <2>1. DOMAIN (<<>>) = {}
    OBVIOUS
  <2> QED
    BY <1>8, <1>9, <2>1
<1>11. Typed'
  <2>1. [pc |-> "deliver", batch |-> taken] \in Run
    BY <1>8 DEF Run
  <2>2. run' \in [Runs -> Run]
    BY <1>2, <2>1 DEF OutboxInv, Typed, taken
  <2> QED
    BY <1>3, <1>8, <1>9, <2>2 DEF OutboxInv, Typed
<1>12. DueOK'
  <2>1. /\ due' \in Seq(Notes) /\ DOMAIN due' = 1 .. (Len(due) - size)
        /\ \A i \in 1 .. (Len(due) - size) : due'[i] = due[size + i]
    BY <1>3, <1>4, <1>5
  <2>2. \A i \in 1 .. (Len(due) - size) : size + i \in DOMAIN due
    BY <1>4, <1>5
  <2>3. \A i, j \in 1 .. (Len(due) - size) : size + i = size + j => i = j
    BY <1>4, <1>5
  <2>4. \A i \in DOMAIN due' : row'[due'[i]].st = "pending"
    <3> TAKE i \in DOMAIN due'
    <3>1. size + i \in DOMAIN due /\ due'[i] = due[size + i]
      BY <2>1, <2>2
    <3>2. row[due[size + i]].st = "pending"
      BY <3>1 DEF OutboxInv, DueOK
    <3> QED
      BY <1>3, <3>1, <3>2
  <2>5. \A i, j \in DOMAIN due' : due'[i] = due'[j] => i = j
    BY <2>1, <2>2, <2>3 DEF OutboxInv, DueOK, IsInjective
  <2> QED
    BY <2>1, <2>4, <2>5 DEF DueOK, IsInjective
<1>13. OneRun' /\ RowOK' /\ TaskOK'
  BY <1>3, <1>9 DEF OutboxInv, OneRun, RowOK, TaskOK
<1>14. BatchOK'
  <2> SUFFICES ASSUME NEW i \in 1 .. size
               PROVE  /\ Carries(w, i)'
                      /\ \A j \in 1 .. size : taken[i].note = taken[j].note => i = j
    <3>1. \A i \in 1 .. size : Carries(w, i)'
      OBVIOUS
    <3> QED
      BY <1>10, <3>1 DEF BatchOK
  <2>1. row[due[at[i]]].st = "pending" /\ at[i] \in DOMAIN due
    BY <1>4, <1>6 DEF OutboxInv, DueOK
  <2>2. \A j \in 1 .. size : due[at[i]] = due[at[j]] => i = j
    BY <1>4, <1>6 DEF OutboxInv, DueOK, IsInjective
  <2> QED
    BY <1>3, <1>7, <1>9, <2>1, <2>2 DEF Carries, Settling
<1>15. EmailsOK'
  <2>1. \A n \in Notes : ~Unsaved(n)' /\ ~Unsaved(n)
    BY <1>3, <1>9, ClaimFindsRunsIdle DEF Unsaved, MayStart
  <2>2. \A n \in Notes : InBatch(n)' => row[n].st = "pending"
    <3>1. SUFFICES ASSUME NEW i \in 1 .. size
                   PROVE  row[taken[i].note].st = "pending"
      BY <1>10 DEF InBatch
    <3>2. taken[i].note = due[at[i]] /\ at[i] \in DOMAIN due
      BY <1>4, <1>6, <1>7
    <3> QED
      BY <3>2 DEF OutboxInv, DueOK
  <2> QED
    BY <1>3, <2>1, <2>2 DEF OutboxInv, EmailsOK
<1> QED
  BY <1>11, <1>12, <1>13, <1>14, <1>15 DEF OutboxInv

(* One more attempt keeps a snapshot within the bound of attempts.         *)
LEMMA MarksKeepSnapshot ==
    ASSUME NEW s \in Snapshot, s.attempts < MaxAttempts, ~s.read
    PROVE  /\ MarkSent(s) \in Snapshot /\ MarkSent(s).st = "sent"
           /\ MarkSent(s).note = s.note /\ ~MarkSent(s).read
           /\ MarkFailed(s) \in Snapshot /\ MarkFailed(s).st # "sent"
           /\ MarkFailed(s).note = s.note /\ ~MarkFailed(s).read
           /\ MarkFailed(s).st = "pending" => MarkFailed(s).attempts < MaxAttempts
<1>1. s.attempts \in Nat /\ MaxAttempts \in Nat
  BY OutboxAssumption DEF Snapshot
<1>2. s.attempts + 1 \in 0 .. MaxAttempts
  BY <1>1
<1>3. MarkFailed(s) \in Snapshot
  BY <1>2 DEF MarkFailed, Snapshot
<1>4. /\ MarkFailed(s).note = s.note /\ MarkFailed(s).read = s.read
      /\ MarkFailed(s).attempts = s.attempts + 1
      /\ MarkFailed(s).st = IF s.attempts + 1 >= MaxAttempts THEN "failed"
                                                             ELSE "pending"
  BY DEF MarkFailed, Snapshot
<1>5. /\ MarkSent(s) \in Snapshot /\ MarkSent(s).st = "sent"
      /\ MarkSent(s).note = s.note /\ ~MarkSent(s).read
  BY DEF MarkSent, Snapshot
<1> QED
  BY <1>1, <1>3, <1>4, <1>5

(* Settling the head changes it, and nothing else of the batch.            *)
LEMMA SettledBatch ==
    ASSUME Typed, NEW w \in Runs, run[w].pc # "idle", NEW s \in Snapshot,
           Settled(w, s)
    PROVE  /\ run' \in [Runs -> Run]
           /\ \A v \in Runs : v # w => run'[v] = run[v]
           /\ run'[w].pc = "save" /\ run'[w].batch # <<>>
           /\ DOMAIN run'[w].batch = DOMAIN run[w].batch
           /\ run'[w].batch[1] = s /\ Head(run'[w].batch) = s
           /\ \A i \in DOMAIN run[w].batch : i # 1 => run'[w].batch[i] = run[w].batch[i]
<1> DEFINE b == run[w].batch
           c == [b EXCEPT ![1] = s]
<1>1. b \in Seq(Snapshot) /\ b # <<>> /\ 1 \in DOMAIN b
  BY HeadOfBatch
<1>2. run' = [run EXCEPT ![w] = [pc |-> "save", batch |-> c]]
  <2>1. run \in [Runs -> Run] /\ run[w] \in Run
    BY DEF Typed
  <2>2. PICK half : half = [run EXCEPT ![w].pc = "save"]
    OBVIOUS
  <2>3. run' = [half EXCEPT ![w].batch[1] = s]
    BY <2>2 DEF Settled
  <2>4. /\ half \in [Runs -> Run] /\ half[w].pc = "save" /\ half[w].batch = b
        /\ \A v \in Runs : v # w => half[v] = run[v]
    BY <2>1, <2>2 DEF Run
  <2>5. half[w] = [pc |-> "save", batch |-> b]
    BY <2>4 DEF Run
  <2>6. [half[w] EXCEPT !.batch[1] = s] = [pc |-> "save", batch |-> c]
    BY <2>5
  <2>7. run' = [half EXCEPT ![w] = [pc |-> "save", batch |-> c]]
    BY <2>3, <2>4, <2>6
  <2> QED
    BY <2>1, <2>4, <2>7
<1> HIDE DEF b
<1>3. /\ c \in Seq(Snapshot) /\ Len(c) = Len(b) /\ DOMAIN c = DOMAIN b /\ c[1] = s
      /\ \A i \in DOMAIN b : i # 1 => c[i] = b[i]
  BY <1>1
<1>4. c # <<>> /\ Head(c) = s
  BY <1>1, <1>3
<1> HIDE DEF c
<1>5. [pc |-> "save", batch |-> c] \in Run
  BY <1>3 DEF Run
<1>6. run' \in [Runs -> Run] /\ \A v \in Runs : v # w => run'[v] = run[v]
  BY <1>2, <1>5 DEF Typed
<1>7. run'[w] = [pc |-> "save", batch |-> c]
  BY <1>2 DEF Typed
<1> QED
  BY <1>3, <1>4, <1>6, <1>7 DEF b

LEMMA DeliverStep ==
    ASSUME OutboxInv, NEW w \in Runs, Deliver(w)
    PROVE  OutboxInv'
<1> DEFINE s == Head(run[w].batch)
<1>1. /\ run[w].pc = "deliver" /\ SettleHead(w, s)
      /\ UNCHANGED <<row, turnedOff, due, purged, running, task, crashes, outages>>
  BY DEF Deliver
<1>2. /\ s = run[w].batch[1] /\ 1 \in DOMAIN run[w].batch /\ s \in Snapshot
      /\ run[w].batch # <<>>
  BY <1>1, HeadOfBatch DEF OutboxInv
<1>3. /\ s.note \in Notes /\ s.attempts < MaxAttempts /\ ~s.read
      /\ row[s.note].st \in {"pending", "gone"}
  BY <1>1, <1>2 DEF OutboxInv, BatchOK, Carries, Settling, Snapshot
<1>4. PICK n \in Notes : n = s.note
  BY <1>3
<1> HIDE DEF s
<1>5. /\ MarkSent(s) \in Snapshot /\ MarkSent(s).st = "sent"
      /\ MarkSent(s).note = n /\ ~MarkSent(s).read
      /\ MarkFailed(s) \in Snapshot /\ MarkFailed(s).st # "sent"
      /\ MarkFailed(s).note = n /\ ~MarkFailed(s).read
      /\ MarkFailed(s).st = "pending" => MarkFailed(s).attempts < MaxAttempts
  BY <1>2, <1>3, <1>4, MarksKeepSnapshot
<1>6. PICK t \in {MarkSent(s), MarkFailed(s)} :
         /\ Settled(w, t)
         /\ \/ /\ t.st = "sent" /\ emails' = [emails EXCEPT ![n] = @ + 1]
               /\ UNCHANGED lost
            \/ t.st # "sent" /\ UNCHANGED <<emails, lost>>
            \/ /\ t.st # "sent"
               /\ emails' = [emails EXCEPT ![n] = @ + 1]
               /\ lost' = [lost EXCEPT ![n] = @ + 1]
  BY <1>1, <1>4, <1>5 DEF SettleHead
<1>7. /\ t \in Snapshot /\ t.note = n /\ ~t.read
      /\ t.st = "pending" => t.attempts < MaxAttempts
  BY <1>5, <1>6
<1>8. /\ run' \in [Runs -> Run]
      /\ \A v \in Runs : v # w => run'[v] = run[v]
      /\ run'[w].pc = "save" /\ run'[w].batch # <<>>
      /\ DOMAIN run'[w].batch = DOMAIN run[w].batch
      /\ run'[w].batch[1] = t /\ Head(run'[w].batch) = t
      /\ \A i \in DOMAIN run[w].batch : i # 1 => run'[w].batch[i] = run[w].batch[i]
  BY <1>1, <1>6, <1>7, SettledBatch DEF OutboxInv
<1>9. \A i \in DOMAIN run[w].batch : run'[w].batch[i].note = run[w].batch[i].note
  BY <1>2, <1>7, <1>8, <1>4 DEF s
<1>10. n \in Notes /\ run[w].batch[1].note = n /\ row[n].st \in {"pending", "gone"}
  BY <1>2, <1>3, <1>4 DEF s
<1>11. \A m \in Notes : emails[m] \in Nat /\ lost[m] \in Nat
  BY DEF OutboxInv, Typed
<1>12. Typed'
  <2>1. emails' \in [Notes -> Nat] /\ lost' \in [Notes -> Nat]
    BY <1>6, <1>10, <1>11 DEF OutboxInv, Typed
  <2>2. \A v \in Runs : run'[v].pc = "idle" <=> run'[v].batch = <<>>
    BY <1>8 DEF OutboxInv, Typed
  <2> QED
    BY <1>1, <1>8, <2>1, <2>2 DEF OutboxInv, Typed
<1>13. DueOK' /\ OneRun' /\ RowOK' /\ TaskOK'
  BY <1>1, <1>8 DEF OutboxInv, DueOK, OneRun, RowOK, TaskOK
<1>14. BatchOK'
  <2>1. \A i \in DOMAIN run[w].batch : Carries(w, i)'
    <3> TAKE i \in DOMAIN run[w].batch
    <3>1. Carries(w, i)
      BY DEF OutboxInv, BatchOK
    <3>2. CASE i = 1
      BY <1>1, <1>7, <1>8, <1>10, <3>2 DEF Carries, Settling
    <3>3. CASE i # 1
      BY <1>1, <1>8, <3>1, <3>3 DEF Carries, Settling
    <3> QED
      BY <3>2, <3>3
  <2>2. \A v \in Runs : v # w => \A i \in DOMAIN run[v].batch : Carries(v, i)'
    BY <1>1, <1>8 DEF OutboxInv, BatchOK, Carries, Settling
  <2> QED
    BY <1>8, <1>9, <2>1, <2>2 DEF OutboxInv, BatchOK
<1>15. EmailsOK'
  <2>1. \A v \in Runs : v # w => run[v].pc = "idle"
    BY <1>1 DEF OutboxInv, OneRun
  <2>2. \A m \in Notes : ~Unsaved(m)
    BY <1>1, <2>1 DEF Unsaved
  <2>3. \A m \in Notes : Unsaved(m)' <=> m = n /\ t.st = "sent"
    BY <1>7, <1>8, <2>1 DEF Unsaved
  <2>4. \A m \in Notes : InBatch(m)' <=> InBatch(m)
    BY <1>8, <1>9 DEF InBatch
  <2>5. InBatch(n)
    BY <1>2, <1>10 DEF InBatch
  <2>6. emails[n] <= lost[n]
    BY <1>10, <2>2, <2>5 DEF OutboxInv, EmailsOK
  <2>7. \A m \in Notes : m # n => emails'[m] = emails[m] /\ lost'[m] = lost[m]
    BY <1>6 DEF OutboxInv, Typed
  <2>8. \/ t.st = "sent" /\ emails'[n] = emails[n] + 1 /\ lost'[n] = lost[n]
        \/ t.st # "sent" /\ emails'[n] = emails[n] /\ lost'[n] = lost[n]
        \/ t.st # "sent" /\ emails'[n] = emails[n] + 1 /\ lost'[n] = lost[n] + 1
    BY <1>6, <1>10 DEF OutboxInv, Typed
  <2>9. ASSUME NEW m \in Notes, m # n
        PROVE  /\ emails'[m] <= lost'[m] + 1
               /\ row'[m].st = "sent" \/ Unsaved(m)' => emails'[m] > 0
               /\ (row'[m].st \in {"none", "pending"} \/ InBatch(m)') /\ ~Unsaved(m)'
                     => emails'[m] <= lost'[m]
    BY <1>1, <2>2, <2>3, <2>4, <2>7, <2>9 DEF OutboxInv, EmailsOK
  <2>10. /\ emails'[n] <= lost'[n] + 1
         /\ row'[n].st # "sent"
         /\ Unsaved(n)' => emails'[n] > 0
         /\ ~Unsaved(n)' => emails'[n] <= lost'[n]
    <3>1. Unsaved(n)' <=> t.st = "sent"
      BY <1>10, <2>3
    <3>2. emails[n] \in Nat /\ lost[n] \in Nat /\ row'[n].st # "sent"
      BY <1>1, <1>10, <1>11
    <3> QED
      BY <3>1, <3>2, <2>6, <2>8
  <2> QED
    <3> SUFFICES ASSUME NEW m \in Notes
                 PROVE  /\ emails'[m] <= lost'[m] + 1
                        /\ row'[m].st = "sent" \/ Unsaved(m)' => emails'[m] > 0
                        /\ (row'[m].st \in {"none", "pending"} \/ InBatch(m)')
                              /\ ~Unsaved(m)' => emails'[m] <= lost'[m]
      BY DEF EmailsOK
    <3>1. CASE m = n
      BY <2>10, <3>1
    <3>2. CASE m # n
      BY <2>9, <3>2
    <3> QED
      BY <3>1, <3>2
<1> QED
  BY <1>12, <1>13, <1>14, <1>15 DEF OutboxInv

(* The save takes the head out of the batch: the next one has not been     *)
(* delivered, so nothing is unsaved any more.                              *)
LEMMA SaveHeadStep ==
    ASSUME OutboxInv, NEW w \in Runs, SaveHead(w)
    PROVE  OutboxInv'
<1> DEFINE b == run[w].batch
<1>1. PICK s : s = Head(b)
  OBVIOUS
<1>2. /\ run[w].pc = "save" /\ Owner(s.note) \notin purged
      /\ row' = [row EXCEPT ![s.note] =
                   [st |-> s.st, attempts |-> s.attempts, read |-> s.read]]
      /\ Leave({s.note})
      /\ run' = [run EXCEPT ![w] = NextOf(b)]
      /\ running' = (Len(b) > 1)
      /\ UNCHANGED <<turnedOff, purged, task, crashes, outages, emails, lost>>
  BY <1>1 DEF SaveHead
<1>3. /\ b \in Seq(Snapshot) /\ b # <<>> /\ s = b[1] /\ 1 \in DOMAIN b /\ s \in Snapshot
  BY <1>1, <1>2, HeadOfBatch DEF OutboxInv
<1>4. s.note \in Notes /\ row[s.note].st \in {"pending", "gone"} /\ ~s.read
      /\ (s.st = "pending" => s.attempts < MaxAttempts)
  BY <1>3 DEF OutboxInv, BatchOK, Carries, Snapshot
<1>5. PICK n \in Notes : n = s.note
  BY <1>4
<1>6. row[n].st = "pending" /\ Owner(n) \notin purged
  BY <1>2, <1>4, <1>5 DEF OutboxInv, RowOK
<1>7. /\ row'[n] = [st |-> s.st, attempts |-> s.attempts, read |-> FALSE]
      /\ \A m \in Notes : m # n => row'[m] = row[m]
  BY <1>2, <1>3, <1>4, <1>5 DEF OutboxInv, Typed, Snapshot
<1>8. /\ NextOf(b) \in Run /\ NextOf(b).pc \in {"idle", "deliver"}
      /\ NextOf(b).pc = "idle" <=> NextOf(b).batch = <<>>
      /\ NextOf(b).pc # "idle" <=> Len(b) > 1
      /\ \A i \in DOMAIN NextOf(b).batch :
            i + 1 \in DOMAIN b /\ i + 1 > 1 /\ NextOf(b).batch[i] = b[i + 1]
  BY <1>3, NextOfBatch
<1>9. PICK next : next = NextOf(b)
  OBVIOUS
<1>10. /\ next \in Run /\ next.pc \in {"idle", "deliver"}
       /\ next.pc = "idle" <=> next.batch = <<>>
       /\ next.pc # "idle" <=> running'
       /\ \A i \in DOMAIN next.batch :
             i + 1 \in DOMAIN b /\ i + 1 > 1 /\ next.batch[i] = b[i + 1]
  BY <1>2, <1>8, <1>9
<1>11. /\ run' \in [Runs -> Run] /\ run'[w] = next
       /\ \A v \in Runs : v # w => run'[v] = run[v] /\ run[v].pc = "idle"
  BY <1>2, <1>9, <1>10 DEF OutboxInv, Typed, OneRun
<1>12. \A v \in Runs : v # w => run[v].batch = <<>> /\ DOMAIN run[v].batch = {}
  <2>1. DOMAIN (<<>>) = {}
    OBVIOUS
  <2> QED
    BY <2>1, <1>11 DEF OutboxInv, Typed
<1>13. \A i \in DOMAIN next.batch : next.batch[i].note # n
  BY <1>3, <1>5, <1>10 DEF OutboxInv, BatchOK
<1>14. Typed'
  <2>1. row' \in [Notes -> Row]
    BY <1>2, <1>3 DEF OutboxInv, Typed, Row, Snapshot
  <2>2. \A v \in Runs : run'[v].pc = "idle" <=> run'[v].batch = <<>>
    BY <1>10, <1>11 DEF OutboxInv, Typed
  <2> QED
    BY <1>2, <1>11, <2>1, <2>2 DEF OutboxInv, Typed
<1>15. DueOK'
  <2>1. /\ due' \in Seq(Notes) /\ IsInjective(due')
        /\ \A i \in DOMAIN due' : /\ due'[i] # n
                                  /\ \E j \in DOMAIN due : due'[i] = due[j]
    BY <1>2, <1>5, LeaveKeepsOrder DEF OutboxInv, DueOK
  <2>2. \A i \in DOMAIN due' : row[due'[i]].st = "pending"
    BY <2>1 DEF OutboxInv, DueOK
  <2>3. \A i \in DOMAIN due' : due'[i] \in Notes
    BY <2>1
  <2> QED
    BY <1>7, <2>1, <2>2, <2>3 DEF DueOK
<1>16. OneRun'
  BY <1>10, <1>11 DEF OneRun
<1>17. RowOK'
  BY <1>2, <1>3, <1>4, <1>6, <1>7 DEF OutboxInv, RowOK, Snapshot
<1>18. TaskOK'
  BY <1>2, <1>6, <1>7 DEF OutboxInv, TaskOK
<1>19. BatchOK'
  <2>1. ASSUME NEW i \in DOMAIN next.batch
        PROVE  /\ Carries(w, i)'
               /\ \A j \in DOMAIN next.batch :
                     next.batch[i].note = next.batch[j].note => i = j
    <3>1. i + 1 \in DOMAIN b /\ i + 1 > 1 /\ next.batch[i] = b[i + 1]
          /\ b[i + 1] \in Snapshot
      BY <1>3, <1>10
    <3>2. Carries(w, i + 1) /\ ~Settling(w, i + 1)
      BY <3>1 DEF OutboxInv, BatchOK, Settling
    <3>3. next.batch[i].note \in Notes /\ next.batch[i].note # n
      BY <1>13, <3>1 DEF Snapshot
    <3>4. Carries(w, i)'
      BY <1>7, <1>11, <3>1, <3>2, <3>3 DEF Carries
    <3>5. \A j \in DOMAIN next.batch : next.batch[i].note = next.batch[j].note => i = j
      <4> TAKE j \in DOMAIN next.batch
      <4>1. j + 1 \in DOMAIN b /\ next.batch[j] = b[j + 1]
        BY <1>10
      <4>2. b[i + 1].note = b[j + 1].note => i + 1 = j + 1
        BY <3>1, <4>1 DEF OutboxInv, BatchOK
      <4>3. i \in Nat /\ j \in Nat
        BY <1>10 DEF Run
      <4> QED
        BY <3>1, <4>1, <4>2, <4>3
    <3> QED
      BY <3>4, <3>5
  <2> QED
    BY <1>11, <1>12, <2>1 DEF BatchOK
<1>20. EmailsOK'
  <2>1. \A m \in Notes : ~Unsaved(m)'
    BY <1>10, <1>11 DEF Unsaved
  <2>2. \A m \in Notes : Unsaved(m) <=> m = n /\ s.st = "sent"
    BY <1>1, <1>2, <1>5, <1>11 DEF Unsaved
  <2>3. \A m \in Notes : InBatch(m)' => InBatch(m) /\ m # n
    BY <1>10, <1>11, <1>12, <1>13 DEF InBatch
  <2> SUFFICES ASSUME NEW m \in Notes
               PROVE  /\ emails'[m] <= lost'[m] + 1
                      /\ row'[m].st = "sent" \/ Unsaved(m)' => emails'[m] > 0
                      /\ (row'[m].st \in {"none", "pending"} \/ InBatch(m)')
                            /\ ~Unsaved(m)' => emails'[m] <= lost'[m]
    BY DEF EmailsOK
  <2>4. /\ emails'[m] = emails[m] /\ lost'[m] = lost[m]
        /\ emails[m] <= lost[m] + 1
        /\ row[m].st = "sent" \/ Unsaved(m) => emails[m] > 0
        /\ (row[m].st \in {"none", "pending"} \/ InBatch(m)) /\ ~Unsaved(m)
              => emails[m] <= lost[m]
    BY <1>2 DEF OutboxInv, EmailsOK
  <2>5. CASE m = n
    <3>1. ~Unsaved(m)' /\ ~InBatch(m)' /\ (Unsaved(m) <=> s.st = "sent")
      BY <2>1, <2>2, <2>3, <2>5
    <3> QED
      BY <1>6, <1>7, <2>4, <2>5, <3>1
  <2>6. CASE m # n
    <3>1. ~Unsaved(m)' /\ ~Unsaved(m) /\ (InBatch(m)' => InBatch(m))
      BY <2>1, <2>2, <2>3, <2>6
    <3> QED
      BY <1>7, <2>4, <2>6, <3>1
  <2> QED
    BY <2>5, <2>6
<1> QED
  BY <1>14, <1>15, <1>16, <1>17, <1>18, <1>19, <1>20 DEF OutboxInv

(* Runs that are aborted carry nothing any more, and what they had sent is *)
(* counted as lost.  The one run that had anything is among them.          *)
LEMMA AbortKeeps ==
    ASSUME OutboxInv, NEW ws \in SUBSET Runs, LostWith(ws),
           \A w \in Runs \ ws : run[w].pc = "idle",
           run' \in [Runs -> Run], \A w \in Runs : run'[w] = Idle,
           running' = FALSE,
           UNCHANGED <<row, turnedOff, due, purged, emails>>
    PROVE  DueOK' /\ OneRun' /\ BatchOK' /\ RowOK' /\ EmailsOK' /\ lost' \in [Notes -> Nat]
           /\ \A w \in Runs : run'[w].pc = "idle" <=> run'[w].batch = <<>>
<1>1. \A w \in Runs : run'[w].pc = "idle" /\ run'[w].batch = <<>>
  BY Constants
<1>2. DOMAIN (<<>>) = {}
  OBVIOUS
<1>3. \A m \in Notes : ~Unsaved(m)' /\ ~InBatch(m)'
  BY <1>1, <1>2 DEF Unsaved, InBatch
<1>4. lost' \in [Notes -> Nat]
  BY DEF LostWith, OutboxInv, Typed
<1>5. DueOK' /\ OneRun' /\ RowOK'
  BY <1>1 DEF OutboxInv, DueOK, OneRun, RowOK
<1>6. BatchOK'
  BY <1>1, <1>2 DEF BatchOK
<1>7. EmailsOK'
  <2> SUFFICES ASSUME NEW m \in Notes
               PROVE  /\ emails'[m] <= lost'[m] + 1
                      /\ row'[m].st = "sent" \/ Unsaved(m)' => emails'[m] > 0
                      /\ (row'[m].st \in {"none", "pending"} \/ InBatch(m)')
                            /\ ~Unsaved(m)' => emails'[m] <= lost'[m]
    BY DEF EmailsOK
  <2>1. lost'[m] = IF Unsaved(m) THEN lost[m] + 1 ELSE lost[m]
    BY DEF LostWith, Unsaved
  <2>2. /\ emails[m] \in Nat /\ lost[m] \in Nat
        /\ emails[m] <= lost[m] + 1
        /\ row[m].st = "sent" \/ Unsaved(m) => emails[m] > 0
        /\ (row[m].st \in {"none", "pending"} \/ InBatch(m)) /\ ~Unsaved(m)
              => emails[m] <= lost[m]
    BY DEF OutboxInv, EmailsOK, Typed
  <2>3. ~Unsaved(m)' /\ ~InBatch(m)'
    BY <1>3
  <2> QED
    BY <2>1, <2>2, <2>3
<1> QED
  BY <1>1, <1>4, <1>5, <1>6, <1>7

LEMMA SaveFailsStep ==
    ASSUME OutboxInv, NEW w \in Runs, SaveFails(w)
    PROVE  OutboxInv'
<1>1. /\ run[w].pc = "save" /\ run' = [run EXCEPT ![w] = Idle] /\ running' = FALSE
      /\ LostWith({w}) /\ outages' \in {outages, outages + 1}
      /\ outages' # outages => outages < MaxOutages
      /\ UNCHANGED <<row, turnedOff, due, purged, task, crashes, emails>>
  BY DEF SaveFails, AbortRun
<1>2. \A v \in Runs \ {w} : run[v].pc = "idle" /\ run[v] = Idle
  <2> SUFFICES ASSUME NEW v \in Runs \ {w}
               PROVE  run[v].pc = "idle" /\ run[v] = Idle
    OBVIOUS
  <2>1. run[v].pc = "idle"
    BY <1>1 DEF OutboxInv, OneRun
  <2>2. run[v].batch = <<>> /\ run[v] \in Run
    BY <2>1 DEF OutboxInv, Typed
  <2> QED
    BY <2>1, <2>2 DEF Run, Idle
<1>3. run' \in [Runs -> Run] /\ \A v \in Runs : run'[v] = Idle
  BY <1>1, <1>2, Constants DEF OutboxInv, Typed
<1>4. /\ DueOK' /\ OneRun' /\ BatchOK' /\ RowOK' /\ EmailsOK' /\ lost' \in [Notes -> Nat]
      /\ \A v \in Runs : run'[v].pc = "idle" <=> run'[v].batch = <<>>
  BY <1>1, <1>2, <1>3, AbortKeeps
<1>5. outages' \in 0 .. MaxOutages
  BY <1>1, OutboxAssumption DEF OutboxInv, Typed
<1>6. Typed' /\ TaskOK'
  BY <1>1, <1>3, <1>4, <1>5 DEF OutboxInv, Typed, TaskOK
<1> QED
  BY <1>4, <1>6 DEF OutboxInv

LEMMA CrashStep ==
    ASSUME OutboxInv, Crash
    PROVE  OutboxInv'
<1>1. /\ run' = [w \in Runs |-> Idle] /\ running' = FALSE /\ LostWith(Runs)
      /\ task' = [n \in Notes |-> NoTask]
      /\ crashes < MaxCrashes /\ crashes' = crashes + 1
      /\ UNCHANGED <<row, turnedOff, due, purged, outages, emails>>
  BY DEF Crash
<1>2. run' \in [Runs -> Run] /\ \A w \in Runs : run'[w] = Idle
  BY <1>1, Constants
<1>3. /\ DueOK' /\ OneRun' /\ BatchOK' /\ RowOK' /\ EmailsOK' /\ lost' \in [Notes -> Nat]
      /\ \A v \in Runs : run'[v].pc = "idle" <=> run'[v].batch = <<>>
  BY <1>1, <1>2, AbortKeeps
<1>4. crashes' \in 0 .. MaxCrashes /\ task' \in [Notes -> Task]
  BY <1>1, Constants, OutboxAssumption DEF OutboxInv, Typed
<1>5. Typed'
  BY <1>1, <1>2, <1>3, <1>4 DEF OutboxInv, Typed
<1>6. TaskOK'
  BY <1>1 DEF TaskOK, NoTask
<1> QED
  BY <1>3, <1>5, <1>6 DEF OutboxInv

-----------------------------------------------------------------------------
(* The inbox and the purge.                                                *)

LEMMA MarkReadFindStep ==
    ASSUME OutboxInv, NEW n \in Notes, MarkReadFind(n)
    PROVE  OutboxInv'
<1> USE DEF OutboxInv, MarkReadFind
<1>1. row[n].st = "sent" /\ row[n] \in Row
  BY DEF Readable, Typed
<1>2. Typed'
  BY <1>1 DEF Typed, Task
<1>3. TaskOK'
  <2>1. \A m \in Notes \ {n} : task'[m] = task[m]
    BY DEF Typed
  <2>2. task'[n] = [pc |-> "read", seen |-> row[n]]
    BY DEF Typed
  <2> QED
    BY <1>1, <2>1, <2>2 DEF TaskOK
<1>4. EmailsOK'
  BY RunsStay
<1>5. DueOK' /\ OneRun' /\ BatchOK' /\ RowOK'
  BY DEF DueOK, OneRun, BatchOK, Carries, Settling, RowOK
<1> QED
  BY <1>2, <1>3, <1>4, <1>5

(* Rows that only become read, and only sent ones, disturb no run.         *)
LEMMA ReadingKeeps ==
    ASSUME OutboxInv, row' \in [Notes -> Row],
           \A n \in Notes : \/ row'[n] = row[n]
                            \/ row[n].st = "sent" /\ row'[n].st = "sent",
           UNCHANGED <<turnedOff, due, purged, running, run, emails, lost>>
    PROVE  DueOK' /\ OneRun' /\ BatchOK' /\ RowOK' /\ EmailsOK'
           /\ \A n \in Notes : row'[n].st = row[n].st
<1>1. \A n \in Notes : row'[n].st = row[n].st
  OBVIOUS
<1>2. DueOK'
  BY <1>1 DEF OutboxInv, DueOK
<1>3. BatchOK'
  <2>1. \A w \in Runs : \A i \in DOMAIN run[w].batch : run[w].batch[i].note \in Notes
    BY BatchTyped DEF OutboxInv, Snapshot
  <2> QED
    BY <1>1, <2>1 DEF OutboxInv, BatchOK, Carries, Settling
<1>4. RowOK' /\ OneRun'
  BY DEF OutboxInv, RowOK, OneRun
<1>5. EmailsOK'
  BY <1>1 DEF OutboxInv, EmailsOK, Unsaved, InBatch
<1> QED
  BY <1>1, <1>2, <1>3, <1>4, <1>5

LEMMA MarkReadSaveStep ==
    ASSUME OutboxInv, NEW n \in Notes, MarkReadSave(n)
    PROVE  OutboxInv'
<1>1. /\ task[n].pc = "read" /\ task' = [task EXCEPT ![n] = NoTask]
      /\ row' = IF Owner(n) \in purged THEN row
                ELSE [row EXCEPT ![n] = [task[n].seen EXCEPT !.read = TRUE]]
      /\ UNCHANGED <<turnedOff, due, purged, running, run, crashes, outages,
                     emails, lost>>
  BY DEF MarkReadSave
<1>2. task[n].seen.st = "sent" /\ row[n].st \in {"sent", "gone"} /\ task[n].seen \in Row
  BY <1>1 DEF OutboxInv, TaskOK, Typed, Task
<1>3. Owner(n) \notin purged => row[n].st = "sent"
  BY <1>2 DEF OutboxInv, RowOK
<1>4. /\ row' \in [Notes -> Row]
      /\ \A m \in Notes : \/ row'[m] = row[m]
                          \/ row[m].st = "sent" /\ row'[m].st = "sent"
  BY <1>1, <1>2, <1>3 DEF OutboxInv, Typed, Row
<1>5. /\ DueOK' /\ OneRun' /\ BatchOK' /\ RowOK' /\ EmailsOK'
      /\ \A m \in Notes : row'[m].st = row[m].st
  BY <1>1, <1>4, ReadingKeeps
<1>6. Typed'
  BY <1>1, <1>4, Constants DEF OutboxInv, Typed
<1>7. TaskOK'
  <2>1. task'[n].pc = "idle" /\ \A m \in Notes \ {n} : task'[m] = task[m]
    BY <1>1 DEF OutboxInv, Typed, NoTask
  <2> QED
    BY <1>5, <2>1 DEF OutboxInv, TaskOK
<1> QED
  BY <1>5, <1>6, <1>7 DEF OutboxInv

LEMMA MarkAllReadStep ==
    ASSUME OutboxInv, NEW u \in Users, MarkAllRead(u)
    PROVE  OutboxInv'
<1>1. /\ row' = [n \in Notes |-> IF n \in Inbox(u)
                                 THEN [row[n] EXCEPT !.read = TRUE] ELSE row[n]]
      /\ UNCHANGED <<turnedOff, due, purged, running, run, task, crashes, outages,
                     emails, lost>>
  BY DEF MarkAllRead
<1>2. \A m \in Notes : \/ row'[m] = row[m]
                       \/ /\ row[m].st = "sent" /\ row'[m].st = "sent"
                          /\ row'[m] \in Row
  BY <1>1 DEF OutboxInv, Typed, Inbox, Row
<1>3. row' \in [Notes -> Row]
  BY <1>1, <1>2 DEF OutboxInv, Typed
<1>4. /\ DueOK' /\ OneRun' /\ BatchOK' /\ RowOK' /\ EmailsOK'
      /\ \A m \in Notes : row'[m].st = row[m].st
  BY <1>1, <1>2, <1>3, ReadingKeeps
<1>5. Typed' /\ TaskOK'
  BY <1>1, <1>3, <1>4 DEF OutboxInv, Typed, TaskOK
<1> QED
  BY <1>4, <1>5 DEF OutboxInv

LEMMA PurgeStep ==
    ASSUME OutboxInv, NEW u \in Users, PurgeUser(u)
    PROVE  OutboxInv'
<1> DEFINE theirs == {n \in Notes : Owner(n) = u}
<1>1. /\ purged' = purged \cup {u} /\ turnedOff' \subseteq turnedOff
      /\ row' = [n \in Notes |-> IF Owner(n) = u THEN [NoRow EXCEPT !.st = "gone"]
                                                 ELSE row[n]]
      /\ Leave(theirs)
      /\ UNCHANGED <<running, run, task, crashes, outages, emails, lost>>
  BY DEF PurgeUser, CascadeRows
<1>2. \A n \in Notes :
         IF Owner(n) = u THEN /\ row'[n].st = "gone" /\ ~row'[n].read
                              /\ row'[n] \in Row
                         ELSE row'[n] = row[n]
  BY <1>1, Constants DEF NoRow, Row
<1>3. Typed'
  <2>1. row' \in [Notes -> Row]
    BY <1>1, <1>2 DEF OutboxInv, Typed
  <2> QED
    BY <1>1, <2>1 DEF OutboxInv, Typed
<1>4. DueOK'
  <2>1. /\ due' \in Seq(Notes) /\ IsInjective(due')
        /\ \A i \in DOMAIN due' : /\ due'[i] \notin theirs
                                  /\ \E j \in DOMAIN due : due'[i] = due[j]
    BY <1>1, LeaveKeepsOrder DEF OutboxInv, DueOK
  <2>2. \A i \in DOMAIN due' : due'[i] \in Notes /\ row[due'[i]].st = "pending"
    BY <2>1 DEF OutboxInv, DueOK
  <2> QED
    BY <1>2, <2>1, <2>2 DEF DueOK
<1>5. OneRun'
  BY <1>1 DEF OutboxInv, OneRun
<1>6. RowOK'
  BY <1>1, <1>2 DEF OutboxInv, RowOK
<1>7. TaskOK'
  BY <1>1, <1>2 DEF OutboxInv, TaskOK
<1>8. BatchOK'
  <2>1. \A w \in Runs : \A i \in DOMAIN run[w].batch : run[w].batch[i].note \in Notes
    BY BatchTyped DEF OutboxInv, Snapshot
  <2> QED
    BY <1>1, <1>2, <2>1 DEF OutboxInv, BatchOK, Carries, Settling
<1>9. EmailsOK'
  <2>1. \A m \in Notes : (Unsaved(m)' <=> Unsaved(m)) /\ (InBatch(m)' <=> InBatch(m))
    BY <1>1 DEF Unsaved, InBatch
  <2> QED
    BY <1>1, <1>2, <2>1 DEF OutboxInv, EmailsOK
<1> QED
  BY <1>3, <1>4, <1>5, <1>6, <1>7, <1>8, <1>9 DEF OutboxInv

-----------------------------------------------------------------------------
LEMMA OutboxStep == OutboxInv /\ [Next]_vars => OutboxInv'
<1> SUFFICES ASSUME OutboxInv, [Next]_vars PROVE OutboxInv'
  OBVIOUS
<1>1. CASE UNCHANGED vars
  <2>1. EmailsOK'
    BY <1>1, RunsStay DEF vars, OutboxInv
  <2> QED
    BY <1>1, <2>1 DEF vars, OutboxInv, Typed, DueOK, OneRun, BatchOK, Carries,
                      Settling, RowOK, TaskOK
<1>2. ASSUME NEW n \in Notes,
             \/ \E b \in BOOLEAN : UpdatePreference(n, b)
             \/ Notify(n) \/ SaveMany(n) \/ Elapse(n)
             \/ MarkReadFind(n) \/ MarkReadSave(n)
      PROVE  OutboxInv'
  BY <1>2, PreferenceStep, NotifyStep, SaveManyStep, ElapseStep,
     MarkReadFindStep, MarkReadSaveStep
<1>3. ASSUME NEW w \in Runs, Tick(w)
      PROVE  OutboxInv'
  BY <1>3, ClaimStep, DeliverStep, SaveHeadStep, SaveFailsStep DEF Tick
<1>4. ASSUME NEW u \in Users, MarkAllRead(u) \/ PurgeUser(u)
      PROVE  OutboxInv'
  BY <1>4, MarkAllReadStep, PurgeStep
<1> QED
  BY <1>1, <1>2, <1>3, <1>4, CrashStep DEF Next

LEMMA OutboxAlways == Spec => []OutboxInv
  BY InitOutbox, OutboxStep, PTL DEF Spec

(* TypeOK: what is due is a pending row, each once, and no row has been    *)
(* tried more often than the code allows (notification.ts:91).             *)
THEOREM TypeCorrect == Spec => []TypeOK
<1>1. OutboxInv => TypeOK
  <2> SUFFICES ASSUME OutboxInv PROVE TypeOK
    OBVIOUS
  <2>1. \A i \in DOMAIN due : due[i] \in Notes
    BY DEF OutboxInv, DueOK
  <2>2. \A w \in Runs : /\ run[w].pc \in {"idle", "deliver", "save"}
                        /\ run[w].batch \in Seq(Snapshot)
    BY DEF OutboxInv, Typed, Run
  <2> QED
    BY <2>1, <2>2 DEF OutboxInv, Typed, DueOK, TypeOK
<1> QED
  BY <1>1, OutboxAlways, PTL

(* DuplicateNeedsLostOutcome: an inbox shows as sent what the provider took*)
(* and a second message to a user needs a save or a process that was lost  *)
(* between deliver and save (deliver_pending_notifications.ts:74-91).      *)
THEOREM DuplicatesCorrect == Spec => []DuplicateNeedsLostOutcome
<1>1. OutboxInv => DuplicateNeedsLostOutcome
  BY DEF OutboxInv, EmailsOK, DuplicateNeedsLostOutcome
<1> QED
  BY <1>1, OutboxAlways, PTL

-----------------------------------------------------------------------------
(* The refinement: what the tables and handlers mean in the life of a      *)
(* notification, and which step of that life each action is.               *)

StatusOf(n) == IF row[n].st # "none" THEN row[n].st
               ELSE IF Owner(n) \in purged THEN "gone"
               ELSE IF task[n].pc = "create" THEN "asked"
               ELSE "none"
Statuses == [n \in Notes |-> StatusOf(n)]
ReadOnes == {n \in Notes : row[n].read}

LEMMA LifecycleInit == Init => Lifecycle!Init
BY DEF Init, Lifecycle!Init, NoRow, NoTask

(* Steps in which no status, preference or reading changes.                *)
LEMMA Stutters ==
    ASSUME \A n \in Notes : StatusOf(n)' = StatusOf(n) /\ row'[n].read = row[n].read,
           turnedOff' = turnedOff
    PROVE  UNCHANGED Lifecycle!lifecycleVars
<1>1. Statuses' = Statuses /\ ReadOnes' = ReadOnes
  BY DEF Statuses, ReadOnes
<1> QED
  BY <1>1 DEF Lifecycle!lifecycleVars, Statuses, StatusOf, ReadOnes

(* A step that moves one notification.                                     *)
LEMMA Moves ==
    ASSUME NEW n \in Notes, NEW to,
           \A m \in Notes : StatusOf(m)' = IF m = n THEN to ELSE StatusOf(m)
    PROVE  Lifecycle!Move(n, StatusOf(n), to)
<1>1. Statuses' = [Statuses EXCEPT ![n] = to] /\ Statuses[n] = StatusOf(n)
  BY DEF Statuses
<1> QED
  BY <1>1 DEF Lifecycle!Move, Statuses, StatusOf

LEMMA PreferenceIsPrefer ==
    ASSUME OutboxInv, NEW n \in Notes, NEW b \in BOOLEAN, UpdatePreference(n, b)
    PROVE  Lifecycle!Prefer(n)
BY DEF UpdatePreference, SavePreference, ChangeTo, MayTurnOff, Optional, Lifecycle!Prefer

LEMMA NotifyIsAsk ==
    ASSUME OutboxInv, NEW n \in Notes, Notify(n)
    PROVE  Lifecycle!Ask(n)
<1>1. StatusOf(n) = "none" /\ n \notin turnedOff
  BY DEF Notify, IsEnabled, StatusOf, NoTask, OutboxInv, Typed, Optional
<1>2. \A m \in Notes : StatusOf(m)' = IF m = n THEN "asked" ELSE StatusOf(m)
  BY DEF Notify, StatusOf, OutboxInv, Typed, Task
<1>3. Lifecycle!Move(n, "none", "asked")
  BY <1>1, <1>2, Moves
<1> QED
  BY <1>1, <1>3 DEF Lifecycle!Ask, Notify

(* The insert of a handler, but not that for a purged user.                *)
LEMMA SaveManyIsEnqueue ==
    ASSUME OutboxInv, NEW n \in Notes, SaveMany(n)
    PROVE  Lifecycle!Enqueue(n) \/ UNCHANGED Lifecycle!lifecycleVars
<1>1. /\ task[n].pc = "create" /\ row[n].st \in {"none", "gone"}
      /\ task' = [task EXCEPT ![n] = NoTask]
      /\ UNCHANGED <<turnedOff, purged>>
  BY DEF SaveMany, OutboxInv, TaskOK
<1>2. \A m \in Notes \ {n} : row'[m] = row[m] /\ task'[m] = task[m]
  BY DEF SaveMany, Insert, OutboxInv, Typed
<1>3. CASE Owner(n) \in purged
  <2>1. row' = row
    BY <1>3 DEF SaveMany, Insert
  <2>2. \A m \in Notes : StatusOf(m)' = StatusOf(m)
    BY <1>1, <1>2, <1>3, <2>1 DEF StatusOf
  <2> QED
    BY <1>1, <2>1, <2>2, Stutters
<1>4. CASE Owner(n) \notin purged
  <2>1. row[n].st = "none" /\ row[n] \in Row /\ ~row[n].read
    BY <1>1, <1>4, Constants DEF OutboxInv, RowOK, Typed, NoRow
  <2>2. row'[n].st = "pending" /\ row'[n].read = row[n].read
    BY <1>4, <2>1 DEF SaveMany, Insert, OutboxInv, Typed, Row
  <2>3. StatusOf(n) = "asked"
    BY <1>1, <1>4, <2>1 DEF StatusOf
  <2>4. \A m \in Notes : StatusOf(m)' = IF m = n THEN "pending" ELSE StatusOf(m)
    BY <1>1, <1>2, <2>2 DEF StatusOf
  <2>5. Lifecycle!Move(n, "asked", "pending")
    BY <2>3, <2>4, Moves
  <2>6. ReadOnes' = ReadOnes
    BY <1>2, <2>2 DEF ReadOnes
  <2> QED
    BY <1>1, <2>5, <2>6 DEF Lifecycle!Enqueue, ReadOnes
<1> QED
  BY <1>3, <1>4

(* A save settles the head for good, or leaves it pending for a retry.     *)
LEMMA SaveHeadIsSettle ==
    ASSUME OutboxInv, NEW w \in Runs, SaveHead(w)
    PROVE  \/ \E n \in Notes : Lifecycle!Settle(n)
           \/ UNCHANGED Lifecycle!lifecycleVars
<1>1. PICK s : s = Head(run[w].batch)
  OBVIOUS
<1>2. /\ run[w].pc = "save" /\ Owner(s.note) \notin purged
      /\ row' = [row EXCEPT ![s.note] =
                   [st |-> s.st, attempts |-> s.attempts, read |-> s.read]]
      /\ UNCHANGED <<turnedOff, purged, task>>
  BY <1>1 DEF SaveHead
<1>3. s = run[w].batch[1] /\ 1 \in DOMAIN run[w].batch /\ s \in Snapshot
  BY <1>1, <1>2, HeadOfBatch DEF OutboxInv
<1>4. PICK n \in Notes : n = s.note
  BY <1>3 DEF Snapshot
<1>5. row[n].st = "pending" /\ ~s.read /\ ~row[n].read
  BY <1>2, <1>3, <1>4 DEF OutboxInv, BatchOK, Carries, RowOK
<1>6. /\ row'[n] = [st |-> s.st, attempts |-> s.attempts, read |-> s.read]
      /\ \A m \in Notes \ {n} : row'[m] = row[m]
  BY <1>2, <1>4 DEF OutboxInv, Typed
<1>7. s.st \in {"pending", "sent", "failed"} /\ s.read \in BOOLEAN
      /\ row[n] \in Row
  BY <1>3 DEF Snapshot, OutboxInv, Typed
<1>8. /\ StatusOf(n) = "pending"
      /\ \A m \in Notes : StatusOf(m)' = IF m = n THEN s.st ELSE StatusOf(m)
  BY <1>2, <1>5, <1>6, <1>7 DEF StatusOf
<1>9. \A m \in Notes : row'[m].read = row[m].read
  BY <1>5, <1>6, <1>7 DEF Row
<1>10. CASE s.st = "pending"
  BY <1>2, <1>8, <1>9, <1>10, Stutters
<1>11. CASE s.st \in {"sent", "failed"}
  <2>1. Lifecycle!Move(n, "pending", s.st)
    BY <1>8, Moves
  <2>2. ReadOnes' = ReadOnes
    BY <1>9 DEF ReadOnes
  <2> QED
    BY <1>2, <1>11, <2>1, <2>2 DEF Lifecycle!Settle, ReadOnes
<1> QED
  BY <1>7, <1>10, <1>11

LEMMA MarkReadSaveIsRead ==
    ASSUME OutboxInv, NEW n \in Notes, MarkReadSave(n)
    PROVE  Lifecycle!Read({n}) \/ UNCHANGED Lifecycle!lifecycleVars
<1>1. /\ task[n].pc = "read" /\ task' = [task EXCEPT ![n] = NoTask]
      /\ row' = IF Owner(n) \in purged THEN row
                ELSE [row EXCEPT ![n] = [task[n].seen EXCEPT !.read = TRUE]]
      /\ UNCHANGED <<turnedOff, purged>>
  BY DEF MarkReadSave
<1>2. task[n].seen.st = "sent" /\ row[n].st \in {"sent", "gone"} /\ task[n].seen \in Row
  BY <1>1 DEF OutboxInv, TaskOK, Typed, Task
<1>3. \A m \in Notes \ {n} : row'[m] = row[m] /\ task'[m] = task[m]
  BY <1>1 DEF OutboxInv, Typed
<1>4. CASE Owner(n) \in purged
  <2>1. \A m \in Notes : StatusOf(m)' = StatusOf(m)
    BY <1>1, <1>2, <1>3, <1>4 DEF StatusOf
  <2> QED
    BY <1>1, <1>4, <2>1, Stutters
<1>5. CASE Owner(n) \notin purged
  <2>1. row[n].st = "sent"
    BY <1>2, <1>5 DEF OutboxInv, RowOK
  <2>2. row'[n].st = "sent" /\ row'[n].read
    BY <1>1, <1>2, <1>5 DEF OutboxInv, Typed, Row
  <2>3. \A m \in Notes : StatusOf(m)' = StatusOf(m)
    BY <1>1, <1>3, <2>1, <2>2 DEF StatusOf
  <2>4. Statuses' = Statuses /\ StatusOf(n) = "sent"
    BY <2>1, <2>3 DEF Statuses, StatusOf
  <2>5. ReadOnes' = ReadOnes \cup {n}
    BY <1>3, <2>2 DEF ReadOnes
  <2> QED
    BY <1>1, <2>4, <2>5 DEF Lifecycle!Read, Statuses, StatusOf, ReadOnes
<1> QED
  BY <1>4, <1>5

LEMMA MarkAllReadIsRead ==
    ASSUME OutboxInv, NEW u \in Users, MarkAllRead(u)
    PROVE  \E S \in SUBSET Notes : Lifecycle!Read(S)
<1>1. PICK S \in SUBSET Notes : S = Inbox(u)
  BY DEF Inbox
<1>2. /\ \A n \in Notes : IF n \in S THEN row'[n] = [row[n] EXCEPT !.read = TRUE]
                                     ELSE row'[n] = row[n]
      /\ \A n \in S : row[n].st = "sent"
      /\ UNCHANGED <<turnedOff, purged, task>>
  BY <1>1 DEF MarkAllRead, Inbox
<1>3. \A n \in Notes : /\ row'[n].st = row[n].st
                       /\ row'[n].read <=> row[n].read \/ n \in S
  BY <1>2 DEF OutboxInv, Typed, Row
<1>4. \A n \in Notes : StatusOf(n)' = StatusOf(n)
  BY <1>2, <1>3 DEF StatusOf
<1>5. Statuses' = Statuses /\ \A n \in S : Statuses[n] = "sent"
  BY <1>2, <1>4 DEF Statuses, StatusOf
<1>6. ReadOnes' = ReadOnes \cup S
  BY <1>3 DEF ReadOnes
<1>7. Lifecycle!Read(S)
  BY <1>2, <1>5, <1>6 DEF Lifecycle!Read, Statuses, StatusOf, ReadOnes
<1> QED
  BY <1>7

LEMMA PurgeIsPurge ==
    ASSUME OutboxInv, NEW u \in Users, PurgeUser(u)
    PROVE  \E S \in SUBSET Notes : Lifecycle!Purge(S)
<1>1. PICK S \in SUBSET Notes : S = {n \in Notes : Owner(n) = u}
  OBVIOUS
<1>2. /\ purged' = purged \cup {u}
      /\ \A n \in Notes : IF n \in S THEN row'[n].st = "gone" /\ ~row'[n].read
                                     ELSE row'[n] = row[n]
      /\ task' = task
  BY <1>1 DEF PurgeUser, CascadeRows, NoRow
<1>3. turnedOff' = turnedOff \ S
  BY <1>1 DEF PurgeUser, OutboxInv, Typed, Optional
<1>4. \A n \in Notes : StatusOf(n)' = IF n \in S THEN "gone" ELSE StatusOf(n)
  BY <1>1, <1>2 DEF StatusOf
<1>5. Statuses' = [n \in Notes |-> IF n \in S THEN "gone" ELSE Statuses[n]]
  BY <1>4 DEF Statuses
<1>6. ReadOnes' = ReadOnes \ S
  BY <1>2 DEF ReadOnes
<1>7. Lifecycle!Purge(S)
  BY <1>3, <1>5, <1>6 DEF Lifecycle!Purge, Statuses, StatusOf, ReadOnes
<1> QED
  BY <1>7

(* The handlers that die before they have inserted anything.               *)
LEMMA CrashIsForget ==
    ASSUME OutboxInv, Crash
    PROVE  \E S \in SUBSET Notes : Lifecycle!Forget(S)
<1>1. PICK S \in SUBSET Notes : S = {n \in Notes : StatusOf(n) = "asked"}
  OBVIOUS
<1>2. \A n \in Notes : task'[n].pc = "idle"
  BY DEF Crash, NoTask
<1>3. \A n \in Notes : StatusOf(n)' = IF n \in S THEN "none" ELSE StatusOf(n)
  BY <1>1, <1>2 DEF Crash, StatusOf, OutboxInv, Typed, Row
<1>4. Statuses' = [n \in Notes |-> IF n \in S THEN "none" ELSE Statuses[n]]
      /\ \A n \in S : Statuses[n] = "asked"
  BY <1>1, <1>3 DEF Statuses
<1>5. Lifecycle!Forget(S)
  BY <1>4 DEF Lifecycle!Forget, Statuses, StatusOf, Crash
<1> QED
  BY <1>5

LEMMA StepRefines ==
    OutboxInv /\ [Next]_vars => [Lifecycle!Next]_Lifecycle!lifecycleVars
<1> SUFFICES ASSUME OutboxInv, [Next]_vars
             PROVE  Lifecycle!Next \/ UNCHANGED Lifecycle!lifecycleVars
  OBVIOUS
<1>1. CASE UNCHANGED vars
  BY <1>1 DEF vars, Lifecycle!lifecycleVars
<1>2. ASSUME NEW n \in Notes, NEW b \in BOOLEAN, UpdatePreference(n, b)
      PROVE  Lifecycle!Next
  BY <1>2, PreferenceIsPrefer DEF Lifecycle!Next
<1>3. ASSUME NEW n \in Notes, Notify(n) \/ SaveMany(n)
      PROVE  Lifecycle!Next \/ UNCHANGED Lifecycle!lifecycleVars
  BY <1>3, NotifyIsAsk, SaveManyIsEnqueue DEF Lifecycle!Next
<1>4. ASSUME NEW n \in Notes, Elapse(n)
      PROVE  UNCHANGED Lifecycle!lifecycleVars
  BY <1>4 DEF Elapse, Lifecycle!lifecycleVars
<1>5. ASSUME NEW n \in Notes, MarkReadFind(n)
      PROVE  UNCHANGED Lifecycle!lifecycleVars
  <2>1. row[n].st = "sent" /\ \A m \in Notes \ {n} : task'[m] = task[m]
    BY <1>5 DEF MarkReadFind, Readable, OutboxInv, Typed
  <2>2. \A m \in Notes : StatusOf(m)' = StatusOf(m)
    BY <1>5, <2>1 DEF MarkReadFind, StatusOf
  <2> QED
    BY <1>5, <2>2, Stutters DEF MarkReadFind
<1>6. ASSUME NEW n \in Notes, MarkReadSave(n)
      PROVE  Lifecycle!Next \/ UNCHANGED Lifecycle!lifecycleVars
  BY <1>6, MarkReadSaveIsRead DEF Lifecycle!Next
<1>7. ASSUME NEW w \in Runs, ClaimDue(w) \/ Deliver(w) \/ SaveFails(w)
      PROVE  UNCHANGED Lifecycle!lifecycleVars
  BY <1>7 DEF ClaimDue, Deliver, SaveFails, Lifecycle!lifecycleVars
<1>8. ASSUME NEW w \in Runs, SaveHead(w)
      PROVE  Lifecycle!Next \/ UNCHANGED Lifecycle!lifecycleVars
  BY <1>8, SaveHeadIsSettle DEF Lifecycle!Next
<1>9. ASSUME NEW u \in Users, MarkAllRead(u) \/ PurgeUser(u)
      PROVE  Lifecycle!Next
  BY <1>9, MarkAllReadIsRead, PurgeIsPurge DEF Lifecycle!Next
<1>10. CASE Crash
  BY <1>10, CrashIsForget DEF Lifecycle!Next
<1> QED
  BY <1>1, <1>2, <1>3, <1>4, <1>5, <1>6, <1>7, <1>8, <1>9, <1>10 DEF Next, Tick

(* LifecycleHolds: whatever runs, retries, readers, purges and crashes do  *)
(* underneath, each notification lives the life NotificationLifecycle      *)
(* promises.                                                               *)
THEOREM LifecycleCorrect == Spec => LifecycleHolds
  BY LifecycleInit, StepRefines, OutboxAlways, PTL
     DEF Spec, LifecycleHolds, Lifecycle!Spec

-----------------------------------------------------------------------------
(* Pages.                                                                  *)

LEMMA PagesCover ==
    ASSUME NEW limit \in Nat \ {0}, NEW total \in Nat
    PROVE  /\ TotalPages(limit, total) \in Int
           /\ limit * TotalPages(limit, total) >= total
           /\ limit * TotalPages(limit, total) < total + limit
<1> DEFINE n == total + limit - 1
           q == n \div limit
<1>1. q \in Int /\ limit * q <= n /\ n < limit * q + limit
    OBVIOUS
<1>. QED
    BY <1>1 DEF TotalPages

(* The metadata leads a reader to every page: has_next is true as long as  *)
(* rows are left behind the page.                                          *)
THEOREM HasNextUntilTheLastRow ==
    ASSUME NEW in, in.page \in Nat \ {0}, in.limit \in Nat \ {0}, NEW total \in Nat
    PROVE  Metadata(in, total).has_next <=> Offset(in) + in.limit < total
<1> DEFINE page == in.page
           limit == in.limit
           last == TotalPages(limit, total)
<1>1. /\ last \in Int /\ limit * last >= total /\ limit * last < total + limit
    BY PagesCover
<1>2. Offset(in) + limit = limit * page
    BY DEF Offset
<1>. HIDE DEF last
<1>3. CASE page < last
    <2>1. page + 1 <= last
        BY <1>1, <1>3
    <2>2. limit * (page + 1) <= limit * last
        BY <1>1, <2>1
    <2>3. limit * page < total
        BY <1>1, <2>2
    <2>. QED
        BY <1>2, <1>3, <2>3 DEF Metadata, last
<1>4. CASE ~(page < last)
    <2>1. limit * last <= limit * page
        BY <1>1, <1>4
    <2>2. ~(limit * page < total)
        BY <1>1, <2>1
    <2>. QED
        BY <1>2, <1>4, <2>2 DEF Metadata, last
<1>. QED
    BY <1>3, <1>4

(* Every position of a listing is on one page and on no other.             *)
THEOREM EveryPositionOnOnePage ==
    ASSUME NEW limit \in Nat \ {0}, NEW total \in Nat, NEW position \in 1 .. total
    PROVE  \E page \in 1 .. TotalPages(limit, total) : \A other \in Nat \ {0} :
              OnPage(position, [page |-> other, limit |-> limit]) <=> other = page
<1> DEFINE q == (position - 1) \div limit
           last == TotalPages(limit, total)
<1>1. q \in Nat /\ limit * q <= position - 1 /\ position - 1 < limit * q + limit
    OBVIOUS
<1>2. last \in Int /\ limit * last >= total
    BY PagesCover
<1>. HIDE DEF q, last
<1>3. q + 1 \in 1 .. last
    <2>1. SUFFICES ASSUME last <= q PROVE FALSE
        BY <1>1, <1>2
    <2>2. limit * last <= limit * q
        BY <1>1, <1>2, <2>1
    <2>. QED
        BY <1>1, <1>2, <2>2
<1>4. ASSUME NEW other \in Nat \ {0}
      PROVE  OnPage(position, [page |-> other, limit |-> limit]) <=> other = q + 1
    <2>1. OnPage(position, [page |-> other, limit |-> limit])
             <=> limit * (other - 1) < position /\ position <= limit * (other - 1) + limit
        BY DEF OnPage, Offset
    <2>2. CASE other = q + 1
        BY <1>1, <2>1, <2>2
    <2>3. CASE other < q + 1
        <3>1. limit * ((other - 1) + 1) <= limit * q
            BY <1>1, <2>3
        <3>2. limit * (other - 1) + limit <= limit * q
            BY <3>1
        <3>. QED
            BY <1>1, <2>1, <2>3, <3>2
    <2>4. CASE other > q + 1
        <3>1. limit * (q + 1) <= limit * (other - 1)
            BY <1>1, <2>4
        <3>2. limit * q + limit <= limit * (other - 1)
            BY <1>1, <3>1
        <3>. QED
            BY <1>1, <2>1, <2>4, <3>2
    <2>. QED
        BY <1>1, <2>2, <2>3, <2>4
<1>. QED
    BY <1>3, <1>4 DEF last

(* Where the columns of ORDER BY tell any two rows apart, every query      *)
(* lists the same rows alike.                                              *)
THEOREM OneListing ==
    ASSUME NEW rows, NEW order, Cardinality(rows) \in Nat,
           \A a, b \in rows : a # b => <<a, b>> \in order \/ <<b, a>> \in order,
           NEW at \in Listings(rows, order), NEW again \in Listings(rows, order)
    PROVE  at = again
<1> DEFINE size == Cardinality(rows)
           Moved == {n \in Nat : \E r \in rows : at[r] = n /\ again[r] # n}
<1>1. /\ at \in [rows -> 1 .. size] /\ again \in [rows -> 1 .. size]
      /\ \A n \in 1 .. size : \E a \in rows : at[a] = n
      /\ \A n \in 1 .. size : \E a \in rows : again[a] = n
      /\ \A a, b \in rows : again[a] = again[b] => a = b
      /\ \A a, b \in rows : <<a, b>> \in order => at[a] < at[b] /\ again[a] < again[b]
    BY DEF Listings
<1>2. SUFFICES ASSUME Moved # {} PROVE FALSE
    <2>1. \A r \in rows : at[r] \in Nat
        BY <1>1
    <2>. QED
        BY <1>1, <1>2, <2>1
<1>3. PICK n \in Moved : \A k \in Moved : ~(k < n)
    <2>1. \E x \in Moved : \A y \in Moved : ~(<<y, x>> \in OpToRel(<, Nat))
        BY <1>2, NatLessThanWellFounded, WFMin, Zenon
    <2>. QED
        BY <2>1 DEF OpToRel
<1>4. PICK r \in rows : at[r] = n /\ again[r] # n
    OBVIOUS
<1>5. n \in 1 .. size /\ again[r] \in 1 .. size /\ size \in Nat
    BY <1>1, <1>4
<1>6. \A q \in rows : at[q] < n => again[q] = at[q]
    <2>1. \A q \in rows : at[q] \in Nat
        BY <1>1
    <2>. QED
        BY <1>3, <2>1
<1>7. n < again[r]
    <2>1. SUFFICES ASSUME again[r] < n PROVE FALSE
        BY <1>4, <1>5
    <2>2. PICK q \in rows : at[q] = again[r]
        BY <1>1, <1>5
    <2>. QED
        BY <1>1, <1>4, <1>6, <2>1, <2>2
<1>8. PICK q \in rows : again[q] = n
    BY <1>1, <1>5
<1>9. <<q, r>> \in order
    <2>1. q # r
        BY <1>4, <1>8
    <2>2. ~(<<r, q>> \in order)
        BY <1>1, <1>5, <1>7, <1>8
    <2>. QED
        BY <2>1, <2>2
<1>10. at[q] < n
    BY <1>1, <1>4, <1>9
<1>. QED
    BY <1>5, <1>6, <1>8, <1>10

(* The inbox orders by the identifier too: asked twice for a page of the   *)
(* same rows, it answers the same.                                         *)
THEOREM InboxPagesStay ==
    ASSUME NEW table, NEW then, NEW later, NEW user, NEW in,
           Cardinality(InboxScope(table, user)) \in Nat,
           \A n \in table : n.created_at \in Int /\ n.id \in Int,
           \A a, b \in table : a.id = b.id => a = b,
           NEW answer \in InboxOfUser(table, then, later, user, in),
           NEW again \in InboxOfUser(table, then, later, user, in)
    PROVE  answer = again
<1> DEFINE rows == InboxScope(table, user)
           order == InboxOrder(rows)
<1>1. \A a, b \in rows : a # b => <<a, b>> \in order \/ <<b, a>> \in order
    BY DEF InboxScope, InboxOrder
<1>2. \A at, other \in Listings(rows, order) : at = other
    BY <1>1, OneListing
<1>3. \A a, b \in Answers(rows, InboxScope(then, user), order, in) : a = b
    BY <1>2 DEF Answers
<1>. QED
    BY <1>3 DEF InboxOfUser

(* Where two rows are equal in the columns and stand on either side of the *)
(* end of a page, as entries imported for the same day are and may, the    *)
(* next page may repeat the first and neither shows the second.            *)
THEOREM TiedRowsMayHide ==
    ASSUME NEW rows, NEW order, Cardinality(rows) \in Nat,
           NEW at \in Listings(rows, order),
           NEW a \in rows, NEW b \in rows, ~(<<a, b>> \in order),
           NEW page \in Nat \ {0}, NEW limit \in Nat \ {0},
           at[a] = limit * page, at[b] = limit * page + 1
    PROVE  \E again \in Listings(rows, order) :
              LET this == PageOf(rows, at, [page |-> page, limit |-> limit])
                  next == PageOf(rows, again, [page |-> page + 1, limit |-> limit])
              IN  a \in this \cap next /\ b \notin this \cup next
<1> DEFINE size == Cardinality(rows)
           again == [at EXCEPT ![a] = at[b], ![b] = at[a]]
           end == limit * page
<1>1. /\ at \in [rows -> 1 .. size]
      /\ \A c, d \in rows : at[c] = at[d] => c = d
      /\ \A n \in 1 .. size : \E c \in rows : at[c] = n
      /\ \A c, d \in rows : <<c, d>> \in order => at[c] < at[d]
    BY DEF Listings
<1>2. end \in Int /\ a # b /\ at[a] = end /\ at[b] = end + 1
    BY <1>1
<1>. HIDE DEF end
<1>3. /\ again \in [rows -> 1 .. size]
      /\ again[a] = end + 1 /\ again[b] = end
      /\ \A c \in rows \ {a, b} : again[c] = at[c]
    BY <1>1, <1>2
<1>. HIDE DEF again
<1>4. \A c \in rows \ {a, b} : at[c] \in Int /\ (at[c] < end \/ at[c] > end + 1)
    BY <1>1, <1>2
<1>5. \A c, d \in rows : again[c] = again[d] => c = d
    BY <1>1, <1>2, <1>3, <1>4
<1>6. \A n \in 1 .. size : \E c \in rows : again[c] = n
    <2>1. TAKE n \in 1 .. size
    <2>2. PICK c \in rows : at[c] = n
        BY <1>1
    <2>. QED
        BY <1>2, <1>3, <2>2
<1>7. \A c, d \in rows : <<c, d>> \in order => again[c] < again[d]
    <2>1. ASSUME NEW c \in rows, NEW d \in rows, <<c, d>> \in order PROVE again[c] < again[d]
        <3>1. at[c] < at[d] /\ c # d /\ ~(c = a /\ d = b) /\ ~(c = b /\ d = a)
            BY <1>1, <1>2, <2>1
        <3>. QED
            BY <1>2, <1>3, <1>4, <3>1
    <2>. QED
        BY <2>1
<1>8. again \in Listings(rows, order)
    BY <1>3, <1>5, <1>6, <1>7 DEF Listings
<1>9. /\ Offset([page |-> page, limit |-> limit]) = end - limit
      /\ Offset([page |-> page + 1, limit |-> limit]) = end
    BY DEF Offset, end
<1>10. LET this == PageOf(rows, at, [page |-> page, limit |-> limit])
           next == PageOf(rows, again, [page |-> page + 1, limit |-> limit])
       IN  a \in this \cap next /\ b \notin this \cup next
    BY <1>2, <1>3, <1>9 DEF PageOf, OnPage
<1>. QED
    BY <1>8, <1>10

=============================================================================
