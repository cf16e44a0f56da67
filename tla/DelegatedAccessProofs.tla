----------------------- MODULE DelegatedAccessProofs -----------------------
(***************************************************************************)
(* Proofs about DelegatedAccess, for every number of users, apps, ids and  *)
(* concurrent requests and every setting of the TTLs.                      *)
(***************************************************************************)
EXTENDS DelegatedAccess, TLAPS

Continuations == {"idle", "d_revive", "l_purge"}
OrNull(S) == S \cup {Null}

(* The inductive strengthening of TypeOK: a row keeps its family when it   *)
(* is purged, and a handler that carries a credential over an await has    *)
(* read it from the table.                                                 *)
Holding == {"r_consent", "r_rotate", "r_commit", "r_put", "r_lost",
            "f_scan", "f_stamp"}
Holds(t) == t.pc \in Holding => cred[t.cred].st # "none"
FamiliesKnown ==
    \A c \in Creds : cred[c].st # "none"
                        => /\ cred[c].family \in Creds
                           /\ cred[cred[c].family].st # "none"
TypeInv == /\ TypeOK
           /\ FamiliesKnown
           /\ \A p \in Procs : Holds(task[p])

(* What every step preserves of the handlers, and the rows it relies on.   *)
HandlersOK == TasksOK /\ \A p \in Procs : Holds(task[p])
RowsKept == \A c \in Creds : cred[c].st # "none" => cred'[c].st # "none"

-----------------------------------------------------------------------------
(* Lemmas about the suspended handlers.                                    *)

LEMMA HandlerOK ==
  ASSUME NEW pc \in PCs, NEW k \in OrNull(Consents), NEW x \in OrNull(Codes),
         NEW c \in OrNull(Creds)
  PROVE  /\ Handler(pc, k, x, c) \in Task
         /\ Handler(pc, k, x, c).pc = pc
         /\ Handler(pc, k, x, c).con = k
         /\ Handler(pc, k, x, c).code = x
         /\ Handler(pc, k, x, c).cred = c
         /\ Handler(pc, k, x, c).succ = Null
         /\ Handler(pc, k, x, c).rows = {}
  BY DEF Handler, NoTime, Task, OrNull

LEMMA IdleOK == Idle \in Task /\ LocalsOK(Idle) /\ Idle.pc = "idle"
<1>1. Idle \in Task /\ Idle.pc = "idle"
  BY HandlerOK DEF Idle, OrNull, PCs
<1> QED
  BY <1>1 DEF LocalsOK

LEMMA ResumeOK ==
  ASSUME NEW k \in Consents, NEW next \in Continuations
  PROVE  /\ Resume(next, k) \in Task /\ LocalsOK(Resume(next, k))
         /\ Resume(next, k).pc = next /\ Resume(next, k).cred = Null
         /\ Resume(next, k).succ = Null
<1> DEFINE con == IF next = "d_revive" THEN k ELSE Null
           h == Handler(next, con, Null, Null)
<1>1. con \in OrNull(Consents) /\ Null \in OrNull(Codes)
      /\ Null \in OrNull(Creds) /\ next \in PCs
  BY DEF OrNull, PCs, Continuations
<1>2. h \in Task /\ h.pc = next /\ h.con = con /\ h.cred = Null /\ h.succ = Null
  <2> HIDE DEF con
  <2> QED BY <1>1, HandlerOK
<1>3. Resume(next, k) = h
  BY DEF Resume
<1>4. LocalsOK(h)
  <2> HIDE DEF h
  <2> QED BY <1>2 DEF LocalsOK, Continuations
<1> QED
  BY <1>2, <1>3, <1>4

LEMMA CascadeOK ==
  ASSUME NEW k \in Consents, NEW next \in Continuations
  PROVE  /\ Cascade(k, next) \in Task /\ LocalsOK(Cascade(k, next))
         /\ Cascade(k, next).pc = "c_scan" /\ Cascade(k, next).con = k
         /\ Cascade(k, next).cred = Null /\ Cascade(k, next).succ = Null
         /\ Cascade(k, next).then = next
<1> DEFINE h == Handler("c_scan", k, Null, Null)
<1>1. h \in Task /\ h.pc = "c_scan" /\ h.con = k /\ h.cred = Null
      /\ h.succ = Null
  BY HandlerOK DEF OrNull, PCs
<1>2. Cascade(k, next) = [h EXCEPT !.then = next]
  BY DEF Cascade
<1> QED
  BY <1>1, <1>2 DEF Continuations, Task, LocalsOK

(* A handler that stores well-formed locals keeps every handler so. *)
LEMMA GotoOK ==
  ASSUME HandlersOK, RowsKept, NEW p \in Procs, NEW t \in Task,
         LocalsOK(t), Holds(t), Goto(p, t)
  PROVE  HandlersOK'
<1>1. TasksOK'
  BY DEF HandlersOK, TasksOK, Goto
<1>2. ASSUME NEW q \in Procs
      PROVE  Holds(task[q])'
  <2>1. CASE q = p
    <3>1. task'[q] = t
      BY <2>1 DEF Goto, HandlersOK, TasksOK
    <3>2. t.pc \in Holding => t.cred \in Creds
      BY DEF Holding, LocalsOK
    <3> QED
      BY <3>1, <3>2 DEF Holds, RowsKept, LocalsOK
  <2>2. CASE q # p
    <3>1. task'[q] = task[q] /\ Holds(task[q]) /\ LocalsOK(task[q])
      BY <2>2 DEF Goto, HandlersOK, TasksOK
    <3>2. task[q].pc \in Holding => task[q].cred \in Creds
      BY <3>1 DEF Holding, LocalsOK
    <3> QED
      BY <3>1, <3>2 DEF Holds, RowsKept
  <2> QED
    BY <2>1, <2>2
<1> QED
  BY <1>1, <1>2 DEF HandlersOK

LEMMA FinishOK ==
  ASSUME HandlersOK, RowsKept, NEW p \in Procs, Finish(p)
  PROVE  HandlersOK'
<1>1. Holds(Idle)
  BY IdleOK DEF Holds, Holding
<1> QED
  BY <1>1, GotoOK, IdleOK DEF Finish

LEMMA RevokeIfOK ==
  ASSUME HandlersOK, RowsKept, NEW p \in Procs, NEW k \in Consents,
         NEW next \in Continuations, RevokeIfNotAlreadyRevoked(p, k, next)
  PROVE  HandlersOK'
<1>1. Holds(Resume(next, k))
  BY ResumeOK DEF Holds, Holding, Continuations
<1>2. Holds(Cascade(k, next))
  BY CascadeOK DEF Holds, Holding
<1> QED
  BY <1>1, <1>2, GotoOK, ResumeOK, CascadeOK DEF RevokeIfNotAlreadyRevoked

LEMMA RevokeFamilyOK ==
  ASSUME HandlersOK, RowsKept, NEW p \in Procs, NEW f \in Creds,
         cred[f].st # "none", RevokeFamily(p, f)
  PROVE  HandlersOK'
<1> DEFINE t == Handler("f_scan", Null, Null, f)
<1>1. t \in Task /\ LocalsOK(t) /\ Holds(t)
  BY HandlerOK DEF OrNull, PCs, LocalsOK, Holds, Holding
<1> QED
  BY <1>1, GotoOK DEF RevokeFamily

(* Only the program counter of a handler changes. *)
LEMMA MoveOK ==
  ASSUME NEW t \in Task, NEW pc \in PCs
  PROVE  LET u == [t EXCEPT !.pc = pc]
         IN  /\ u \in Task /\ u.pc = pc /\ u.con = t.con /\ u.code = t.code
             /\ u.cred = t.cred /\ u.succ = t.succ /\ u.at = t.at
             /\ u.rows = t.rows /\ u.then = t.then
  BY DEF Task

Snapshot(t, pc, rows) == [t EXCEPT !.pc = pc, !.rows = rows]

LEMMA SnapshotOK ==
  ASSUME NEW t \in Task, NEW pc \in PCs, NEW rows \in SUBSET Creds
  PROVE  LET u == Snapshot(t, pc, rows)
         IN  /\ u \in Task /\ u.pc = pc /\ u.con = t.con /\ u.code = t.code
             /\ u.cred = t.cred /\ u.succ = t.succ /\ u.at = t.at
             /\ u.rows = rows /\ u.then = t.then
<1> DEFINE v == [t EXCEPT !.pc = pc]
           w == [v EXCEPT !.rows = rows]
<1>1. /\ v \in Task /\ v.pc = pc /\ v.con = t.con /\ v.code = t.code
      /\ v.cred = t.cred /\ v.succ = t.succ /\ v.at = t.at /\ v.then = t.then
  BY MoveOK
<1>2. /\ w \in Task /\ w.pc = v.pc /\ w.con = v.con /\ w.code = v.code
      /\ w.cred = v.cred /\ w.succ = v.succ /\ w.at = v.at /\ w.then = v.then
      /\ w.rows = rows
  <2> HIDE DEF v
  <2> QED BY <1>1 DEF Task
<1>3. Snapshot(t, pc, rows) = w
  BY DEF Snapshot
<1> QED
  <2> HIDE DEF v, w
  <2> QED BY <1>1, <1>2, <1>3

Lock(t, s, at) == [t EXCEPT !.pc = "r_commit", !.succ = s, !.at = at]

LEMMA LockOK ==
  ASSUME NEW t \in Task, NEW s \in Creds, NEW at \in Time
  PROVE  /\ Lock(t, s, at) \in Task /\ Lock(t, s, at).pc = "r_commit"
         /\ Lock(t, s, at).con = t.con /\ Lock(t, s, at).cred = t.cred
         /\ Lock(t, s, at).succ = s /\ Lock(t, s, at).at = at
         /\ Lock(t, s, at).rows = t.rows
<1> DEFINE v == [t EXCEPT !.pc = "r_commit"]
           w == [v EXCEPT !.succ = s]
           u == [w EXCEPT !.at = at]
<1>1. v \in Task /\ v.pc = "r_commit" /\ v.con = t.con /\ v.cred = t.cred
      /\ v.rows = t.rows
  <2>1. "r_commit" \in PCs
    BY DEF PCs
  <2> QED
    BY <2>1, MoveOK
<1>2. w \in Task /\ w.pc = v.pc /\ w.con = v.con /\ w.cred = v.cred
      /\ w.succ = s /\ w.rows = v.rows
  <2> HIDE DEF v
  <2> QED BY <1>1 DEF Task
<1>3. u \in Task /\ u.pc = w.pc /\ u.con = w.con /\ u.cred = w.cred
      /\ u.succ = w.succ /\ u.at = at /\ u.rows = w.rows
  <2> HIDE DEF w
  <2> QED BY <1>2 DEF Task, Time
<1>4. Lock(t, s, at) = u
  BY DEF Lock
<1> QED
  <2> HIDE DEF u, v, w
  <2> QED BY <1>1, <1>2, <1>3, <1>4

LEMMA TaskFacts ==
  ASSUME TasksOK, NEW p \in Procs
  PROVE  task[p] \in Task /\ LocalsOK(task[p])
  BY DEF TasksOK

-----------------------------------------------------------------------------
(* What the actions share: most of them leave most of the tables alone.    *)

LEMMA OnlyTask ==
  ASSUME TypeInv, HandlersOK',
         UNCHANGED <<now, consent, request, code, cred, cache, history>>
  PROVE  TypeInv'
  BY DEF TypeInv, TypeOK, TablesOK, HistoryOK, history, HandlersOK,
         FamiliesKnown

LEMMA HistoryKept == HistoryOK /\ UNCHANGED history => HistoryOK'
  BY DEF HistoryOK, history

LEMMA InsertHistoryOK ==
  ASSUME HistoryOK, NEW c \in Creds, NEW k, NEW f \in Creds,
         InsertHistory(c, k, f)
  PROVE  HistoryOK'
<1>1. raced' = raced \cup {c} \/ raced' = raced
  BY Zenon DEF InsertHistory
<1>2. forked' = forked \cup {f} \/ forked' = forked
  BY Zenon DEF InsertHistory
<1>3. stale' = stale /\ killed' = killed
  BY DEF InsertHistory
<1> QED
  BY <1>1, <1>2, <1>3 DEF HistoryOK

LEMMA NewCredOK ==
  ASSUME now \in Time, NEW k \in Consents, NEW f \in Creds,
         NEW x \in OrNull(Codes)
  PROVE  /\ NewCred(k, f, x) \in CredRow
         /\ NewCred(k, f, x).st = "row"
         /\ NewCred(k, f, x).consent = k /\ NewCred(k, f, x).family = f
         /\ NewCred(k, f, x).rotated_at = NoTime
         /\ NewCred(k, f, x).successor = Null
         /\ ~NewCred(k, f, x).revoked
  BY ClockAssumption DEF NewCred, CredRow, Status, OrNull, NoTime, Time

LEMMA CodeKept ==
  ASSUME TablesOK, UNCHANGED <<consent, request, code>>,
         cred' \in [Creds -> CredRow],
         \A c \in Creds : cred'[c].st = "row" => /\ cred'[c].consent \in Consents
                                                 /\ cred'[c].family \in Creds
  PROVE  TablesOK'
  BY DEF TablesOK

LEMMA RevokeOK ==
  ASSUME TablesOK, UNCHANGED <<consent, request, code>>, NEW rows, Revoke(rows)
  PROVE  TablesOK'
<1>1. ASSUME NEW c \in Creds
      PROVE  /\ cred'[c] \in CredRow /\ cred'[c].st = cred[c].st
             /\ cred'[c].consent = cred[c].consent
             /\ cred'[c].family = cred[c].family
  BY DEF TablesOK, Revoke, CredRow
<1>2. cred' \in [Creds -> CredRow]
  BY <1>1 DEF Revoke
<1> QED
  BY <1>1, <1>2, CodeKept DEF TablesOK

LEMMA ConsentWritten ==
  ASSUME TablesOK, UNCHANGED <<request, code, cred>>,
         NEW k \in Consents, NEW row \in ConsentRow,
         consent' = [consent EXCEPT ![k] = row]
  PROVE  TablesOK'
  BY DEF TablesOK

LEMMA FreshGrantOK == now \in Time => FreshGrant \in ConsentRow
  BY ClockAssumption DEF FreshGrant, ConsentRow, Status, Time

LEMMA TouchOK ==
  ASSUME TablesOK, now \in Time, UNCHANGED <<request, code, cred>>,
         NEW k \in Consents, TouchLastUsedAt(k)
  PROVE  TablesOK'
<1> DEFINE row == [consent[k] EXCEPT !.last_used_at = now]
<1>1. row \in ConsentRow
  BY ClockAssumption DEF TablesOK, ConsentRow, Time
<1>2. consent' = [consent EXCEPT ![k] = row]
  BY DEF TouchLastUsedAt
<1> QED
  BY <1>1, <1>2, ConsentWritten

LEMMA CacheDeleteOK ==
  ASSUME cache \in [Creds -> CacheEntry], NEW c \in Creds
  PROVE  CacheDelete(c) \in [Creds -> CacheEntry]
<1>1. NoEntry \in CacheEntry
  BY DEF NoEntry, CacheEntry, NoTime
<1> QED
  BY <1>1 DEF CacheDelete

LEMMA AlreadyRotatedOK ==
  ASSUME TypeInv, RowsKept, NEW p \in Procs, NEW c \in Creds,
         cred[c].st # "none", NEW at, HandleAlreadyRotated(p, c, at)
  PROVE  HandlersOK' /\ cache' \in [Creds -> CacheEntry]
<1>1. cred[c].family \in Creds /\ cred[cred[c].family].st # "none"
  BY DEF TypeInv, FamiliesKnown
<1> QED
  BY <1>1, RevokeFamilyOK, FinishOK, CacheDeleteOK
     DEF HandleAlreadyRotated, TypeInv, TypeOK, HandlersOK

LEMMA Assemble ==
  ASSUME HandlersOK', now' \in Time, TablesOK', HistoryOK', FamiliesKnown',
         cache' \in [Creds -> CacheEntry]
  PROVE  TypeInv'
  BY DEF TypeInv, TypeOK, HandlersOK

LEMMA CredSame ==
  ASSUME UNCHANGED cred
  PROVE  RowsKept /\ (FamiliesKnown => FamiliesKnown')
  BY DEF RowsKept, FamiliesKnown

(* What TypeInv says of the handler that takes a step. *)
LEMMA Facts ==
  ASSUME TypeInv, NEW p \in Procs
  PROVE  /\ HandlersOK /\ TablesOK /\ HistoryOK /\ FamiliesKnown
         /\ now \in Time /\ cache \in [Creds -> CacheEntry]
         /\ task[p] \in Task /\ LocalsOK(task[p]) /\ Holds(task[p])
  BY DEF TypeInv, TypeOK, HandlersOK, TasksOK

-----------------------------------------------------------------------------
(* Every action preserves TypeInv.                                         *)

LEMMA DecideTyped ==
  ASSUME TypeInv, NEW p \in Procs, Decide(p)
  PROVE  TypeInv'
<1> DEFINE k == task[p].con
<1>0. UNCHANGED cred /\ UNCHANGED history /\ UNCHANGED now /\ UNCHANGED cache
  BY DEF Decide, DecideClaim, DecideReadConsent, DecideCreateConsent,
         DecideTouchConsent, DecideReviveConsent, DecideIssueCode
<1>1. RowsKept /\ FamiliesKnown' /\ HistoryOK' /\ now' \in Time
      /\ cache' \in [Creds -> CacheEntry]
  BY <1>0, CredSame, HistoryKept, Facts
<1>2. ASSUME NEW pc \in {"d_create", "d_touch", "d_code", "d_consent"},
             NEW c \in Consents, Goto(p, Handler(pc, c, Null, Null))
      PROVE  HandlersOK'
  <2> DEFINE h == Handler(pc, c, Null, Null)
  <2>1. h \in Task /\ h.pc = pc /\ h.con = c
    BY HandlerOK DEF OrNull, PCs
  <2>2. LocalsOK(h) /\ Holds(h)
    BY <2>1 DEF LocalsOK, Holds, Holding
  <2> QED
    BY <1>1, <1>2, <2>1, <2>2, GotoOK, Facts
<1>3. ASSUME task[p].pc \in {"d_touch", "d_revive"},
             Goto(p, [task[p] EXCEPT !.pc = "d_code"])
      PROVE  HandlersOK'
  <2> DEFINE h == [task[p] EXCEPT !.pc = "d_code"]
  <2>1. h \in Task /\ h.pc = "d_code" /\ h.con = task[p].con
    <3>1. "d_code" \in PCs BY DEF PCs
    <3> QED BY <3>1, Facts, MoveOK
  <2>2. LocalsOK(h) /\ Holds(h)
    BY <2>1, <1>3, Facts DEF LocalsOK, Holds, Holding
  <2> QED
    BY <1>1, <1>3, <2>1, <2>2, GotoOK, Facts
<1>4. ASSUME NEW r \in Requests, NEW u \in Users, DecideClaim(p, r, u)
      PROVE  TypeInv'
  <2> DEFINE row == [request[r] EXCEPT !.consumed = TRUE]
  <2>1. <<u, request[r].app>> \in Consents
    BY <1>4, Facts DEF DecideClaim, TablesOK, Consents
  <2>2. HandlersOK'
    BY <1>1, <1>2, <1>4, <2>1, FinishOK, Facts DEF DecideClaim, Finish
  <2>3. row \in RequestRow /\ row.st = request[r].st /\ row.app = request[r].app
    BY Facts DEF TablesOK, RequestRow
  <2>4. request' = [request EXCEPT ![r] = row]
    BY <1>4 DEF DecideClaim
  <2>5. TablesOK'
    <3> HIDE DEF row
    <3> QED BY <1>0, <1>4, <2>3, <2>4, Facts DEF DecideClaim, TablesOK
  <2> QED
    BY <1>1, <2>2, <2>5, Assemble
<1>5. CASE DecideReadConsent(p)
  <2>1. k \in Consents
    BY <1>5, Facts DEF DecideReadConsent, LocalsOK
  <2>2. HandlersOK'
    <3>1. CASE Goto(p, Handler("d_create", k, Null, Null))
      BY <1>2, <2>1, <3>1
    <3>2. CASE Goto(p, Handler("d_touch", k, Null, Null))
      BY <1>2, <2>1, <3>2
    <3>3. CASE RevokeIfNotAlreadyRevoked(p, k, "d_revive")
      BY <1>1, <2>1, <3>3, RevokeIfOK, Facts DEF Continuations
    <3> QED
      BY <1>5, <3>1, <3>2, <3>3 DEF DecideReadConsent
  <2> QED
    BY <1>5, <2>2, OnlyTask DEF DecideReadConsent
<1>6. CASE DecideCreateConsent(p)
  <2>1. k \in Consents
    BY <1>6, Facts DEF DecideCreateConsent, LocalsOK
  <2>2. HandlersOK'
    BY <1>1, <1>2, <1>6, <2>1, FinishOK, Facts DEF DecideCreateConsent
  <2>3. TablesOK'
    <3>1. CASE UNCHANGED consent
      BY <1>0, <1>6, <3>1, Facts DEF DecideCreateConsent, TablesOK
    <3>2. CASE consent' = [consent EXCEPT ![k] = FreshGrant]
      BY <1>0, <1>6, <2>1, <3>2, FreshGrantOK, ConsentWritten, Facts
         DEF DecideCreateConsent
    <3> QED
      BY <1>6, <3>1, <3>2 DEF DecideCreateConsent
  <2> QED
    BY <1>1, <2>2, <2>3, Assemble
<1>7. CASE DecideTouchConsent(p)
  <2>1. k \in Consents /\ task[p].pc = "d_touch"
    BY <1>7, Facts DEF DecideTouchConsent, LocalsOK
  <2>2. HandlersOK'
    BY <1>3, <1>7, <2>1 DEF DecideTouchConsent
  <2>3. TablesOK'
    BY <1>0, <1>7, <2>1, TouchOK, Facts DEF DecideTouchConsent
  <2> QED
    BY <1>1, <2>2, <2>3, Assemble
<1>8. CASE DecideReviveConsent(p)
  <2>1. k \in Consents /\ task[p].pc = "d_revive"
    BY <1>8, Facts DEF DecideReviveConsent, LocalsOK
  <2>2. HandlersOK'
    BY <1>3, <1>8, <2>1 DEF DecideReviveConsent
  <2>3. TablesOK'
    BY <1>0, <1>8, <2>1, FreshGrantOK, ConsentWritten, Facts
       DEF DecideReviveConsent
  <2> QED
    BY <1>1, <2>2, <2>3, Assemble
<1>9. ASSUME NEW x \in Codes, DecideIssueCode(p, x)
      PROVE  TypeInv'
  <2> DEFINE row == [st |-> "row", consent |-> k,
                     expires_at |-> now + CodeTTL, consumed |-> FALSE]
  <2>1. k \in Consents
    BY <1>9, Facts DEF DecideIssueCode, LocalsOK
  <2>2. row \in CodeRow /\ row.consent = k
    BY <2>1, Facts, ClockAssumption, TtlAssumption DEF CodeRow, Status, Time
  <2>3. code' = [code EXCEPT ![x] = row]
    BY <1>9 DEF DecideIssueCode
  <2>4. TablesOK'
    <3> HIDE DEF row
    <3> QED BY <1>0, <1>9, <2>1, <2>2, <2>3, Facts DEF DecideIssueCode, TablesOK
  <2>5. HandlersOK'
    BY <1>1, <1>9, FinishOK, Facts DEF DecideIssueCode
  <2> QED
    BY <1>1, <2>4, <2>5, Assemble
<1> QED
  BY <1>4, <1>5, <1>6, <1>7, <1>8, <1>9 DEF Decide

(* A new credential takes an id that no row has had. *)
LEMMA IssueOK ==
  ASSUME TypeInv, UNCHANGED <<consent, request, code>>, NEW c \in Creds,
         NEW row \in CredRow, row.st = "row", row.consent \in Consents,
         row.family \in Creds, row.family = c \/ cred[row.family].st # "none",
         cred' = [cred EXCEPT ![c] = row]
  PROVE  TablesOK' /\ FamiliesKnown' /\ RowsKept
<1>1. cred' \in [Creds -> CredRow]
  BY DEF TypeInv, TypeOK, TablesOK
<1>2. \A d \in Creds : cred'[d] = IF d = c THEN row ELSE cred[d]
  BY DEF TypeInv, TypeOK, TablesOK
<1>3. FamiliesKnown' /\ RowsKept
  BY <1>2 DEF TypeInv, FamiliesKnown, RowsKept
<1> QED
  BY <1>1, <1>2, <1>3, CodeKept DEF TypeInv, TypeOK, TablesOK

LEMMA ExchangeTyped ==
  ASSUME TypeInv, NEW p \in Procs, Exchange(p)
  PROVE  TypeInv'
<1> DEFINE k == task[p].con
           x == task[p].code
<1>1. ASSUME NEW y \in Codes, NEW valid \in BOOLEAN, ExchangeClaim(p, y, valid)
      PROVE  TypeInv'
  <2> DEFINE row == [code[y] EXCEPT !.consumed = TRUE]
             t1 == Handler("x_consent", code[y].consent, y, Null)
             t2 == Handler("x_replay", Null, y, Null)
  <2>0. UNCHANGED <<now, consent, request, cred, cache, history>>
    BY <1>1 DEF ExchangeClaim
  <2>1. RowsKept /\ FamiliesKnown' /\ HistoryOK'
    BY <2>0, CredSame, HistoryKept, Facts
  <2>2. row \in CodeRow /\ row.st = code[y].st /\ row.consent = code[y].consent
    BY Facts DEF TablesOK, CodeRow
  <2>3. code' = [code EXCEPT ![y] = row] \/ code' = code
    BY <1>1 DEF ExchangeClaim
  <2>4. TablesOK'
    <3> HIDE DEF row
    <3> QED BY <2>0, <2>2, <2>3, Facts DEF TablesOK
  <2>5. t2 \in Task /\ LocalsOK(t2) /\ Holds(t2)
    BY HandlerOK DEF OrNull, PCs, LocalsOK, Holds, Holding
  <2>6. ASSUME code[y].consent \in Consents
        PROVE  t1 \in Task /\ LocalsOK(t1) /\ Holds(t1)
    BY <2>6, HandlerOK DEF OrNull, PCs, LocalsOK, Holds, Holding
  <2>7. Claimable(y) => code[y].consent \in Consents
    BY Facts DEF Claimable, TablesOK
  <2>8. HandlersOK'
    <3>1. CASE Goto(p, t2)
      BY <2>1, <2>5, <3>1, GotoOK, Facts
    <3>2. CASE Claimable(y) /\ Goto(p, t1)
      BY <2>1, <2>6, <2>7, <3>2, GotoOK, Facts
    <3>3. CASE Finish(p)
      BY <2>1, <3>3, FinishOK, Facts
    <3> QED
      BY <1>1, <3>1, <3>2, <3>3 DEF ExchangeClaim, Finish
  <2> QED
    BY <2>0, <2>1, <2>4, <2>8, Assemble, Facts
<1>2. CASE ExchangeReadConsent(p)
  <2> DEFINE t == [task[p] EXCEPT !.pc = "x_issue"]
  <2>1. k \in Consents /\ x \in Codes /\ task[p].pc = "x_consent"
    BY <1>2, Facts DEF ExchangeReadConsent, LocalsOK
  <2>2. RowsKept
    BY <1>2, CredSame DEF ExchangeReadConsent
  <2>3. t \in Task /\ t.pc = "x_issue" /\ t.con = k /\ t.code = x
    <3>1. "x_issue" \in PCs BY DEF PCs
    <3> QED BY <3>1, Facts, MoveOK
  <2>4. LocalsOK(t) /\ Holds(t)
    BY <2>1, <2>3 DEF LocalsOK, Holds, Holding
  <2>5. CASE Finish(p)
    BY <1>2, <2>2, <2>5, FinishOK, Facts, OnlyTask DEF ExchangeReadConsent
  <2>6. CASE Goto(p, t)
    BY <1>2, <2>2, <2>3, <2>4, <2>6, GotoOK, Facts, OnlyTask
       DEF ExchangeReadConsent
  <2>7. CASE RevokeIfNotAlreadyRevoked(p, k, "idle")
    BY <1>2, <2>1, <2>2, <2>7, RevokeIfOK, Facts, OnlyTask
       DEF ExchangeReadConsent, Continuations
  <2> QED
    BY <1>2, <2>5, <2>6, <2>7 DEF ExchangeReadConsent
<1>3. ASSUME NEW c \in Creds, ExchangeIssue(p, c)
      PROVE  TypeInv'
  <2>1. k \in Consents /\ x \in Codes
    BY <1>3, Facts DEF ExchangeIssue, LocalsOK
  <2>2. CASE UNCHANGED <<cred, history>>
    <3>1. RowsKept
      BY <2>2, CredSame
    <3>2. HandlersOK'
      BY <1>3, <3>1, FinishOK, Facts DEF ExchangeIssue
    <3> QED
      BY <1>3, <2>2, <3>2, OnlyTask DEF ExchangeIssue
  <2>3. CASE /\ cred' = [cred EXCEPT ![c] = NewCred(k, c, x)]
             /\ InsertHistory(c, k, c)
    <3>1. /\ NewCred(k, c, x) \in CredRow
          /\ NewCred(k, c, x).st = "row"
          /\ NewCred(k, c, x).consent = k /\ NewCred(k, c, x).family = c
      BY <2>1, NewCredOK, Facts DEF OrNull
    <3>2. TablesOK' /\ FamiliesKnown' /\ RowsKept
      BY <1>3, <2>1, <2>3, <3>1, IssueOK DEF ExchangeIssue
    <3>3. HandlersOK'
      BY <1>3, <3>2, FinishOK, Facts DEF ExchangeIssue
    <3>4. HistoryOK'
      BY <2>3, InsertHistoryOK, Facts
    <3> QED
      BY <1>3, <3>2, <3>3, <3>4, Assemble, Facts DEF ExchangeIssue
  <2> QED
    BY <1>3, <2>2, <2>3 DEF ExchangeIssue
<1>4. CASE ExchangeReplay(p)
  <2>1. RowsKept
    BY <1>4, CredSame DEF ExchangeReplay
  <2>2. CASE Finish(p)
    BY <1>4, <2>1, <2>2, FinishOK, Facts, OnlyTask DEF ExchangeReplay
  <2>3. ASSUME NEW c \in Creds, cred[c].st = "row",
               RevokeFamily(p, cred[c].family)
        PROVE  TypeInv'
    <3>1. cred[c].family \in Creds /\ cred[cred[c].family].st # "none"
      BY <2>3, Facts DEF FamiliesKnown
    <3>2. HandlersOK'
      BY <2>1, <2>3, <3>1, RevokeFamilyOK, Facts
    <3> QED
      BY <1>4, <3>2, OnlyTask DEF ExchangeReplay
  <2> QED
    BY <1>4, <2>2, <2>3 DEF ExchangeReplay
<1> QED
  BY <1>1, <1>2, <1>3, <1>4 DEF Exchange

LEMMA RefreshTyped ==
  ASSUME TypeInv, NEW p \in Procs, Refresh(p)
  PROVE  TypeInv'
<1> DEFINE t == task[p]
<1>1. ASSUME NEW c \in Creds, RefreshRead(p, c)
      PROVE  TypeInv'
  <2> DEFINE h == Handler("r_consent", cred[c].consent, Null, c)
             u == [h EXCEPT !.at = cred[c].rotated_at]
  <2>1. /\ cred[c].consent \in Consents /\ cred[c].rotated_at \in Int
        /\ cred[c].st = "row"
    BY <1>1, Facts DEF RefreshRead, Refreshable, TablesOK, CredRow
  <2>2. h \in Task /\ h.pc = "r_consent" /\ h.con = cred[c].consent /\ h.cred = c
    <3>1. /\ cred[c].consent \in OrNull(Consents) /\ c \in OrNull(Creds)
          /\ Null \in OrNull(Codes) /\ "r_consent" \in PCs
      BY <2>1 DEF OrNull, PCs
    <3> QED
      BY <3>1, HandlerOK
  <2>3. u \in Task /\ u.pc = "r_consent" /\ u.con = cred[c].consent /\ u.cred = c
    <3> HIDE DEF h
    <3> QED BY <2>1, <2>2 DEF Task
  <2>4. LocalsOK(u) /\ Holds(u)
    BY <2>1, <2>3 DEF LocalsOK, Holds, Holding
  <2>5. Goto(p, u) /\ RowsKept
    BY <1>1, CredSame DEF RefreshRead
  <2>6. HandlersOK'
    <3> HIDE DEF u
    <3> QED BY <2>3, <2>4, <2>5, GotoOK, Facts
  <2> QED
    BY <1>1, <2>6, OnlyTask DEF RefreshRead
<1>2. ASSUME NEW a \in Apps, RefreshReadConsent(p, a)
      PROVE  TypeInv'
  <2> DEFINE u == [t EXCEPT !.pc = "r_rotate"]
  <2>0. UNCHANGED <<now, consent, request, code, cred, history>>
    BY <1>2 DEF RefreshReadConsent
  <2>1. /\ t.con \in Consents /\ t.cred \in Creds /\ t.pc = "r_consent"
        /\ cred[t.cred].st # "none"
    BY <1>2, Facts DEF RefreshReadConsent, LocalsOK, Holds, Holding
  <2>2. RowsKept /\ FamiliesKnown' /\ HistoryOK' /\ TablesOK'
    BY <2>0, CredSame, HistoryKept, Facts DEF TablesOK
  <2>3. u \in Task /\ u.pc = "r_rotate" /\ u.con = t.con /\ u.cred = t.cred
    <3>1. "r_rotate" \in PCs BY DEF PCs
    <3> QED BY <3>1, Facts, MoveOK
  <2>4. LocalsOK(u) /\ Holds(u)
    BY <2>1, <2>3 DEF LocalsOK, Holds, Holding
  <2>5. HandlersOK' /\ cache' \in [Creds -> CacheEntry]
    <3>1. CASE Finish(p) /\ UNCHANGED cache
      BY <2>2, <3>1, FinishOK, Facts
    <3>2. CASE RevokeIfNotAlreadyRevoked(p, t.con, "idle") /\ UNCHANGED cache
      BY <2>1, <2>2, <3>2, RevokeIfOK, Facts DEF Continuations
    <3>3. CASE Goto(p, u) /\ UNCHANGED cache
      BY <2>2, <2>3, <2>4, <3>3, GotoOK, Facts
    <3>4. CASE HandleAlreadyRotated(p, t.cred, t.at)
      BY <2>1, <2>2, <3>4, AlreadyRotatedOK
    <3> QED
      BY <1>2, <3>1, <3>2, <3>3, <3>4 DEF RefreshReadConsent
  <2> QED
    BY <2>0, <2>2, <2>5, Assemble, Facts
<1>3. ASSUME NEW s \in Creds, RotateClaim(p, s)
      PROVE  TypeInv'
  <2> DEFINE u == Lock(t, s, now)
             v == [t EXCEPT !.pc = "r_lost"]
  <2>1. /\ t.con \in Consents /\ t.cred \in Creds /\ t.pc = "r_rotate"
        /\ cred[t.cred].st # "none"
    BY <1>3, Facts DEF RotateClaim, LocalsOK, Holds, Holding
  <2>2. RowsKept
    BY <1>3, CredSame DEF RotateClaim
  <2>3. u \in Task /\ u.pc = "r_commit" /\ u.con = t.con /\ u.cred = t.cred
        /\ u.succ = s /\ u.at = now
    <3>1. t \in Task /\ now \in Time
      BY Facts
    <3> QED
      BY <3>1, LockOK
  <2>4. LocalsOK(u) /\ Holds(u)
    BY <2>1, <2>3, Facts DEF LocalsOK, Holds, Holding
  <2>5. v \in Task /\ v.pc = "r_lost" /\ v.cred = t.cred
    <3>1. "r_lost" \in PCs BY DEF PCs
    <3> QED BY <3>1, Facts, MoveOK
  <2>6. LocalsOK(v) /\ Holds(v)
    BY <2>1, <2>5 DEF LocalsOK, Holds, Holding
  <2>7. Goto(p, u) \/ Goto(p, v)
    BY <1>3 DEF RotateClaim, Lock
  <2>8. HandlersOK'
    <3> HIDE DEF u, v
    <3> QED BY <2>2, <2>3, <2>4, <2>5, <2>6, <2>7, GotoOK, Facts
  <2> QED
    BY <1>3, <2>8, OnlyTask DEF RotateClaim
<1>4. CASE RotateCommit(p)
  <2> DEFINE f == cred[t.cred].family
             new == NewCred(t.con, f, Null)
             c1 == [cred EXCEPT ![t.succ] = new]
             row2 == [c1[t.cred] EXCEPT !.rotated_at = t.at]
             c2 == [c1 EXCEPT ![t.cred] = row2]
             row3 == [c2[t.cred] EXCEPT !.successor = t.succ]
             h == Handler("r_put", Null, Null, t.cred)
             u == [h EXCEPT !.succ = t.succ]
  <2>0. UNCHANGED <<now, consent, request, code, cache>>
    BY <1>4 DEF RotateCommit
  <2>1. /\ t.con \in Consents /\ t.cred \in Creds /\ t.succ \in Creds
        /\ t.at \in Int /\ cred[t.cred].st # "none" /\ f \in Creds
        /\ cred[f].st # "none"
    BY <1>4, Facts DEF RotateCommit, LocalsOK, Holds, Holding, Task,
                       FamiliesKnown
  <2>2. new \in CredRow /\ new.st = "row" /\ new.consent = t.con
        /\ new.family = f
    BY <2>1, NewCredOK, Facts DEF OrNull
  <2>3. cred' = [c2 EXCEPT ![t.cred] = row3]
    <3>1. cred' = [cred EXCEPT ![t.succ] = new,
                               ![t.cred].rotated_at = t.at,
                               ![t.cred].successor = t.succ]
      BY <1>4 DEF RotateCommit
    <3> QED
      BY <3>1, Zenon
  <2>4. /\ c1 \in [Creds -> CredRow]
        /\ \A d \in Creds : c1[d] = IF d = t.succ THEN new ELSE cred[d]
    <3> HIDE DEF new
    <3> QED BY <2>1, <2>2, Facts DEF TablesOK
  <2>5. /\ row2 \in CredRow /\ row2.st = c1[t.cred].st
        /\ row2.consent = c1[t.cred].consent
        /\ row2.family = c1[t.cred].family
    <3> HIDE DEF c1
    <3> QED BY <2>1, <2>4 DEF CredRow
  <2>6. /\ c2 \in [Creds -> CredRow]
        /\ \A d \in Creds : c2[d] = IF d = t.cred THEN row2 ELSE c1[d]
    <3> HIDE DEF c1, row2
    <3> QED BY <2>1, <2>4, <2>5
  <2>7. /\ row3 \in CredRow /\ row3.st = c2[t.cred].st
        /\ row3.consent = c2[t.cred].consent
        /\ row3.family = c2[t.cred].family
    <3> HIDE DEF c2
    <3> QED BY <2>1, <2>6 DEF CredRow
  <2>8. /\ cred' \in [Creds -> CredRow]
        /\ \A d \in Creds : cred'[d] = IF d = t.cred THEN row3 ELSE c2[d]
    <3> HIDE DEF c2, row3
    <3> QED BY <2>1, <2>3, <2>6, <2>7
  <2>9. ASSUME NEW d \in Creds
        PROVE  LET old == IF d = t.succ THEN new ELSE cred[d]
               IN  /\ cred'[d].st = old.st
                   /\ cred'[d].consent = old.consent
                   /\ cred'[d].family = old.family
    <3> HIDE DEF c1, c2, row2, row3, new
    <3> QED BY <2>4, <2>5, <2>6, <2>7, <2>8
  <2>10. TablesOK' /\ RowsKept /\ FamiliesKnown'
    <3> HIDE DEF c1, c2, row2, row3, new
    <3>1. TablesOK'
      BY <2>0, <2>1, <2>2, <2>8, <2>9, CodeKept, Facts DEF TablesOK
    <3>2. RowsKept /\ FamiliesKnown'
      BY <2>1, <2>2, <2>9, Facts DEF RowsKept, FamiliesKnown
    <3> QED
      BY <3>1, <3>2
  <2>11. h \in Task /\ h.pc = "r_put" /\ h.cred = t.cred
    BY <2>1, HandlerOK DEF OrNull, PCs
  <2>12. u \in Task /\ u.pc = "r_put" /\ u.cred = t.cred /\ u.succ = t.succ
    <3> HIDE DEF h
    <3> QED BY <2>1, <2>11 DEF Task
  <2>13. HandlersOK'
    <3>1. LocalsOK(u) /\ Holds(u)
      <4> HIDE DEF u
      <4> QED BY <2>1, <2>12 DEF LocalsOK, Holds, Holding
    <3>2. Goto(p, u)
      BY <1>4 DEF RotateCommit
    <3> HIDE DEF u
    <3> QED BY <2>10, <2>12, <3>1, <3>2, GotoOK, Facts
  <2>14. HistoryOK'
    BY <1>4, <2>1, InsertHistoryOK, Facts DEF RotateCommit
  <2> QED
    BY <2>0, <2>10, <2>13, <2>14, Assemble, Facts
<1>5. CASE RotateCachePut(p)
  <2>0. UNCHANGED <<now, consent, request, code, cred, history>>
    BY <1>5 DEF RotateCachePut
  <2>1. t.cred \in Creds /\ t.succ \in Creds
    BY <1>5, Facts DEF RotateCachePut, LocalsOK
  <2>2. RowsKept /\ FamiliesKnown' /\ HistoryOK' /\ TablesOK'
    BY <2>0, CredSame, HistoryKept, Facts DEF TablesOK
  <2>3. HandlersOK'
    BY <1>5, <2>2, FinishOK, Facts DEF RotateCachePut
  <2>4. cache' \in [Creds -> CacheEntry]
    <3> DEFINE entry == [succ |-> t.succ, until |-> now + Grace]
    <3>1. entry \in CacheEntry
      BY <2>1, Facts, ClockAssumption, TtlAssumption DEF CacheEntry, Time
    <3>2. cache' = [cache EXCEPT ![t.cred] = entry] \/ cache' = CacheDelete(t.cred)
      BY <1>5 DEF RotateCachePut
    <3> HIDE DEF entry
    <3> QED BY <2>1, <3>1, <3>2, CacheDeleteOK, Facts
  <2> QED
    BY <2>0, <2>2, <2>3, <2>4, Assemble, Facts
<1>6. CASE RotateRefetch(p)
  <2>0. UNCHANGED <<now, consent, request, code, cred, history>>
    BY <1>6 DEF RotateRefetch
  <2>1. t.cred \in Creds /\ cred[t.cred].st # "none"
    BY <1>6, Facts DEF RotateRefetch, LocalsOK, Holds, Holding
  <2>2. RowsKept /\ FamiliesKnown' /\ HistoryOK' /\ TablesOK'
    BY <2>0, CredSame, HistoryKept, Facts DEF TablesOK
  <2>3. HandlersOK' /\ cache' \in [Creds -> CacheEntry]
    <3>1. CASE HandleAlreadyRotated(p, t.cred, cred[t.cred].rotated_at)
      BY <2>1, <2>2, <3>1, AlreadyRotatedOK
    <3>2. CASE Finish(p) /\ UNCHANGED cache
      BY <2>2, <3>2, FinishOK, Facts
    <3> QED
      BY <1>6, <3>1, <3>2 DEF RotateRefetch
  <2> QED
    BY <2>0, <2>2, <2>3, Assemble, Facts
<1> QED
  BY <1>1, <1>2, <1>3, <1>4, <1>5, <1>6 DEF Refresh

LEMMA RevocationTyped ==
  ASSUME TypeInv, NEW p \in Procs, Revocation(p)
  PROVE  TypeInv'
<1> DEFINE t == task[p]
(* A scan only records its snapshot. *)
<1>1. ASSUME NEW pc \in {"f_stamp", "c_stamp"}, NEW rows \in SUBSET Creds,
             Goto(p, [t EXCEPT !.pc = pc, !.rows = rows]),
             pc = "f_stamp" => t.cred \in Creds /\ cred[t.cred].st # "none",
             pc = "c_stamp" => t.con \in Consents,
             UNCHANGED <<now, consent, request, code, cred, cache, history>>
      PROVE  TypeInv'
  <2> DEFINE u == Snapshot(t, pc, rows)
  <2>1. u \in Task /\ u.pc = pc /\ u.con = t.con /\ u.cred = t.cred
    <3>1. pc \in PCs /\ t \in Task BY Facts DEF PCs
    <3> QED BY <3>1, SnapshotOK
  <2>2. LocalsOK(u) /\ Holds(u)
    <3> HIDE DEF u
    <3> QED BY <1>1, <2>1 DEF LocalsOK, Holds, Holding
  <2>3. HandlersOK' /\ TypeInv'
    <3>1. RowsKept BY <1>1, CredSame
    <3>2. Goto(p, u) BY <1>1 DEF Snapshot
    <3> HIDE DEF u
    <3>3. HandlersOK' BY <2>1, <2>2, <3>1, <3>2, GotoOK, Facts
    <3> QED BY <1>1, <3>3, OnlyTask
  <2> QED
    BY <2>3
(* The writes of a bulk revocation. *)
<1>2. ASSUME NEW rows, Revoke(rows), UNCHANGED <<consent, request, code>>
      PROVE  TablesOK' /\ RowsKept /\ FamiliesKnown'
  <2>1. ASSUME NEW c \in Creds
        PROVE  cred'[c].st = cred[c].st /\ cred'[c].family = cred[c].family
    BY <1>2, Facts DEF Revoke, TablesOK, CredRow
  <2> QED
    BY <1>2, <2>1, RevokeOK, Facts DEF RowsKept, FamiliesKnown
<1>3. CASE RevokeFamilyScan(p)
  <2>1. /\ t.cred \in Creds /\ cred[t.cred].st # "none"
        /\ FamilyRows(t.cred) \in SUBSET Creds
    BY <1>3, Facts DEF RevokeFamilyScan, LocalsOK, Holds, Holding, FamilyRows
  <2> QED
    BY <1>1, <1>3, <2>1 DEF RevokeFamilyScan
<1>4. CASE RevokeFamilyStamp(p)
  <2>1. t.cred \in Creds
    BY <1>4, Facts DEF RevokeFamilyStamp, LocalsOK
  <2>2. TablesOK' /\ RowsKept /\ FamiliesKnown'
    BY <1>2, <1>4 DEF RevokeFamilyStamp
  <2>3. HandlersOK' /\ HistoryOK'
    BY <1>4, <2>1, <2>2, FinishOK, Facts DEF RevokeFamilyStamp, HistoryOK
  <2> QED
    BY <1>4, <2>2, <2>3, Assemble, Facts DEF RevokeFamilyStamp
<1>5. CASE CascadeScan(p)
  <2>1. t.con \in Consents /\ ConsentRows(t.con) \in SUBSET Creds
    BY <1>5, Facts DEF CascadeScan, LocalsOK, ConsentRows
  <2> QED
    BY <1>1, <1>5, <2>1 DEF CascadeScan
<1>6. CASE CascadeStamp(p)
  <2> DEFINE u == Snapshot(t, "c_consent", {})
  <2>1. t.con \in Consents
    BY <1>6, Facts DEF CascadeStamp, LocalsOK
  <2>2. TablesOK' /\ RowsKept /\ FamiliesKnown'
    BY <1>2, <1>6 DEF CascadeStamp
  <2>3. u \in Task /\ u.pc = "c_consent" /\ u.con = t.con
    <3>1. "c_consent" \in PCs /\ t \in Task /\ {} \in SUBSET Creds
      BY Facts DEF PCs
    <3> QED BY <3>1, SnapshotOK
  <2>4. HandlersOK'
    <3>1. Goto(p, u) BY <1>6 DEF CascadeStamp, Snapshot
    <3> HIDE DEF u
    <3>2. LocalsOK(u) /\ Holds(u)
      BY <2>1, <2>3 DEF LocalsOK, Holds, Holding
    <3> QED
      BY <2>2, <2>3, <3>1, <3>2, GotoOK, Facts
  <2> QED
    BY <1>6, <2>2, <2>4, Assemble, HistoryKept, Facts DEF CascadeStamp
<1>7. CASE CascadeRevokeConsent(p)
  <2> DEFINE row == [consent[t.con] EXCEPT !.revoked = TRUE]
  <2>0. UNCHANGED <<now, request, code, cred, cache>>
    BY <1>7 DEF CascadeRevokeConsent
  <2>1. t.con \in Consents /\ t.then \in Continuations
    BY <1>7, Facts DEF CascadeRevokeConsent, LocalsOK, Task, Continuations
  <2>2. RowsKept /\ FamiliesKnown'
    BY <2>0, CredSame, Facts
  <2>3. row \in ConsentRow
    BY <2>1, Facts DEF TablesOK, ConsentRow
  <2>4. consent' = [consent EXCEPT ![t.con] = row]
    BY <1>7 DEF CascadeRevokeConsent
  <2>5. TablesOK'
    <3> HIDE DEF row
    <3> QED BY <2>0, <2>1, <2>3, <2>4, ConsentWritten, Facts
  <2>6. HandlersOK'
    <3>1. Holds(Resume(t.then, t.con))
      BY <2>1, ResumeOK DEF Holds, Holding, Continuations
    <3> QED
      BY <1>7, <2>1, <2>2, <3>1, ResumeOK, GotoOK, Facts
         DEF CascadeRevokeConsent
  <2>7. HistoryOK'
    BY <1>7, Facts DEF CascadeRevokeConsent, HistoryOK
  <2> QED
    BY <2>0, <2>2, <2>5, <2>6, <2>7, Assemble, Facts
<1>8. ASSUME NEW k \in Consents, RevokeConsent(p, k)
      PROVE  TypeInv'
  <2>1. RowsKept BY <1>8, CredSame DEF RevokeConsent
  <2>2. Holds(Cascade(k, "idle"))
    BY CascadeOK DEF Holds, Holding, Continuations
  <2>3. HandlersOK'
    BY <1>8, <2>1, <2>2, CascadeOK, GotoOK, Facts
       DEF RevokeConsent, Continuations
  <2> QED
    BY <1>8, <2>3, OnlyTask DEF RevokeConsent
<1>9. ASSUME NEW c \in Creds, RevokeRefreshToken(p, c)
      PROVE  TypeInv'
  <2>1. RowsKept BY <1>9, CredSame DEF RevokeRefreshToken
  <2>2. cred[c].family \in Creds /\ cred[cred[c].family].st # "none"
    BY <1>9, Facts DEF RevokeRefreshToken, FamiliesKnown
  <2>3. HandlersOK'
    BY <1>9, <2>1, <2>2, RevokeFamilyOK, Facts DEF RevokeRefreshToken
  <2> QED
    BY <1>9, <2>3, OnlyTask DEF RevokeRefreshToken
<1> QED
  BY <1>3, <1>4, <1>5, <1>6, <1>7, <1>8, <1>9 DEF Revocation

LEMMA EmptyRows ==
  /\ NoConsent \in ConsentRow /\ NoRequest \in RequestRow
  /\ NoCode \in CodeRow /\ NoCred \in CredRow /\ NoEntry \in CacheEntry
  /\ NoConsent.st = "none" /\ NoRequest.st = "none"
  /\ NoCode.st = "none" /\ NoCred.st = "none"
  BY DEF NoConsent, NoRequest, NoCode, NoCred, NoEntry, NoTime, ConsentRow,
         RequestRow, CodeRow, CredRow, CacheEntry, Status

LEMMA PurgeOK ==
  ASSUME TypeInv, UNCHANGED consent,
         PurgeRequests \/ UNCHANGED request,
         PurgeCodes \/ UNCHANGED code,
         PurgeCreds \/ UNCHANGED cred
  PROVE  TablesOK' /\ RowsKept /\ FamiliesKnown'
<1>1. /\ request' \in [Requests -> RequestRow]
      /\ \A r \in Requests : request'[r].st = "row" => request'[r].app \in Apps
  <2> DEFINE gone == [NoRequest EXCEPT !.st = "gone"]
  <2>1. gone \in RequestRow /\ gone.st = "gone"
    BY EmptyRows DEF RequestRow, Status
  <2>2. \/ request' = [r \in Requests |->
              IF request[r].st = "row" /\ request[r].expires_at < now
              THEN gone ELSE request[r]]
        \/ request' = request
    BY DEF PurgeRequests
  <2> HIDE DEF gone
  <2> QED BY <2>1, <2>2 DEF TypeInv, TypeOK, TablesOK
<1>2. /\ code' \in [Codes -> CodeRow]
      /\ \A x \in Codes : code'[x].st = "row" => code'[x].consent \in Consents
  <2> DEFINE gone == [NoCode EXCEPT !.st = "gone"]
  <2>1. gone \in CodeRow /\ gone.st = "gone"
    BY EmptyRows DEF CodeRow, Status
  <2>2. \/ code' = [x \in Codes |->
              IF code[x].st = "row" /\ code[x].expires_at < now
              THEN gone ELSE code[x]]
        \/ code' = code
    BY DEF PurgeCodes
  <2> HIDE DEF gone
  <2> QED BY <2>1, <2>2 DEF TypeInv, TypeOK, TablesOK
<1>3. ASSUME PurgeCreds, NEW c \in Creds
      PROVE  /\ cred'[c] \in CredRow /\ cred'[c].family = cred[c].family
             /\ cred'[c].st = "row" => /\ cred[c].st = "row"
                                       /\ cred'[c].consent = cred[c].consent
             /\ cred[c].st # "none" => cred'[c].st # "none"
  <2> DEFINE dead == [NoCred EXCEPT !.st = "gone", !.family = cred[c].family]
             dead1 == [NoCred EXCEPT !.st = "gone"]
             cut == [cred[c] EXCEPT !.successor = Null]
  <2>1. cred'[c] = IF c \in DeadCreds THEN dead
                   ELSE IF cred[c].successor \in DeadCreds THEN cut ELSE cred[c]
    BY <1>3 DEF PurgeCreds
  <2>2. cred[c] \in CredRow
    BY DEF TypeInv, TypeOK, TablesOK
  <2>3. dead1 \in CredRow /\ dead1.st = "gone"
    BY EmptyRows DEF CredRow, Status
  <2>4. dead \in CredRow /\ dead.st = "gone" /\ dead.family = cred[c].family
    <3>1. dead = [dead1 EXCEPT !.family = cred[c].family]
      OBVIOUS
    <3> HIDE DEF dead, dead1
    <3> QED BY <2>2, <2>3, <3>1 DEF CredRow
  <2>5. /\ cut \in CredRow /\ cut.st = cred[c].st
        /\ cut.family = cred[c].family /\ cut.consent = cred[c].consent
    BY <2>2 DEF CredRow
  <2> HIDE DEF dead, cut
  <2> QED BY <2>1, <2>2, <2>4, <2>5
<1>4. CASE UNCHANGED cred
  BY <1>1, <1>2, <1>4, CredSame DEF TypeInv, TypeOK, TablesOK
<1>5. CASE PurgeCreds
  <2>1. cred' \in [Creds -> CredRow]
    BY <1>3, <1>5 DEF PurgeCreds
  <2>2. ASSUME NEW c \in Creds, cred'[c].st = "row"
        PROVE  cred'[c].consent \in Consents /\ cred'[c].family \in Creds
    BY <1>3, <1>5, <2>2 DEF TypeInv, TypeOK, TablesOK
  <2>3. TablesOK'
    BY <1>1, <1>2, <2>1, <2>2 DEF TypeInv, TypeOK, TablesOK
  <2>4. ASSUME NEW c \in Creds
        PROVE  /\ cred[c].st # "none" => cred'[c].st # "none"
               /\ cred'[c].st # "none" => /\ cred[c].st # "none"
                                          /\ cred'[c].family = cred[c].family
    <3>1. cred[c].st = "none" => c \notin DeadCreds
      BY DEF DeadCreds
    <3>2. cred[c].st = "none" => cred'[c].st = "none"
      <4>1. cred[c] \in CredRow
        BY DEF TypeInv, TypeOK, TablesOK
      <4> QED
        BY <1>5, <3>1, <4>1 DEF PurgeCreds, CredRow
    <3> QED
      BY <1>3, <1>5, <3>2 DEF TypeInv, FamiliesKnown
  <2>5. RowsKept
    BY <2>4 DEF RowsKept
  <2>6. FamiliesKnown'
    BY <2>4 DEF TypeInv, FamiliesKnown
  <2> QED
    BY <2>3, <2>5, <2>6
<1> QED
  BY <1>4, <1>5

LEMMA BearerTyped ==
  ASSUME TypeInv, NEW p \in Procs, Bearer(p)
  PROVE  TypeInv'
<1> DEFINE k == task[p].con
<1>1. ASSUME NEW pc \in {"v_consent", "v_touch", "l_purge"}, NEW t \in Task,
             t.pc = pc, pc # "l_purge" => t.con \in Consents, Goto(p, t),
             UNCHANGED <<now, consent, request, code, cred, cache, history>>
      PROVE  TypeInv'
  <2>1. LocalsOK(t) /\ Holds(t)
    BY <1>1 DEF LocalsOK, Holds, Holding
  <2> QED
    BY <1>1, <2>1, GotoOK, CredSame, OnlyTask, Facts
<1>2. ASSUME NEW c \in Creds, VerifyRead(p, c)
      PROVE  TypeInv'
  <2> DEFINE h == Handler("v_consent", cred[c].consent, Null, Null)
  <2>1. cred[c].consent \in Consents
    BY <1>2, Facts DEF VerifyRead, TablesOK
  <2>2. h \in Task /\ h.pc = "v_consent" /\ h.con = cred[c].consent
    <3>1. /\ cred[c].consent \in OrNull(Consents) /\ Null \in OrNull(Codes)
          /\ Null \in OrNull(Creds) /\ "v_consent" \in PCs
      BY <2>1 DEF OrNull, PCs
    <3> QED BY <3>1, HandlerOK
  <2>3. Goto(p, h)
    BY <1>2 DEF VerifyRead
  <2> HIDE DEF h
  <2> QED
    BY <1>1, <1>2, <2>1, <2>2, <2>3 DEF VerifyRead
<1>3. CASE VerifyReadConsent(p)
  <2> DEFINE u == [task[p] EXCEPT !.pc = "v_touch"]
  <2>1. k \in Consents
    BY <1>3, Facts DEF VerifyReadConsent, LocalsOK
  <2>2. u \in Task /\ u.pc = "v_touch" /\ u.con = k
    <3>1. "v_touch" \in PCs BY DEF PCs
    <3> QED BY <3>1, Facts, MoveOK
  <2>3. RowsKept
    BY <1>3, CredSame DEF VerifyReadConsent
  <2>4. CASE Goto(p, u)
    <3> HIDE DEF u
    <3> QED BY <1>1, <1>3, <2>1, <2>2, <2>4 DEF VerifyReadConsent
  <2>5. CASE RevokeIfNotAlreadyRevoked(p, k, "idle")
    BY <1>3, <2>1, <2>3, <2>5, RevokeIfOK, OnlyTask, Facts
       DEF VerifyReadConsent, Continuations
  <2>6. CASE Finish(p)
    BY <1>3, <2>3, <2>6, FinishOK, OnlyTask, Facts DEF VerifyReadConsent
  <2> QED
    BY <1>3, <2>4, <2>5, <2>6 DEF VerifyReadConsent
<1>4. CASE VerifyAccept(p)
  <2>0. UNCHANGED <<now, request, code, cred, cache, history>>
    BY <1>4 DEF VerifyAccept
  <2>1. k \in Consents
    BY <1>4, Facts DEF VerifyAccept, LocalsOK
  <2>2. RowsKept /\ FamiliesKnown' /\ HistoryOK'
    BY <2>0, CredSame, HistoryKept, Facts
  <2>3. TablesOK'
    BY <1>4, <2>0, <2>1, TouchOK, Facts DEF VerifyAccept
  <2>4. HandlersOK'
    BY <1>4, <2>2, FinishOK, Facts DEF VerifyAccept
  <2> QED
    BY <2>0, <2>2, <2>3, <2>4, Assemble, Facts
<1>5. ASSUME NEW c \in Consents, ListConnectedApps(p, c)
      PROVE  TypeInv'
  <2>1. CASE Goto(p, Resume("l_purge", c))
    <3>1. /\ Resume("l_purge", c) \in Task
          /\ Resume("l_purge", c).pc = "l_purge"
      BY ResumeOK DEF Continuations
    <3> QED
      BY <1>1, <1>5, <2>1, <3>1 DEF ListConnectedApps
  <2>2. CASE Goto(p, Cascade(c, "l_purge"))
    <3>1. Holds(Cascade(c, "l_purge"))
      BY CascadeOK DEF Holds, Holding, Continuations
    <3>2. RowsKept
      BY <1>5, CredSame DEF ListConnectedApps
    <3>3. HandlersOK'
      BY <2>2, <3>1, <3>2, CascadeOK, GotoOK, Facts DEF Continuations
    <3> QED
      BY <1>5, <3>3, OnlyTask DEF ListConnectedApps
  <2> QED
    BY <1>5, <2>1, <2>2 DEF ListConnectedApps
<1>6. CASE PurgeDeadRows(p)
  <2>1. TablesOK' /\ RowsKept /\ FamiliesKnown'
    BY <1>6, PurgeOK DEF PurgeDeadRows
  <2>2. HandlersOK'
    BY <1>6, <2>1, FinishOK, Facts DEF PurgeDeadRows
  <2> QED
    BY <1>6, <2>1, <2>2, HistoryKept, Assemble, Facts DEF PurgeDeadRows
<1> QED
  BY <1>2, <1>3, <1>4, <1>5, <1>6 DEF Bearer

LEMMA EnvironmentTyped ==
  ASSUME TypeInv
  PROVE  /\ \A r \in Requests, a \in Apps :
               InitiateAuthorization(r, a) => TypeInv'
         /\ \A c \in Creds : RevokeAccessToken(c) \/ CacheTimer(c) => TypeInv'
         /\ Tick \/ Crash => TypeInv'
<1>0. UNCHANGED task /\ RowsKept => HandlersOK'
  <2>1. ASSUME NEW q \in Procs, UNCHANGED task, RowsKept
        PROVE  Holds(task[q])'
    <3>1. Holds(task[q]) /\ (task[q].pc \in Holding => task[q].cred \in Creds)
      BY Facts DEF LocalsOK, Holding
    <3> QED
      BY <2>1, <3>1 DEF Holds, RowsKept
  <2> QED
    BY <2>1 DEF TypeInv, TypeOK, HandlersOK, TasksOK
<1>00. /\ TablesOK /\ HistoryOK /\ FamiliesKnown /\ now \in Time
       /\ cache \in [Creds -> CacheEntry]
  BY DEF TypeInv, TypeOK
<1>1. ASSUME NEW r \in Requests, NEW a \in Apps, InitiateAuthorization(r, a)
      PROVE  TypeInv'
  <2> DEFINE row == [st |-> "row", app |-> a, expires_at |-> now + RequestTTL,
                     consumed |-> FALSE]
  <2>1. row \in RequestRow /\ row.app = a
    BY <1>00, ClockAssumption, TtlAssumption DEF RequestRow, Status, Time
  <2>2. request' = [request EXCEPT ![r] = row]
    BY <1>1 DEF InitiateAuthorization
  <2>3. TablesOK'
    <3> HIDE DEF row
    <3> QED BY <1>00, <1>1, <2>1, <2>2 DEF InitiateAuthorization, TablesOK
  <2> QED
    BY <1>0, <1>00, <1>1, <2>3, CredSame, HistoryKept, Assemble
       DEF InitiateAuthorization
<1>2. ASSUME NEW c \in Creds, RevokeAccessToken(c)
      PROVE  TypeInv'
  <2>1. ASSUME NEW d \in Creds
        PROVE  cred'[d].st = cred[d].st /\ cred'[d].family = cred[d].family
    BY <1>00, <1>2 DEF RevokeAccessToken, Revoke, TablesOK, CredRow
  <2>2. RowsKept /\ FamiliesKnown'
    BY <1>00, <2>1 DEF RowsKept, FamiliesKnown
  <2>3. TablesOK'
    BY <1>00, <1>2, RevokeOK DEF RevokeAccessToken
  <2> QED
    BY <1>0, <1>00, <1>2, <2>2, <2>3, HistoryKept, Assemble
       DEF RevokeAccessToken
<1>3. ASSUME NEW c \in Creds, CacheTimer(c)
      PROVE  TypeInv'
  <2>1. TablesOK'
    BY <1>00, <1>3 DEF CacheTimer, TablesOK
  <2> QED
    BY <1>0, <1>00, <1>3, <2>1, CredSame, HistoryKept, CacheDeleteOK, Assemble
       DEF CacheTimer
<1>4. CASE Tick
  <2>1. TablesOK'
    BY <1>00, <1>4 DEF Tick, TablesOK
  <2>2. now' \in Time
    BY <1>00, <1>4, ClockAssumption DEF Tick, Time
  <2> QED
    BY <1>0, <1>00, <1>4, <2>1, <2>2, CredSame, HistoryKept, Assemble DEF Tick
<1>5. CASE Crash
  <2>1. TablesOK'
    BY <1>00, <1>5 DEF Crash, TablesOK
  <2>2. HandlersOK'
    <3>1. Idle.pc = "idle"
      BY HandlerOK DEF Idle, OrNull, PCs
    <3> QED
      BY <1>5, <3>1, IdleOK DEF Crash, HandlersOK, TasksOK, Holds, Holding
  <2>3. cache' \in [Creds -> CacheEntry]
    <3>1. NoEntry \in CacheEntry
      BY DEF NoEntry, CacheEntry, NoTime
    <3> QED
      BY <1>5, <3>1 DEF Crash
  <2> QED
    BY <1>00, <1>5, <2>1, <2>2, <2>3, CredSame, HistoryKept, Assemble DEF Crash
<1> QED
  BY <1>1, <1>2, <1>3, <1>4, <1>5

LEMMA TypeInit == Init => TypeInv
<1> SUFFICES ASSUME Init PROVE TypeInv
  OBVIOUS
<1>2. TablesOK
  BY EmptyRows DEF Init, TablesOK
<1>3. Idle.pc = "idle"
  BY HandlerOK DEF Idle, OrNull, PCs
<1>4. TasksOK /\ \A p \in Procs : Holds(task[p])
  BY <1>3, IdleOK DEF Init, TasksOK, Holds, Holding
<1>5. now \in Time /\ HistoryOK /\ FamiliesKnown
      /\ cache \in [Creds -> CacheEntry]
  BY EmptyRows, ClockAssumption DEF Init, Time, HistoryOK, FamiliesKnown
<1> QED
  BY <1>2, <1>4, <1>5 DEF TypeInv, TypeOK

LEMMA TypeStep == TypeInv /\ [Next]_vars => TypeInv'
<1> SUFFICES ASSUME TypeInv, [Next]_vars PROVE TypeInv'
  OBVIOUS
<1>1. CASE UNCHANGED vars
  BY <1>1 DEF vars, TypeInv, TypeOK, TablesOK, TasksOK, HistoryOK,
              FamiliesKnown, Holds
<1>2. CASE Next
  BY <1>2, DecideTyped, ExchangeTyped, RefreshTyped, RevocationTyped,
     BearerTyped, EnvironmentTyped DEF Next
<1> QED
  BY <1>1, <1>2

(* Every reachable state is well-formed: in particular no handler resumes  *)
(* after an await (a cascade included) without the consent, code or        *)
(* credential its next statement writes.                                   *)
THEOREM TypeCorrect == Spec => []TypeOK
<1>1. TypeInv => TypeOK
  BY DEF TypeInv
<1> QED
  BY <1>1, TypeInit, TypeStep, PTL DEF Spec

-----------------------------------------------------------------------------
(***************************************************************************)
(* The safety properties, from inductive invariants of their own.          *)
(* Twenty-odd of the actions change the credentials and the handlers only  *)
(* in ways no invariant can tell apart ("quiet" steps); the proofs treat   *)
(* those once, and the others one by one.                                  *)
(***************************************************************************)

Live(c) == cred[c].st = "row" /\ ~cred[c].revoked

(* A rotation between its conditional UPDATE and its commit: its row       *)
(* cannot have been superseded or revoked, its successor's id is its own.  *)
LockInv ==
    \A p \in Procs : task[p].pc = "r_commit" =>
        /\ Rotatable(task[p].cred)
        /\ cred[task[p].succ].st = "none"
        /\ \A q \in Procs \ {p} : task[q].pc = "r_commit" =>
              task[q].cred # task[p].cred /\ task[q].succ # task[p].succ

ChainInv == LockInv /\ ChainNeverForks

(* Between the two halves of a cascade the live credentials of the consent *)
(* are in its snapshot or were inserted since.                             *)
InWindow(t) == t.pc \in {"c_stamp", "c_consent"}
InSnapshot(t, c) == t.pc = "c_stamp" /\ c \in t.rows
DisconnectInv ==
    /\ \A c \in stale : cred[c].st # "none"
    /\ \A c \in stale : Live(c) => c \in raced
    /\ \A p \in Procs, c \in Creds :
          InWindow(task[p]) /\ Live(c) /\ cred[c].consent = task[p].con
          => c \in raced \/ InSnapshot(task[p], c)

(* The same for the two halves of revokeFamily. *)
Stamping(t) == t.pc = "f_stamp"
FamilyInv ==
    /\ FamilyFence
    /\ \A f \in killed : cred[f].st # "none"
    /\ \A p \in Procs, c \in Creds :
          Stamping(task[p]) /\ Live(c) /\ cred[c].family = task[p].cred
          => c \in task[p].rows \/ cred[c].family \in forked

(* c has been superseded by s, as far as the table still shows. *)
Superseded(c, s) ==
    /\ cred[c].st # "none" /\ cred[s].st # "none"
    /\ cred[s].family = cred[c].family
    /\ cred[c].st = "row" => cred[c].rotated_at # NoTime
    /\ cred[c].st = "row" /\ cred[s].st = "row" => cred[c].successor = s

GraceInv ==
    /\ \A c \in Creds : cache[c].succ # Null => Superseded(c, cache[c].succ)
    /\ \A p \in Procs : task[p].pc = "r_put" =>
                          Superseded(task[p].cred, task[p].succ)

(* A code whose one claim has been made, and the handlers that made it.    *)
Claimed(x) == code[x].st # "none" /\ ~Claimable(x)
Claiming(t) == t.pc \in {"x_consent", "x_issue"}
CodeInv ==
    /\ CodeClaimedOnce
    /\ \A p \in Procs : Claiming(task[p]) => Claimed(task[p].code)

-----------------------------------------------------------------------------
(* Quiet steps: no credential is inserted, revived or given another        *)
(* successor, a locked one is left alone, and no handler enters a state    *)
(* the invariants speak of.                                                *)
RowsQuiet ==
    \A c \in Creds :
        /\ cred'[c].st = "none" <=> cred[c].st = "none"
        /\ cred'[c].family = cred[c].family
        /\ cred'[c].st = "row" =>
              /\ cred[c].st = "row"
              /\ cred'[c].consent = cred[c].consent
              /\ cred'[c].rotated_at = cred[c].rotated_at
              /\ \/ cred'[c].successor = cred[c].successor
                 \/ cred'[cred[c].successor].st = "gone"
        /\ Live(c)' => Live(c)
        /\ Live(c) /\ Locked(c) => Live(c)'

CodesQuiet == \A x \in Codes : Claimed(x) => Claimed(x)'
Critical == {"f_stamp", "c_stamp", "c_consent", "r_commit", "r_put",
             "x_consent", "x_issue"}
TasksQuiet ==
    \A q \in Procs : task'[q] = task[q] \/ task'[q].pc \notin Critical
CacheQuiet ==
    \A c \in Creds : cache'[c] = cache[c] \/ cache'[c].succ = Null
Quiet == /\ RowsQuiet /\ CodesQuiet /\ CacheQuiet /\ TasksQuiet
         /\ UNCHANGED history

LEMMA SameRows == UNCHANGED cred => RowsQuiet
  BY DEF RowsQuiet, Live

LEMMA SameCodes == UNCHANGED code => CodesQuiet
  BY DEF CodesQuiet, Claimed, Claimable

LEMMA SameCache == UNCHANGED cache => CacheQuiet
  BY DEF CacheQuiet

LEMMA CacheDeleted ==
  ASSUME TypeInv, NEW c \in Creds, cache' = CacheDelete(c)
  PROVE  CacheQuiet
<1>1. NoEntry.succ = Null
  BY DEF NoEntry
<1> QED
  BY <1>1 DEF CacheDelete, CacheQuiet, TypeInv, TypeOK

LEMMA GotoQuiet ==
  ASSUME TypeInv, NEW p \in Procs, NEW t, Goto(p, t), t.pc \notin Critical
  PROVE  TasksQuiet
  BY DEF TypeInv, TypeOK, TasksOK, Goto, TasksQuiet

LEMMA HandlerQuiet ==
  ASSUME TypeInv, NEW p \in Procs, NEW pc \in PCs \ Critical, NEW k, NEW x,
         NEW c, Goto(p, Handler(pc, k, x, c))
  PROVE  TasksQuiet
<1>1. Handler(pc, k, x, c).pc = pc
  BY DEF Handler
<1> QED
  BY <1>1, GotoQuiet

LEMMA FinishQuiet ==
  ASSUME TypeInv, NEW p \in Procs, Finish(p)
  PROVE  TasksQuiet
  BY IdleOK, GotoQuiet DEF Finish, Critical

LEMMA RevokeIfQuiet ==
  ASSUME TypeInv, NEW p \in Procs, NEW k \in Consents,
         NEW next \in Continuations, RevokeIfNotAlreadyRevoked(p, k, next)
  PROVE  TasksQuiet
<1>1. /\ Resume(next, k).pc \notin Critical
      /\ Cascade(k, next).pc \notin Critical
  BY ResumeOK, CascadeOK DEF Continuations, Critical
<1> QED
  BY <1>1, GotoQuiet DEF RevokeIfNotAlreadyRevoked

LEMMA RevokeFamilyQuiet ==
  ASSUME TypeInv, NEW p \in Procs, NEW f, RevokeFamily(p, f)
  PROVE  TasksQuiet
  BY HandlerQuiet DEF RevokeFamily, PCs, Critical

LEMMA AlreadyRotatedQuiet ==
  ASSUME TypeInv, NEW p \in Procs, NEW c \in Creds, NEW at,
         HandleAlreadyRotated(p, c, at)
  PROVE  TasksQuiet /\ CacheQuiet
  BY RevokeFamilyQuiet, FinishQuiet, CacheDeleted, SameCache
     DEF HandleAlreadyRotated

LEMMA MoveQuiet ==
  ASSUME TypeInv, NEW p \in Procs, NEW pc \in PCs \ Critical,
         Goto(p, [task[p] EXCEPT !.pc = pc])
  PROVE  TasksQuiet
<1>1. [task[p] EXCEPT !.pc = pc].pc = pc
  BY Facts, MoveOK
<1> QED
  BY <1>1, GotoQuiet

(* A bulk revocation waits for locked rows. *)
LEMMA RevokeQuiet ==
  ASSUME TypeInv, NEW rows, \A c \in rows : ~Locked(c), Revoke(rows)
  PROVE  RowsQuiet /\ \A c \in Creds : Live(c)' <=> Live(c) /\ c \notin rows
<1>1. ASSUME NEW c \in Creds
      PROVE  /\ cred'[c].st = cred[c].st
             /\ cred'[c].family = cred[c].family
             /\ cred'[c].consent = cred[c].consent
             /\ cred'[c].rotated_at = cred[c].rotated_at
             /\ cred'[c].successor = cred[c].successor
             /\ Live(c)' <=> Live(c) /\ c \notin rows
  BY DEF Revoke, TypeInv, TypeOK, TablesOK, CredRow, Live
<1> QED
  BY <1>1 DEF RowsQuiet

LEMMA PurgeQuiet ==
  ASSUME TypeInv, PurgeCreds
  PROVE  RowsQuiet
<1>1. ASSUME NEW c \in Creds
      PROVE  /\ c \in DeadCreds => /\ cred[c].st = "row" /\ cred'[c].st = "gone"
                                   /\ cred'[c].family = cred[c].family
                                   /\ ~Locked(c)
             /\ c \notin DeadCreds =>
                   /\ cred'[c].st = cred[c].st
                   /\ cred'[c].family = cred[c].family
                   /\ cred'[c].consent = cred[c].consent
                   /\ cred'[c].rotated_at = cred[c].rotated_at
                   /\ cred'[c].revoked = cred[c].revoked
                   /\ \/ cred'[c].successor = cred[c].successor
                      \/ cred[c].successor \in DeadCreds
  <2> DEFINE dead1 == [NoCred EXCEPT !.st = "gone"]
             dead == [dead1 EXCEPT !.family = cred[c].family]
             cut == [cred[c] EXCEPT !.successor = Null]
  <2>1. cred'[c] = IF c \in DeadCreds THEN dead
                   ELSE IF cred[c].successor \in DeadCreds THEN cut ELSE cred[c]
    BY DEF PurgeCreds
  <2>2. cred[c] \in CredRow
    BY DEF TypeInv, TypeOK, TablesOK
  <2>3. dead1 \in CredRow /\ dead1.st = "gone"
    BY EmptyRows DEF CredRow, Status
  <2>4. dead.st = "gone" /\ dead.family = cred[c].family
    <3> HIDE DEF dead1
    <3> QED BY <2>2, <2>3 DEF CredRow
  <2>5. /\ cut.st = cred[c].st /\ cut.family = cred[c].family
        /\ cut.consent = cred[c].consent /\ cut.revoked = cred[c].revoked
        /\ cut.rotated_at = cred[c].rotated_at
    BY <2>2 DEF CredRow
  <2>6. c \in DeadCreds => cred[c].st = "row" /\ ~Locked(c)
    BY DEF DeadCreds, PurgeCreds
  <2> HIDE DEF dead, cut
  <2> QED BY <2>1, <2>4, <2>5, <2>6
<1>2. DeadCreds \subseteq Creds
  BY DEF DeadCreds
<1>3. ASSUME NEW c \in Creds
      PROVE  /\ cred'[c].st = "none" <=> cred[c].st = "none"
             /\ cred'[c].family = cred[c].family
             /\ cred'[c].st = "row" =>
                   /\ cred[c].st = "row"
                   /\ cred'[c].consent = cred[c].consent
                   /\ cred'[c].rotated_at = cred[c].rotated_at
                   /\ \/ cred'[c].successor = cred[c].successor
                      \/ cred'[cred[c].successor].st = "gone"
             /\ Live(c)' => Live(c)
             /\ Live(c) /\ Locked(c) => Live(c)'
  BY <1>1, <1>2 DEF Live
<1> QED
  BY <1>3 DEF RowsQuiet

(* Every step is quiet, except those that open or close a window: a bulk   *)
(* revocation, a rotation, or an INSERT.                                   *)
Noisy(p) ==
    \/ RevokeFamilyScan(p) \/ RevokeFamilyStamp(p)
    \/ CascadeScan(p) \/ CascadeStamp(p) \/ CascadeRevokeConsent(p)
    \/ \E s \in Creds : RotateClaim(p, s)
    \/ RotateCommit(p) \/ RotateCachePut(p)
    \/ \E x \in Codes, valid \in BOOLEAN : ExchangeClaim(p, x, valid)
    \/ ExchangeReadConsent(p)
    \/ \E c \in Creds : ExchangeIssue(p, c)

(* Unused codes are issued, claimed ones are purged. *)
LEMMA IssueCodeQuiet ==
  ASSUME TypeInv, NEW p \in Procs, NEW x \in Codes, DecideIssueCode(p, x)
  PROVE  CodesQuiet
<1>1. \A y \in Codes \ {x} : code'[y] = code[y]
  BY DEF DecideIssueCode, TypeInv, TypeOK, TablesOK
<1>2. code[x].st = "none"
  BY DEF DecideIssueCode
<1> QED
  BY <1>1, <1>2 DEF CodesQuiet, Claimed, Claimable

LEMMA PurgeCodesQuiet == PurgeCodes => CodesQuiet
<1> SUFFICES ASSUME PurgeCodes, NEW x \in Codes, Claimed(x)
             PROVE  Claimed(x)'
  BY DEF CodesQuiet
<1> DEFINE gone == [NoCode EXCEPT !.st = "gone"]
<1>1. gone.st = "gone"
  BY EmptyRows DEF CodeRow
<1>2. code'[x] = gone \/ code'[x] = code[x]
  BY DEF PurgeCodes
<1> HIDE DEF gone
<1> QED
  BY <1>1, <1>2 DEF Claimed, Claimable

LEMMA DecideQuiet ==
  ASSUME TypeInv, NEW p \in Procs, Decide(p)
  PROVE  Quiet
<1>1. RowsQuiet /\ CodesQuiet /\ CacheQuiet /\ UNCHANGED history
  BY SameRows, SameCodes, IssueCodeQuiet, SameCache
     DEF Decide, DecideClaim, DecideReadConsent, DecideCreateConsent,
         DecideTouchConsent, DecideReviveConsent, DecideIssueCode
<1>2. ASSUME NEW r \in Requests, NEW u \in Users, DecideClaim(p, r, u)
      PROVE  TasksQuiet
  BY <1>2, HandlerQuiet, FinishQuiet DEF DecideClaim, PCs, Critical, Finish
<1>3. CASE DecideReadConsent(p)
  <2> DEFINE k == task[p].con
  <2>1. k \in Consents
    BY <1>3, Facts DEF DecideReadConsent, LocalsOK
  <2>2. CASE \/ Goto(p, Handler("d_create", k, Null, Null))
             \/ Goto(p, Handler("d_touch", k, Null, Null))
    BY <1>1, <2>2, HandlerQuiet DEF PCs, Critical, Quiet
  <2>3. CASE RevokeIfNotAlreadyRevoked(p, k, "d_revive")
    BY <1>1, <2>1, <2>3, RevokeIfQuiet DEF Continuations, Quiet
  <2> QED
    BY <1>1, <1>3, <2>2, <2>3 DEF DecideReadConsent, Quiet
<1>4. CASE DecideCreateConsent(p)
  <2>1. TasksQuiet
    BY <1>4, HandlerQuiet, FinishQuiet DEF DecideCreateConsent, PCs, Critical
  <2> QED
    BY <1>1, <2>1 DEF Quiet
<1>5. CASE DecideTouchConsent(p) \/ DecideReviveConsent(p)
  <2>1. "d_code" \in PCs \ Critical
    BY DEF PCs, Critical
  <2>2. Goto(p, [task[p] EXCEPT !.pc = "d_code"])
    BY <1>5 DEF DecideTouchConsent, DecideReviveConsent
  <2> QED
    BY <1>1, <2>1, <2>2, MoveQuiet DEF Quiet
<1>6. ASSUME NEW x \in Codes, DecideIssueCode(p, x)
      PROVE  TasksQuiet
  BY <1>6, FinishQuiet DEF DecideIssueCode
<1> QED
  BY <1>1, <1>2, <1>3, <1>4, <1>5, <1>6 DEF Decide, Quiet

LEMMA ExchangeQuiet ==
  ASSUME TypeInv, NEW p \in Procs, Exchange(p)
  PROVE  Quiet \/ Noisy(p)
<1>1. CASE ExchangeReplay(p)
  BY <1>1, SameRows, SameCodes, SameCache, RevokeFamilyQuiet, FinishQuiet
     DEF ExchangeReplay, Quiet
<1> QED
  BY <1>1 DEF Exchange, Noisy

LEMMA RefreshQuiet ==
  ASSUME TypeInv, NEW p \in Procs, Refresh(p)
  PROVE  Quiet \/ Noisy(p)
<1>1. ASSUME NEW c \in Creds, RefreshRead(p, c)
      PROVE  Quiet
  <2> DEFINE h == Handler("r_consent", cred[c].consent, Null, c)
             u == [h EXCEPT !.at = cred[c].rotated_at]
  <2>1. RowsQuiet /\ CodesQuiet /\ CacheQuiet /\ UNCHANGED history
    BY <1>1, SameRows, SameCodes, SameCache DEF RefreshRead
  <2>2. h.pc = "r_consent" /\ h \in Task
    <3>1. /\ cred[c].consent \in OrNull(Consents) /\ c \in OrNull(Creds)
          /\ Null \in OrNull(Codes) /\ "r_consent" \in PCs
      BY <1>1, Facts DEF RefreshRead, Refreshable, TablesOK, OrNull, PCs
    <3> QED BY <3>1, HandlerOK
  <2>3. u.pc = "r_consent"
    <3> HIDE DEF h
    <3> QED BY <2>2 DEF Task
  <2>4. Goto(p, u) /\ u.pc \notin Critical
    BY <1>1, <2>3 DEF RefreshRead, Critical
  <2> HIDE DEF u
  <2> QED
    BY <2>1, <2>4, GotoQuiet DEF Quiet
<1>2. ASSUME NEW a \in Apps, RefreshReadConsent(p, a)
      PROVE  Quiet
  <2> DEFINE t == task[p]
  <2>1. RowsQuiet /\ CodesQuiet /\ UNCHANGED history
    BY <1>2, SameRows, SameCodes DEF RefreshReadConsent
  <2>2. t.con \in Consents /\ t.cred \in Creds
    BY <1>2, Facts DEF RefreshReadConsent, LocalsOK
  <2>3. "r_rotate" \in PCs \ Critical
    BY DEF PCs, Critical
  <2>4. CASE Goto(p, [t EXCEPT !.pc = "r_rotate"]) /\ UNCHANGED cache
    BY <2>1, <2>3, <2>4, MoveQuiet, SameCache DEF Quiet
  <2>5. CASE /\ UNCHANGED cache
             /\ Finish(p) \/ RevokeIfNotAlreadyRevoked(p, t.con, "idle")
    BY <2>1, <2>2, <2>5, FinishQuiet, RevokeIfQuiet, SameCache
       DEF Continuations, Quiet
  <2>6. CASE HandleAlreadyRotated(p, t.cred, t.at)
    BY <2>1, <2>2, <2>6, AlreadyRotatedQuiet DEF Quiet
  <2> QED
    BY <1>2, <2>4, <2>5, <2>6 DEF RefreshReadConsent
<1>3. CASE RotateRefetch(p)
  <2>1. RowsQuiet /\ CodesQuiet /\ UNCHANGED history
    BY <1>3, SameRows, SameCodes DEF RotateRefetch
  <2>2. task[p].cred \in Creds
    BY <1>3, Facts DEF RotateRefetch, LocalsOK
  <2> QED
    BY <1>3, <2>1, <2>2, AlreadyRotatedQuiet, FinishQuiet, SameCache
       DEF RotateRefetch, Quiet
<1> QED
  BY <1>1, <1>2, <1>3 DEF Refresh, Noisy

LEMMA OtherQuiet ==
  ASSUME TypeInv, NEW p \in Procs
  PROVE  /\ Revocation(p) => Quiet \/ Noisy(p)
         /\ Bearer(p) => Quiet
<1>1. ASSUME NEW k \in Consents, RevokeConsent(p, k)
      PROVE  Quiet
  <2>1. RowsQuiet /\ CodesQuiet /\ CacheQuiet /\ UNCHANGED history
    BY <1>1, SameRows, SameCodes, SameCache DEF RevokeConsent
  <2>2. Cascade(k, "idle").pc \notin Critical
    BY CascadeOK DEF Critical, Continuations
  <2> QED
    BY <1>1, <2>1, <2>2, GotoQuiet DEF RevokeConsent, Quiet
<1>2. ASSUME NEW c \in Creds, RevokeRefreshToken(p, c)
      PROVE  Quiet
  BY <1>2, SameRows, SameCodes, SameCache, RevokeFamilyQuiet
     DEF RevokeRefreshToken, Quiet
<1>3. ASSUME NEW c \in Creds, VerifyRead(p, c)
      PROVE  Quiet
  BY <1>3, SameRows, SameCodes, SameCache, HandlerQuiet
     DEF VerifyRead, PCs, Critical, Quiet
<1>4. CASE VerifyReadConsent(p)
  <2> DEFINE k == task[p].con
  <2>1. RowsQuiet /\ CodesQuiet /\ CacheQuiet /\ UNCHANGED history
    BY <1>4, SameRows, SameCodes, SameCache DEF VerifyReadConsent
  <2>2. k \in Consents
    BY <1>4, Facts DEF VerifyReadConsent, LocalsOK
  <2>3. "v_touch" \in PCs \ Critical
    BY DEF PCs, Critical
  <2>4. CASE Goto(p, [task[p] EXCEPT !.pc = "v_touch"])
    BY <2>1, <2>3, <2>4, MoveQuiet DEF Quiet
  <2>5. CASE Finish(p) \/ RevokeIfNotAlreadyRevoked(p, k, "idle")
    BY <2>1, <2>2, <2>5, FinishQuiet, RevokeIfQuiet DEF Continuations, Quiet
  <2> QED
    BY <1>4, <2>4, <2>5 DEF VerifyReadConsent
<1>5. CASE VerifyAccept(p)
  BY <1>5, SameRows, SameCodes, SameCache, FinishQuiet DEF VerifyAccept, Quiet
<1>6. ASSUME NEW k \in Consents, ListConnectedApps(p, k)
      PROVE  Quiet
  <2>1. RowsQuiet /\ CodesQuiet /\ CacheQuiet /\ UNCHANGED history
    BY <1>6, SameRows, SameCodes, SameCache DEF ListConnectedApps
  <2>2. /\ Cascade(k, "l_purge").pc \notin Critical
        /\ Resume("l_purge", k).pc \notin Critical
    BY CascadeOK, ResumeOK DEF Critical, Continuations
  <2>3. TasksQuiet
    BY <1>6, <2>2, GotoQuiet DEF ListConnectedApps
  <2> QED
    BY <2>1, <2>3 DEF Quiet
<1>7. CASE PurgeDeadRows(p)
  BY <1>7, SameRows, SameCodes, PurgeQuiet, PurgeCodesQuiet, SameCache,
     FinishQuiet DEF PurgeDeadRows, Quiet
<1> QED
  BY <1>1, <1>2, <1>3, <1>4, <1>5, <1>6, <1>7 DEF Revocation, Bearer, Noisy

LEMMA QuietOrNoisy ==
  ASSUME TypeInv, [Next]_vars
  PROVE  Quiet \/ \E p \in Procs : Noisy(p)
<1>1. UNCHANGED task => TasksQuiet
  BY DEF TasksQuiet
<1>2. CASE UNCHANGED vars
  BY <1>1, <1>2, SameRows, SameCodes, SameCache DEF vars, history, Quiet
<1>3. ASSUME NEW r \in Requests, NEW a \in Apps, InitiateAuthorization(r, a)
      PROVE  Quiet
  BY <1>1, <1>3, SameRows, SameCodes, SameCache DEF InitiateAuthorization, Quiet
<1>4. ASSUME NEW c \in Creds, RevokeAccessToken(c)
      PROVE  Quiet
  BY <1>1, <1>4, RevokeQuiet, SameCodes, SameCache DEF RevokeAccessToken, Quiet
<1>5. ASSUME NEW c \in Creds, CacheTimer(c)
      PROVE  Quiet
  BY <1>1, <1>5, SameRows, SameCodes, CacheDeleted DEF CacheTimer, Quiet
<1>6. CASE Tick
  BY <1>1, <1>6, SameRows, SameCodes, SameCache DEF Tick, Quiet
<1>7. CASE Crash
  <2>1. TasksQuiet
    BY <1>7, IdleOK DEF Crash, TasksQuiet, Critical
  <2>2. CacheQuiet
    BY <1>7 DEF Crash, CacheQuiet, NoEntry
  <2> QED
    BY <1>7, <2>1, <2>2, SameRows, SameCodes DEF Crash, Quiet
<1> QED
  BY <1>2, <1>3, <1>4, <1>5, <1>6, <1>7, DecideQuiet, ExchangeQuiet,
     RefreshQuiet, OtherQuiet DEF Next

-----------------------------------------------------------------------------
(* What a noisy step does to the handler that takes it, to the others and  *)
(* to the rows.                                                            *)
LEMMA Others ==
  ASSUME TypeInv, NEW p \in Procs, NEW t, Goto(p, t)
  PROVE  /\ task'[p] = t
         /\ \A q \in Procs \ {p} : task'[q] = task[q]
  BY DEF TypeInv, TypeOK, TasksOK, Goto

LEMMA ScanStep ==
  ASSUME TypeInv, NEW p \in Procs, NEW pc \in PCs, NEW rows \in SUBSET Creds,
         Goto(p, Snapshot(task[p], pc, rows))
  PROVE  /\ task'[p].pc = pc /\ task'[p].con = task[p].con
         /\ task'[p].cred = task[p].cred /\ task'[p].rows = rows
         /\ \A q \in Procs \ {p} : task'[q] = task[q]
<1> DEFINE u == Snapshot(task[p], pc, rows)
<1>1. /\ u.pc = pc /\ u.con = task[p].con /\ u.cred = task[p].cred
      /\ u.rows = rows
  BY Facts, SnapshotOK
<1>2. Goto(p, u)
  OBVIOUS
<1> HIDE DEF u
<1> QED
  BY <1>1, <1>2, Others

LEMMA ClaimStep ==
  ASSUME TypeInv, NEW p \in Procs, NEW s \in Creds, RotateClaim(p, s)
  PROVE  /\ UNCHANGED <<cred, cache, history>>
         /\ \A q \in Procs \ {p} : task'[q] = task[q]
         /\ \/ /\ task'[p].pc = "r_commit" /\ task'[p].succ = s
               /\ task'[p].cred = task[p].cred
               /\ Rotatable(task[p].cred) /\ ~Locked(task[p].cred)
               /\ Unused(s)
            \/ task'[p].pc = "r_lost"
<1> DEFINE u == Lock(task[p], s, now)
           v == [task[p] EXCEPT !.pc = "r_lost"]
<1>1. u.pc = "r_commit" /\ u.succ = s /\ u.cred = task[p].cred
  BY LockOK, Facts
<1>2. v.pc = "r_lost"
  <2>1. "r_lost" \in PCs BY DEF PCs
  <2> QED BY <2>1, Facts, MoveOK
<1>3. (Goto(p, u) /\ Rotatable(task[p].cred)) \/ Goto(p, v)
  BY DEF RotateClaim, Lock
<1>4. UNCHANGED <<cred, cache, history>> /\ ~Locked(task[p].cred) /\ Unused(s)
  BY DEF RotateClaim
<1> HIDE DEF u, v
<1> QED
  BY <1>1, <1>2, <1>3, <1>4, Others

LEMMA CommitStep ==
  ASSUME TypeInv, LockInv, NEW p \in Procs, RotateCommit(p)
  PROVE  LET c == task[p].cred
             s == task[p].succ
         IN  /\ c \in Creds /\ s \in Creds /\ c # s
             /\ cred'[s] = NewCred(task[p].con, cred[c].family, Null)
             /\ cred'[c].st = "row" /\ ~cred'[c].revoked
             /\ cred'[c].rotated_at # NoTime /\ cred'[c].successor = s
             /\ cred'[c].family = cred[c].family
             /\ cred'[c].consent = cred[c].consent
             /\ \A d \in Creds \ {c, s} : cred'[d] = cred[d]
             /\ task'[p].pc = "r_put" /\ task'[p].cred = c /\ task'[p].succ = s
             /\ \A q \in Procs \ {p} : task'[q] = task[q]
             /\ InsertHistory(s, task[p].con, cred[c].family)
             /\ UNCHANGED cache
<1> DEFINE t == task[p]
           c == t.cred
           s == t.succ
           new == NewCred(t.con, cred[c].family, Null)
           c1 == [cred EXCEPT ![s] = new]
           row2 == [c1[c] EXCEPT !.rotated_at = t.at]
           c2 == [c1 EXCEPT ![c] = row2]
           row3 == [c2[c] EXCEPT !.successor = s]
           h == Handler("r_put", Null, Null, c)
           u == [h EXCEPT !.succ = s]
<1>1. /\ c \in Creds /\ s \in Creds /\ t.at \in Time /\ Rotatable(c)
      /\ cred[s].st = "none"
  BY Facts DEF RotateCommit, LocalsOK, LockInv
<1>2. c # s
  BY <1>1 DEF Rotatable
<1>3. cred' = [c2 EXCEPT ![c] = row3]
  <2>1. cred' = [cred EXCEPT ![s] = new, ![c].rotated_at = t.at,
                             ![c].successor = s]
    BY DEF RotateCommit
  <2> QED
    BY <2>1, Zenon
<1>4. /\ DOMAIN c1 = Creds
      /\ \A d \in Creds : c1[d] = IF d = s THEN new ELSE cred[d]
  <2> HIDE DEF new
  <2> QED BY <1>1, Facts DEF TablesOK
<1>5. c1[c] = cred[c] /\ cred[c] \in CredRow
  <2> HIDE DEF c1, new
  <2> QED BY <1>1, <1>2, <1>4, Facts DEF TablesOK
<1>6. /\ row2.rotated_at = t.at /\ row2.st = cred[c].st
      /\ row2.consent = cred[c].consent /\ row2.family = cred[c].family
      /\ row2.revoked = cred[c].revoked /\ row2 \in CredRow
  <2> HIDE DEF c1
  <2> QED BY <1>1, <1>5 DEF CredRow, Time
<1>7. /\ DOMAIN c2 = Creds
      /\ \A d \in Creds : c2[d] = IF d = c THEN row2 ELSE c1[d]
  <2> HIDE DEF c1, row2
  <2> QED BY <1>1, <1>4
<1>8. /\ row3.rotated_at = t.at /\ row3.st = cred[c].st
      /\ row3.consent = cred[c].consent /\ row3.family = cred[c].family
      /\ row3.revoked = cred[c].revoked /\ row3.successor = s
  <2>1. c2[c] = row2
    <3> HIDE DEF row2, c2
    <3> QED BY <1>1, <1>7
  <2> HIDE DEF c2, row2
  <2> QED BY <1>6, <2>1 DEF CredRow
<1>9. \A d \in Creds : cred'[d] = IF d = c THEN row3 ELSE c2[d]
  <2> HIDE DEF c2, row3
  <2> QED BY <1>1, <1>3, <1>7
<1>10. h \in Task /\ h.pc = "r_put" /\ h.cred = c
  BY <1>1, HandlerOK DEF OrNull, PCs
<1>11. u.pc = "r_put" /\ u.cred = c /\ u.succ = s
  <2> HIDE DEF h
  <2> QED BY <1>1, <1>10 DEF Task
<1>12. Goto(p, u) /\ InsertHistory(s, t.con, cred[c].family) /\ UNCHANGED cache
  BY DEF RotateCommit
<1>13. t.at # NoTime
  BY <1>1, ClockAssumption DEF Time, NoTime
<1>14. cred'[s] = new /\ \A d \in Creds \ {c, s} : cred'[d] = cred[d]
  <2> HIDE DEF c1, c2, row2, row3, new
  <2> QED BY <1>1, <1>2, <1>4, <1>7, <1>9
<1>15. cred'[c] = row3
  <2> HIDE DEF row3
  <2> QED BY <1>1, <1>9
<1> HIDE DEF u, row3, c1, c2, row2
<1> QED
  BY <1>1, <1>2, <1>8, <1>11, <1>12, <1>13, <1>14, <1>15, Others
     DEF Rotatable

LEMMA IssueStep ==
  ASSUME TypeInv, NEW p \in Procs, NEW c \in Creds, ExchangeIssue(p, c)
  PROVE  \/ Quiet
         \/ /\ cred[c].st = "none"
            /\ \A q \in Procs : task[q].succ # c
            /\ cred'[c] = NewCred(task[p].con, c, task[p].code)
            /\ \A d \in Creds \ {c} : cred'[d] = cred[d]
            /\ TasksQuiet
            /\ InsertHistory(c, task[p].con, c)
            /\ UNCHANGED cache
<1>1. TasksQuiet /\ UNCHANGED cache
  BY FinishQuiet DEF ExchangeIssue
<1>2. CASE UNCHANGED <<cred, history>>
  BY <1>1, <1>2, SameRows, SameCodes, SameCache DEF ExchangeIssue, Quiet
<1>3. CASE /\ cred' = [cred EXCEPT ![c] = NewCred(task[p].con, c, task[p].code)]
           /\ InsertHistory(c, task[p].con, c)
  BY <1>1, <1>3 DEF ExchangeIssue, Unused, TypeInv, TypeOK, TablesOK
<1> QED
  BY <1>2, <1>3 DEF ExchangeIssue

LEMMA NewRow ==
  ASSUME NEW k, NEW f, NEW x
  PROVE  /\ NewCred(k, f, x).st = "row" /\ NewCred(k, f, x).consent = k
         /\ NewCred(k, f, x).family = f /\ ~NewCred(k, f, x).revoked
         /\ NewCred(k, f, x).rotated_at = NoTime
  BY DEF NewCred

(* The exchange of a code touches no row of a credential before its INSERT. *)
ClaimsCode(p) ==
    \/ \E x \in Codes, valid \in BOOLEAN : ExchangeClaim(p, x, valid)
    \/ ExchangeReadConsent(p)

LEMMA CodeClaimStep ==
  ASSUME TypeInv, NEW p \in Procs, ClaimsCode(p)
  PROVE  /\ RowsQuiet /\ UNCHANGED <<cache, history>>
         /\ \A q \in Procs :
               \/ task'[q] = task[q]
               \/ task'[q].pc \notin Critical \ {"x_consent", "x_issue"}
<1>1. RowsQuiet /\ UNCHANGED <<cache, history>>
  BY SameRows DEF ClaimsCode, ExchangeClaim, ExchangeReadConsent
<1>2. ASSUME NEW t, Goto(p, t), t.pc \notin Critical \ {"x_consent", "x_issue"}
      PROVE  \A q \in Procs :
               \/ task'[q] = task[q]
               \/ task'[q].pc \notin Critical \ {"x_consent", "x_issue"}
  BY <1>2, Others
<1>3. ASSUME NEW x \in Codes, NEW valid \in BOOLEAN, ExchangeClaim(p, x, valid)
      PROVE  \A q \in Procs :
               \/ task'[q] = task[q]
               \/ task'[q].pc \notin Critical \ {"x_consent", "x_issue"}
  <2>1. /\ Handler("x_consent", code[x].consent, x, Null).pc = "x_consent"
        /\ Handler("x_replay", Null, x, Null).pc = "x_replay"
        /\ Idle.pc = "idle"
    BY IdleOK DEF Handler
  <2> QED
    BY <1>2, <1>3, <2>1 DEF ExchangeClaim, Critical
<1>4. CASE ExchangeReadConsent(p)
  <2>1. "x_issue" \in PCs
    BY DEF PCs
  <2>2. [task[p] EXCEPT !.pc = "x_issue"].pc = "x_issue"
    BY <2>1, Facts, MoveOK
  <2>3. task[p].con \in Consents
    BY <1>4, Facts DEF ExchangeReadConsent, LocalsOK
  <2>4. CASE Goto(p, [task[p] EXCEPT !.pc = "x_issue"])
    BY <1>1, <1>2, <2>2, <2>4 DEF Critical
  <2>5. CASE Finish(p) \/ RevokeIfNotAlreadyRevoked(p, task[p].con, "idle")
    BY <1>1, <2>3, <2>5, FinishQuiet, RevokeIfQuiet DEF Continuations, TasksQuiet
  <2> QED
    BY <1>1, <1>4, <2>4, <2>5 DEF ExchangeReadConsent
<1> QED
  BY <1>1, <1>3, <1>4 DEF ClaimsCode

Bulk(p) ==
    \/ RevokeFamilyScan(p) \/ RevokeFamilyStamp(p)
    \/ CascadeScan(p) \/ CascadeStamp(p) \/ CascadeRevokeConsent(p)

LEMMA FamilyScanStep ==
  ASSUME TypeInv, NEW p \in Procs, RevokeFamilyScan(p)
  PROVE  /\ UNCHANGED <<cred, cache, history>>
         /\ task'[p].pc = "f_stamp" /\ task'[p].cred = task[p].cred
         /\ task'[p].rows = FamilyRows(task[p].cred)
         /\ \A q \in Procs \ {p} : task'[q] = task[q]
<1>1. FamilyRows(task[p].cred) \in SUBSET Creds /\ "f_stamp" \in PCs
  BY DEF FamilyRows, PCs
<1>2. /\ Goto(p, Snapshot(task[p], "f_stamp", FamilyRows(task[p].cred)))
      /\ UNCHANGED <<cred, cache, history>>
  BY DEF RevokeFamilyScan, Snapshot
<1> QED
  BY <1>1, <1>2, ScanStep

LEMMA CascadeScanStep ==
  ASSUME TypeInv, NEW p \in Procs, CascadeScan(p)
  PROVE  /\ UNCHANGED <<cred, cache, history>>
         /\ task'[p].pc = "c_stamp" /\ task'[p].con = task[p].con
         /\ task'[p].rows = ConsentRows(task[p].con)
         /\ \A q \in Procs \ {p} : task'[q] = task[q]
<1>1. ConsentRows(task[p].con) \in SUBSET Creds /\ "c_stamp" \in PCs
  BY DEF ConsentRows, PCs
<1>2. /\ Goto(p, Snapshot(task[p], "c_stamp", ConsentRows(task[p].con)))
      /\ UNCHANGED <<cred, cache, history>>
  BY DEF CascadeScan, Snapshot
<1> QED
  BY <1>1, <1>2, ScanStep

LEMMA FamilyStampStep ==
  ASSUME TypeInv, NEW p \in Procs, RevokeFamilyStamp(p)
  PROVE  /\ RowsQuiet /\ TasksQuiet /\ UNCHANGED <<cache, stale, raced, forked>>
         /\ \A c \in Creds : Live(c)' => Live(c) /\ c \notin task[p].rows
         /\ killed' = killed \cup {task[p].cred}
         /\ task[p].pc = "f_stamp" /\ task[p].cred \in Creds
         /\ cred[task[p].cred].st # "none"
<1>1. RowsQuiet /\ \A c \in Creds : Live(c)' => Live(c) /\ c \notin task[p].rows
  BY RevokeQuiet DEF RevokeFamilyStamp
<1>2. task[p].cred \in Creds /\ cred[task[p].cred].st # "none"
  BY Facts DEF RevokeFamilyStamp, LocalsOK, Holds, Holding
<1> QED
  BY <1>1, <1>2, FinishQuiet DEF RevokeFamilyStamp

LEMMA CascadeStampStep ==
  ASSUME TypeInv, NEW p \in Procs, CascadeStamp(p)
  PROVE  /\ RowsQuiet /\ UNCHANGED <<cache, history>>
         /\ \A c \in Creds : Live(c)' => Live(c) /\ c \notin task[p].rows
         /\ task[p].pc = "c_stamp"
         /\ task'[p].pc = "c_consent" /\ task'[p].con = task[p].con
         /\ \A q \in Procs \ {p} : task'[q] = task[q]
<1>1. {} \in SUBSET Creds /\ "c_consent" \in PCs
  BY DEF PCs
<1>2. RowsQuiet /\ \A c \in Creds : Live(c)' => Live(c) /\ c \notin task[p].rows
  BY RevokeQuiet DEF CascadeStamp
<1>3. /\ Goto(p, Snapshot(task[p], "c_consent", {}))
      /\ UNCHANGED <<cache, history>> /\ task[p].pc = "c_stamp"
  BY DEF CascadeStamp, Snapshot
<1> QED
  BY <1>1, <1>2, <1>3, ScanStep

LEMMA CascadeConsentStep ==
  ASSUME TypeInv, NEW p \in Procs, CascadeRevokeConsent(p)
  PROVE  /\ UNCHANGED <<cred, cache, raced, killed, forked>> /\ TasksQuiet
         /\ task[p].pc = "c_consent"
         /\ stale' = stale \cup {c \in Creds : /\ cred[c].st = "row"
                                               /\ cred[c].consent = task[p].con}
<1>1. task[p].con \in Consents /\ task[p].then \in Continuations
  BY Facts DEF CascadeRevokeConsent, LocalsOK, Task, Continuations
<1>2. Resume(task[p].then, task[p].con).pc \notin Critical
  BY <1>1, ResumeOK DEF Continuations, Critical
<1> QED
  BY <1>2, GotoQuiet DEF CascadeRevokeConsent

LEMMA BulkStep ==
  ASSUME TypeInv, NEW p \in Procs, Bulk(p)
  PROVE  /\ RowsQuiet /\ UNCHANGED cache
         /\ \A q \in Procs : \/ task'[q] = task[q]
                             \/ task'[q].pc \notin {"r_commit", "r_put"}
  BY FamilyScanStep, FamilyStampStep, CascadeScanStep, CascadeStampStep,
     CascadeConsentStep, SameRows DEF Bulk, TasksQuiet, Critical

-----------------------------------------------------------------------------
(* Rotations lock their row.                                               *)
LEMMA LockStep ==
  ASSUME TypeInv, LockInv, [Next]_vars
  PROVE  LockInv'
<1>1. ASSUME RowsQuiet,
             \A q \in Procs : task'[q] = task[q] \/ task'[q].pc # "r_commit"
      PROVE  LockInv'
  <2>1. ASSUME NEW p \in Procs, task'[p].pc = "r_commit"
        PROVE  /\ Rotatable(task[p].cred)' /\ cred'[task'[p].succ].st = "none"
    <3>1. task'[p] = task[p] /\ task[p].cred \in Creds /\ task[p].succ \in Creds
      BY <1>1, <2>1, Facts DEF LocalsOK
    <3>2. Rotatable(task[p].cred) /\ cred[task[p].succ].st = "none"
      BY <2>1, <3>1 DEF LockInv
    <3>3. Locked(task[p].cred) /\ Live(task[p].cred)
      BY <2>1, <3>1, <3>2 DEF Locked, Live, Rotatable
    <3> QED
      BY <1>1, <3>1, <3>2, <3>3 DEF RowsQuiet, Rotatable, Live
  <2> QED
    BY <1>1, <2>1 DEF LockInv
<1>2. CASE Quiet
  BY <1>1, <1>2 DEF Quiet, TasksQuiet, Critical
<1>3. ASSUME NEW p \in Procs, Bulk(p)
      PROVE  LockInv'
  BY <1>1, <1>3, BulkStep
<1>4. ASSUME NEW p \in Procs, NEW s \in Creds, RotateClaim(p, s)
      PROVE  LockInv'
  <2>1. cred' = cred /\ \A q \in Procs \ {p} : task'[q] = task[q]
    BY <1>4, ClaimStep
  <2>2. CASE task'[p].pc = "r_lost"
    BY <1>1, <2>1, <2>2, SameRows
  <2>3. CASE /\ task'[p].pc = "r_commit" /\ task'[p].succ = s
             /\ task'[p].cred = task[p].cred
             /\ Rotatable(task[p].cred) /\ ~Locked(task[p].cred) /\ Unused(s)
    <3>1. \A q \in Procs \ {p} : task[q].pc = "r_commit" =>
              task[q].cred # task[p].cred /\ task[q].succ # s
      BY <2>3 DEF Locked, Unused
    <3>2. cred[s].st = "none"
      BY <2>3 DEF Unused
    <3> QED
      BY <2>1, <2>3, <3>1, <3>2 DEF LockInv, Rotatable
  <2> QED
    BY <1>4, <2>2, <2>3, ClaimStep
<1>5. ASSUME NEW p \in Procs, RotateCommit(p)
      PROVE  LockInv'
  <2>1. /\ task[p].pc = "r_commit" /\ task'[p].pc = "r_put"
        /\ \A q \in Procs \ {p} : task'[q] = task[q]
        /\ \A d \in Creds \ {task[p].cred, task[p].succ} : cred'[d] = cred[d]
    BY <1>5, CommitStep DEF RotateCommit
  <2>2. ASSUME NEW q \in Procs, task'[q].pc = "r_commit"
        PROVE  /\ q # p /\ task'[q] = task[q]
               /\ cred'[task[q].cred] = cred[task[q].cred]
               /\ cred'[task[q].succ] = cred[task[q].succ]
    <3>1. q # p /\ task'[q] = task[q]
      BY <2>1, <2>2
    <3>2. task[q].cred \in Creds /\ task[q].succ \in Creds
      BY <2>2, <3>1, Facts DEF LocalsOK
    <3>3. /\ task[q].cred # task[p].cred /\ task[q].succ # task[p].succ
          /\ cred[task[q].succ].st = "none" /\ cred[task[p].succ].st = "none"
          /\ cred[task[q].cred].st = "row" /\ cred[task[p].cred].st = "row"
      BY <2>1, <2>2, <3>1 DEF LockInv, Rotatable
    <3> QED
      BY <2>1, <3>1, <3>2, <3>3
  <2> QED
    BY <2>1, <2>2 DEF LockInv, Rotatable
<1>6. ASSUME NEW p \in Procs, RotateCachePut(p)
      PROVE  LockInv'
  <2>1. TasksQuiet /\ RowsQuiet
    BY <1>6, FinishQuiet, SameRows DEF RotateCachePut
  <2> QED
    BY <1>1, <2>1 DEF TasksQuiet, Critical
<1>7. ASSUME NEW p \in Procs, NEW c \in Creds, ExchangeIssue(p, c), ~Quiet
      PROVE  LockInv'
  <2>1. /\ cred[c].st = "none" /\ \A q \in Procs : task[q].succ # c
        /\ \A d \in Creds \ {c} : cred'[d] = cred[d]
        /\ TasksQuiet
    BY <1>7, IssueStep
  <2>2. ASSUME NEW q \in Procs, task'[q].pc = "r_commit"
        PROVE  /\ task'[q] = task[q]
               /\ cred'[task[q].cred] = cred[task[q].cred]
               /\ cred'[task[q].succ] = cred[task[q].succ]
    <3>1. task'[q] = task[q]
      BY <2>1, <2>2 DEF TasksQuiet, Critical
    <3>2. task[q].cred \in Creds /\ task[q].succ \in Creds
      BY <2>2, <3>1, Facts DEF LocalsOK
    <3>3. cred[task[q].cred].st = "row"
      BY <2>2, <3>1 DEF LockInv, Rotatable
    <3> QED
      BY <2>1, <3>1, <3>2, <3>3
  <2> QED
    BY <2>2 DEF LockInv, Rotatable
<1>8. ASSUME NEW p \in Procs, ClaimsCode(p)
      PROVE  LockInv'
  BY <1>1, <1>8, CodeClaimStep DEF Critical
<1> QED
  BY <1>2, <1>3, <1>4, <1>5, <1>6, <1>7, <1>8, QuietOrNoisy
     DEF Noisy, Bulk, ClaimsCode

(* The successor takes the place of the superseded tip.                    *)
LEMMA ChainStep ==
  ASSUME TypeInv, ChainInv, [Next]_vars
  PROVE  ChainInv'
<1>0. LockInv /\ ChainNeverForks /\ LockInv'
  BY LockStep DEF ChainInv
<1>1. RowsQuiet => ChainNeverForks'
  BY <1>0 DEF RowsQuiet, ChainNeverForks
<1>2. ASSUME NEW p \in Procs, RotateCommit(p)
      PROVE  ChainNeverForks'
  <2> DEFINE c == task[p].cred
             s == task[p].succ
  <2>1. /\ c \in Creds /\ s \in Creds /\ c # s
        /\ cred'[s].family = cred[c].family
        /\ cred'[c].rotated_at # NoTime
        /\ \A d \in Creds \ {c, s} : cred'[d] = cred[d]
    BY <1>0, <1>2, CommitStep, NewRow
  <2>2. cred[c].st = "row" /\ cred[c].rotated_at = NoTime
    BY <1>0, <1>2 DEF LockInv, Rotatable, RotateCommit
  <2>3. ASSUME NEW d \in Creds, d # s, cred'[d].st = "row",
               cred'[d].rotated_at = NoTime
        PROVE  cred'[d] = cred[d] /\ cred[d].family # cred[c].family
    BY <1>0, <2>1, <2>2, <2>3 DEF ChainNeverForks
  <2> HIDE DEF c, s
  <2> QED
    BY <1>0, <2>1, <2>3 DEF ChainNeverForks
<1>3. ASSUME NEW p \in Procs, NEW c \in Creds, ExchangeIssue(p, c), ~Quiet
      PROVE  ChainNeverForks'
  <2>1. /\ cred[c].st = "none" /\ cred'[c].family = c
        /\ \A d \in Creds \ {c} : cred'[d] = cred[d]
    BY <1>3, IssueStep, NewRow
  <2>2. ASSUME NEW d \in Creds \ {c}, cred'[d].st = "row"
        PROVE  cred'[d] = cred[d] /\ cred[d].family # c
    BY <2>1, <2>2 DEF TypeInv, FamiliesKnown
  <2> QED
    BY <1>0, <2>1, <2>2 DEF ChainNeverForks
<1>4. ASSUME NEW p \in Procs, Noisy(p), ~Quiet
      PROVE  ChainNeverForks'
  <2>1. CASE Bulk(p)
    BY <1>1, <2>1, BulkStep
  <2>2. CASE (\E s \in Creds : RotateClaim(p, s)) \/ RotateCachePut(p)
    BY <1>1, <2>2, SameRows DEF RotateClaim, RotateCachePut
  <2>3. CASE ClaimsCode(p)
    BY <1>1, <2>3, CodeClaimStep
  <2> QED
    BY <1>2, <1>3, <1>4, <2>1, <2>2, <2>3 DEF Noisy, Bulk, ClaimsCode
<1> QED
  BY <1>0, <1>1, <1>4, QuietOrNoisy DEF Quiet, ChainInv

(* Nothing live escapes the cascade except what was inserted during it.    *)
LEMMA DisconnectStep ==
  ASSUME TypeInv, LockInv, DisconnectInv, [Next]_vars
  PROVE  DisconnectInv'
(* Steps that insert nothing and take no handler into a window. *)
<1>1. ASSUME RowsQuiet, UNCHANGED <<stale, raced>>,
             \A q \in Procs : task'[q] = task[q] \/ ~InWindow(task'[q])
      PROVE  DisconnectInv'
  <2>1. ASSUME NEW c \in Creds, Live(c)'
        PROVE  Live(c) /\ cred'[c].consent = cred[c].consent
    BY <1>1, <2>1 DEF RowsQuiet, Live
  <2>2. stale' \subseteq Creds
    BY <1>1, Facts DEF TypeInv, TypeOK, HistoryOK
  <2>3. \A c \in stale' : cred'[c].st # "none"
    BY <1>1, <2>2 DEF DisconnectInv, RowsQuiet
  <2>4. \A c \in stale' : Live(c)' => c \in raced'
    BY <1>1, <2>1, <2>2 DEF DisconnectInv
  <2>5. ASSUME NEW q \in Procs, NEW c \in Creds, InWindow(task'[q]),
               Live(c)', cred'[c].consent = task'[q].con
        PROVE  c \in raced' \/ InSnapshot(task'[q], c)
    BY <1>1, <2>1, <2>5 DEF DisconnectInv
  <2> QED
    BY <2>3, <2>4, <2>5 DEF DisconnectInv
(* An INSERT of credential d of consent k, whose id was unused. *)
<1>2. ASSUME NEW d \in Creds, NEW k, NEW f, InsertHistory(d, k, f),
             cred[d].st = "none", cred'[d].consent = k,
             \A c \in Creds \ {d} : /\ cred'[c].st = cred[c].st
                                    /\ cred'[c].consent = cred[c].consent
                                    /\ Live(c)' => Live(c),
             cred'[d].st # "none",
             \A q \in Procs : task'[q] = task[q] \/ ~InWindow(task'[q])
      PROVE  DisconnectInv'
  <2>1. stale' = stale /\ raced \subseteq raced'
    BY <1>2, Zenon DEF InsertHistory
  <2>2. (\E q \in Procs : task[q].con = k /\ InWindow(task[q])) => d \in raced'
    BY <1>2 DEF InsertHistory, InWindow
  <2>3. stale \subseteq Creds /\ d \notin stale
    BY <1>2 DEF TypeInv, TypeOK, HistoryOK, DisconnectInv
  <2>4. \A c \in stale' : cred'[c].st # "none"
    BY <1>2, <2>1, <2>3 DEF DisconnectInv
  <2>5. \A c \in stale' : Live(c)' => c \in raced'
    BY <1>2, <2>1, <2>3 DEF DisconnectInv
  <2>6. ASSUME NEW q \in Procs, NEW c \in Creds, InWindow(task'[q]),
               Live(c)', cred'[c].consent = task'[q].con
        PROVE  c \in raced' \/ InSnapshot(task'[q], c)
    <3>1. task'[q] = task[q]
      BY <1>2, <2>6
    <3>2. CASE c = d
      BY <1>2, <2>2, <2>6, <3>1, <3>2
    <3>3. CASE c # d
      BY <1>2, <2>1, <2>6, <3>1, <3>3 DEF DisconnectInv
    <3> QED
      BY <3>2, <3>3
  <2> QED
    BY <2>4, <2>5, <2>6 DEF DisconnectInv
<1>3. CASE Quiet
  BY <1>1, <1>3 DEF Quiet, TasksQuiet, Critical, InWindow, history
<1>4. ASSUME NEW p \in Procs, RevokeFamilyScan(p) \/ RevokeFamilyStamp(p)
      PROVE  DisconnectInv'
  <2>1. RowsQuiet /\ UNCHANGED <<stale, raced>>
    BY <1>4, FamilyScanStep, FamilyStampStep, SameRows DEF history
  <2>2. \A q \in Procs : task'[q] = task[q] \/ ~InWindow(task'[q])
    BY <1>4, FamilyScanStep, FamilyStampStep
       DEF TasksQuiet, Critical, InWindow
  <2> QED
    BY <1>1, <2>1, <2>2
<1>5. ASSUME NEW p \in Procs, CascadeScan(p)
      PROVE  DisconnectInv'
  <2>1. /\ cred' = cred /\ stale' = stale /\ raced' = raced
        /\ task'[p].pc = "c_stamp" /\ task'[p].con = task[p].con
        /\ task'[p].rows = ConsentRows(task[p].con)
        /\ \A q \in Procs \ {p} : task'[q] = task[q]
    BY <1>5, CascadeScanStep DEF history
  <2>2. \A c \in Creds : Live(c) /\ cred[c].consent = task[p].con
                          => c \in ConsentRows(task[p].con)
    BY DEF Live, ConsentRows
  <2>3. \A c \in Creds : c \in ConsentRows(task[p].con) => InSnapshot(task'[p], c)
    BY <2>1 DEF InSnapshot
  <2> QED
    BY <2>1, <2>2, <2>3 DEF DisconnectInv, Live
<1>6. ASSUME NEW p \in Procs, CascadeStamp(p)
      PROVE  DisconnectInv'
  <2>1. /\ RowsQuiet /\ stale' = stale /\ raced' = raced
        /\ \A c \in Creds : Live(c)' => Live(c) /\ c \notin task[p].rows
        /\ task[p].pc = "c_stamp"
        /\ task'[p].pc = "c_consent" /\ task'[p].con = task[p].con
        /\ \A q \in Procs \ {p} : task'[q] = task[q]
    BY <1>6, CascadeStampStep DEF history
  <2>2. ASSUME NEW c \in Creds, Live(c)'
        PROVE  Live(c) /\ cred'[c].consent = cred[c].consent
               /\ c \notin task[p].rows
    BY <2>1, <2>2 DEF RowsQuiet, Live
  <2>3. stale \subseteq Creds
    BY DEF TypeInv, TypeOK, HistoryOK
  <2>4. /\ \A c \in stale' : cred'[c].st # "none"
        /\ \A c \in stale' : Live(c)' => c \in raced'
    BY <2>1, <2>2, <2>3 DEF DisconnectInv, RowsQuiet
  <2>5. ASSUME NEW q \in Procs, NEW c \in Creds, InWindow(task'[q]),
               Live(c)', cred'[c].consent = task'[q].con
        PROVE  c \in raced' \/ InSnapshot(task'[q], c)
    <3>1. Live(c) /\ cred[c].consent = task'[q].con /\ ~InSnapshot(task[p], c)
      BY <2>1, <2>2, <2>5 DEF InSnapshot
    <3>2. InWindow(task[p]) /\ task'[p].con = task[p].con
      BY <2>1 DEF InWindow
    <3> QED
      BY <2>1, <2>5, <3>1, <3>2 DEF DisconnectInv
  <2> QED
    BY <2>4, <2>5 DEF DisconnectInv
<1>7. ASSUME NEW p \in Procs, CascadeRevokeConsent(p)
      PROVE  DisconnectInv'
  <2>1. /\ cred' = cred /\ raced' = raced /\ task[p].pc = "c_consent"
        /\ \A q \in Procs : task'[q] = task[q] \/ ~InWindow(task'[q])
        /\ stale' = stale \cup {c \in Creds : /\ cred[c].st = "row"
                                              /\ cred[c].consent = task[p].con}
    BY <1>7, CascadeConsentStep DEF TasksQuiet, Critical, InWindow
  <2>2. \A c \in stale' : cred'[c].st # "none"
    BY <2>1 DEF DisconnectInv
  <2>3. \A c \in stale' : Live(c) => c \in raced
    BY <2>1 DEF DisconnectInv, InWindow, InSnapshot
  <2>4. ASSUME NEW q \in Procs, NEW c \in Creds, InWindow(task'[q]),
               Live(c), cred[c].consent = task'[q].con
        PROVE  c \in raced' \/ InSnapshot(task'[q], c)
    BY <2>1, <2>4 DEF DisconnectInv
  <2> QED
    BY <2>1, <2>2, <2>3, <2>4 DEF DisconnectInv, Live
<1>8. ASSUME NEW p \in Procs,
             (\E s \in Creds : RotateClaim(p, s)) \/ RotateCachePut(p)
      PROVE  DisconnectInv'
  <2>1. RowsQuiet /\ UNCHANGED <<stale, raced>>
    BY <1>8, SameRows DEF RotateClaim, RotateCachePut, history
  <2>2. \A q \in Procs : task'[q] = task[q] \/ ~InWindow(task'[q])
    BY <1>8, ClaimStep, FinishQuiet
       DEF RotateCachePut, TasksQuiet, Critical, InWindow
  <2> QED
    BY <1>1, <2>1, <2>2
<1>9. ASSUME NEW p \in Procs, RotateCommit(p)
      PROVE  DisconnectInv'
  <2> DEFINE c == task[p].cred
             s == task[p].succ
  <2>1. /\ c \in Creds /\ s \in Creds
        /\ cred'[s].st = "row" /\ cred'[s].consent = task[p].con
        /\ cred'[c].st = "row" /\ cred'[c].consent = cred[c].consent
        /\ \A d \in Creds \ {c, s} : cred'[d] = cred[d]
        /\ \A q \in Procs : task'[q] = task[q] \/ ~InWindow(task'[q])
        /\ InsertHistory(s, task[p].con, cred[c].family)
    BY <1>9, CommitStep, NewRow DEF InWindow
  <2>2. cred[c].st = "row" /\ Live(c) /\ cred[s].st = "none"
    BY <1>9 DEF LockInv, Rotatable, RotateCommit, Live
  <2>3. \A d \in Creds \ {s} : /\ cred'[d].st = cred[d].st
                               /\ cred'[d].consent = cred[d].consent
                               /\ Live(d)' => Live(d)
    BY <2>1, <2>2 DEF Live
  <2> HIDE DEF c, s
  <2> QED
    BY <1>2, <2>1, <2>2, <2>3
<1>10. ASSUME NEW p \in Procs, NEW c \in Creds, ExchangeIssue(p, c), ~Quiet
       PROVE  DisconnectInv'
  <2>1. /\ cred[c].st = "none" /\ cred'[c].st = "row"
        /\ cred'[c].consent = task[p].con
        /\ \A d \in Creds \ {c} : cred'[d] = cred[d]
        /\ TasksQuiet /\ InsertHistory(c, task[p].con, c)
    BY <1>10, IssueStep, NewRow
  <2>2. \A d \in Creds \ {c} : /\ cred'[d].st = cred[d].st
                               /\ cred'[d].consent = cred[d].consent
                               /\ Live(d)' => Live(d)
    BY <2>1 DEF Live
  <2>3. \A q \in Procs : task'[q] = task[q] \/ ~InWindow(task'[q])
    BY <2>1 DEF TasksQuiet, Critical, InWindow
  <2> QED
    BY <1>2, <2>1, <2>2, <2>3
<1>11. ASSUME NEW p \in Procs, ClaimsCode(p)
       PROVE  DisconnectInv'
  BY <1>1, <1>11, CodeClaimStep DEF Critical, InWindow, history
<1> QED
  BY <1>3, <1>4, <1>5, <1>6, <1>7, <1>8, <1>9, <1>10, <1>11, QuietOrNoisy
     DEF Noisy, ClaimsCode

(* The same argument for a family, with the row lock: a rotation that is   *)
(* still open when the family is revoked holds a live row of it.           *)
LEMMA FamilyStep ==
  ASSUME TypeInv, LockInv, FamilyInv, [Next]_vars
  PROVE  FamilyInv'
<1>0. /\ killed \subseteq Creds
      /\ \A c \in Creds : Live(c) /\ cred[c].family \in killed
                            => cred[c].family \in forked
  BY DEF TypeInv, TypeOK, HistoryOK, FamilyInv, FamilyFence, Live
<1>1. ASSUME RowsQuiet, UNCHANGED <<killed, forked>>,
             \A q \in Procs : task'[q] = task[q] \/ ~Stamping(task'[q])
      PROVE  FamilyInv'
  <2>1. ASSUME NEW c \in Creds
        PROVE  /\ Live(c)' => Live(c)
               /\ cred'[c].family = cred[c].family
               /\ cred'[c].st = "none" <=> cred[c].st = "none"
    BY <1>1 DEF RowsQuiet
  <2>2. FamilyFence'
    BY <1>0, <1>1, <2>1 DEF FamilyFence, Live
  <2>3. \A f \in killed' : cred'[f].st # "none"
    BY <1>0, <1>1, <2>1 DEF FamilyInv
  <2>4. ASSUME NEW q \in Procs, NEW c \in Creds, Stamping(task'[q]),
               Live(c)', cred'[c].family = task'[q].cred
        PROVE  c \in task'[q].rows \/ cred'[c].family \in forked'
    BY <1>1, <2>1, <2>4 DEF FamilyInv
  <2> QED
    BY <2>2, <2>3, <2>4 DEF FamilyInv
(* An INSERT of credential d of family f, whose id was unused. *)
<1>2. ASSUME NEW d \in Creds, NEW k, NEW f, InsertHistory(d, k, f),
             cred[d].st = "none", cred'[d].family = f, cred'[d].st # "none",
             f \in killed => f \in forked,
             \A c \in Creds \ {d} : /\ cred'[c].st = cred[c].st
                                    /\ cred'[c].family = cred[c].family
                                    /\ Live(c)' => Live(c),
             \A q \in Procs : task'[q] = task[q] \/ ~Stamping(task'[q])
      PROVE  FamilyInv'
  <2>1. killed' = killed /\ forked \subseteq forked'
    BY <1>2, Zenon DEF InsertHistory
  <2>2. (\E q \in Procs : task[q].cred = f /\ Stamping(task[q])) => f \in forked'
    BY <1>2 DEF InsertHistory, Stamping
  <2>3. FamilyFence'
    <3>1. ASSUME NEW c \in Creds, Live(c)', cred'[c].family \in killed'
          PROVE  cred'[c].family \in forked'
      BY <1>0, <1>2, <2>1, <3>1
    <3> QED
      BY <3>1 DEF FamilyFence, Live
  <2>4. \A g \in killed' : cred'[g].st # "none"
    BY <1>0, <1>2, <2>1 DEF FamilyInv
  <2>5. ASSUME NEW q \in Procs, NEW c \in Creds, Stamping(task'[q]),
               Live(c)', cred'[c].family = task'[q].cred
        PROVE  c \in task'[q].rows \/ cred'[c].family \in forked'
    <3>1. task'[q] = task[q]
      BY <1>2, <2>5
    <3>2. CASE c = d
      BY <1>2, <2>2, <2>5, <3>1, <3>2
    <3>3. CASE c # d
      BY <1>2, <2>1, <2>5, <3>1, <3>3 DEF FamilyInv
    <3> QED
      BY <3>2, <3>3
  <2> QED
    BY <2>3, <2>4, <2>5 DEF FamilyInv
<1>3. CASE Quiet
  BY <1>1, <1>3 DEF Quiet, TasksQuiet, Critical, Stamping, history
<1>4. ASSUME NEW p \in Procs, RevokeFamilyScan(p)
      PROVE  FamilyInv'
  <2>1. /\ cred' = cred /\ killed' = killed /\ forked' = forked
        /\ task'[p].cred = task[p].cred
        /\ task'[p].rows = FamilyRows(task[p].cred)
        /\ \A q \in Procs \ {p} : task'[q] = task[q]
    BY <1>4, FamilyScanStep DEF history
  <2>2. \A c \in Creds : Live(c) /\ cred[c].family = task[p].cred
                          => c \in FamilyRows(task[p].cred)
    BY DEF Live, FamilyRows
  <2> QED
    BY <2>1, <2>2 DEF FamilyInv, FamilyFence, Live
<1>5. ASSUME NEW p \in Procs, RevokeFamilyStamp(p)
      PROVE  FamilyInv'
  <2>1. /\ RowsQuiet /\ TasksQuiet /\ forked' = forked
        /\ \A c \in Creds : Live(c)' => Live(c) /\ c \notin task[p].rows
        /\ killed' = killed \cup {task[p].cred}
        /\ Stamping(task[p]) /\ task[p].cred \in Creds
        /\ cred[task[p].cred].st # "none"
    BY <1>5, FamilyStampStep DEF Stamping
  <2>2. ASSUME NEW c \in Creds
        PROVE  /\ Live(c)' => Live(c) /\ c \notin task[p].rows
               /\ cred'[c].family = cred[c].family
               /\ cred'[c].st = "none" <=> cred[c].st = "none"
    BY <2>1 DEF RowsQuiet
  <2>3. FamilyFence'
    <3>1. ASSUME NEW c \in Creds, Live(c)', cred'[c].family \in killed'
          PROVE  cred'[c].family \in forked'
      BY <1>0, <2>1, <2>2, <3>1 DEF FamilyInv
    <3> QED
      BY <3>1 DEF FamilyFence, Live
  <2>4. \A g \in killed' : cred'[g].st # "none"
    BY <1>0, <2>1, <2>2 DEF FamilyInv
  <2>5. ASSUME NEW q \in Procs, NEW c \in Creds, Stamping(task'[q]),
               Live(c)', cred'[c].family = task'[q].cred
        PROVE  c \in task'[q].rows \/ cred'[c].family \in forked'
    <3>1. task'[q] = task[q]
      BY <2>1, <2>5 DEF TasksQuiet, Critical, Stamping
    <3> QED
      BY <2>1, <2>2, <2>5, <3>1 DEF FamilyInv
  <2> QED
    BY <2>3, <2>4, <2>5 DEF FamilyInv
<1>6. ASSUME NEW p \in Procs,
             CascadeScan(p) \/ CascadeStamp(p) \/ CascadeRevokeConsent(p)
      PROVE  FamilyInv'
  <2>1. RowsQuiet /\ UNCHANGED <<killed, forked>>
    BY <1>6, CascadeScanStep, CascadeStampStep, CascadeConsentStep, SameRows
       DEF history
  <2>2. \A q \in Procs : task'[q] = task[q] \/ ~Stamping(task'[q])
    BY <1>6, CascadeScanStep, CascadeStampStep, CascadeConsentStep
       DEF TasksQuiet, Critical, Stamping
  <2> QED
    BY <1>1, <2>1, <2>2
<1>7. ASSUME NEW p \in Procs, \/ \E s \in Creds : RotateClaim(p, s)
                              \/ RotateCachePut(p) \/ ClaimsCode(p)
      PROVE  FamilyInv'
  <2>1. RowsQuiet /\ UNCHANGED <<killed, forked>>
    BY <1>7, SameRows, CodeClaimStep DEF RotateClaim, RotateCachePut, history
  <2>2. \A q \in Procs : task'[q] = task[q] \/ ~Stamping(task'[q])
    BY <1>7, ClaimStep, FinishQuiet, CodeClaimStep
       DEF RotateCachePut, TasksQuiet, Critical, Stamping
  <2> QED
    BY <1>1, <2>1, <2>2
<1>8. ASSUME NEW p \in Procs, RotateCommit(p)
      PROVE  FamilyInv'
  <2> DEFINE c == task[p].cred
             s == task[p].succ
  <2>1. /\ c \in Creds /\ s \in Creds
        /\ cred'[s].st = "row" /\ cred'[s].family = cred[c].family
        /\ cred'[c].st = "row" /\ cred'[c].family = cred[c].family
        /\ \A d \in Creds \ {c, s} : cred'[d] = cred[d]
        /\ \A q \in Procs : task'[q] = task[q] \/ ~Stamping(task'[q])
        /\ InsertHistory(s, task[p].con, cred[c].family)
    BY <1>8, CommitStep, NewRow DEF Stamping
  <2>2. cred[c].st = "row" /\ Live(c) /\ cred[s].st = "none"
    BY <1>8 DEF LockInv, Rotatable, RotateCommit, Live
  <2>3. cred[c].family \in killed => cred[c].family \in forked
    BY <1>0, <2>1, <2>2
  <2>4. \A d \in Creds \ {s} : /\ cred'[d].st = cred[d].st
                               /\ cred'[d].family = cred[d].family
                               /\ Live(d)' => Live(d)
    BY <2>1, <2>2 DEF Live
  <2> HIDE DEF c, s
  <2> QED
    BY <1>2, <2>1, <2>2, <2>3, <2>4
<1>9. ASSUME NEW p \in Procs, NEW c \in Creds, ExchangeIssue(p, c), ~Quiet
      PROVE  FamilyInv'
  <2>1. /\ cred[c].st = "none" /\ cred'[c].st = "row" /\ cred'[c].family = c
        /\ \A d \in Creds \ {c} : cred'[d] = cred[d]
        /\ TasksQuiet /\ InsertHistory(c, task[p].con, c)
    BY <1>9, IssueStep, NewRow
  <2>2. \A d \in Creds \ {c} : /\ cred'[d].st = cred[d].st
                               /\ cred'[d].family = cred[d].family
                               /\ Live(d)' => Live(d)
    BY <2>1 DEF Live
  <2>3. \A q \in Procs : task'[q] = task[q] \/ ~Stamping(task'[q])
    BY <2>1 DEF TasksQuiet, Critical, Stamping
  <2>4. c \notin killed
    BY <2>1 DEF FamilyInv
  <2> QED
    BY <1>2, <2>1, <2>2, <2>3, <2>4
<1> QED
  BY <1>3, <1>4, <1>5, <1>6, <1>7, <1>8, <1>9, QuietOrNoisy
     DEF Noisy, ClaimsCode

(* A cache entry and a rotation about to write one agree with the table.   *)
LEMMA GraceStep ==
  ASSUME TypeInv, LockInv, GraceInv, [Next]_vars
  PROVE  GraceInv'
<1> DEFINE Putting(t) == t.pc = "r_put"
<1>0. /\ \A c \in Creds : cache[c].succ # Null => cache[c].succ \in Creds
      /\ \A p \in Procs : Putting(task[p]) =>
            task[p].cred \in Creds /\ task[p].succ \in Creds
  <2>1. \A c \in Creds : cache[c].succ \in Creds \cup {Null}
    BY DEF TypeInv, TypeOK, CacheEntry
  <2> QED
    BY <2>1, Facts DEF LocalsOK
<1>1. ASSUME \A c, s \in Creds : Superseded(c, s) => Superseded(c, s)',
             CacheQuiet,
             \A q \in Procs : \/ task'[q] = task[q] \/ ~Putting(task'[q])
                              \/ Superseded(task[q].cred, task[q].succ)'
      PROVE  GraceInv'
  <2>1. ASSUME NEW c \in Creds, cache'[c].succ # Null
        PROVE  Superseded(c, cache[c].succ)' /\ cache'[c] = cache[c]
    <3>1. cache'[c] = cache[c] /\ cache[c].succ \in Creds
      BY <1>0, <1>1, <2>1 DEF CacheQuiet
    <3> QED
      BY <1>1, <2>1, <3>1 DEF GraceInv, Superseded
  <2>2. ASSUME NEW q \in Procs, Putting(task'[q])
        PROVE  Superseded(task[q].cred, task[q].succ)'
    <3>1. CASE task'[q] = task[q]
      BY <1>0, <1>1, <2>2, <3>1 DEF GraceInv, Superseded
    <3> QED
      BY <1>1, <2>2, <3>1 DEF Superseded
  <2> QED
    BY <2>1, <2>2 DEF GraceInv
<1>2. RowsQuiet => \A c, s \in Creds : Superseded(c, s) => Superseded(c, s)'
  BY DEF RowsQuiet, Superseded
<1>3. CASE Quiet
  BY <1>1, <1>2, <1>3 DEF Quiet, TasksQuiet, Critical
<1>4. ASSUME NEW p \in Procs, Bulk(p)
      PROVE  GraceInv'
  BY <1>1, <1>2, <1>4, BulkStep, SameCache
<1>5. ASSUME NEW p \in Procs, (\E s \in Creds : RotateClaim(p, s)) \/ ClaimsCode(p)
      PROVE  GraceInv'
  <2>1. RowsQuiet /\ CacheQuiet
    BY <1>5, SameRows, SameCache, CodeClaimStep DEF RotateClaim
  <2>2. \A q \in Procs : task'[q] = task[q] \/ ~Putting(task'[q])
    BY <1>5, ClaimStep, CodeClaimStep DEF Critical
  <2> QED
    BY <1>1, <1>2, <2>1, <2>2
<1>6. ASSUME NEW p \in Procs, RotateCommit(p)
      PROVE  GraceInv'
  <2> DEFINE c == task[p].cred
             s == task[p].succ
  <2>1. /\ c \in Creds /\ s \in Creds /\ c # s
        /\ cred'[s].st = "row" /\ cred'[s].family = cred[c].family
        /\ cred'[c].st = "row" /\ cred'[c].family = cred[c].family
        /\ cred'[c].rotated_at # NoTime /\ cred'[c].successor = s
        /\ \A d \in Creds \ {c, s} : cred'[d] = cred[d]
        /\ task'[p].pc = "r_put" /\ task'[p].cred = c /\ task'[p].succ = s
        /\ \A q \in Procs \ {p} : task'[q] = task[q]
        /\ UNCHANGED cache
    BY <1>6, CommitStep, NewRow
  <2>2. /\ cred[c].st = "row" /\ cred[c].rotated_at = NoTime
        /\ cred[s].st = "none"
    BY <1>6 DEF LockInv, Rotatable, RotateCommit
  <2>3. ASSUME NEW d \in Creds, NEW e \in Creds, Superseded(d, e)
        PROVE  Superseded(d, e)'
    <3>1. d # c /\ d # s /\ e # s
      BY <2>2, <2>3 DEF Superseded
    <3>2. cred'[d] = cred[d]
      BY <2>1, <3>1
    <3>3. cred'[e].st = cred[e].st /\ cred'[e].family = cred[e].family
      <4>1. CASE e = c
        BY <2>1, <2>2, <4>1
      <4>2. CASE e # c
        BY <2>1, <3>1, <4>2
      <4> QED
        BY <4>1, <4>2
    <3> QED
      BY <2>3, <3>2, <3>3 DEF Superseded
  <2>4. Superseded(task[p].cred, task[p].succ)'
    BY <2>1 DEF Superseded
  <2> QED
    BY <1>1, <2>1, <2>3, <2>4, SameCache
<1>7. ASSUME NEW p \in Procs, RotateCachePut(p)
      PROVE  GraceInv'
  <2> DEFINE c == task[p].cred
             entry == [succ |-> task[p].succ, until |-> now + Grace]
  <2>1. /\ c \in Creds /\ cred' = cred /\ TasksQuiet
        /\ Superseded(c, task[p].succ)
    BY <1>0, <1>7, FinishQuiet DEF RotateCachePut, GraceInv
  <2>2. cache' = [cache EXCEPT ![c] = entry] \/ cache' = CacheDelete(c)
    BY <1>7 DEF RotateCachePut
  <2>3. CASE cache' = CacheDelete(c)
    BY <1>1, <1>2, <2>1, <2>3, CacheDeleted, SameRows DEF TasksQuiet, Critical
  <2>4. CASE cache' = [cache EXCEPT ![c] = entry]
    <3>1. entry.succ = task[p].succ
      OBVIOUS
    <3>2. \A d \in Creds : cache'[d].succ # Null => Superseded(d, cache'[d].succ)
      <4> HIDE DEF entry
      <4> QED BY <2>1, <2>4, <3>1 DEF GraceInv, TypeInv, TypeOK
    <3>3. \A q \in Procs : Putting(task'[q]) =>
                              Superseded(task'[q].cred, task'[q].succ)
      BY <2>1 DEF GraceInv, TasksQuiet, Critical
    <3> QED
      BY <2>1, <3>2, <3>3 DEF GraceInv, Superseded
  <2> QED
    BY <2>2, <2>3, <2>4
<1>8. ASSUME NEW p \in Procs, NEW c \in Creds, ExchangeIssue(p, c), ~Quiet
      PROVE  GraceInv'
  <2>1. /\ cred[c].st = "none" /\ UNCHANGED cache /\ TasksQuiet
        /\ \A d \in Creds \ {c} : cred'[d] = cred[d]
    BY <1>8, IssueStep
  <2>2. \A d, e \in Creds : Superseded(d, e) => Superseded(d, e)'
    BY <2>1 DEF Superseded
  <2> QED
    BY <1>1, <2>1, <2>2, SameCache DEF TasksQuiet, Critical
<1> QED
  BY <1>3, <1>4, <1>5, <1>6, <1>7, <1>8, QuietOrNoisy
     DEF Noisy, Bulk, ClaimsCode

(* Only the request whose claim succeeded goes on to issue.                *)
LEMMA CodeStep ==
  ASSUME TypeInv, LockInv, CodeInv, [Next]_vars
  PROVE  CodeInv'
<1>1. ASSUME CodesQuiet,
             \A q \in Procs : \/ task'[q] = task[q] \/ ~Claiming(task'[q])
                              \/ /\ Claiming(task[q])
                                 /\ task'[q].code = task[q].code
      PROVE  CodeInv'
  <2>1. ASSUME NEW q \in Procs, Claiming(task'[q])
        PROVE  /\ Claiming(task[q]) /\ task'[q].code = task[q].code
               /\ task[q].code \in Codes
    <3>1. Claiming(task[q]) /\ task'[q].code = task[q].code
      BY <1>1, <2>1
    <3> QED
      BY <3>1, Facts DEF Claiming, LocalsOK
  <2>2. CodeClaimedOnce'
    BY <2>1 DEF CodeInv, CodeClaimedOnce, Claiming
  <2>3. ASSUME NEW q \in Procs, Claiming(task'[q])
        PROVE  Claimed(task[q].code)'
    BY <1>1, <2>1, <2>3 DEF CodeInv, CodesQuiet, Claimed, Claimable
  <2> QED
    BY <2>2, <2>3 DEF CodeInv, Claiming
<1>2. CASE Quiet
  BY <1>1, <1>2 DEF Quiet, TasksQuiet, Critical, Claiming
<1>3. ASSUME NEW p \in Procs, Bulk(p)
      PROVE  CodeInv'
  <2>1. CodesQuiet
    BY <1>3, SameCodes
       DEF Bulk, RevokeFamilyScan, RevokeFamilyStamp, CascadeScan, CascadeStamp,
           CascadeRevokeConsent
  <2>2. \A q \in Procs : task'[q] = task[q] \/ ~Claiming(task'[q])
    BY <1>3, FamilyScanStep, FamilyStampStep, CascadeScanStep,
       CascadeStampStep, CascadeConsentStep
       DEF Bulk, TasksQuiet, Critical, Claiming
  <2> QED
    BY <1>1, <2>1, <2>2
<1>4. ASSUME NEW p \in Procs, \/ \E s \in Creds : RotateClaim(p, s)
                              \/ RotateCommit(p) \/ RotateCachePut(p)
                              \/ \E c \in Creds : ExchangeIssue(p, c)
      PROVE  CodeInv'
  <2>1. CodesQuiet
    BY <1>4, SameCodes
       DEF RotateClaim, RotateCommit, RotateCachePut, ExchangeIssue
  <2>2. \A q \in Procs : task'[q] = task[q] \/ ~Claiming(task'[q])
    <3>1. CASE \/ RotateCachePut(p) \/ \E c \in Creds : ExchangeIssue(p, c)
      <4>1. TasksQuiet
        BY <3>1, FinishQuiet DEF RotateCachePut, ExchangeIssue
      <4> QED
        BY <4>1 DEF TasksQuiet, Critical, Claiming
    <3>2. CASE (\E s \in Creds : RotateClaim(p, s)) \/ RotateCommit(p)
      BY <3>2, ClaimStep, CommitStep DEF Claiming
    <3> QED
      BY <1>4, <3>1, <3>2
  <2> QED
    BY <1>1, <2>1, <2>2
<1>5. ASSUME NEW p \in Procs, NEW x \in Codes, NEW valid \in BOOLEAN,
             ExchangeClaim(p, x, valid)
      PROVE  CodeInv'
  <2> DEFINE row == [code[x] EXCEPT !.consumed = TRUE]
             t1 == Handler("x_consent", code[x].consent, x, Null)
             t2 == Handler("x_replay", Null, x, Null)
  <2>1. t1.pc = "x_consent" /\ t1.code = x /\ ~Claiming(t2) /\ ~Claiming(Idle)
    BY IdleOK DEF Handler, Claiming
  <2>2. CASE ~Claimable(x)
    <3>1. code' = code /\ Goto(p, t2)
      BY <1>5, <2>2 DEF ExchangeClaim
    <3> QED
      BY <1>1, <2>1, <3>1, SameCodes, Others
  <2>3. CASE Claimable(x)
    <3>1. /\ code' = [code EXCEPT ![x] = row]
          /\ Goto(p, t1) \/ Goto(p, Idle)
      BY <1>5, <2>3 DEF ExchangeClaim
    <3>2. row.st = code[x].st /\ row.consumed
      BY Facts DEF TablesOK, CodeRow
    <3>3. /\ \A y \in Codes \ {x} : code'[y] = code[y]
          /\ code'[x].st = "row" /\ code'[x].consumed
      <4> HIDE DEF row
      <4> QED BY <2>3, <3>1, <3>2, Facts DEF TablesOK, Claimable
    <3>4. \A y \in Codes : Claimed(y) => Claimed(y)'
      BY <3>3 DEF Claimed, Claimable
    <3>5. Claimed(x)'
      BY <3>3 DEF Claimed, Claimable
    <3>6. \A q \in Procs : Claiming(task[q]) =>
              task[q].code \in Codes /\ task[q].code # x
      BY <2>3, Facts DEF CodeInv, Claiming, Claimed, LocalsOK
    <3>7. /\ task'[p] = t1 \/ ~Claiming(task'[p])
          /\ \A q \in Procs \ {p} : task'[q] = task[q]
      BY <2>1, <3>1, Others
    <3> HIDE DEF t1, t2, row
    <3>8. CodeClaimedOnce'
      <4>1. ASSUME NEW q \in Procs, NEW o \in Procs, Claiming(task'[q]),
                   Claiming(task'[o]), task'[q].code = task'[o].code
            PROVE  q = o
        BY <2>1, <3>6, <3>7, <4>1 DEF CodeInv, CodeClaimedOnce, Claiming
      <4> QED
        BY <4>1 DEF CodeClaimedOnce, Claiming
    <3>9. ASSUME NEW q \in Procs, Claiming(task'[q])
          PROVE  Claimed(task[q].code)'
      <4>1. CASE q = p
        BY <2>1, <3>5, <3>7, <3>9, <4>1 DEF Claimed, Claimable
      <4>2. CASE q # p
        BY <3>4, <3>6, <3>7, <3>9, <4>2 DEF CodeInv, Claimed, Claimable
      <4> QED
        BY <4>1, <4>2
    <3> QED
      BY <3>8, <3>9 DEF CodeInv, Claiming
  <2> QED
    BY <2>2, <2>3
<1>6. ASSUME NEW p \in Procs, ExchangeReadConsent(p)
      PROVE  CodeInv'
  <2> DEFINE t == task[p]
             u == [t EXCEPT !.pc = "x_issue"]
  <2>1. CodesQuiet /\ t.pc = "x_consent" /\ t.con \in Consents
    BY <1>6, SameCodes, Facts DEF ExchangeReadConsent, LocalsOK
  <2>2. u.code = t.code
    <3>1. "x_issue" \in PCs BY DEF PCs
    <3> QED BY <3>1, Facts, MoveOK
  <2>3. CASE Goto(p, u)
    <3> HIDE DEF u
    <3> QED BY <1>1, <2>1, <2>2, <2>3, Others DEF Claiming
  <2>4. CASE Finish(p) \/ RevokeIfNotAlreadyRevoked(p, t.con, "idle")
    <3>1. TasksQuiet
      BY <2>1, <2>4, FinishQuiet, RevokeIfQuiet DEF Continuations
    <3> QED
      BY <1>1, <2>1, <3>1 DEF TasksQuiet, Critical, Claiming
  <2> QED
    BY <1>6, <2>3, <2>4 DEF ExchangeReadConsent
<1> QED
  BY <1>2, <1>3, <1>4, <1>5, <1>6, QuietOrNoisy DEF Noisy, Bulk

-----------------------------------------------------------------------------
(* The initial states, and the theorems.                                   *)

SafetyInv == /\ TypeInv /\ ChainInv /\ DisconnectInv
             /\ FamilyInv /\ GraceInv /\ CodeInv

LEMMA SafetyInit == Init => SafetyInv
<1> SUFFICES ASSUME Init PROVE SafetyInv
  OBVIOUS
<1>1. /\ TypeInv
      /\ \A c \in Creds : cred[c].st = "none" /\ cache[c].succ = Null
      /\ \A p \in Procs : task[p].pc = "idle"
      /\ stale = {} /\ killed = {}
  BY TypeInit, EmptyRows, IdleOK DEF Init, NoEntry
<1>2. ChainInv
  BY <1>1 DEF ChainInv, LockInv, ChainNeverForks
<1>3. DisconnectInv
  BY <1>1 DEF DisconnectInv, InWindow
<1>4. FamilyInv
  BY <1>1 DEF FamilyInv, FamilyFence, Stamping
<1>5. GraceInv
  BY <1>1 DEF GraceInv
<1>6. CodeInv
  BY <1>1 DEF CodeInv, CodeClaimedOnce, Claiming
<1> QED
  BY <1>1, <1>2, <1>3, <1>4, <1>5, <1>6 DEF SafetyInv

LEMMA SafetyStep == SafetyInv /\ [Next]_vars => SafetyInv'
  BY TypeStep, ChainStep, DisconnectStep, FamilyStep, GraceStep, CodeStep
     DEF SafetyInv, ChainInv

LEMMA SafetyAlways == Spec => []SafetyInv
  BY SafetyInit, SafetyStep, PTL DEF Spec

(* E4: a refresh chain never forks, for any number of concurrent refreshes,*)
(* replays and revocations (rotateRefreshToken's conditional UPDATE).      *)
THEOREM ChainCorrect == Spec => []ChainNeverForks
<1>1. SafetyInv => ChainNeverForks
  BY DEF SafetyInv, ChainInv
<1> QED
  BY <1>1, SafetyAlways, PTL

(* An authorization code never has two exchanges past its claim.           *)
THEOREM CodeCorrect == Spec => []CodeClaimedOnce
<1>1. SafetyInv => CodeClaimedOnce
  BY DEF SafetyInv, CodeInv
<1> QED
  BY <1>1, SafetyAlways, PTL

(* After a disconnect, only a credential inserted inside the cascade's own *)
(* window can ever be usable again (ConsentCascade.revoke).                *)
THEOREM DisconnectCorrect == Spec => []DisconnectFence
<1>1. SafetyInv => DisconnectFence
  BY DEF SafetyInv, DisconnectInv, DisconnectFence, Usable, Live
<1> QED
  BY <1>1, SafetyAlways, PTL

(* After revokeFamily, no credential of the family is live unless one      *)
(* joined it between the statement's snapshot and its writes.              *)
THEOREM FamilyCorrect == Spec => []FamilyFence
<1>1. SafetyInv => FamilyFence
  BY DEF SafetyInv, FamilyInv
<1> QED
  BY <1>1, SafetyAlways, PTL

(* The grace cache only ever hands out the successor the table recorded.   *)
THEOREM GraceCorrect == Spec => []GraceReturnsSuccessor
<1>1. ASSUME SafetyInv, NEW c \in Creds, cache[c].succ # Null
      PROVE  LET s == cache[c].succ
             IN  /\ cred[s].st # "none"
                 /\ cred[s].family = cred[c].family
                 /\ cred[c].st = "row" /\ cred[s].st = "row"
                       => cred[c].successor = s
  BY <1>1 DEF SafetyInv, GraceInv, Superseded
<1>2. SafetyInv => GraceReturnsSuccessor
  BY <1>1 DEF GraceReturnsSuccessor
<1> QED
  BY <1>2, SafetyAlways, PTL
=============================================================================
