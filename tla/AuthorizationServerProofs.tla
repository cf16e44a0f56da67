--------------------- MODULE AuthorizationServerProofs ---------------------
(***************************************************************************)
(* AuthorizationServer's invariants, for any number of applications,       *)
(* users, requests and processes.  Once a row is there it never changes    *)
(* what it carries (RowsStay); so an invariant on what a grant is made of  *)
(* has to be looked at again only where a row is inserted or a handler     *)
(* moves on.                                                               *)
(***************************************************************************)
EXTENDS AuthorizationServer, TLAPS

OrNone(S) == S \cup {None}
Deciding == {"decide", "resolve", "consent", "issue"}
Exchanging == {"vigency", "mint"}
PCs == {"idle", "purge", "delete", "authorize", "token"} \cup Deciding \cup Exchanging

AppRow == [st : Status, uris : SUBSET Uris, at : Int]
RequestRow == [st : Status, app : OrNone(Apps), uri : OrNone(Uris),
               challenge : OrNone(Verifiers), until : Int, consumed : BOOLEAN]
ConsentRow == [st : Status]
CodeRow == [st : Status, consent : OrNone(Consents), uri : OrNone(Uris),
            challenge : OrNone(Verifiers), until : Int, consumed : BOOLEAN,
            req : OrNone(Requests)]
CredRow == [st : Status, consent : OrNone(Consents), code : OrNone(Codes),
            client : OrNone(Apps), uri : OrNone(Uris), verifier : OrNone(Verifiers)]
Task == [pc : PCs, app : OrNone(Apps), req : OrNone(Requests), user : OrNone(Users),
         code : OrNone(Codes), uri : OrNone(Uris), verifier : OrNone(Verifiers),
         rows : SUBSET Apps]

RowsTyped ==
    /\ now \in 0 .. MaxTime /\ user \in [Users -> Status]
    /\ app \in [Apps -> AppRow] /\ request \in [Requests -> RequestRow]
    /\ consent \in [Consents -> ConsentRow]
    /\ code \in [Codes -> CodeRow] /\ cred \in [Creds -> CredRow]
    /\ shown = [r \in Requests |-> shown[r]] /\ raced \in [Procs -> SUBSET Consents]

(* The fields a handler has filled in by the time it gets to its pc.       *)
Filled(t) ==
    /\ t \in Task
    /\ t.pc = "authorize" => t.app \in Apps /\ t.uri \in Uris /\ t.verifier \in Verifiers
    /\ t.pc \in Deciding => t.app \in Apps /\ t.req \in Requests /\ t.user \in Users
    /\ t.pc = "token" => t.app \in Apps
    /\ t.pc \in Exchanging => t.code \in Codes /\ t.uri \in Uris /\ t.app \in Apps
    /\ t.rows # {} => t.pc = "delete"
TasksTyped == task \in [Procs -> Task] /\ \A p \in Procs : Filled(task[p])

ForeignKeys ==
    /\ \A r \in Requests : request[r].st # "none" => request[r].app \in Apps
    /\ \A x \in Codes : code[x].st # "none" => code[x].consent \in Consents
    /\ \A c \in Creds : cred[c].st # "none" => cred[c].consent \in Consents
    /\ \A r \in Requests : request[r].st = "row" => app[request[r].app].st = "row"
    /\ \A k \in Consents :
          consent[k].st = "row" => user[k[1]] = "row" /\ app[k[2]].st = "row"
    /\ \A x \in Codes : code[x].st = "row" => consent[code[x].consent].st = "row"
    /\ \A c \in Creds : cred[c].st = "row" => consent[cred[c].consent].st = "row"

(* A code in the hands of an exchange was issued.                          *)
CodesKnown ==
    \A p \in Procs : task[p].pc \in Exchanging => code[task[p].code].st # "none"

-----------------------------------------------------------------------------
(* What a redirect URI is to the application, and what every row and every *)
(* handler carries of the request it comes from.                           *)

Matches(a, uri) ==
    /\ a \in Apps /\ uri \in Uris /\ app[a].st # "none"
    /\ \E registered \in app[a].uris : RedirectUriMatches(registered, uri)

RequestCarries(r) == Matches(request[r].app, request[r].uri)

FromRequest(r, a, uri, challenge) ==
    /\ r \in Requests /\ request[r].st # "none"
    /\ a = request[r].app /\ uri = request[r].uri /\ challenge = request[r].challenge

CodeCarries(x) ==
    /\ code[x].consent \in Consents
    /\ FromRequest(code[x].req, code[x].consent[2], code[x].uri, code[x].challenge)

FromCode(x, client, uri, verifier) ==
    /\ x \in Codes /\ code[x].st # "none" /\ code[x].consumed
    /\ client = code[x].consent[2] /\ verifier = code[x].challenge
    /\ uri \in Uris /\ RedirectUriMatches(code[x].uri, uri)

CredCarries(c) ==
    /\ FromCode(cred[c].code, cred[c].client, cred[c].uri, cred[c].verifier)
    /\ cred[c].consent = code[cred[c].code].consent

TaskCarries(p) ==
    LET t == task[p]
    IN  /\ t.pc = "authorize" => Matches(t.app, t.uri)
        /\ t.pc \in Deciding => FromRequest(t.req, t.app, t.uri, t.verifier)
        /\ t.pc \in Exchanging => FromCode(t.code, t.app, t.uri, t.verifier)

Carried ==
    /\ \A r \in Requests : request[r].st # "none" => RequestCarries(r)
    /\ \A x \in Codes : code[x].st # "none" => CodeCarries(x)
    /\ \A c \in Creds : cred[c].st # "none" => CredCarries(c)
    /\ \A p \in Procs : TaskCarries(p)
    /\ \A r \in Requests :
          shown[r] # None => request[r].st # "none" /\ shown[r] = Screen(r)
    /\ sent # None => Matches(sent.app, sent.to)

(* A code that was claimed is in the hands of one exchange, or has minted  *)
(* one credential, or has been lost.                                       *)
MintsOnce ==
    /\ \A c \in Creds : cred[c].st = "none" => cred[c].code = None
    /\ \A c, d \in Creds :
          cred[c].st # "none" /\ cred[d].st # "none" /\ c # d => cred[c].code # cred[d].code
    /\ \A p \in Procs : task[p].pc \in Exchanging =>
          /\ \A c \in Creds : cred[c].st # "none" => cred[c].code # task[p].code
          /\ \A q \in Procs : task[q].pc \in Exchanging /\ q # p
                                  => task[q].code # task[p].code

(* Between the halves of a purge its applications, too old when it looked, *)
(* get no consent that is not counted in raced.                            *)
PurgeWindow ==
    /\ \A p \in Procs, a \in Apps :
          a \in task[p].rows => app[a].st # "none" /\ app[a].at < now - UnusedAfter
    /\ \A p \in Procs, k \in Consents :
          k[2] \in task[p].rows /\ consent[k].st = "row" => k \in raced[p]

GrantInv == Carried /\ MintsOnce
TypeInv == RowsTyped /\ TasksTyped /\ ForeignKeys /\ CodesKnown

-----------------------------------------------------------------------------
(* A step of its task leaves a handler at the same code, or without one.   *)
StepsOn(q) ==
    \/ task'[q] = task[q]
    \/ task'[q].pc \notin Exchanging
    \/ task[q].pc \in Exchanging /\ task'[q].code = task[q].code

LEMMA IdleFilled == Filled(Idle) /\ Idle.pc = "idle" /\ Idle.rows = {}
  BY DEF Idle, Filled, Task, PCs, Deciding, Exchanging, OrNone

LEMMA InitTypes == Init => TypeInv
<1> SUFFICES ASSUME Init PROVE TypeInv
  OBVIOUS
<1>1. RowsTyped
  BY BoundsAreNaturals
     DEF Init, RowsTyped, AppRow, RequestRow, ConsentRow, CodeRow, CredRow, OrNone,
         NoApp, NoRequest, NoCode, NoCred, Status
<1>2. TasksTyped
  BY IdleFilled DEF Init, TasksTyped, Filled
<1>3. ForeignKeys
  BY DEF Init, ForeignKeys, NoApp, NoRequest, NoCode, NoCred
<1>4. CodesKnown
  BY IdleFilled DEF Init, CodesKnown, Exchanging
<1> QED
  BY <1>1, <1>2, <1>3, <1>4 DEF TypeInv

LEMMA GoToTyped ==
  ASSUME TasksTyped, NEW p \in Procs, NEW t, Filled(t), GoTo(p, t)
  PROVE  /\ TasksTyped' /\ task'[p] = t
         /\ \A q \in Procs : q # p => task'[q] = task[q]
         /\ t.pc \notin Exchanging => \A q \in Procs : StepsOn(q)
<1>1. t \in Task
  BY DEF Filled
<1>2. /\ task' \in [Procs -> Task] /\ task'[p] = t
      /\ \A q \in Procs : q # p => task'[q] = task[q]
  BY <1>1 DEF TasksTyped, GoTo
<1> QED
  BY <1>2 DEF TasksTyped, StepsOn

LEMMA EndTyped ==
  ASSUME TasksTyped, NEW p \in Procs, End(p)
  PROVE  /\ TasksTyped' /\ task'[p] = Idle
         /\ \A q \in Procs : q # p => task'[q] = task[q]
         /\ \A q \in Procs : StepsOn(q)
<1>1. Idle.pc \notin Exchanging
  BY IdleFilled DEF Exchanging
<1> QED
  BY <1>1, IdleFilled, GoToTyped DEF End

LEMMA ResumeTyped ==
  ASSUME TasksTyped, NEW p \in Procs, NEW pc, Resume(p, pc),
         \/ At(p, "vigency") /\ pc = "mint"
         \/ task[p].pc \in Deciding /\ pc \in Deciding
  PROVE  /\ TasksTyped' /\ task'[p] = [task[p] EXCEPT !.pc = pc]
         /\ \A q \in Procs : q # p => task'[q] = task[q]
         /\ \A q \in Procs : StepsOn(q)
<1> DEFINE t == [task[p] EXCEPT !.pc = pc]
<1>1. task[p] \in Task /\ Filled(task[p]) /\ pc \in PCs
  BY DEF TasksTyped, PCs, Exchanging
<1>2. Filled(t)
  BY <1>1 DEF Filled, Task, PCs, Deciding, Exchanging, At
<1>3. task'[p] = t /\ TasksTyped' /\ \A q \in Procs : q # p => task'[q] = task[q]
  BY <1>2, GoToTyped DEF Resume
<1>4. t.code = task[p].code /\ t.pc = pc
  BY <1>1 DEF Task
<1> QED
  BY <1>3, <1>4 DEF StepsOn, At, Deciding, Exchanging

LEMMA GoneTyped ==
  ASSUME NEW I, NEW R, NEW T \in [I -> R], NEW ids,
         \A r \in R : [r EXCEPT !.st = "gone"] \in R
  PROVE  Gone(T, ids) \in [I -> R]
  BY DEF Gone

LEMMA NewAppTyped ==
  ASSUME RowsTyped, NEW uris \in SUBSET Uris
  PROVE  NewApp(uris) \in AppRow
  BY BoundsAreNaturals DEF RowsTyped, NewApp, AppRow, Status

LEMMA NewRequestTyped ==
  ASSUME RowsTyped, NEW t \in Task, t.app \in Apps, t.uri \in Uris, t.verifier \in Verifiers
  PROVE  NewRequest(t) \in RequestRow
  BY BoundsAreNaturals DEF RowsTyped, NewRequest, RequestRow, Status, OrNone

LEMMA NewCodeTyped ==
  ASSUME RowsTyped, NEW t \in Task, t.app \in Apps, t.user \in Users
  PROVE  NewCode(t) \in CodeRow
  BY BoundsAreNaturals DEF RowsTyped, NewCode, CodeRow, Task, Status, OrNone, Consents

LEMMA NewCredTyped ==
  ASSUME RowsTyped, NEW t \in Task, t.code \in Codes
  PROVE  NewCred(t) \in CredRow
  BY DEF RowsTyped, NewCred, CredRow, CodeRow, Task, Status, OrNone

LEMMA StillKnown ==
  ASSUME TypeInv, TasksTyped', \A q \in Procs : StepsOn(q),
         \A x \in Codes : code[x].st # "none" => code'[x].st # "none"
  PROVE  CodesKnown'
  BY DEF TypeInv, CodesKnown, TasksTyped, Filled, StepsOn

LEMMA SameTables ==
  ASSUME TypeInv, TasksTyped', UNCHANGED <<now, tables, raced, shown>>,
         \A q \in Procs : StepsOn(q)
  PROVE  TypeInv'
<1>1. CodesKnown'
  BY StillKnown DEF tables
<1> QED
  BY <1>1 DEF TypeInv, RowsTyped, ForeignKeys, tables

LEMMA RegisterTypes ==
  ASSUME TypeInv, NEW p \in Procs, NEW a \in Apps, NEW uris \in SUBSET Uris,
         Register(p, a, uris)
  PROVE  TypeInv'
<1> DEFINE t == [Idle EXCEPT !.pc = "purge"]
<1>1. Filled(t) /\ t.pc \notin Exchanging
  BY DEF Filled, Idle, Task, PCs, OrNone, Deciding, Exchanging
<1>2. TasksTyped' /\ \A q \in Procs : StepsOn(q)
  BY <1>1, GoToTyped DEF TypeInv, Register
<1>3. RowsTyped'
  BY NewAppTyped DEF TypeInv, RowsTyped, Register, history
<1>4. ForeignKeys'
  BY DEF TypeInv, RowsTyped, ForeignKeys, Register, NewApp, AppRow
<1>9. CodesKnown'
  BY <1>2, StillKnown DEF TypeInv, RowsTyped, Register, CodeRow
<1> QED
  BY <1>2, <1>3, <1>4, <1>9 DEF TypeInv

LEMMA PurgeScanTypes ==
  ASSUME TypeInv, NEW p \in Procs, PurgeScan(p)
  PROVE  TypeInv'
<1> DEFINE t == [Idle EXCEPT !.pc = "delete", !.rows = UnusedRegistrations]
<1>1. Filled(t) /\ t.pc \notin Exchanging
  BY DEF Filled, Idle, Task, PCs, OrNone, Deciding, Exchanging, UnusedRegistrations
<1>2. TasksTyped' /\ \A q \in Procs : StepsOn(q)
  BY <1>1, GoToTyped, EndTyped DEF TypeInv, PurgeScan
<1> QED
  BY <1>2, SameTables DEF PurgeScan, history

LEMMA PurgeDeleteTypes ==
  ASSUME TypeInv, NEW p \in Procs, PurgeDelete(p)
  PROVE  TypeInv'
<1>1. TasksTyped' /\ \A q \in Procs : StepsOn(q)
  BY EndTyped DEF TypeInv, PurgeDelete
<1>2. RowsTyped'
  BY GoneTyped DEF TypeInv, RowsTyped, PurgeDelete, history,
        AppRow, RequestRow, ConsentRow, CodeRow, CredRow, Status
<1> DEFINE as == task[p].rows
<1>3. /\ \A a \in Apps : app'[a].st = "row" <=> app[a].st = "row" /\ a \notin as
      /\ \A k \in Consents : consent'[k].st = "row" <=> consent[k].st = "row" /\ k[2] \notin as
      /\ user' = user
  BY DEF TypeInv, RowsTyped, PurgeDelete, Gone, AppRow, ConsentRow
<1>4. \A r \in Requests :
         /\ request'[r].app = request[r].app
         /\ request'[r].st = "none" <=> request[r].st = "none"
         /\ request'[r].st = "row" => request[r].st = "row" /\ request[r].app \notin as
  BY DEF TypeInv, RowsTyped, PurgeDelete, Gone, RequestRow
<1>5. \A x \in Codes :
         /\ code'[x].consent = code[x].consent
         /\ code'[x].st = "none" <=> code[x].st = "none"
         /\ code'[x].st = "row" /\ code[x].consent \in Consents
               => code[x].st = "row" /\ code[x].consent[2] \notin as
  BY DEF TypeInv, RowsTyped, PurgeDelete, Gone, CodeRow
<1>6. \A c \in Creds :
         /\ cred'[c].consent = cred[c].consent
         /\ cred'[c].st = "none" <=> cred[c].st = "none"
         /\ cred'[c].st = "row" /\ cred[c].consent \in Consents
               => cred[c].st = "row" /\ cred[c].consent[2] \notin as
  BY DEF TypeInv, RowsTyped, PurgeDelete, Gone, CredRow
<1>7. ForeignKeys'
  BY <1>3, <1>4, <1>5, <1>6 DEF TypeInv, ForeignKeys, Consents
<1>9. CodesKnown'
  BY <1>1, <1>5, StillKnown
<1> QED
  BY <1>1, <1>2, <1>7, <1>9 DEF TypeInv

LEMMA AuthorizeTypes ==
  ASSUME TypeInv, NEW p \in Procs, NEW a \in Apps, NEW uri \in Uris,
         NEW v \in Verifiers, Authorize(p, a, uri, v)
  PROVE  TypeInv'
<1> DEFINE t == [Idle EXCEPT !.pc = "authorize", !.app = a, !.uri = uri, !.verifier = v]
<1>1. Filled(t) /\ t.pc \notin Exchanging
  BY DEF Filled, Idle, Task, PCs, OrNone, Deciding, Exchanging
<1>2. TasksTyped' /\ \A q \in Procs : StepsOn(q)
  <2>1. CASE UNCHANGED task
    BY <2>1 DEF TypeInv, TasksTyped, StepsOn
  <2>2. CASE GoTo(p, t)
    BY <1>1, <2>2, GoToTyped DEF TypeInv
  <2> QED
    BY <2>1, <2>2 DEF Authorize
<1> QED
  BY <1>2, SameTables DEF Authorize

LEMMA CreateRequestTypes ==
  ASSUME TypeInv, NEW p \in Procs, NEW r \in Requests, CreateRequest(p, r)
  PROVE  TypeInv'
<1> DEFINE t == task[p]
<1>1. TasksTyped' /\ \A q \in Procs : StepsOn(q)
  BY EndTyped DEF TypeInv, CreateRequest
<1>2. t \in Task /\ t.app \in Apps /\ NewRequest(t) \in RequestRow
  BY NewRequestTyped DEF TypeInv, TasksTyped, Filled, CreateRequest, At
<1>3. RowsTyped'
  BY <1>2 DEF TypeInv, RowsTyped, CreateRequest, history
<1>4. ForeignKeys'
  BY <1>2 DEF TypeInv, RowsTyped, ForeignKeys, CreateRequest, NewRequest, References
<1>9. CodesKnown'
  BY <1>1, StillKnown DEF TypeInv, RowsTyped, CreateRequest, CodeRow
<1> QED
  BY <1>1, <1>3, <1>4, <1>9 DEF TypeInv

LEMMA DecideClaimTypes ==
  ASSUME TypeInv, NEW p \in Procs, NEW r \in Requests, NEW u \in Users,
         DecideClaim(p, r, u)
  PROVE  TypeInv'
<1> DEFINE t == [Idle EXCEPT !.pc = "decide", !.req = r, !.user = u, !.app = request[r].app,
                             !.uri = request[r].uri, !.verifier = request[r].challenge]
<1>1. request[r] \in RequestRow /\ request[r].app \in Apps
  BY DEF TypeInv, RowsTyped, ForeignKeys, DecideClaim, Live
<1>2. Filled(t) /\ t.pc \notin Exchanging
  BY <1>1 DEF Filled, Idle, Task, PCs, OrNone, Deciding, Exchanging, RequestRow
<1>3. TasksTyped' /\ \A q \in Procs : StepsOn(q)
  BY <1>2, GoToTyped DEF TypeInv, DecideClaim
<1>4. RowsTyped'
  BY DEF TypeInv, RowsTyped, DecideClaim, RequestRow, history
<1>5. ForeignKeys'
  BY DEF TypeInv, RowsTyped, ForeignKeys, DecideClaim, RequestRow
<1>9. CodesKnown'
  BY <1>3, StillKnown DEF TypeInv, RowsTyped, DecideClaim, CodeRow
<1> QED
  BY <1>3, <1>4, <1>5, <1>9 DEF TypeInv

LEMMA DecideFindAppTypes ==
  ASSUME TypeInv, NEW p \in Procs, DecideFindApp(p)
  PROVE  TypeInv'
<1>1. TasksTyped' /\ \A q \in Procs : StepsOn(q)
  BY EndTyped, ResumeTyped DEF TypeInv, DecideFindApp, At, Deciding
<1> QED
  BY <1>1, SameTables DEF DecideFindApp

LEMMA ResolveConsentTypes ==
  ASSUME TypeInv, NEW p \in Procs, ResolveConsent(p)
  PROVE  TypeInv'
<1>1. TasksTyped' /\ \A q \in Procs : StepsOn(q)
  BY ResumeTyped DEF TypeInv, ResolveConsent, At, Deciding
<1> QED
  BY <1>1, SameTables DEF ResolveConsent, history

LEMMA CreateConsentTypes ==
  ASSUME TypeInv, NEW p \in Procs, CreateConsent(p)
  PROVE  TypeInv'
<1> DEFINE k == <<task[p].user, task[p].app>>
<1>1. TasksTyped' /\ \A q \in Procs : StepsOn(q)
  BY EndTyped, ResumeTyped DEF TypeInv, CreateConsent, At, Deciding
<1>2. k \in Consents /\ k[2] = task[p].app
  BY DEF TypeInv, TasksTyped, Filled, CreateConsent, At, Deciding, Consents
<1>6. consent' \in [Consents -> ConsentRow]
  <2>1. consent \in [Consents -> ConsentRow]
    BY DEF TypeInv, RowsTyped
  <2>2. [consent[k] EXCEPT !.st = "row"] \in ConsentRow
    BY <1>2, <2>1 DEF ConsentRow, Status
  <2>3. consent' = consent \/ consent' = [consent EXCEPT ![k] = [consent[k] EXCEPT !.st = "row"]]
    BY DEF CreateConsent
  <2> QED
    BY <1>2, <2>1, <2>2, <2>3
<1>7. raced' \in [Procs -> SUBSET Consents]
  BY <1>2 DEF TypeInv, RowsTyped, CreateConsent
<1>3. RowsTyped'
  BY <1>6, <1>7 DEF TypeInv, RowsTyped, CreateConsent
<1>4. \A i \in Consents :
         \/ consent'[i] = consent[i]
         \/ i = k /\ consent'[i].st = "row" /\ user[k[1]] = "row" /\ app[k[2]].st = "row"
  BY <1>2 DEF TypeInv, RowsTyped, CreateConsent, ConsentRow, Insertable, References
<1>5. ForeignKeys'
  BY <1>4 DEF TypeInv, ForeignKeys, CreateConsent
<1>9. CodesKnown'
  BY <1>1, StillKnown DEF TypeInv, RowsTyped, CreateConsent, CodeRow
<1> QED
  BY <1>1, <1>3, <1>5, <1>9 DEF TypeInv

LEMMA IssueCodeTypes ==
  ASSUME TypeInv, NEW p \in Procs, NEW x \in Codes, IssueCode(p, x)
  PROVE  TypeInv'
<1> DEFINE t == task[p]
<1>1. TasksTyped' /\ \A q \in Procs : StepsOn(q)
  BY EndTyped DEF TypeInv, IssueCode
<1>2. NewCode(t) \in CodeRow
  BY NewCodeTyped DEF TypeInv, TasksTyped, Filled, IssueCode, At, Deciding
<1>3. RowsTyped'
  BY <1>2 DEF TypeInv, RowsTyped, IssueCode
<1> DEFINE k == <<t.user, t.app>>
<1>4. k \in Consents
  BY DEF TypeInv, TasksTyped, Filled, IssueCode, At, Deciding, Consents
<1>5. \A y \in Codes :
         \/ code'[y] = code[y]
         \/ code'[y].consent = k /\ consent[k].st = "row"
  BY DEF TypeInv, RowsTyped, IssueCode, NewCode
<1>6. ForeignKeys'
  BY <1>4, <1>5 DEF TypeInv, ForeignKeys, IssueCode
<1>9. CodesKnown'
  BY <1>1, StillKnown DEF TypeInv, RowsTyped, IssueCode, CodeRow
<1> QED
  BY <1>1, <1>3, <1>6, <1>9 DEF TypeInv

LEMMA FindClientTypes ==
  ASSUME TypeInv, NEW p \in Procs, NEW a \in Apps, FindClient(p, a)
  PROVE  TypeInv'
<1> DEFINE t == [Idle EXCEPT !.pc = "token", !.app = a]
<1>1. Filled(t) /\ t.pc \notin Exchanging
  BY DEF Filled, Idle, Task, PCs, OrNone, Deciding, Exchanging
<1>2. TasksTyped' /\ \A q \in Procs : StepsOn(q)
  BY <1>1, GoToTyped DEF TypeInv, FindClient
<1> QED
  BY <1>2, SameTables DEF FindClient, history

LEMMA ExchangeClaimTypes ==
  ASSUME TypeInv, NEW p \in Procs, NEW x \in Codes, NEW uri \in Uris,
         NEW v \in Verifiers, ExchangeClaim(p, x, uri, v)
  PROVE  TypeInv'
<1> DEFINE t == [task[p] EXCEPT !.pc = "vigency", !.code = x, !.uri = uri, !.verifier = v]
<1>1. Filled(task[p]) /\ task[p].pc = "token"
  BY DEF TypeInv, TasksTyped, ExchangeClaim, At
<1>2. Filled(t)
  BY <1>1 DEF Filled, Task, PCs, OrNone, Deciding, Exchanging
<1>3. TasksTyped'
  BY <1>2, GoToTyped, EndTyped DEF TypeInv, ExchangeClaim
<1>4. RowsTyped'
  BY DEF TypeInv, RowsTyped, ExchangeClaim, CodeRow, history
<1>5. ForeignKeys'
  BY DEF TypeInv, RowsTyped, ForeignKeys, ExchangeClaim, CodeRow
<1>6. \A y \in Codes : code[y].st # "none" => code'[y].st # "none"
  BY DEF TypeInv, RowsTyped, ExchangeClaim, CodeRow
<1>7. ASSUME End(p) PROVE CodesKnown'
  <2>1. \A q \in Procs : StepsOn(q)
    BY <1>7, EndTyped DEF TypeInv
  <2> QED
    BY <1>3, <1>6, <2>1, StillKnown
<1>8. ASSUME GoTo(p, t) PROVE CodesKnown'
  <2>1. t.code = x /\ code'[x].st # "none"
    BY <1>1, <1>6 DEF Filled, Task, ExchangeClaim
  <2>2. task'[p] = t /\ \A q \in Procs : q # p => task'[q] = task[q]
    BY <1>2, <1>8, GoToTyped DEF TypeInv
  <2> QED
    BY <1>6, <2>1, <2>2 DEF TypeInv, CodesKnown, TasksTyped, Filled
<1>9. CodesKnown'
  BY <1>7, <1>8 DEF ExchangeClaim
<1> QED
  BY <1>3, <1>4, <1>5, <1>9 DEF TypeInv

LEMMA ExchangeRefusedTypes ==
  ASSUME TypeInv, NEW p \in Procs, ExchangeRefused(p)
  PROVE  TypeInv'
<1>1. TasksTyped' /\ \A q \in Procs : StepsOn(q)
  BY EndTyped DEF TypeInv, ExchangeRefused
<1> QED
  BY <1>1, SameTables DEF ExchangeRefused, history

LEMMA ExchangeReadConsentTypes ==
  ASSUME TypeInv, NEW p \in Procs, ExchangeReadConsent(p)
  PROVE  TypeInv'
<1>1. TasksTyped' /\ \A q \in Procs : StepsOn(q)
  BY EndTyped, ResumeTyped DEF TypeInv, ExchangeReadConsent
<1> QED
  BY <1>1, SameTables DEF ExchangeReadConsent, history

LEMMA IssueTypes ==
  ASSUME TypeInv, NEW p \in Procs, NEW c \in Creds, Issue(p, c)
  PROVE  TypeInv'
<1> DEFINE t == task[p]
<1>1. TasksTyped' /\ \A q \in Procs : StepsOn(q)
  BY EndTyped DEF TypeInv, Issue
<1>2. NewCred(t) \in CredRow
  BY NewCredTyped DEF TypeInv, TasksTyped, Filled, Issue, At, Exchanging
<1>3. RowsTyped'
  BY <1>2 DEF TypeInv, RowsTyped, Issue, history
<1> DEFINE k == code[t.code].consent
<1>4. k \in Consents
  BY DEF TypeInv, TasksTyped, Filled, Issue, At, Exchanging, CodesKnown, ForeignKeys
<1>5. \A d \in Creds :
         \/ cred'[d] = cred[d]
         \/ cred'[d].consent = k /\ consent[k].st = "row"
  BY DEF TypeInv, RowsTyped, Issue, NewCred
<1>6. ForeignKeys'
  BY <1>4, <1>5 DEF TypeInv, ForeignKeys, Issue
<1>9. CodesKnown'
  BY <1>1, StillKnown DEF TypeInv, RowsTyped, Issue, CodeRow
<1> QED
  BY <1>1, <1>3, <1>6, <1>9 DEF TypeInv

LEMMA PendingRequestTypes ==
  ASSUME TypeInv, NEW r \in Requests, PendingRequest(r)
  PROVE  TypeInv'
  BY DEF TypeInv, RowsTyped, TasksTyped, ForeignKeys, CodesKnown, PendingRequest, tables

LEMMA TickTypes ==
  ASSUME TypeInv, Tick
  PROVE  TypeInv'
  BY BoundsAreNaturals DEF TypeInv, RowsTyped, TasksTyped, ForeignKeys, CodesKnown, Tick, tables, history

LEMMA CrashTypes ==
  ASSUME TypeInv, Crash
  PROVE  TypeInv'
<1>1. TasksTyped' /\ \A q \in Procs : StepsOn(q)
  BY IdleFilled DEF Crash, TasksTyped, Filled, StepsOn, Exchanging
<1>2. CodesKnown'
  BY <1>1, StillKnown DEF Crash, tables
<1> QED
  BY <1>1, <1>2 DEF TypeInv, RowsTyped, ForeignKeys, Crash, tables

(* A deletion by any other way than a purge takes rows and nothing else.   *)
RowsTaken ==
    /\ UNCHANGED <<now, app, task, history>>
    /\ \A u \in Users : user'[u] = "row" => user[u] = "row"
    /\ \A r \in Requests :
          \/ request'[r] = request[r]
          \/ /\ request'[r] = [request[r] EXCEPT !.st = "gone"]
             /\ request[r].st = "row" /\ request[r].until < now
    /\ \A k \in Consents :
          \/ consent'[k] = consent[k]
          \/ /\ consent'[k] = [consent[k] EXCEPT !.st = "gone"]
             /\ consent[k].st = "row" /\ user'[k[1]] # "row"
    /\ \A x \in Codes :
          \/ code'[x] = code[x]
          \/ /\ code'[x] = [code[x] EXCEPT !.st = "gone"] /\ code[x].st = "row"
             /\ user'[code[x].consent[1]] # "row" \/ code[x].until < now
    /\ \A c \in Creds :
          \/ cred'[c] = cred[c]
          \/ cred'[c] = [cred[c] EXCEPT !.st = "gone"] /\ cred[c].st = "row"

LEMMA DeletionsTake == TypeInv /\ Deletions => RowsTaken
<1> SUFFICES ASSUME TypeInv, Deletions PROVE RowsTaken
  OBVIOUS
<1>1. ASSUME NEW u \in Users, DeleteAccount(u) PROVE RowsTaken
  <2>1. user'[u] # "row" /\ \A v \in Users : user'[v] = "row" => user[v] = "row"
    BY <1>1 DEF TypeInv, RowsTyped, DeleteAccount
  <2>2. UNCHANGED <<now, app, task, history>> /\ request' = request
    BY <1>1 DEF DeleteAccount, history
  <2>3. \A k \in Consents :
           \/ consent'[k] = consent[k]
           \/ /\ consent'[k] = [consent[k] EXCEPT !.st = "gone"]
              /\ consent[k].st = "row" /\ k[1] = u
    BY <1>1 DEF TypeInv, RowsTyped, DeleteAccount, Gone
  <2>4. \A x \in Codes :
           \/ code'[x] = code[x]
           \/ /\ code'[x] = [code[x] EXCEPT !.st = "gone"]
              /\ code[x].st = "row" /\ code[x].consent[1] = u
    BY <1>1 DEF TypeInv, RowsTyped, DeleteAccount, Gone
  <2>5. \A c \in Creds :
           \/ cred'[c] = cred[c]
           \/ cred'[c] = [cred[c] EXCEPT !.st = "gone"] /\ cred[c].st = "row"
    BY <1>1 DEF TypeInv, RowsTyped, DeleteAccount, Gone
  <2> QED
    BY <2>1, <2>2, <2>3, <2>4, <2>5 DEF RowsTaken
<1>2. CASE DeleteExpiredRequests
  <2>1. \A r \in Requests :
          \/ request'[r] = request[r]
          \/ /\ request'[r] = [request[r] EXCEPT !.st = "gone"]
             /\ request[r].st = "row" /\ request[r].until < now
    BY <1>2 DEF TypeInv, RowsTyped, DeleteExpiredRequests, Gone
  <2> QED
    BY <1>2, <2>1 DEF DeleteExpiredRequests, RowsTaken, history
<1>3. CASE DeleteExpiredCodes
  <2>1. \A x \in Codes :
          \/ code'[x] = code[x]
          \/ /\ code'[x] = [code[x] EXCEPT !.st = "gone"]
             /\ code[x].st = "row" /\ code[x].until < now
    BY <1>3 DEF TypeInv, RowsTyped, DeleteExpiredCodes, Gone
  <2> QED
    BY <1>3, <2>1 DEF DeleteExpiredCodes, RowsTaken, history
<1>4. CASE DeleteExpiredOrRevoked
  <2>1. \A c \in Creds :
          \/ cred'[c] = cred[c]
          \/ cred'[c] = [cred[c] EXCEPT !.st = "gone"] /\ cred[c].st = "row"
    BY <1>4 DEF TypeInv, RowsTyped, DeleteExpiredOrRevoked, Gone
  <2> QED
    BY <1>4, <2>1 DEF DeleteExpiredOrRevoked, RowsTaken, history
<1> QED
  BY <1>1, <1>2, <1>3, <1>4 DEF Deletions

(* A row that is taken keeps its columns, and none comes in.               *)
RowsKept ==
    /\ \A r \in Requests :
          /\ request'[r].app = request[r].app /\ request'[r].uri = request[r].uri
          /\ request'[r].challenge = request[r].challenge
          /\ request'[r].st = "none" <=> request[r].st = "none"
          /\ request'[r].st = "row" => request[r].st = "row"
    /\ \A x \in Codes :
          /\ code'[x].consent = code[x].consent /\ code'[x].uri = code[x].uri
          /\ code'[x].challenge = code[x].challenge /\ code'[x].req = code[x].req
          /\ code'[x].consumed = code[x].consumed
          /\ code'[x].st = "none" <=> code[x].st = "none"
          /\ code'[x].st = "row" => code[x].st = "row"
    /\ \A c \in Creds :
          /\ cred'[c].consent = cred[c].consent /\ cred'[c].code = cred[c].code
          /\ cred'[c].client = cred[c].client /\ cred'[c].uri = cred[c].uri
          /\ cred'[c].verifier = cred[c].verifier
          /\ cred'[c].st = "none" <=> cred[c].st = "none"
          /\ cred'[c].st = "row" => cred[c].st = "row"

LEMMA TakenKept == TypeInv /\ RowsTaken => RowsKept
<1> SUFFICES ASSUME TypeInv, RowsTaken PROVE RowsKept
  OBVIOUS
<1>1. ASSUME NEW r \in Requests
      PROVE  /\ request'[r].app = request[r].app /\ request'[r].uri = request[r].uri
             /\ request'[r].challenge = request[r].challenge
             /\ request'[r].st = "none" <=> request[r].st = "none"
             /\ request'[r].st = "row" => request[r].st = "row"
  <2>1. request[r] \in RequestRow
    BY DEF TypeInv, RowsTyped
  <2>2. \/ request'[r] = request[r]
        \/ request'[r] = [request[r] EXCEPT !.st = "gone"] /\ request[r].st = "row"
    BY DEF RowsTaken
  <2> QED
    BY <2>1, <2>2 DEF RequestRow
<1>2. ASSUME NEW x \in Codes
      PROVE  /\ code'[x].consent = code[x].consent /\ code'[x].uri = code[x].uri
             /\ code'[x].challenge = code[x].challenge /\ code'[x].req = code[x].req
             /\ code'[x].consumed = code[x].consumed
             /\ code'[x].st = "none" <=> code[x].st = "none"
             /\ code'[x].st = "row" => code[x].st = "row"
  <2>1. code[x] \in CodeRow
    BY DEF TypeInv, RowsTyped
  <2>2. \/ code'[x] = code[x]
        \/ code'[x] = [code[x] EXCEPT !.st = "gone"] /\ code[x].st = "row"
    BY DEF RowsTaken
  <2> QED
    BY <2>1, <2>2 DEF CodeRow
<1>3. ASSUME NEW c \in Creds
      PROVE  /\ cred'[c].consent = cred[c].consent /\ cred'[c].code = cred[c].code
             /\ cred'[c].client = cred[c].client /\ cred'[c].uri = cred[c].uri
             /\ cred'[c].verifier = cred[c].verifier
             /\ cred'[c].st = "none" <=> cred[c].st = "none"
             /\ cred'[c].st = "row" => cred[c].st = "row"
  <2>1. cred[c] \in CredRow
    BY DEF TypeInv, RowsTyped
  <2>2. \/ cred'[c] = cred[c]
        \/ cred'[c] = [cred[c] EXCEPT !.st = "gone"] /\ cred[c].st = "row"
    BY DEF RowsTaken
  <2> QED
    BY <2>1, <2>2 DEF CredRow
<1> QED
  BY <1>1, <1>2, <1>3 DEF RowsKept

(* What the account's cascade does beyond taking rows: it leaves none that *)
(* refers to what it took.                                                 *)
LEMMA DeletionKeys == TypeInv /\ Deletions => ForeignKeys'
<1> SUFFICES ASSUME TypeInv, Deletions PROVE ForeignKeys'
  OBVIOUS
<1>1. RowsTaken
  BY DeletionsTake
<1>2. RowsKept /\ app' = app
  BY <1>1, TakenKept DEF RowsTaken
<1>3. ASSUME NEW u \in Users, DeleteAccount(u) PROVE ForeignKeys'
  <2>1. /\ \A k \in Consents : consent'[k].st = "row" <=> consent[k].st = "row" /\ k[1] # u
        /\ \A v \in Users : v # u => user'[v] = user[v]
    BY <1>3 DEF TypeInv, RowsTyped, DeleteAccount, Gone, ConsentRow
  <2>2. \A x \in Codes : code'[x].st = "row" /\ code[x].consent \in Consents
                              => code[x].consent[1] # u
    BY <1>3 DEF TypeInv, RowsTyped, DeleteAccount, Gone, CodeRow
  <2>3. \A c \in Creds : cred'[c].st = "row" /\ cred[c].consent \in Consents
                              => cred[c].consent[1] # u
    BY <1>3 DEF TypeInv, RowsTyped, DeleteAccount, Gone, CredRow
  <2> QED
    BY <1>2, <2>1, <2>2, <2>3 DEF TypeInv, ForeignKeys, RowsKept, Consents
<1>4. ASSUME UNCHANGED <<user, consent>> PROVE ForeignKeys'
  BY <1>2, <1>4 DEF TypeInv, ForeignKeys, RowsKept
<1> QED
  BY <1>3, <1>4 DEF Deletions, DeleteExpiredRequests, DeleteExpiredCodes, DeleteExpiredOrRevoked

LEMMA DeletionTypes ==
  ASSUME TypeInv, Deletions
  PROVE  TypeInv'
<1>1. RowsTaken
  BY DeletionsTake
<1>2. TasksTyped' /\ \A q \in Procs : StepsOn(q)
  BY <1>1 DEF TypeInv, TasksTyped, RowsTaken, StepsOn
<1>3. RowsTyped'
  <2>1. CASE DeleteExpiredRequests
    BY <2>1, GoneTyped DEF TypeInv, RowsTyped, DeleteExpiredRequests, history, RequestRow, Status
  <2>2. ASSUME NEW u \in Users, DeleteAccount(u) PROVE RowsTyped'
    BY <2>2, GoneTyped DEF TypeInv, RowsTyped, DeleteAccount, history, ConsentRow, CodeRow,
       CredRow, Status
  <2>3. CASE DeleteExpiredCodes
    BY <2>3, GoneTyped DEF TypeInv, RowsTyped, DeleteExpiredCodes, history, CodeRow, Status
  <2>4. CASE DeleteExpiredOrRevoked
    <3>1. cred \in [Creds -> CredRow] /\ \A r \in CredRow : [r EXCEPT !.st = "gone"] \in CredRow
      BY DEF TypeInv, RowsTyped, CredRow, Status
    <3>2. cred' \in [Creds -> CredRow]
      BY <2>4, <3>1, GoneTyped DEF DeleteExpiredOrRevoked
    <3> QED
      BY <2>4, <3>2 DEF TypeInv, RowsTyped, DeleteExpiredOrRevoked, history
  <2> QED
    BY <2>1, <2>2, <2>3, <2>4 DEF Deletions
<1>4. \A x \in Codes : code[x].st # "none" => code'[x].st # "none"
  BY <1>1, TakenKept DEF RowsKept
<1>5. CodesKnown'
  BY <1>2, <1>4, StillKnown
<1> QED
  BY <1>2, <1>3, <1>5, DeletionKeys DEF TypeInv

LEMMA TypeStep == TypeInv /\ [Next]_vars => TypeInv'
<1> SUFFICES ASSUME TypeInv, [Next]_vars PROVE TypeInv'
  OBVIOUS
<1>1. ASSUME NEW p \in Procs, Registration(p) PROVE TypeInv'
  BY <1>1, RegisterTypes, PurgeScanTypes, PurgeDeleteTypes DEF Registration
<1>2. ASSUME NEW p \in Procs, Authorization(p) PROVE TypeInv'
  BY <1>2, AuthorizeTypes, CreateRequestTypes DEF Authorization
<1>3. ASSUME NEW p \in Procs, Decision(p) PROVE TypeInv'
  BY <1>3, DecideClaimTypes, DecideFindAppTypes, ResolveConsentTypes,
     CreateConsentTypes, IssueCodeTypes DEF Decision
<1>4. ASSUME NEW p \in Procs, Exchange(p) PROVE TypeInv'
  BY <1>4, FindClientTypes, ExchangeClaimTypes, ExchangeRefusedTypes,
     ExchangeReadConsentTypes, IssueTypes DEF Exchange
<1>5. CASE UNCHANGED vars
  BY <1>5 DEF TypeInv, RowsTyped, TasksTyped, ForeignKeys, CodesKnown, vars, tables, history
<1> QED
  BY <1>1, <1>2, <1>3, <1>4, <1>5, PendingRequestTypes, DeletionTypes, TickTypes, CrashTypes
     DEF Next

(* TypeOK: the foreign keys hold, so no row is left of an application that *)
(* was purged, or of an account that was deleted, while a request for it   *)
(* went on (delegated_access_schemas.ts).                                  *)
THEOREM TypeCorrect == Spec => []TypeOK
<1>1. TypeInv => TypeOK
  BY DEF TypeInv, TypeOK, RowsTyped, ForeignKeys, AppRow
<1> QED
  BY <1>1, InitTypes, TypeStep, PTL DEF Spec

-----------------------------------------------------------------------------
(* What a row carries is what it was inserted with: the statements only    *)
(* ever delete it, and set a request's or a code's consumed_at.            *)
RowsStay ==
    /\ \A a \in Apps : app[a].st # "none" =>
          app'[a].st # "none" /\ app'[a].uris = app[a].uris /\ app'[a].at = app[a].at
    /\ \A r \in Requests : request[r].st # "none" =>
          /\ request'[r].st # "none" /\ request'[r].app = request[r].app
          /\ request'[r].uri = request[r].uri /\ request'[r].challenge = request[r].challenge
    /\ \A x \in Codes : code[x].st # "none" =>
          /\ code'[x].st # "none" /\ code'[x].consent = code[x].consent
          /\ code'[x].uri = code[x].uri /\ code'[x].challenge = code[x].challenge
          /\ code'[x].req = code[x].req /\ (code[x].consumed => code'[x].consumed)
    /\ \A c \in Creds : cred[c].st # "none" =>
          /\ cred'[c].st # "none" /\ cred'[c].consent = cred[c].consent
          /\ cred'[c].code = cred[c].code /\ cred'[c].client = cred[c].client
          /\ cred'[c].uri = cred[c].uri /\ cred'[c].verifier = cred[c].verifier

LEMMA SameTablesStay == UNCHANGED tables => RowsStay
  BY DEF tables, RowsStay

LEMMA GoneStays ==
  ASSUME TypeInv, NEW p \in Procs, PurgeDelete(p)
  PROVE  RowsStay
<1>1. \A a \in Apps : app[a].st # "none" =>
          app'[a].st # "none" /\ app'[a].uris = app[a].uris /\ app'[a].at = app[a].at
  BY DEF TypeInv, RowsTyped, PurgeDelete, Gone, AppRow
<1>2. \A r \in Requests : request[r].st # "none" =>
          /\ request'[r].st # "none" /\ request'[r].app = request[r].app
          /\ request'[r].uri = request[r].uri /\ request'[r].challenge = request[r].challenge
  BY DEF TypeInv, RowsTyped, PurgeDelete, Gone, RequestRow
<1>3. \A x \in Codes : code[x].st # "none" =>
          /\ code'[x].st # "none" /\ code'[x].consent = code[x].consent
          /\ code'[x].uri = code[x].uri /\ code'[x].challenge = code[x].challenge
          /\ code'[x].req = code[x].req /\ (code[x].consumed => code'[x].consumed)
  BY DEF TypeInv, RowsTyped, PurgeDelete, Gone, CodeRow
<1>4. \A c \in Creds : cred[c].st # "none" =>
          /\ cred'[c].st # "none" /\ cred'[c].consent = cred[c].consent
          /\ cred'[c].code = cred[c].code /\ cred'[c].client = cred[c].client
          /\ cred'[c].uri = cred[c].uri /\ cred'[c].verifier = cred[c].verifier
  BY DEF TypeInv, RowsTyped, PurgeDelete, Gone, CredRow
<1> QED
  BY <1>1, <1>2, <1>3, <1>4 DEF RowsStay

LEMMA RowsStayStep == TypeInv /\ [Next]_vars => RowsStay
<1> SUFFICES ASSUME TypeInv, [Next]_vars PROVE RowsStay
  OBVIOUS
<1>1. ASSUME NEW p \in Procs, NEW a \in Apps, NEW uris \in SUBSET Uris, Register(p, a, uris)
      PROVE  RowsStay
  BY <1>1 DEF TypeInv, RowsTyped, Register, RowsStay, AppRow
<1>2. ASSUME NEW p \in Procs, Registration(p)
      PROVE  RowsStay
  BY <1>1, <1>2, GoneStays, SameTablesStay DEF Registration, PurgeScan
<1>3. ASSUME NEW p \in Procs, NEW r \in Requests, CreateRequest(p, r)
      PROVE  RowsStay
  BY <1>3 DEF TypeInv, RowsTyped, CreateRequest, RowsStay
<1>4. ASSUME NEW p \in Procs, Authorization(p)
      PROVE  RowsStay
  BY <1>3, <1>4, SameTablesStay DEF Authorization, Authorize
<1>5. ASSUME NEW p \in Procs, NEW r \in Requests, NEW u \in Users, DecideClaim(p, r, u)
      PROVE  RowsStay
  BY <1>5 DEF TypeInv, RowsTyped, DecideClaim, RowsStay, RequestRow
<1>6. ASSUME NEW p \in Procs, CreateConsent(p)
      PROVE  RowsStay
  BY <1>6 DEF CreateConsent, RowsStay
<1>7. ASSUME NEW p \in Procs, NEW x \in Codes, IssueCode(p, x)
      PROVE  RowsStay
  BY <1>7 DEF TypeInv, RowsTyped, IssueCode, RowsStay
<1>8. ASSUME NEW p \in Procs, Decision(p)
      PROVE  RowsStay
  BY <1>5, <1>6, <1>7, <1>8, SameTablesStay DEF Decision, DecideFindApp, ResolveConsent
<1>9. ASSUME NEW p \in Procs, NEW x \in Codes, NEW uri \in Uris, NEW v \in Verifiers,
             ExchangeClaim(p, x, uri, v)
      PROVE  RowsStay
  BY <1>9 DEF TypeInv, RowsTyped, ExchangeClaim, RowsStay, CodeRow
<1>10. ASSUME NEW p \in Procs, NEW c \in Creds, Issue(p, c)
       PROVE  RowsStay
  BY <1>10 DEF TypeInv, RowsTyped, Issue, RowsStay
<1>11. ASSUME NEW p \in Procs, Exchange(p)
       PROVE  RowsStay
  BY <1>9, <1>10, <1>11, SameTablesStay
     DEF Exchange, FindClient, ExchangeRefused, ExchangeReadConsent
<1>12. CASE (\E r \in Requests : PendingRequest(r)) \/ Tick \/ Crash \/ UNCHANGED vars
  BY <1>12, SameTablesStay DEF PendingRequest, Tick, Crash, vars
<1>13. CASE Deletions
  <2>1. RowsTaken
    BY <1>13, DeletionsTake
  <2> QED
    BY <2>1, TakenKept DEF RowsTaken, RowsKept, RowsStay
<1> QED
  BY <1>2, <1>4, <1>8, <1>11, <1>12, <1>13 DEF Next

LEMMA MatchesStays ==
  ASSUME RowsStay, NEW a, NEW uri, Matches(a, uri)
  PROVE  Matches(a, uri)'
  BY DEF RowsStay, Matches

LEMMA FromRequestStays ==
  ASSUME RowsStay, NEW r, NEW a, NEW uri, NEW v, FromRequest(r, a, uri, v)
  PROVE  FromRequest(r, a, uri, v)'
  BY DEF RowsStay, FromRequest

LEMMA FromCodeStays ==
  ASSUME RowsStay, NEW x, NEW a, NEW uri, NEW v, FromCode(x, a, uri, v)
  PROVE  FromCode(x, a, uri, v)'
  BY DEF RowsStay, FromCode

(* What a step adds carries what it should.                                *)
AddsCarry ==
    /\ \A r \in Requests : request[r].st = "none" /\ request'[r].st # "none" => RequestCarries(r)'
    /\ \A x \in Codes : code[x].st = "none" /\ code'[x].st # "none" => CodeCarries(x)'
    /\ \A c \in Creds : cred[c].st = "none" /\ cred'[c].st # "none" => CredCarries(c)'
    /\ \A p \in Procs : task'[p] = task[p] \/ TaskCarries(p)'
    /\ \A r \in Requests :
          \/ shown'[r] = shown[r]
          \/ request'[r].st # "none" /\ shown'[r] = Screen(r)'
    /\ sent' = sent \/ Matches(sent.app, sent.to)'

LEMMA CarriedStep ==
  ASSUME TypeInv, Carried, RowsStay, AddsCarry
  PROVE  Carried'
<1>1. \A r \in Requests : request'[r].st # "none" => RequestCarries(r)'
  <2> SUFFICES ASSUME NEW r \in Requests, request[r].st # "none"
               PROVE  RequestCarries(r)'
    BY DEF AddsCarry
  <2>1. Matches(request[r].app, request[r].uri)
    BY DEF Carried, RequestCarries
  <2>2. request'[r].app = request[r].app /\ request'[r].uri = request[r].uri
    BY DEF RowsStay
  <2> QED
    BY <2>1, <2>2, MatchesStays DEF RequestCarries
<1>2. \A x \in Codes : code'[x].st # "none" => CodeCarries(x)'
  <2> SUFFICES ASSUME NEW x \in Codes, code[x].st # "none"
               PROVE  CodeCarries(x)'
    BY DEF AddsCarry
  <2> QED
    BY FromRequestStays DEF Carried, CodeCarries, RowsStay
<1>3. \A c \in Creds : cred'[c].st # "none" => CredCarries(c)'
  <2> SUFFICES ASSUME NEW c \in Creds, cred[c].st # "none"
               PROVE  CredCarries(c)'
    BY DEF AddsCarry
  <2>1. cred[c].code \in Codes /\ code[cred[c].code].st # "none"
    BY DEF Carried, CredCarries, FromCode
  <2> QED
    BY <2>1, FromCodeStays DEF Carried, CredCarries, RowsStay
<1>4. \A p \in Procs : TaskCarries(p)'
  <2> SUFFICES ASSUME NEW p \in Procs, task'[p] = task[p], TaskCarries(p)
               PROVE  TaskCarries(p)'
    BY DEF AddsCarry, Carried
  <2> QED
    BY MatchesStays, FromRequestStays, FromCodeStays DEF TaskCarries
<1>5. \A r \in Requests :
          shown'[r] # None => request'[r].st # "none" /\ shown'[r] = Screen(r)'
  BY DEF AddsCarry, Carried, RowsStay, Screen
<1>6. sent' # None => Matches(sent.app, sent.to)'
  BY MatchesStays DEF AddsCarry, Carried
<1> QED
  BY <1>1, <1>2, <1>3, <1>4, <1>5, <1>6 DEF Carried

LEMMA EndCarries ==
  ASSUME TypeInv, NEW p \in Procs, End(p)
  PROVE  \A q \in Procs : task'[q] = task[q] \/ TaskCarries(q)'
<1>1. task'[p] = Idle /\ \A q \in Procs : q # p => task'[q] = task[q]
  BY EndTyped DEF TypeInv
<1>2. TaskCarries(p)'
  BY <1>1, IdleFilled DEF TaskCarries, Deciding, Exchanging
<1> QED
  BY <1>1, <1>2

LEMMA ResumeCarries ==
  ASSUME TypeInv, Carried, NEW p \in Procs, NEW pc, Resume(p, pc),
         \/ At(p, "vigency") /\ pc = "mint"
         \/ task[p].pc \in Deciding /\ pc \in Deciding,
         UNCHANGED <<app, request, code>>
  PROVE  \A q \in Procs : task'[q] = task[q] \/ TaskCarries(q)'
<1>1. /\ task'[p] = [task[p] EXCEPT !.pc = pc]
      /\ \A q \in Procs : q # p => task'[q] = task[q]
  BY ResumeTyped DEF TypeInv
<1>2. task[p] \in Task /\ TaskCarries(p)
  BY DEF TypeInv, TasksTyped, Carried
<1>3. /\ task'[p].pc = pc /\ task'[p].app = task[p].app /\ task'[p].req = task[p].req
      /\ task'[p].code = task[p].code /\ task'[p].uri = task[p].uri
      /\ task'[p].verifier = task[p].verifier
  BY <1>1, <1>2 DEF Task
<1>4. TaskCarries(p)'
  BY <1>2, <1>3 DEF TaskCarries, At, Deciding, Exchanging, FromRequest, FromCode
<1> QED
  BY <1>1, <1>4

LEMMA SameTablesCarry ==
  ASSUME TypeInv, Carried, UNCHANGED <<tables, shown>>,
         \A q \in Procs : task'[q] = task[q] \/ TaskCarries(q)',
         sent' = sent \/ Matches(sent.app, sent.to)'
  PROVE  AddsCarry
  BY DEF AddsCarry, tables

LEMMA DecidedMatches ==
  ASSUME Carried, NEW p \in Procs, task[p].pc \in Deciding
  PROVE  Matches(task[p].app, task[p].uri)
  BY DEF Carried, TaskCarries, FromRequest, RequestCarries

LEMMA RegistrationCarries ==
  ASSUME TypeInv, Carried, NEW p \in Procs, Registration(p)
  PROVE  AddsCarry
<1>1. ASSUME NEW a \in Apps, NEW uris \in SUBSET Uris, Register(p, a, uris)
      PROVE  AddsCarry
  <2>1. Filled([Idle EXCEPT !.pc = "purge"]) /\ [Idle EXCEPT !.pc = "purge"].pc = "purge"
    BY DEF Filled, Idle, Task, PCs, OrNone, Deciding, Exchanging
  <2>2. task'[p].pc = "purge" /\ \A q \in Procs : q # p => task'[q] = task[q]
    BY <1>1, <2>1, GoToTyped DEF TypeInv, Register
  <2>3. TaskCarries(p)'
    BY <2>2 DEF TaskCarries, Deciding, Exchanging
  <2> QED
    BY <1>1, <2>2, <2>3 DEF AddsCarry, Register, history
<1>2. ASSUME PurgeScan(p)
      PROVE  AddsCarry
  <2> DEFINE t == [Idle EXCEPT !.pc = "delete", !.rows = UnusedRegistrations]
  <2>1. Filled(t) /\ t.pc = "delete"
    BY DEF Filled, Idle, Task, PCs, OrNone, Deciding, Exchanging, UnusedRegistrations
  <2>2. ASSUME GoTo(p, t)
        PROVE  \A q \in Procs : task'[q] = task[q] \/ TaskCarries(q)'
    <3>1. task'[p].pc = "delete" /\ \A q \in Procs : q # p => task'[q] = task[q]
      BY <2>1, <2>2, GoToTyped DEF TypeInv
    <3> QED
      BY <3>1 DEF TaskCarries, Deciding, Exchanging
  <2> QED
    BY <1>2, <2>2, EndCarries, SameTablesCarry DEF PurgeScan, history
<1>3. ASSUME PurgeDelete(p)
      PROVE  AddsCarry
  <2>1. /\ \A r \in Requests : request'[r].st = "none" <=> request[r].st = "none"
        /\ \A x \in Codes : code'[x].st = "none" <=> code[x].st = "none"
        /\ \A c \in Creds : cred'[c].st = "none" <=> cred[c].st = "none"
    BY <1>3 DEF TypeInv, RowsTyped, PurgeDelete, Gone, RequestRow, CodeRow, CredRow
  <2> QED
    BY <1>3, <2>1, EndCarries DEF AddsCarry, PurgeDelete, history
<1> QED
  BY <1>1, <1>2, <1>3 DEF Registration

LEMMA AuthorizationCarries ==
  ASSUME TypeInv, Carried, NEW p \in Procs, Authorization(p)
  PROVE  AddsCarry
<1>1. ASSUME NEW a \in Apps, NEW uri \in Uris, NEW v \in Verifiers, Authorize(p, a, uri, v)
      PROVE  AddsCarry
  <2> DEFINE t == [Idle EXCEPT !.pc = "authorize", !.app = a, !.uri = uri, !.verifier = v]
  <2>1. Filled(t) /\ t.pc = "authorize" /\ t.app = a /\ t.uri = uri
    BY DEF Filled, Idle, Task, PCs, OrNone, Deciding, Exchanging
  <2>2. Matches(a, uri)'
    BY <1>1 DEF Authorize, Matches, tables
  <2>3. ASSUME GoTo(p, t)
        PROVE  \A q \in Procs : task'[q] = task[q] \/ TaskCarries(q)'
    <3>1. task'[p] = t /\ \A q \in Procs : q # p => task'[q] = task[q]
      BY <2>1, <2>3, GoToTyped DEF TypeInv
    <3> QED
      BY <2>1, <2>2, <3>1 DEF TaskCarries, Deciding, Exchanging
  <2>4. ASSUME ErrorRedirected(a, uri)
        PROVE  Matches(sent.app, sent.to)'
    <3>1. sent'.app = a /\ sent'.to = uri
      BY <2>4 DEF ErrorRedirected, Redirected
    <3> QED
      BY <2>2, <3>1
  <2>5. /\ \A q \in Procs : task'[q] = task[q] \/ TaskCarries(q)'
        /\ sent' = sent \/ Matches(sent.app, sent.to)'
    BY <1>1, <2>3, <2>4 DEF Authorize
  <2> QED
    BY <1>1, <2>5, SameTablesCarry DEF Authorize
<1>2. ASSUME NEW r \in Requests, CreateRequest(p, r)
      PROVE  AddsCarry
  <2> DEFINE t == task[p]
  <2>1. \A a, uri : a = t.app /\ uri = t.uri => Matches(a, uri)'
    BY <1>2 DEF Carried, TaskCarries, CreateRequest, At, Matches
  <2>2. NewRequest(t).app = t.app /\ NewRequest(t).uri = t.uri
    BY DEF NewRequest
  <2>3. request[r].st = "none" /\ request'[r].st # "none" => request'[r] = NewRequest(t)
    BY <1>2 DEF TypeInv, RowsTyped, CreateRequest
  <2>4. \A s \in Requests : s # r => request'[s] = request[s]
    BY <1>2 DEF TypeInv, RowsTyped, CreateRequest
  <2>5. \A s \in Requests : request[s].st = "none" /\ request'[s].st # "none" => RequestCarries(s)'
    BY <2>1, <2>2, <2>3, <2>4 DEF RequestCarries
  <2> QED
    BY <1>2, <2>5, EndCarries DEF AddsCarry, CreateRequest, history
<1> QED
  BY <1>1, <1>2 DEF Authorization

LEMMA DecisionCarries ==
  ASSUME TypeInv, Carried, NEW p \in Procs, Decision(p)
  PROVE  AddsCarry
<1>1. ASSUME NEW r \in Requests, NEW u \in Users, DecideClaim(p, r, u)
      PROVE  AddsCarry
  <2> DEFINE t == [Idle EXCEPT !.pc = "decide", !.req = r, !.user = u, !.app = request[r].app,
                               !.uri = request[r].uri, !.verifier = request[r].challenge]
  <2>1. request[r] \in RequestRow /\ request[r].st # "none" /\ request[r].app \in Apps
    BY <1>1 DEF TypeInv, RowsTyped, ForeignKeys, DecideClaim, Live
  <2>2. /\ Filled(t) /\ t.pc = "decide" /\ t.req = r /\ t.app = request[r].app
        /\ t.uri = request[r].uri /\ t.verifier = request[r].challenge
    BY <2>1 DEF Filled, Idle, Task, PCs, OrNone, Deciding, Exchanging, RequestRow
  <2>3. task'[p] = t /\ \A q \in Procs : q # p => task'[q] = task[q]
    BY <1>1, <2>2, GoToTyped DEF TypeInv, DecideClaim
  <2>4. \A s \in Requests :
           /\ request'[s].st = request[s].st /\ request'[s].app = request[s].app
           /\ request'[s].uri = request[s].uri /\ request'[s].challenge = request[s].challenge
    BY <1>1 DEF TypeInv, RowsTyped, DecideClaim, RequestRow
  <2>5. TaskCarries(p)'
    BY <2>1, <2>2, <2>3, <2>4 DEF TaskCarries, FromRequest, Exchanging
  <2> QED
    BY <1>1, <2>3, <2>4, <2>5 DEF AddsCarry, DecideClaim, history
<1>2. ASSUME DecideFindApp(p)
      PROVE  AddsCarry
  <2>1. task[p].pc \in Deciding /\ "resolve" \in Deciding
    BY <1>2 DEF DecideFindApp, At, Deciding
  <2>2. \A a, uri : a = task[p].app /\ uri = task[p].uri => Matches(a, uri)'
    BY <1>2, <2>1, DecidedMatches DEF Matches, DecideFindApp, tables
  <2>3. sent' = sent \/ Matches(sent.app, sent.to)'
    <3>1. ASSUME Redirected(task[p].app, task[p].uri)
          PROVE  Matches(sent.app, sent.to)'
      BY <2>2, <3>1 DEF Redirected
    <3> QED
      BY <1>2, <3>1 DEF DecideFindApp
  <2>4. \A q \in Procs : task'[q] = task[q] \/ TaskCarries(q)'
    BY <1>2, <2>1, EndCarries, ResumeCarries DEF DecideFindApp, tables
  <2> QED
    BY <1>2, <2>3, <2>4, SameTablesCarry DEF DecideFindApp
<1>3. ASSUME ResolveConsent(p)
      PROVE  AddsCarry
  <2>1. \A q \in Procs : task'[q] = task[q] \/ TaskCarries(q)'
    BY <1>3, ResumeCarries DEF ResolveConsent, At, Deciding, tables
  <2> QED
    BY <1>3, <2>1, SameTablesCarry DEF ResolveConsent, history
<1>4. ASSUME CreateConsent(p)
      PROVE  AddsCarry
  <2>1. \A q \in Procs : task'[q] = task[q] \/ TaskCarries(q)'
    BY <1>4, EndCarries, ResumeCarries DEF CreateConsent, At, Deciding
  <2> QED
    BY <1>4, <2>1 DEF AddsCarry, CreateConsent
<1>5. ASSUME NEW x \in Codes, IssueCode(p, x)
      PROVE  AddsCarry
  <2> DEFINE t == task[p]
  <2>1. t.pc \in Deciding /\ FromRequest(t.req, t.app, t.uri, t.verifier)
    BY <1>5 DEF Carried, TaskCarries, IssueCode, At, Deciding
  <2>2. \A a, uri : a = t.app /\ uri = t.uri => Matches(a, uri)'
    BY <1>5, <2>1, DecidedMatches DEF Matches, IssueCode
  <2>3. sent' = sent \/ Matches(sent.app, sent.to)'
    <3>1. ASSUME Redirected(t.app, t.uri)
          PROVE  Matches(sent.app, sent.to)'
      BY <2>2, <3>1 DEF Redirected
    <3> QED
      BY <1>5, <3>1 DEF IssueCode
  <2>4. t.user \in Users /\ t.app \in Apps
    BY <2>1 DEF TypeInv, TasksTyped, Filled
  <2>5. /\ NewCode(t).consent = <<t.user, t.app>> /\ NewCode(t).uri = t.uri
        /\ NewCode(t).challenge = t.verifier /\ NewCode(t).req = t.req
    BY DEF NewCode
  <2>6. code'[x].st # "none" => code'[x] = NewCode(t)
    BY <1>5 DEF TypeInv, RowsTyped, IssueCode
  <2>7. \A y \in Codes : y # x => code'[y] = code[y]
    BY <1>5 DEF TypeInv, RowsTyped, IssueCode
  <2>8. code'[x].st # "none" => CodeCarries(x)'
    BY <1>5, <2>1, <2>4, <2>5, <2>6 DEF CodeCarries, FromRequest, Consents, IssueCode
  <2>9. \A y \in Codes : code[y].st = "none" /\ code'[y].st # "none" => CodeCarries(y)'
    BY <2>7, <2>8
  <2> QED
    BY <1>5, <2>3, <2>9, EndCarries DEF AddsCarry, IssueCode
<1> QED
  BY <1>1, <1>2, <1>3, <1>4, <1>5 DEF Decision

LEMMA ExchangeCarries ==
  ASSUME TypeInv, Carried, NEW p \in Procs, Exchange(p)
  PROVE  AddsCarry
<1>1. ASSUME NEW a \in Apps, FindClient(p, a)
      PROVE  AddsCarry
  <2> DEFINE t == [Idle EXCEPT !.pc = "token", !.app = a]
  <2>1. Filled(t) /\ t.pc = "token"
    BY DEF Filled, Idle, Task, PCs, OrNone, Deciding, Exchanging
  <2>2. task'[p].pc = "token" /\ \A q \in Procs : q # p => task'[q] = task[q]
    BY <1>1, <2>1, GoToTyped DEF TypeInv, FindClient
  <2>3. TaskCarries(p)'
    BY <2>2 DEF TaskCarries, Deciding, Exchanging
  <2> QED
    BY <1>1, <2>2, <2>3, SameTablesCarry DEF FindClient, history
<1>2. ASSUME NEW x \in Codes, NEW uri \in Uris, NEW v \in Verifiers, ExchangeClaim(p, x, uri, v)
      PROVE  AddsCarry
  <2> DEFINE t == [task[p] EXCEPT !.pc = "vigency", !.code = x, !.uri = uri, !.verifier = v]
  <2>1. Filled(task[p]) /\ task[p].pc = "token"
    BY <1>2 DEF TypeInv, TasksTyped, ExchangeClaim, At
  <2>2. /\ Filled(t) /\ t.pc = "vigency" /\ t.code = x /\ t.uri = uri /\ t.verifier = v
        /\ t.app = task[p].app
    BY <2>1 DEF Filled, Task, PCs, OrNone, Deciding, Exchanging
  <2>3. \A y \in Codes :
           /\ code'[y].st = code[y].st /\ code'[y].consent = code[y].consent
           /\ code'[y].uri = code[y].uri /\ code'[y].challenge = code[y].challenge
    BY <1>2 DEF TypeInv, RowsTyped, ExchangeClaim, CodeRow
  <2>4. code'[x].consumed /\ code'[x].st = "row"
    BY <1>2, <2>3 DEF TypeInv, RowsTyped, ExchangeClaim, CodeRow
  <2>5. ASSUME GoTo(p, t), Redeemable(x, task[p].app, uri, v)
        PROVE  \A q \in Procs : task'[q] = task[q] \/ TaskCarries(q)'
    <3>1. task'[p] = t /\ \A q \in Procs : q # p => task'[q] = task[q]
      BY <2>2, <2>5, GoToTyped DEF TypeInv
    <3>2. /\ task[p].app = code'[x].consent[2] /\ v = code'[x].challenge
          /\ RedirectUriMatches(code'[x].uri, uri)
      BY <2>3, <2>5 DEF Redeemable, VerifyPkce
    <3>3. TaskCarries(p)'
      BY <2>2, <2>4, <3>1, <3>2 DEF TaskCarries, FromCode, Deciding
    <3> QED
      BY <3>1, <3>3
  <2>6. \A q \in Procs : task'[q] = task[q] \/ TaskCarries(q)'
    BY <1>2, <2>5, EndCarries DEF ExchangeClaim
  <2> QED
    BY <1>2, <2>3, <2>6 DEF AddsCarry, ExchangeClaim, history
<1>3. ASSUME ExchangeRefused(p)
      PROVE  AddsCarry
  BY <1>3, EndCarries, SameTablesCarry DEF ExchangeRefused, history
<1>4. ASSUME ExchangeReadConsent(p)
      PROVE  AddsCarry
  <2>1. \A q \in Procs : task'[q] = task[q] \/ TaskCarries(q)'
    BY <1>4, EndCarries, ResumeCarries DEF ExchangeReadConsent, tables
  <2> QED
    BY <1>4, <2>1, SameTablesCarry DEF ExchangeReadConsent, history
<1>5. ASSUME NEW c \in Creds, Issue(p, c)
      PROVE  AddsCarry
  <2> DEFINE t == task[p]
  <2>1. FromCode(t.code, t.app, t.uri, t.verifier)
    BY <1>5 DEF Carried, TaskCarries, Issue, At, Exchanging
  <2>2. /\ NewCred(t).consent = code[t.code].consent /\ NewCred(t).code = t.code
        /\ NewCred(t).client = t.app /\ NewCred(t).uri = t.uri
        /\ NewCred(t).verifier = t.verifier
    BY DEF NewCred
  <2>3. cred'[c].st # "none" => cred'[c] = NewCred(t)
    BY <1>5 DEF TypeInv, RowsTyped, Issue
  <2>4. \A d \in Creds : d # c => cred'[d] = cred[d]
    BY <1>5 DEF TypeInv, RowsTyped, Issue
  <2>5. cred'[c].st # "none" => CredCarries(c)'
    BY <1>5, <2>1, <2>2, <2>3 DEF CredCarries, FromCode, Issue
  <2>6. \A d \in Creds : cred[d].st = "none" /\ cred'[d].st # "none" => CredCarries(d)'
    BY <2>4, <2>5
  <2> QED
    BY <1>5, <2>6, EndCarries DEF AddsCarry, Issue, history
<1> QED
  BY <1>1, <1>2, <1>3, <1>4, <1>5 DEF Exchange

LEMMA CarriedAlways == TypeInv /\ Carried /\ [Next]_vars => Carried'
<1> SUFFICES ASSUME TypeInv, Carried, [Next]_vars PROVE Carried'
  OBVIOUS
<1>1. RowsStay
  BY RowsStayStep
<1>2. ASSUME NEW r \in Requests, PendingRequest(r)
      PROVE  AddsCarry
  <2>1. request[r].st # "none" /\ \A s \in Requests : s # r => shown'[s] = shown[s]
    BY <1>2 DEF TypeInv, RowsTyped, PendingRequest, Live
  <2>2. shown'[r] = Screen(r)
    BY <1>2 DEF TypeInv, RowsTyped, PendingRequest
  <2> QED
    BY <1>2, <2>1, <2>2 DEF AddsCarry, PendingRequest, tables, Screen
<1>3. ASSUME Tick PROVE AddsCarry
  BY <1>3 DEF AddsCarry, Tick, tables, history
<1>4. ASSUME Crash PROVE AddsCarry
  BY <1>4, IdleFilled DEF AddsCarry, Crash, tables, history, TaskCarries, Deciding, Exchanging
<1>5. ASSUME UNCHANGED vars PROVE AddsCarry
  BY <1>5 DEF AddsCarry, vars, tables, history
<1>7. ASSUME Deletions PROVE AddsCarry
  <2>1. RowsTaken
    BY <1>7, DeletionsTake
  <2>2. /\ \A r \in Requests : request'[r].st = "none" <=> request[r].st = "none"
        /\ \A x \in Codes : code'[x].st = "none" <=> code[x].st = "none"
        /\ \A c \in Creds : cred'[c].st = "none" <=> cred[c].st = "none"
    BY <2>1, TakenKept DEF RowsKept
  <2> QED
    BY <2>1, <2>2 DEF AddsCarry, RowsTaken, history
<1>6. AddsCarry
  BY <1>2, <1>3, <1>4, <1>5, <1>7, RegistrationCarries, AuthorizationCarries, DecisionCarries,
     ExchangeCarries DEF Next
<1> QED
  BY <1>1, <1>6, CarriedStep

-----------------------------------------------------------------------------
(* Handlers that neither take a code nor a snapshot of registrations.      *)
TasksCalm ==
    \A q \in Procs : StepsOn(q) /\ task'[q].rows \subseteq task[q].rows

LEMMA EndCalm ==
  ASSUME TypeInv, NEW p \in Procs, End(p)
  PROVE  TasksCalm
  BY EndTyped, IdleFilled DEF TypeInv, TasksCalm

LEMMA ResumeCalm ==
  ASSUME TypeInv, NEW p \in Procs, NEW pc, Resume(p, pc),
         \/ At(p, "vigency") /\ pc = "mint"
         \/ task[p].pc \in Deciding /\ pc \in Deciding
  PROVE  TasksCalm
<1>1. /\ task'[p] = [task[p] EXCEPT !.pc = pc] /\ \A q \in Procs : StepsOn(q)
      /\ \A q \in Procs : q # p => task'[q] = task[q]
  BY ResumeTyped DEF TypeInv
<1>2. task[p] \in Task
  BY DEF TypeInv, TasksTyped
<1> QED
  BY <1>1, <1>2 DEF TasksCalm, Task

LEMMA StartCalm ==
  ASSUME TypeInv, NEW p \in Procs, NEW t \in Task, GoTo(p, t), t.pc \notin Exchanging, t.rows = {}
  PROVE  TasksCalm
  BY DEF TypeInv, TasksTyped, GoTo, TasksCalm, StepsOn

LEMMA NextCalm ==
  ASSUME TypeInv, NEW p \in Procs
  PROVE  /\ Registration(p) => TasksCalm \/ PurgeScan(p)
         /\ Authorization(p) => TasksCalm
         /\ Decision(p) => TasksCalm
         /\ Exchange(p) =>
               \/ TasksCalm
               \/ \E x \in Codes, uri \in Uris, v \in Verifiers : ExchangeClaim(p, x, uri, v)
<1>1. ASSUME Registration(p) PROVE TasksCalm \/ PurgeScan(p)
  <2> DEFINE t == [Idle EXCEPT !.pc = "purge"]
  <2>1. t \in Task /\ t.pc \notin Exchanging /\ t.rows = {}
    BY DEF Idle, Task, PCs, OrNone, Exchanging
  <2> QED
    BY <1>1, <2>1, EndCalm, StartCalm DEF Registration, Register, PurgeDelete
<1>2. ASSUME NEW a \in Apps, NEW uri \in Uris, NEW v \in Verifiers, Authorize(p, a, uri, v)
      PROVE  TasksCalm
  <2> DEFINE t == [Idle EXCEPT !.pc = "authorize", !.app = a, !.uri = uri, !.verifier = v]
  <2>1. t \in Task /\ t.pc \notin Exchanging /\ t.rows = {}
    BY DEF Idle, Task, PCs, OrNone, Exchanging
  <2>2. UNCHANGED task => TasksCalm
    BY DEF TasksCalm, StepsOn
  <2> QED
    BY <1>2, <2>1, <2>2, StartCalm DEF Authorize
<1>3. ASSUME Authorization(p) PROVE TasksCalm
  BY <1>2, <1>3, EndCalm DEF Authorization, CreateRequest
<1>4. ASSUME NEW r \in Requests, NEW u \in Users, DecideClaim(p, r, u)
      PROVE  TasksCalm
  <2> DEFINE t == [Idle EXCEPT !.pc = "decide", !.req = r, !.user = u, !.app = request[r].app,
                               !.uri = request[r].uri, !.verifier = request[r].challenge]
  <2>1. request[r] \in RequestRow
    BY DEF TypeInv, RowsTyped
  <2>2. t \in Task /\ t.pc \notin Exchanging /\ t.rows = {}
    BY <2>1 DEF Idle, Task, PCs, OrNone, Deciding, Exchanging, RequestRow
  <2> QED
    BY <1>4, <2>2, StartCalm DEF DecideClaim
<1>5. ASSUME Decision(p) PROVE TasksCalm
  <2>1. /\ DecideFindApp(p) => TasksCalm
        /\ ResolveConsent(p) => TasksCalm
        /\ CreateConsent(p) => TasksCalm
    BY EndCalm, ResumeCalm DEF DecideFindApp, ResolveConsent, CreateConsent, At, Deciding
  <2> QED
    BY <1>4, <1>5, <2>1, EndCalm DEF Decision, IssueCode
<1>6. ASSUME NEW a \in Apps, FindClient(p, a)
      PROVE  TasksCalm
  <2> DEFINE t == [Idle EXCEPT !.pc = "token", !.app = a]
  <2>1. t \in Task /\ t.pc \notin Exchanging /\ t.rows = {}
    BY DEF Idle, Task, PCs, OrNone, Exchanging
  <2> QED
    BY <1>6, <2>1, StartCalm DEF FindClient
<1>7. ExchangeReadConsent(p) => TasksCalm
  BY EndCalm, ResumeCalm DEF ExchangeReadConsent
<1>8. ASSUME Exchange(p)
      PROVE  \/ TasksCalm
             \/ \E x \in Codes, uri \in Uris, v \in Verifiers : ExchangeClaim(p, x, uri, v)
  BY <1>6, <1>7, <1>8, EndCalm DEF Exchange, ExchangeRefused, Issue
<1> QED
  BY <1>1, <1>3, <1>5, <1>8

(* Credentials whose codes are untouched, exchanges that claim none.       *)
LEMMA MintsQuiet ==
  ASSUME MintsOnce, TasksCalm,
         \A c \in Creds : /\ cred'[c].code = cred[c].code
                          /\ cred'[c].st = "none" <=> cred[c].st = "none"
  PROVE  MintsOnce'
<1>1. \A q \in Procs : task'[q].pc \in Exchanging =>
         task[q].pc \in Exchanging /\ task'[q].code = task[q].code
  BY DEF TasksCalm, StepsOn
<1> QED
  BY <1>1 DEF MintsOnce

LEMMA ClaimMintsOnce ==
  ASSUME TypeInv, GrantInv, NEW p \in Procs, NEW x \in Codes, NEW uri \in Uris,
         NEW v \in Verifiers, ExchangeClaim(p, x, uri, v)
  PROVE  MintsOnce'
<1> DEFINE t == [task[p] EXCEPT !.pc = "vigency", !.code = x, !.uri = uri, !.verifier = v]
<1>1. Filled(task[p]) /\ task[p].pc = "token"
  BY DEF TypeInv, TasksTyped, ExchangeClaim, At
<1>2. Filled(t) /\ t.code = x
  BY <1>1 DEF Filled, Task, PCs, OrNone, Deciding, Exchanging
<1>3. UNCHANGED cred /\ ~code[x].consumed
  BY DEF ExchangeClaim
<1>4. ASSUME End(p) PROVE MintsOnce'
  BY <1>3, <1>4, EndCalm, MintsQuiet DEF GrantInv
<1>5. ASSUME GoTo(p, t) PROVE MintsOnce'
  <2>1. task'[p].code = x /\ \A q \in Procs : q # p => task'[q] = task[q]
    BY <1>2, <1>5, GoToTyped DEF TypeInv
  <2>2. \A c \in Creds : cred[c].st # "none" => cred[c].code # x
    BY <1>3 DEF GrantInv, Carried, CredCarries, FromCode
  <2>3. \A q \in Procs : task[q].pc \in Exchanging => task[q].code # x
    BY <1>3 DEF GrantInv, Carried, TaskCarries, FromCode
  <2> QED
    BY <1>3, <2>1, <2>2, <2>3 DEF GrantInv, MintsOnce
<1> QED
  BY <1>4, <1>5 DEF ExchangeClaim

LEMMA IssueMintsOnce ==
  ASSUME TypeInv, GrantInv, NEW p \in Procs, NEW c \in Creds, Issue(p, c)
  PROVE  MintsOnce'
<1> DEFINE t == task[p]
<1>1. t.pc \in Exchanging /\ t.code \in Codes
  BY DEF TypeInv, TasksTyped, Filled, Issue, At, Exchanging
<1>2. task'[p].pc \notin Exchanging /\ \A q \in Procs : q # p => task'[q] = task[q]
  BY EndTyped, IdleFilled DEF TypeInv, Issue, Exchanging
<1>3. CASE UNCHANGED cred
  BY <1>2, <1>3 DEF GrantInv, MintsOnce
<1>4. CASE cred' = [cred EXCEPT ![c] = NewCred(t)]
  <2>1. cred'[c].code = t.code /\ cred'[c].st = "row" /\ cred[c].st = "none"
    BY <1>4 DEF TypeInv, RowsTyped, NewCred, Issue
  <2>2. \A d \in Creds : d # c => cred'[d] = cred[d]
    BY <1>4 DEF TypeInv, RowsTyped
  <2>3. \A d \in Creds : cred[d].st # "none" => cred[d].code # t.code
    BY <1>1 DEF GrantInv, MintsOnce
  <2>4. \A q \in Procs \ {p} : task[q].pc \in Exchanging => task[q].code # t.code
    BY <1>1 DEF GrantInv, MintsOnce
  <2> QED
    BY <1>2, <2>1, <2>2, <2>3, <2>4 DEF GrantInv, MintsOnce
<1> QED
  BY <1>3, <1>4 DEF Issue

LEMMA PurgeMintsOnce ==
  ASSUME TypeInv, GrantInv, NEW p \in Procs, PurgeDelete(p)
  PROVE  MintsOnce'
<1>1. \A c \in Creds : /\ cred'[c].code = cred[c].code
                       /\ cred'[c].st = "none" <=> cred[c].st = "none"
  BY DEF TypeInv, RowsTyped, PurgeDelete, Gone, CredRow
<1> QED
  BY <1>1, EndCalm, MintsQuiet DEF GrantInv, PurgeDelete

LEMMA ScanMintsOnce ==
  ASSUME TypeInv, GrantInv, NEW p \in Procs, PurgeScan(p)
  PROVE  MintsOnce'
<1> DEFINE t == [Idle EXCEPT !.pc = "delete", !.rows = UnusedRegistrations]
<1>1. Filled(t) /\ t.pc \notin Exchanging
  BY DEF Filled, Idle, Task, PCs, OrNone, Deciding, Exchanging, UnusedRegistrations
<1>2. \A q \in Procs : StepsOn(q)
  BY <1>1, GoToTyped, EndTyped DEF TypeInv, PurgeScan
<1>3. \A q \in Procs : task'[q].pc \in Exchanging =>
         task[q].pc \in Exchanging /\ task'[q].code = task[q].code
  BY <1>2 DEF StepsOn
<1> QED
  BY <1>3 DEF GrantInv, MintsOnce, PurgeScan, tables

LEMMA MintsOnceStep == TypeInv /\ GrantInv /\ [Next]_vars => MintsOnce'
<1> SUFFICES ASSUME TypeInv, GrantInv, [Next]_vars PROVE MintsOnce'
  OBVIOUS
<1>1. TasksCalm /\ UNCHANGED cred => MintsOnce'
  BY MintsQuiet DEF GrantInv
<1>2. ASSUME NEW p \in Procs, Registration(p) PROVE MintsOnce'
  BY <1>1, <1>2, NextCalm, PurgeMintsOnce, ScanMintsOnce DEF Registration, Register
<1>3. ASSUME NEW p \in Procs, Authorization(p) PROVE MintsOnce'
  BY <1>1, <1>3, NextCalm DEF Authorization, Authorize, CreateRequest, tables
<1>4. ASSUME NEW p \in Procs, Decision(p) PROVE MintsOnce'
  BY <1>1, <1>4, NextCalm
     DEF Decision, DecideClaim, DecideFindApp, ResolveConsent, CreateConsent, IssueCode, tables
<1>5. ASSUME NEW p \in Procs, Exchange(p) PROVE MintsOnce'
  BY <1>1, <1>5, NextCalm, ClaimMintsOnce, IssueMintsOnce
     DEF Exchange, FindClient, ExchangeRefused, ExchangeReadConsent, tables
<1>6. CASE (\E r \in Requests : PendingRequest(r)) \/ Tick \/ UNCHANGED vars
  BY <1>1, <1>6 DEF PendingRequest, Tick, vars, tables, TasksCalm, StepsOn
<1>7. CASE Crash
  BY <1>1, <1>7, IdleFilled DEF Crash, tables, TasksCalm, StepsOn, Exchanging
<1>8. CASE Deletions
  <2>1. RowsTaken
    BY <1>8, DeletionsTake
  <2>2. TasksCalm
    BY <2>1 DEF RowsTaken, TasksCalm, StepsOn
  <2>3. \A c \in Creds : /\ cred'[c].code = cred[c].code
                         /\ cred'[c].st = "none" <=> cred[c].st = "none"
    BY <2>1, TakenKept DEF RowsKept
  <2> QED
    BY <2>2, <2>3, MintsQuiet DEF GrantInv
<1> QED
  BY <1>2, <1>3, <1>4, <1>5, <1>6, <1>7, <1>8 DEF Next

-----------------------------------------------------------------------------
(* Registrations on a list stay old.                                       *)
LEMMA OldStay ==
  ASSUME TypeInv, RowsStay, now' >= now, now' \in Int, NEW a \in Apps,
         app[a].st # "none", app[a].at < now - UnusedAfter
  PROVE  app'[a].st # "none" /\ app'[a].at < now' - UnusedAfter
<1>1. app[a].at \in Int /\ now \in Int /\ UnusedAfter \in Int /\ app'[a].at = app[a].at
  BY BoundsAreNaturals DEF TypeInv, RowsTyped, AppRow, RowsStay
<1> QED
  BY <1>1 DEF RowsStay

(* Consents only go, no list grows and nothing is taken out of raced but   *)
(* with its list.                                                          *)
LEMMA WindowQuiet ==
  ASSUME TypeInv, PurgeWindow, RowsStay, now' >= now, now' \in Int,
         \A k \in Consents : consent'[k].st = "row" => consent[k].st = "row",
         \A q \in Procs : task'[q].rows \subseteq task[q].rows,
         \A q \in Procs : task'[q].rows = {} \/ raced'[q] = raced[q]
  PROVE  PurgeWindow'
<1>1. ASSUME NEW q \in Procs, NEW a \in Apps, a \in task'[q].rows
      PROVE  app'[a].st # "none" /\ app'[a].at < now' - UnusedAfter
  BY <1>1, OldStay DEF PurgeWindow
<1>2. ASSUME NEW q \in Procs, NEW k \in Consents, k[2] \in task'[q].rows, consent'[k].st = "row"
      PROVE  k \in raced'[q]
  BY <1>2 DEF PurgeWindow
<1> QED
  BY <1>1, <1>2 DEF PurgeWindow

LEMMA ClockGoesOn == TypeInv /\ [Next]_vars => now' >= now /\ now' \in Int
<1> SUFFICES ASSUME TypeInv, [Next]_vars PROVE now' >= now /\ now' \in Int
  OBVIOUS
<1>1. now \in Int
  BY BoundsAreNaturals DEF TypeInv, RowsTyped
<1>2. now' = now \/ now' = now + 1
  BY DEF Next, Registration, Register, PurgeScan, PurgeDelete, Authorization, Authorize,
     CreateRequest, Decision, DecideClaim, DecideFindApp, ResolveConsent, CreateConsent,
     IssueCode, Exchange, FindClient, ExchangeClaim, ExchangeRefused, ExchangeReadConsent,
     Issue, PendingRequest, Deletions, DeleteAccount, DeleteExpiredRequests,
     DeleteExpiredCodes, DeleteExpiredOrRevoked, Tick, Crash, vars
<1> QED
  BY <1>1, <1>2

LEMMA ScanWindow ==
  ASSUME TypeInv, PurgeWindow, RowsStay, NEW p \in Procs, PurgeScan(p)
  PROVE  PurgeWindow'
<1> DEFINE t == [Idle EXCEPT !.pc = "delete", !.rows = UnusedRegistrations]
<1>1. Filled(t) /\ t.rows = UnusedRegistrations
  BY DEF Filled, Idle, Task, PCs, OrNone, Deciding, Exchanging, UnusedRegistrations
<1>2. UNCHANGED <<now, app, consent, raced>> /\ now \in Int
  BY BoundsAreNaturals DEF PurgeScan, tables, history, TypeInv, RowsTyped
<1>3. ASSUME End(p) PROVE PurgeWindow'
  BY <1>2, <1>3, EndCalm, WindowQuiet DEF TasksCalm
<1>4. ASSUME GoTo(p, t) PROVE PurgeWindow'
  <2>1. /\ task'[p].rows = UnusedRegistrations
        /\ \A q \in Procs : q # p => task'[q] = task[q]
    BY <1>1, <1>4, GoToTyped DEF TypeInv
  <2>2. \A k \in Consents : k[2] \in UnusedRegistrations => consent[k].st # "row"
    BY DEF UnusedRegistrations, Consents
  <2>3. \A a \in UnusedRegistrations : app[a].st # "none" /\ app[a].at < now - UnusedAfter
    BY DEF UnusedRegistrations
  <2> QED
    BY <1>2, <2>1, <2>2, <2>3 DEF PurgeWindow
<1> QED
  BY <1>3, <1>4 DEF PurgeScan

LEMMA DeleteWindow ==
  ASSUME TypeInv, PurgeWindow, RowsStay, NEW p \in Procs, PurgeDelete(p)
  PROVE  PurgeWindow'
<1>1. \A k \in Consents : consent'[k].st = "row" => consent[k].st = "row"
  BY DEF TypeInv, RowsTyped, PurgeDelete, Gone, ConsentRow
<1>2. /\ task'[p].rows = {}
      /\ \A q \in Procs : task'[q].rows \subseteq task[q].rows
  BY EndCalm, EndTyped, IdleFilled DEF PurgeDelete, TasksCalm, TypeInv
<1>3. now' = now /\ now \in Int /\ \A q \in Procs : q # p => raced'[q] = raced[q]
  BY BoundsAreNaturals DEF PurgeDelete, TypeInv, RowsTyped
<1> QED
  BY <1>1, <1>2, <1>3, WindowQuiet

LEMMA ConsentWindow ==
  ASSUME TypeInv, PurgeWindow, RowsStay, NEW p \in Procs, CreateConsent(p)
  PROVE  PurgeWindow'
<1> DEFINE k == <<task[p].user, task[p].app>>
<1>1. \A q \in Procs : task'[q].rows \subseteq task[q].rows
  BY EndCalm, ResumeCalm DEF CreateConsent, At, Deciding, TasksCalm
<1>2. UNCHANGED <<now, app>> /\ now \in Int
  BY BoundsAreNaturals DEF CreateConsent, TypeInv, RowsTyped
<1>3. CASE UNCHANGED <<consent, raced>>
  BY <1>1, <1>2, <1>3, WindowQuiet
<1>4. CASE /\ consent' = [consent EXCEPT ![k].st = "row"]
           /\ raced' = [q \in Procs |-> IF k[2] \in task[q].rows
                                       THEN raced[q] \cup {k} ELSE raced[q]]
  <2>1. \A i \in Consents : i # k => consent'[i] = consent[i]
    BY <1>4 DEF TypeInv, RowsTyped
  <2>2. \A q \in Procs : /\ raced[q] \subseteq raced'[q]
                         /\ k[2] \in task[q].rows => k \in raced'[q]
    BY <1>4
  <2> QED
    BY <1>1, <1>2, <2>1, <2>2 DEF PurgeWindow
<1> QED
  BY <1>3, <1>4 DEF CreateConsent

LEMMA WindowStep == TypeInv /\ PurgeWindow /\ [Next]_vars => PurgeWindow'
<1> SUFFICES ASSUME TypeInv, PurgeWindow, [Next]_vars PROVE PurgeWindow'
  OBVIOUS
<1>0. RowsStay /\ now' >= now /\ now' \in Int
  BY RowsStayStep, ClockGoesOn
<1>1. TasksCalm /\ UNCHANGED <<consent, raced>> => PurgeWindow'
  BY <1>0, WindowQuiet DEF TasksCalm
<1>2. ASSUME NEW p \in Procs, Registration(p) PROVE PurgeWindow'
  BY <1>0, <1>1, <1>2, NextCalm, ScanWindow, DeleteWindow DEF Registration, Register, history
<1>3. ASSUME NEW p \in Procs, Authorization(p) PROVE PurgeWindow'
  BY <1>1, <1>3, NextCalm DEF Authorization, Authorize, CreateRequest, tables, history
<1>4. ASSUME NEW p \in Procs, Decision(p) PROVE PurgeWindow'
  BY <1>0, <1>1, <1>4, NextCalm, ConsentWindow
     DEF Decision, DecideClaim, DecideFindApp, ResolveConsent, IssueCode, tables, history
<1>5. ASSUME NEW p \in Procs, NEW x \in Codes, NEW uri \in Uris, NEW v \in Verifiers,
             ExchangeClaim(p, x, uri, v)
      PROVE PurgeWindow'
  <2> DEFINE t == [task[p] EXCEPT !.pc = "vigency", !.code = x, !.uri = uri, !.verifier = v]
  <2>1. Filled(task[p]) /\ task[p].pc = "token"
    BY <1>5 DEF TypeInv, TasksTyped, ExchangeClaim, At
  <2>2. Filled(t) /\ t.rows = task[p].rows
    BY <2>1 DEF Filled, Task, PCs, OrNone, Deciding, Exchanging
  <2>3. GoTo(p, t) => \A q \in Procs : task'[q].rows \subseteq task[q].rows
    BY <2>2, GoToTyped DEF TypeInv
  <2>4. \A q \in Procs : task'[q].rows \subseteq task[q].rows
    BY <1>5, <2>3, EndCalm DEF ExchangeClaim, TasksCalm
  <2> QED
    BY <1>0, <1>5, <2>4, WindowQuiet DEF ExchangeClaim, history
<1>6. ASSUME NEW p \in Procs, Exchange(p) PROVE PurgeWindow'
  BY <1>1, <1>5, <1>6, NextCalm
     DEF Exchange, FindClient, ExchangeRefused, ExchangeReadConsent, Issue, tables, history
<1>7. CASE (\E r \in Requests : PendingRequest(r)) \/ Tick \/ UNCHANGED vars
  BY <1>1, <1>7 DEF PendingRequest, Tick, vars, tables, history, TasksCalm, StepsOn
<1>8. CASE Crash
  <2>1. \A q \in Procs : task'[q].rows = {}
    BY <1>8, IdleFilled DEF Crash
  <2> QED
    BY <2>1 DEF PurgeWindow
<1>9. CASE Deletions
  <2>1. RowsTaken
    BY <1>9, DeletionsTake
  <2>2. \A k \in Consents : consent'[k].st = "row" => consent[k].st = "row"
    BY <2>1 DEF TypeInv, RowsTyped, RowsTaken, ConsentRow
  <2> QED
    BY <1>0, <2>1, <2>2, WindowQuiet DEF RowsTaken, history
<1> QED
  BY <1>2, <1>3, <1>4, <1>6, <1>7, <1>8, <1>9 DEF Next

-----------------------------------------------------------------------------
LEMMA InitInvs == Init => GrantInv /\ PurgeWindow
<1> SUFFICES ASSUME Init PROVE GrantInv /\ PurgeWindow
  OBVIOUS
<1>1. Carried
  BY IdleFilled DEF Init, Carried, NoRequest, NoCode, NoCred, TaskCarries, Deciding, Exchanging
<1>2. MintsOnce
  BY IdleFilled DEF Init, MintsOnce, NoCred, Exchanging
<1>3. PurgeWindow
  BY IdleFilled DEF Init, PurgeWindow
<1> QED
  BY <1>1, <1>2, <1>3 DEF GrantInv

ServerInv == TypeInv /\ GrantInv /\ PurgeWindow

LEMMA ServerAlways == Spec => []ServerInv
<1>1. Init => ServerInv
  BY InitTypes, InitInvs DEF ServerInv
<1>2. ServerInv /\ [Next]_vars => ServerInv'
  BY TypeStep, CarriedAlways, MintsOnceStep, WindowStep DEF ServerInv, GrantInv
<1> QED
  BY <1>1, <1>2, PTL DEF Spec

(* What redirectUriMatches accepts leads to the same place.                *)
LEMMA MatchIsSame ==
  ASSUME NEW a, NEW b, RedirectUriMatches(a, b)
  PROVE  Same(b, a)
  BY DEF RedirectUriMatches, MatchesIgnoringLoopbackPort, Same

(* A browser is only ever sent to a place its application registered, and  *)
(* a code goes where the screen said (initiate_authorization.ts:56-68).    *)
LEMMA RedirectsFollow == TypeInv /\ GrantInv => RedirectsStayRegistered
<1> SUFFICES ASSUME TypeInv, GrantInv PROVE RedirectsStayRegistered
  OBVIOUS
<1>1. ASSUME sent # None
      PROVE  \E registered \in app[sent.app].uris : Same(sent.to, registered)
  <2>1. Matches(sent.app, sent.to)
    BY <1>1 DEF GrantInv, Carried
  <2>2. app[sent.app].uris \subseteq Uris
    BY <2>1 DEF Matches, TypeInv, RowsTyped, AppRow
  <2> QED
    BY <2>1, <2>2, MatchIsSame DEF Matches
<1>2. ASSUME NEW x \in Codes, code[x].st # "none", shown[code[x].req] # None
      PROVE  shown[code[x].req] =
                [app |-> code[x].consent[2], anchor |-> DisplayAnchor(code[x].uri)]
  BY <1>2 DEF GrantInv, Carried, CodeCarries, FromRequest, Screen
<1> QED
  BY <1>1, <1>2 DEF RedirectsStayRegistered

LEMMA TokensFollow == TypeInv /\ GrantInv => TokensMatchTheGrant
<1> SUFFICES ASSUME TypeInv, GrantInv, NEW c \in Creds, cred[c].st # "none"
             PROVE  LET x == code[cred[c].code]
                        r == request[x.req]
                    IN  /\ cred[c].client = r.app /\ cred[c].consent[2] = r.app
                        /\ cred[c].verifier = r.challenge /\ Same(cred[c].uri, r.uri)
                        /\ x.consumed
                        /\ \A d \in Creds \ {c} : cred[d].code # cred[c].code
  BY DEF TokensMatchTheGrant
<1> DEFINE x == cred[c].code
           r == code[x].req
<1>1. CredCarries(c) /\ x \in Codes /\ CodeCarries(x)
  BY DEF GrantInv, Carried, CredCarries, FromCode
<1>2. /\ r \in Requests /\ request[r].st # "none" /\ code[x].consumed
      /\ code[x].consent[2] = request[r].app /\ code[x].uri = request[r].uri
      /\ code[x].challenge = request[r].challenge
      /\ cred[c].client = code[x].consent[2] /\ cred[c].consent = code[x].consent
      /\ cred[c].verifier = code[x].challenge /\ cred[c].uri \in Uris
      /\ RedirectUriMatches(code[x].uri, cred[c].uri)
  BY <1>1 DEF CredCarries, FromCode, CodeCarries, FromRequest
<1>3. request[r].uri \in Uris
  BY <1>2 DEF GrantInv, Carried, RequestCarries, Matches
<1>4. Same(cred[c].uri, request[r].uri)
  BY <1>2, <1>3, MatchIsSame
<1>5. \A d \in Creds \ {c} : cred[d].code # x
  BY <1>1, NoneIsNoCode DEF GrantInv, MintsOnce
<1> QED
  BY <1>2, <1>4, <1>5

(* GrantsAreBound: whoever holds a credential is the application that sent *)
(* the browser to /authorize and has shown the verifier of that request; a *)
(* code mints once, and a browser only goes where its application          *)
(* registered (exchange_authorization_code.ts:35-79).                      *)
THEOREM GrantsCorrect == Spec => []GrantsAreBound
<1>1. ServerInv => GrantsAreBound
  BY RedirectsFollow, TokensFollow DEF ServerInv, GrantsAreBound
<1> QED
  BY <1>1, ServerAlways, PTL

(* ConsentedAppsStay: a consent goes with its account, or with a purge of  *)
(* unused registrations that had looked before the consent came, when the  *)
(* registration was already too old (register_app.ts:20).                  *)
LEMMA ConsentGoesStep ==
  ASSUME TypeInv, PurgeWindow, [Next]_vars, NEW k \in Consents,
         consent[k].st = "row", consent'[k].st # "row"
  PROVE  \/ user'[k[1]] # "row"
         \/ app[k[2]].at < now - UnusedAfter /\ \E p \in Procs : k \in raced[p]
<1>1. ASSUME NEW p \in Procs, PurgeDelete(p)
      PROVE  app[k[2]].at < now - UnusedAfter /\ k \in raced[p]
  <2>1. k[2] \in task[p].rows /\ k[2] \in Apps
    BY <1>1 DEF TypeInv, RowsTyped, PurgeDelete, Gone, Consents
  <2> QED
    BY <2>1 DEF PurgeWindow
<1>2. ASSUME NEW p \in Procs, CreateConsent(p)
      PROVE  consent'[k].st = "row"
  BY <1>2 DEF CreateConsent, TypeInv, RowsTyped, ConsentRow
<1>3. CASE Deletions
  BY <1>3, DeletionsTake DEF RowsTaken
<1> QED
  BY <1>1, <1>2, <1>3 DEF Next, Registration, Register, PurgeScan, Authorization, Authorize,
     CreateRequest, Decision, DecideClaim, DecideFindApp, ResolveConsent, IssueCode,
     Exchange, FindClient, ExchangeClaim, ExchangeRefused, ExchangeReadConsent, Issue,
     PendingRequest, Tick, Crash, vars, tables

(* ConsentedAppsStay: a consent is taken by its account's deletion, or by a *)
(* purge that looked before it was inserted, and whose registration was    *)
(* too old by then (register_app.ts:20-26, 63-77).                         *)
THEOREM PurgeCorrect == Spec => ConsentedAppsStay
<1>1. TypeInv /\ PurgeWindow /\ [Next]_vars =>
         [\A k \in Consents : consent[k].st = "row" /\ consent'[k].st # "row" =>
             \/ user'[k[1]] # "row"
             \/ app[k[2]].at < now - UnusedAfter /\ \E p \in Procs : k \in raced[p]]_vars
  BY ConsentGoesStep
<1>2. ServerInv => TypeInv /\ PurgeWindow
  BY DEF ServerInv
<1> QED
  BY <1>1, <1>2, ServerAlways, PTL DEF Spec, ConsentedAppsStay

(* How rows go: an application when its registration is too old, with what *)
(* belongs to it; what belongs to an account, with the account; a request  *)
(* and a code also once they have expired.                                 *)
RowsLeave ==
    /\ \A a \in Apps : app[a].st = "row" /\ app'[a].st # "row" =>
          app[a].at < now - UnusedAfter
    /\ \A r \in Requests : request[r].st = "row" /\ request'[r].st # "row" =>
          app'[request[r].app].st # "row" \/ request[r].until < now
    /\ \A x \in Codes : code[x].st = "row" /\ code'[x].st # "row" =>
          \/ user'[code[x].consent[1]] # "row"
          \/ app'[code[x].consent[2]].st # "row"
          \/ code[x].until < now

LEMMA RowsLeaveStep == TypeInv /\ PurgeWindow /\ [Next]_vars => RowsLeave
<1> SUFFICES ASSUME TypeInv, PurgeWindow, [Next]_vars PROVE RowsLeave
  OBVIOUS
<1>1. ASSUME NEW p \in Procs, PurgeDelete(p) PROVE RowsLeave
  <2> DEFINE as == task[p].rows
  <2>1. \A a \in Apps : a \in as => app'[a].st # "row"
    BY <1>1 DEF TypeInv, RowsTyped, PurgeDelete, Gone, AppRow
  <2>2. \A a \in Apps : app[a].st = "row" /\ app'[a].st # "row" => a \in as
    BY <1>1 DEF TypeInv, RowsTyped, PurgeDelete, Gone
  <2>3. \A r \in Requests : request[r].st = "row" /\ request'[r].st # "row" =>
           request[r].app \in as
    BY <1>1 DEF TypeInv, RowsTyped, PurgeDelete, Gone
  <2>4. \A x \in Codes : code[x].st = "row" /\ code'[x].st # "row" =>
           code[x].consent \in Consents /\ code[x].consent[2] \in as
    BY <1>1 DEF TypeInv, RowsTyped, PurgeDelete, Gone
  <2>5. \A k \in Consents : k[2] \in Apps
    BY DEF Consents
  <2>6. \A r \in Requests : request[r].st = "row" => request[r].app \in Apps
    BY DEF TypeInv, ForeignKeys
  <2> QED
    BY <2>1, <2>2, <2>3, <2>4, <2>5, <2>6 DEF RowsLeave, PurgeWindow
<1>2. CASE Deletions
  <2>1. RowsTaken
    BY <1>2, DeletionsTake
  <2> QED
    BY <2>1 DEF RowsTaken, RowsLeave
<1>3. (UNCHANGED <<app, request, code>>) => RowsLeave
  BY DEF RowsLeave
<1>4. ASSUME NEW p \in Procs, NEW a \in Apps, NEW uris \in SUBSET Uris, Register(p, a, uris)
      PROVE  RowsLeave
  BY <1>4 DEF Register, RowsLeave, TypeInv, RowsTyped
<1>5. ASSUME NEW p \in Procs, NEW r \in Requests, CreateRequest(p, r)
      PROVE  RowsLeave
  BY <1>5 DEF CreateRequest, RowsLeave, TypeInv, RowsTyped
<1>6. ASSUME NEW p \in Procs, NEW r \in Requests, NEW u \in Users, DecideClaim(p, r, u)
      PROVE  RowsLeave
  BY <1>6 DEF DecideClaim, RowsLeave, TypeInv, RowsTyped, RequestRow
<1>7. ASSUME NEW p \in Procs, NEW x \in Codes, IssueCode(p, x)
      PROVE  RowsLeave
  BY <1>7 DEF IssueCode, RowsLeave, TypeInv, RowsTyped
<1>8. ASSUME NEW p \in Procs, NEW x \in Codes, NEW uri \in Uris, NEW v \in Verifiers,
             ExchangeClaim(p, x, uri, v)
      PROVE  RowsLeave
  BY <1>8 DEF ExchangeClaim, RowsLeave, TypeInv, RowsTyped, CodeRow
<1> QED
  BY <1>1, <1>2, <1>3, <1>4, <1>5, <1>6, <1>7, <1>8
     DEF Next, Registration, PurgeScan, Authorization, Authorize, Decision, DecideFindApp,
         ResolveConsent, CreateConsent, Exchange, FindClient, ExchangeRefused,
         ExchangeReadConsent, Issue, PendingRequest, Tick, Crash, vars, tables

(* What a row carries never changes once it is inserted: the application,  *)
(* redirect URI, challenge and consent are handed on, never rewritten, and *)
(* a code that was used stays used.  Applications, requests and codes      *)
(* leave their tables in no other way than those of RowsLeave.             *)
THEOREM RowsKeepWhatTheyCarry == Spec => [][RowsStay /\ RowsLeave]_vars
<1>1. TypeInv /\ PurgeWindow /\ [Next]_vars => [RowsStay /\ RowsLeave]_vars
  BY RowsStayStep, RowsLeaveStep
<1>2. ServerInv => TypeInv /\ PurgeWindow
  BY DEF ServerInv
<1> QED
  BY <1>1, <1>2, ServerAlways, PTL DEF Spec
=============================================================================
