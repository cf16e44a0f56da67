--------------------------- MODULE AccountsProofs ---------------------------
(***************************************************************************)
(* Proofs about Accounts, for any number of users, sessions, tokens and    *)
(* requests, any lifetimes and any limits: every account keeps a way in,   *)
(* no session of an earlier password outlives the end of a change or a     *)
(* reset, recoveries stay within their quota, and the cleanup takes no     *)
(* session that is still valid.                                            *)
(***************************************************************************)
EXTENDS Accounts, FiniteSetTheorems, TLAPS

-----------------------------------------------------------------------------
(* The inductive invariant, in three parts.                                *)

(* What a request must hold at the statement it has come to.               *)
NeedsUser == {"announce", "session", "touch", "load", "update", "revoke",
              "purge", "invalidate", "issue", "exists", "link"}
NeedsSubject == {"linked", "accounts", "exists", "link", "create"}
Proper(q) ==
    /\ q \in Request
    /\ q.pc \in NeedsUser => q.user \in Users
    /\ q.pc \in NeedsSubject => q.subject \in Subjects
    /\ q.pc = "touch" => q.item \in Sessions
    /\ q.at <= now

TablesOK ==
    /\ now \in Times
    /\ account \in [Users -> Account] /\ subscribed \subseteq Users
    /\ session \in [Sessions -> Session]
    /\ token \in [Tokens -> Token] /\ flow \in [Flows -> Flow]
    /\ link \in [Subjects -> Users \cup {None}]
    /\ left \in [Operations -> Nat]
    /\ failures \in 0 .. MaxFailures /\ cut \subseteq Users

RequestsOK ==
    /\ req \in [Requests -> Request]
    /\ \A r \in Requests : Proper(req[r])

(* The unique indexes and the foreign keys.                                *)
KeysOK ==
    /\ \A u, v \in Users :
          u # v /\ account[u].st = "live" /\ account[v].st = "live"
             => account[u].email # account[v].email
    /\ \A g, h \in Subjects :
          g # h /\ link[g] # None => link[g] # link[h]
    /\ \A s \in Sessions : session[s].st = "live"
          => session[s].user \in Users /\ Exists(session[s].user)
    /\ \A g \in Subjects : link[g] # None => Exists(link[g])
    /\ \A t \in Tokens : token[t].st # "none"
          => token[t].user \in Users /\ account[token[t].user].st # "none"

AccountInv == TablesOK /\ RequestsOK /\ KeysOK /\ NoAccountWithoutAccess

(* Recoveries that overlap know of it, and one about to issue a token      *)
(* alone has left none open.                                               *)
Overlaps ==
    \A u \in Users : \A q, r \in Recovering(u) :
       q # r => req[q].raced /\ req[r].raced
IssuesAlone ==
    \A r \in Requests, t \in Tokens :
       /\ req[r].pc = "issue" /\ token[t].st = "pending"
       /\ token[t].user = req[r].user
       => token[t].raced /\ req[r].raced

(* What the sweep has deleted of a live account is outside every window    *)
(* that can still be asked for.                                            *)
Swept ==
    \A t \in Tokens :
       /\ token[t].created <= now
       /\ token[t].st = "deleted" /\ Exists(token[t].user)
             => token[t].created + Window < now

(* The tokens the quota is about, from an instant on.                      *)
Since(u, from) ==
    {t \in Tokens : /\ token[t].st # "none" /\ token[t].user = u
                    /\ ~token[t].raced /\ token[t].created >= from}
(* A recovery that has passed the quota and overlapped with none still has *)
(* room for the token it will issue.                                       *)
RoomLeft ==
    \A u \in Users : \A r \in Recovering(u) :
       ~req[r].raced => Cardinality(Since(u, req[r].at - Window)) < Limit
Issued == {t \in Tokens : token[t].st # "none"}
Blank == \A t \in Tokens : token[t].st = "none" => token[t].user = None

RecoveryInv ==
    /\ Overlaps /\ IssuesAlone /\ Swept /\ RoomLeft /\ IsFiniteSet(Issued) /\ Blank
    /\ OneTokenAtATime /\ QuotaHolds

-----------------------------------------------------------------------------
(* What the actions have in common.                                        *)

LEMMA IdleIsProper ==
    ASSUME TablesOK
    PROVE  Idle \in Request /\ Proper(Idle) /\ Idle.pc = "idle"
BY AccountsAssumption DEF Idle, Request, Proper, NeedsUser, NeedsSubject, Operations,
   TablesOK, Times

LEMMA RequestMoves ==
    ASSUME RequestsOK, NEW r \in Requests, NEW q, Proper(q),
           req' = [req EXCEPT ![r] = q], now' = now
    PROVE  RequestsOK' /\ req'[r] = q /\ \A p \in Requests \ {r} : req'[p] = req[p]
<1>1. /\ req' \in [Requests -> Request] /\ req'[r] = q
      /\ \A p \in Requests \ {r} : req'[p] = req[p]
  BY DEF RequestsOK, Proper
<1>2. \A p \in Requests : Proper(req'[p])
  <2> TAKE p \in Requests
  <2>1. CASE p = r
    BY <1>1, <2>1
  <2>2. CASE p # r
    BY <1>1, <2>2 DEF RequestsOK
  <2> QED
    BY <2>1, <2>2
<1>3. \A p \in Requests : Proper(req[p])'
  BY <1>2 DEF Proper
<1> QED
  BY <1>1, <1>3 DEF RequestsOK

(* The same for the ways in which the actions write it.                    *)
LEMMA GoToMoves ==
    ASSUME RequestsOK, NEW r \in Requests, NEW pc, GoTo(r, pc), now' = now,
           Proper([req[r] EXCEPT !.pc = pc])
    PROVE  /\ RequestsOK' /\ req'[r] = [req[r] EXCEPT !.pc = pc]
           /\ \A p \in Requests \ {r} : req'[p] = req[p]
<1>1. PICK q : q = [req[r] EXCEPT !.pc = pc]
  OBVIOUS
<1>2. req' = [req EXCEPT ![r] = q]
  BY <1>1 DEF GoTo
<1> QED
  BY <1>1, <1>2, RequestMoves

LEMMA EndMoves ==
    ASSUME TablesOK, RequestsOK, NEW r \in Requests, End(r), now' = now
    PROVE  /\ RequestsOK' /\ req'[r] = Idle
           /\ \A p \in Requests \ {r} : req'[p] = req[p]
BY IdleIsProper, RequestMoves DEF End

LEMMA BeginMoves ==
    ASSUME TablesOK, RequestsOK, NEW r \in Requests, NEW op \in Operations, NEW pc, NEW f,
           Begin(r, op, pc, f), Proper([f EXCEPT !.op = op, !.pc = pc])
    PROVE  /\ RequestsOK' /\ req'[r] = [f EXCEPT !.op = op, !.pc = pc]
           /\ \A p \in Requests \ {r} : req'[p] = req[p]
           /\ req[r].pc = "idle" /\ UNCHANGED <<now, failures, cut>>
           /\ left' \in [Operations -> Nat]
<1>1. /\ req[r].pc = "idle" /\ UNCHANGED <<now, failures, cut>>
      /\ req' = [req EXCEPT ![r] = [f EXCEPT !.op = op, !.pc = pc]]
      /\ left[op] > 0 /\ left' = [left EXCEPT ![op] = left[op] - 1]
  BY DEF Begin, Spend
<1>2. left' \in [Operations -> Nat]
  BY <1>1 DEF TablesOK
<1> QED
  BY <1>1, <1>2, RequestMoves

LEMMA SpendKeeps ==
    ASSUME TablesOK, NEW op \in Operations, Spend(op)
    PROVE  left' \in [Operations -> Nat]
BY DEF Spend, TablesOK

(* No row comes to life, and no account or identity changes.               *)
LEMMA RowsOnlyGo ==
    ASSUME KeysOK, NoAccountWithoutAccess, UNCHANGED <<account, link>>,
           \A s \in Sessions : session'[s].st = "live"
              => session[s].st = "live" /\ session'[s].user = session[s].user,
           \A t \in Tokens : token'[t].st # "none"
              => token[t].st # "none" /\ token'[t].user = token[t].user
    PROVE  KeysOK' /\ NoAccountWithoutAccess'
BY DEF KeysOK, NoAccountWithoutAccess, Exists, Linked

LEMMA InitAccount == Init => AccountInv
<1> SUFFICES ASSUME Init PROVE AccountInv
  OBVIOUS
<1>1. TablesOK
  BY AccountsAssumption DEF Init, TablesOK, Times, Account, Session, Token, Flow
<1>2. RequestsOK
  BY <1>1, IdleIsProper DEF Init, RequestsOK
<1>3. KeysOK /\ NoAccountWithoutAccess
  BY DEF Init, KeysOK, NoAccountWithoutAccess, Exists
<1> QED
  BY <1>1, <1>2, <1>3 DEF AccountInv

-----------------------------------------------------------------------------
(* Types, keys and a way in: one lemma per action.                         *)

LEMMA RegisterKeeps ==
    ASSUME AccountInv, NEW r \in Requests, Register(r)
    PROVE  AccountInv'
<1> USE DEF AccountInv
<1>1. PICK e \in Emails :
         Begin(r, "register", "adduser", [Idle EXCEPT !.email = e, !.via = "register"])
  BY DEF Register
<1>2. UNCHANGED <<account, subscribed, link, session, token, flow>>
  BY DEF Register, accounts
<1>3. PICK f : f = [Idle EXCEPT !.email = e, !.via = "register"]
  OBVIOUS
<1>4. Proper([f EXCEPT !.op = "register", !.pc = "adduser"])
  BY <1>3, IdleIsProper DEF Proper, Request, Idle, Operations, NeedsUser, NeedsSubject
<1>5. /\ RequestsOK' /\ UNCHANGED <<now, failures, cut>>
      /\ left' \in [Operations -> Nat]
  BY <1>1, <1>3, <1>4, BeginMoves DEF Operations
<1>6. TablesOK'
  BY <1>2, <1>5 DEF TablesOK
<1> QED
  BY <1>2, <1>5, <1>6, RowsOnlyGo

LEMMA SignInKeeps ==
    ASSUME AccountInv, NEW r \in Requests, SignIn(r)
    PROVE  AccountInv'
<1> USE DEF AccountInv
<1>1. PICK u \in Users :
         Begin(r, "signin", "session", [Idle EXCEPT !.user = u, !.via = "password"])
  BY DEF SignIn
<1>2. UNCHANGED <<account, subscribed, link, session, token, flow>>
  BY DEF SignIn, accounts
<1>3. PICK f : f = [Idle EXCEPT !.user = u, !.via = "password"]
  OBVIOUS
<1>4. Proper([f EXCEPT !.op = "signin", !.pc = "session"])
  BY <1>3, IdleIsProper DEF Proper, Request, Idle, Operations, NeedsUser, NeedsSubject
<1>5. /\ RequestsOK' /\ UNCHANGED <<now, failures, cut>>
      /\ left' \in [Operations -> Nat]
  BY <1>1, <1>3, <1>4, BeginMoves DEF Operations
<1>6. TablesOK'
  BY <1>2, <1>5 DEF TablesOK
<1> QED
  BY <1>2, <1>5, <1>6, RowsOnlyGo

LEMMA AuthenticateKeeps ==
    ASSUME AccountInv, NEW r \in Requests, NEW op \in {"visit", "change", "purge"},
           Authenticate(r, op)
    PROVE  AccountInv'
<1> USE DEF AccountInv
<1>1. PICK s \in Sessions, pc \in {"touch", "load"} :
         /\ Valid(s)
         /\ Begin(r, op, pc, [Idle EXCEPT !.user = session[s].user, !.item = s, !.at = now])
  BY DEF Authenticate
<1>2. UNCHANGED <<account, subscribed, link, session, token, flow>>
  BY DEF Authenticate, accounts
<1>3. PICK f : f = [Idle EXCEPT !.user = session[s].user, !.item = s, !.at = now]
  OBVIOUS
<1>4. Proper([f EXCEPT !.op = op, !.pc = pc])
  <2>1. session[s].user \in Users /\ now \in Times /\ now <= now
    BY <1>1, AccountsAssumption DEF Valid, KeysOK, TablesOK, Times
  <2> QED
    BY <1>3, <2>1, IdleIsProper DEF Proper, Request, Idle, Operations, NeedsUser, NeedsSubject
<1>5. /\ RequestsOK' /\ UNCHANGED <<now, failures, cut>>
      /\ left' \in [Operations -> Nat]
  <2>1. op \in Operations
    BY DEF Operations
  <2>2. Begin(r, op, pc, f)
    BY <1>1, <1>3
  <2> QED
    BY <1>4, <2>1, <2>2, BeginMoves
<1>6. TablesOK'
  BY <1>2, <1>5 DEF TablesOK
<1> QED
  BY <1>2, <1>5, <1>6, RowsOnlyGo

LEMMA ResetPasswordKeeps ==
    ASSUME AccountInv, NEW r \in Requests, ResetPassword(r)
    PROVE  AccountInv'
<1> USE DEF AccountInv
<1>1. PICK t \in Tokens :
         /\ Claimable(t) /\ Consume({t})
         /\ IF token[t].created + TokenTtl > now
            THEN Begin(r, "reset", "load", [Idle EXCEPT !.user = token[t].user, !.item = t])
            ELSE /\ req[r].pc = "idle" /\ Spend("reset")
                 /\ UNCHANGED <<now, req, failures, cut>>
  BY DEF ResetPassword
<1>2. UNCHANGED <<account, subscribed, link, session, flow>>
  BY DEF ResetPassword, accounts
<1>3. /\ token' \in [Tokens -> Token]
      /\ \A v \in Tokens : /\ token'[v].user = token[v].user
                           /\ token'[v].st # "none" => token[v].st # "none"
  BY <1>1 DEF Consume, Claimable, TablesOK, Token
<1>4. /\ RequestsOK' /\ UNCHANGED <<now, failures, cut>>
      /\ left' \in [Operations -> Nat]
  <2>1. CASE token[t].created + TokenTtl > now
    <3>1. PICK f : f = [Idle EXCEPT !.user = token[t].user, !.item = t]
      OBVIOUS
    <3>2. token[t].user \in Users
      BY <1>1 DEF Claimable, KeysOK
    <3>3. Proper([f EXCEPT !.op = "reset", !.pc = "load"])
      BY <3>1, <3>2, IdleIsProper DEF Proper, Request, Idle, Operations, NeedsUser, NeedsSubject
    <3> QED
      BY <1>1, <2>1, <3>1, <3>3, BeginMoves DEF Operations
  <2>2. CASE ~(token[t].created + TokenTtl > now)
    BY <1>1, <2>2, SpendKeeps DEF RequestsOK, Proper, Operations
  <2> QED
    BY <2>1, <2>2
<1>5. TablesOK'
  BY <1>2, <1>3, <1>4 DEF TablesOK
<1> QED
  BY <1>2, <1>3, <1>4, <1>5, RowsOnlyGo

LEMMA CompleteExternalKeeps ==
    ASSUME AccountInv, NEW r \in Requests, CompleteExternal(r)
    PROVE  AccountInv'
<1> USE DEF AccountInv
<1>1. PICK f \in Flows :
         /\ flow' = [flow EXCEPT ![f].st = "consumed"]
         /\ \/ ExchangeFails(r)
            \/ \E id \in AttestedIdentity :
                  Begin(r, "external", "linked",
                        [Idle EXCEPT !.item = f, !.subject = id.subject,
                            !.email = id.email, !.verified = id.verified])
  BY DEF CompleteExternal
<1>2. UNCHANGED <<account, subscribed, link, session, token>>
  BY DEF CompleteExternal, accounts
<1>3. flow' \in [Flows -> Flow]
  BY <1>1 DEF TablesOK, Flow
<1>4. /\ RequestsOK' /\ UNCHANGED <<now, failures, cut>>
      /\ left' \in [Operations -> Nat]
  <2>1. CASE ExchangeFails(r)
    BY <2>1, SpendKeeps DEF ExchangeFails, RequestsOK, Proper, Operations
  <2>2. ASSUME NEW id \in AttestedIdentity,
               Begin(r, "external", "linked",
                     [Idle EXCEPT !.item = f, !.subject = id.subject,
                         !.email = id.email, !.verified = id.verified])
        PROVE  /\ RequestsOK' /\ UNCHANGED <<now, failures, cut>>
               /\ left' \in [Operations -> Nat]
    <3>1. PICK g : g = [Idle EXCEPT !.item = f, !.subject = id.subject,
                            !.email = id.email, !.verified = id.verified]
      OBVIOUS
    <3>2. Proper([g EXCEPT !.op = "external", !.pc = "linked"])
      BY <3>1, IdleIsProper DEF Proper, Request, Idle, Operations, NeedsUser, NeedsSubject,
         AttestedIdentity
    <3> QED
      BY <2>2, <3>1, <3>2, BeginMoves DEF Operations
  <2> QED
    BY <1>1, <2>1, <2>2
<1>5. TablesOK'
  BY <1>2, <1>3, <1>4 DEF TablesOK
<1> QED
  BY <1>2, <1>4, <1>5, RowsOnlyGo

(* Steps that change nothing but where their request stands.               *)
LEMMA OnlyMoves ==
    ASSUME AccountInv, NEW r \in Requests, NEW q, Proper(q),
           req' = [req EXCEPT ![r] = q],
           UNCHANGED <<now, account, subscribed, session, token, flow, link, left,
                       failures, cut>>
    PROVE  AccountInv'
<1>1. RequestsOK'
  BY RequestMoves DEF AccountInv
<1>2. TablesOK'
  BY DEF AccountInv, TablesOK
<1> QED
  BY <1>1, <1>2, RowsOnlyGo DEF AccountInv

LEMMA LoadKeeps ==
    ASSUME AccountInv, NEW r \in Requests, Load(r)
    PROVE  AccountInv'
<1>1. UNCHANGED <<now, account, subscribed, session, token, flow, link, left,
                  failures, cut>>
  BY DEF Load, At, accounts
<1>2. req[r].pc = "load" /\ Proper(req[r])
  BY DEF Load, At, AccountInv, RequestsOK
<1>3. PICK q : req' = [req EXCEPT ![r] = q] /\
               (q = Idle \/ \E pc \in {"update", "purge"} : q = [req[r] EXCEPT !.pc = pc])
  BY DEF Load, End, GoTo
<1>4. Proper(q)
  BY <1>2, <1>3, IdleIsProper DEF AccountInv, Proper, Request, NeedsUser, NeedsSubject
<1> QED
  BY <1>1, <1>3, <1>4, OnlyMoves

LEMMA FindLinkedKeeps ==
    ASSUME AccountInv, NEW r \in Requests, FindLinked(r)
    PROVE  AccountInv'
<1>1. UNCHANGED <<now, account, subscribed, session, token, flow, link, left,
                  failures, cut>>
  BY DEF FindLinked, At, accounts
<1>2. req[r].pc = "linked" /\ Proper(req[r])
  BY DEF FindLinked, At, AccountInv, RequestsOK
<1>3. PICK u : u = link[req[r].subject]
  OBVIOUS
<1>4. u \in Users \cup {None}
  BY <1>2, <1>3 DEF AccountInv, TablesOK, Proper, NeedsSubject
<1>5. CASE u # None
  <2>1. PICK q : q = [req[r] EXCEPT !.pc = "session", !.user = u, !.via = "linked"]
    OBVIOUS
  <2>2. req' = [req EXCEPT ![r] = q]
    BY <1>3, <1>5, <2>1 DEF FindLinked, LinkedUser, AccountInv, RequestsOK
  <2>3. Proper(q)
    BY <1>2, <1>4, <1>5, <2>1 DEF Proper, Request, NeedsUser, NeedsSubject
  <2> QED
    BY <1>1, <2>2, <2>3, OnlyMoves
<1>6. CASE u = None
  <2>1. PICK q : /\ req' = [req EXCEPT ![r] = q]
                 /\ q = Idle \/ q = [req[r] EXCEPT !.pc = "accounts"]
    BY <1>3, <1>6 DEF FindLinked, LinkedUser, End, GoTo
  <2>2. Proper(q)
    BY <1>2, <2>1, IdleIsProper DEF AccountInv, Proper, Request, NeedsUser, NeedsSubject
  <2> QED
    BY <1>1, <2>1, <2>2, OnlyMoves
<1> QED
  BY <1>5, <1>6

LEMMA FindAccountsKeeps ==
    ASSUME AccountInv, NEW r \in Requests, FindAccounts(r)
    PROVE  AccountInv'
<1>1. UNCHANGED <<now, account, subscribed, session, token, flow, link, left,
                  failures, cut>>
  BY DEF FindAccounts, At, accounts
<1>2. req[r].pc = "accounts" /\ Proper(req[r])
  BY DEF FindAccounts, At, AccountInv, RequestsOK
<1>3. \/ GoTo(r, "create") \/ End(r)
      \/ \E u \in Users : req' = [req EXCEPT ![r].pc = "exists", ![r].user = u]
  BY DEF FindAccounts, WithEmail
<1>4. CASE GoTo(r, "create") \/ End(r)
  <2>1. PICK q : /\ req' = [req EXCEPT ![r] = q]
                 /\ q = Idle \/ q = [req[r] EXCEPT !.pc = "create"]
    BY <1>4 DEF End, GoTo
  <2>2. Proper(q)
    BY <1>2, <2>1, IdleIsProper DEF AccountInv, Proper, Request, NeedsUser, NeedsSubject
  <2> QED
    BY <1>1, <2>1, <2>2, OnlyMoves
<1>5. ASSUME NEW u \in Users, req' = [req EXCEPT ![r].pc = "exists", ![r].user = u]
      PROVE  AccountInv'
  <2>1. PICK q : q = [req[r] EXCEPT !.pc = "exists", !.user = u]
    OBVIOUS
  <2>2. req' = [req EXCEPT ![r] = q]
    BY <1>5, <2>1 DEF AccountInv, RequestsOK
  <2>3. Proper(q)
    BY <1>2, <2>1 DEF Proper, Request, NeedsUser, NeedsSubject
  <2> QED
    BY <1>1, <2>2, <2>3, OnlyMoves
<1> QED
  BY <1>3, <1>4, <1>5

LEMMA ExistsForUserKeeps ==
    ASSUME AccountInv, NEW r \in Requests, ExistsForUser(r)
    PROVE  AccountInv'
<1>1. UNCHANGED <<now, account, subscribed, session, token, flow, link, left,
                  failures, cut>>
  BY DEF ExistsForUser, At, accounts
<1>2. req[r].pc = "exists" /\ Proper(req[r])
  BY DEF ExistsForUser, At, AccountInv, RequestsOK
<1>3. PICK q : /\ req' = [req EXCEPT ![r] = q]
               /\ q = Idle \/ q = [req[r] EXCEPT !.pc = "link"]
  BY DEF ExistsForUser, End, GoTo
<1>4. Proper(q)
  BY <1>2, <1>3, IdleIsProper DEF AccountInv, Proper, Request, NeedsUser, NeedsSubject
<1> QED
  BY <1>1, <1>3, <1>4, OnlyMoves

(* Steps that change one table beside.                                     *)
LEMMA AnnounceKeeps ==
    ASSUME AccountInv, NEW r \in Requests, Announce(r)
    PROVE  AccountInv'
<1>1. UNCHANGED <<now, account, session, token, flow, link, left, failures, cut>>
  BY DEF Announce, At
<1>2. req[r].pc = "announce" /\ Proper(req[r])
  BY DEF Announce, At, AccountInv, RequestsOK
<1>3. PICK q : /\ req' = [req EXCEPT ![r] = q]
               /\ q = Idle \/ q = [req[r] EXCEPT !.pc = "session"]
  BY DEF Announce, End, GoTo
<1>4. Proper(q)
  BY <1>2, <1>3, IdleIsProper DEF AccountInv, Proper, Request, NeedsUser, NeedsSubject
<1>5. subscribed' \subseteq Users
  BY <1>2 DEF Announce, AccountInv, TablesOK, Proper, NeedsUser
<1>6. TablesOK' /\ RequestsOK'
  BY <1>1, <1>3, <1>4, <1>5, RequestMoves DEF AccountInv, TablesOK
<1> QED
  BY <1>1, <1>6, RowsOnlyGo DEF AccountInv

LEMMA TouchKeeps ==
    ASSUME AccountInv, NEW r \in Requests, Touch(r)
    PROVE  AccountInv'
<1>1. UNCHANGED <<now, account, subscribed, token, flow, link, left, failures, cut>>
  BY DEF Touch, At, accounts
<1>2. req[r].pc = "touch" /\ Proper(req[r])
  BY DEF Touch, At, AccountInv, RequestsOK
<1>3. PICK q : q = [req[r] EXCEPT !.pc = "load"]
  OBVIOUS
<1>4. Proper(q) /\ req' = [req EXCEPT ![r] = q]
  BY <1>2, <1>3 DEF Touch, GoTo, Proper, Request, NeedsUser, NeedsSubject
<1>5. /\ session' \in [Sessions -> Session]
      /\ \A s \in Sessions : session'[s].st = session[s].st /\ session'[s].user = session[s].user
  BY <1>2 DEF Touch, AccountInv, TablesOK, Session, Proper, Request
<1>6. TablesOK' /\ RequestsOK'
  BY <1>1, <1>4, <1>5, RequestMoves DEF AccountInv, TablesOK
<1> QED
  BY <1>1, <1>5, <1>6, RowsOnlyGo DEF AccountInv

LEMMA RevokeAllKeeps ==
    ASSUME AccountInv, NEW r \in Requests, RevokeAll(r)
    PROVE  AccountInv'
<1>1. UNCHANGED <<now, account, subscribed, token, flow, link, left, failures>>
  BY DEF RevokeAll, At, accounts
<1>2. req[r].pc = "revoke" /\ req[r].user \in Users /\ account[req[r].user] \in Account
  BY DEF RevokeAll, At, AccountInv, RequestsOK, TablesOK, Proper, NeedsUser
<1>3. /\ session' \in [Sessions -> Session] /\ cut' \subseteq Users
      /\ \A s \in Sessions : session'[s].st = session[s].st /\ session'[s].user = session[s].user
  <2>1. \A s \in Sessions : /\ session'[s] \in Session
                            /\ session'[s].st = session[s].st
                            /\ session'[s].user = session[s].user
    BY <1>2 DEF RevokeAll, AccountInv, TablesOK, Session, Account
  <2> QED
    BY <2>1 DEF RevokeAll, AccountInv, TablesOK
<1>4. RequestsOK'
  BY <1>1, EndMoves DEF RevokeAll, AccountInv
<1>5. TablesOK'
  BY <1>1, <1>3 DEF AccountInv, TablesOK
<1> QED
  BY <1>1, <1>3, <1>4, <1>5, RowsOnlyGo DEF AccountInv

LEMMA InvalidateKeeps ==
    ASSUME AccountInv, NEW r \in Requests, InvalidatePending(r)
    PROVE  AccountInv'
<1>1. UNCHANGED <<now, account, subscribed, session, flow, link, left, failures, cut>>
  BY DEF InvalidatePending, At, accounts
<1>2. req[r].pc = "invalidate" /\ Proper(req[r])
  BY DEF InvalidatePending, At, AccountInv, RequestsOK
<1>3. PICK q : q = [req[r] EXCEPT !.pc = "issue"]
  OBVIOUS
<1>4. Proper(q) /\ req' = [req EXCEPT ![r] = q]
  BY <1>2, <1>3 DEF InvalidatePending, GoTo, Proper, Request, NeedsUser, NeedsSubject
<1>5. /\ token' \in [Tokens -> Token]
      /\ \A t \in Tokens : /\ token'[t].user = token[t].user
                           /\ token'[t].st # "none" => token[t].st # "none"
  BY DEF InvalidatePending, Consume, OpenTokens, AccountInv, TablesOK, Token
<1>6. TablesOK' /\ RequestsOK'
  BY <1>1, <1>4, <1>5, RequestMoves DEF AccountInv, TablesOK
<1> QED
  BY <1>1, <1>5, <1>6, RowsOnlyGo DEF AccountInv

LEMMA PurgeRequestsKeeps ==
    ASSUME AccountInv, NEW r \in Requests, PurgeRequests(r)
    PROVE  AccountInv'
<1>1. UNCHANGED <<now, account, subscribed, session, flow, link, left, failures, cut>>
  BY DEF PurgeRequests, At, accounts
<1>2. /\ token' \in [Tokens -> Token]
      /\ \A t \in Tokens : /\ token'[t].user = token[t].user
                           /\ token'[t].st # "none" => token[t].st # "none"
  BY DEF PurgeRequests, AccountInv, TablesOK, Token
<1>3. RequestsOK'
  BY <1>1, EndMoves DEF PurgeRequests, AccountInv
<1>4. TablesOK'
  BY <1>1, <1>2 DEF AccountInv, TablesOK
<1> QED
  BY <1>1, <1>2, <1>3, <1>4, RowsOnlyGo DEF AccountInv

(* The other requests only learn that they overlap.                        *)
LEMMA ResetRequested ==
    ASSUME AccountInv, NEW r \in Requests, RequestReset(r)
    PROVE  \E u \in Users :
             /\ Exists(u) /\ ~QuotaExceeded(u) /\ req[r].pc = "idle"
             /\ req' \in [Requests -> Request]
             /\ req'[r].pc = "invalidate" /\ req'[r].user = u /\ req'[r].at = now
             /\ req'[r].op = "forgot"
             /\ req'[r].raced = (Recovering(u) # {})
             /\ \A q \in Requests \ {r} :
                   /\ req'[q].pc = req[q].pc /\ req'[q].user = req[q].user
                   /\ req'[q].item = req[q].item /\ req'[q].at = req[q].at
                   /\ req'[q].subject = req[q].subject /\ req'[q].op = req[q].op
                   /\ req'[q].raced = (req[q].raced \/ q \in Recovering(u))
<1>1. PICK u \in Users :
         /\ Exists(u) /\ ~QuotaExceeded(u)
         /\ req' = [q \in Requests |->
               IF q = r
               THEN [Idle EXCEPT !.op = "forgot", !.pc = "invalidate",
                                 !.user = u, !.at = now,
                                 !.raced = Recovering(u) # {}]
               ELSE [req[q] EXCEPT !.raced = @ \/ q \in Recovering(u)]]
  BY DEF RequestReset
<1>2. PICK mine : mine = [Idle EXCEPT !.op = "forgot", !.pc = "invalidate",
                                     !.user = u, !.at = now,
                                     !.raced = Recovering(u) # {}]
  OBVIOUS
<1>3. /\ mine \in Request /\ mine.pc = "invalidate" /\ mine.user = u /\ mine.at = now
      /\ mine.op = "forgot" /\ mine.raced = (Recovering(u) # {})
  BY <1>2, IdleIsProper DEF Idle, Request, AccountInv, TablesOK, Operations
<1>4. ASSUME NEW q \in Requests, q # r
      PROVE  /\ req'[q] \in Request
             /\ req'[q].pc = req[q].pc /\ req'[q].user = req[q].user
             /\ req'[q].item = req[q].item /\ req'[q].at = req[q].at
             /\ req'[q].subject = req[q].subject /\ req'[q].op = req[q].op
             /\ req'[q].raced = (req[q].raced \/ q \in Recovering(u))
  <2>1. PICK b \in BOOLEAN : b = (req[q].raced \/ q \in Recovering(u))
    OBVIOUS
  <2>2. req'[q] = [req[q] EXCEPT !.raced = b]
    BY <1>1, <1>4, <2>1
  <2>3. req[q] \in Request
    BY DEF AccountInv, RequestsOK
  <2>4. /\ req'[q] \in Request /\ req'[q].raced = b
        /\ req'[q].pc = req[q].pc /\ req'[q].user = req[q].user
        /\ req'[q].item = req[q].item /\ req'[q].at = req[q].at
        /\ req'[q].subject = req[q].subject /\ req'[q].op = req[q].op
    BY <2>2, <2>3 DEF Request
  <2> QED
    BY <2>1, <2>4
<1>5. req' \in [Requests -> Request] /\ req'[r] = mine
  <2>1. req'[r] = mine /\ DOMAIN req' = Requests
    BY <1>1, <1>2
  <2>2. \A q \in Requests : req'[q] \in Request
    BY <1>3, <1>4, <2>1
  <2>3. req' = [q \in Requests |-> req'[q]]
    BY <1>1
  <2> QED
    BY <2>1, <2>2, <2>3
<1>6. req[r].pc = "idle"
  BY DEF RequestReset
<1>7. /\ req'[r].pc = "invalidate" /\ req'[r].user = u /\ req'[r].at = now
      /\ req'[r].op = "forgot" /\ req'[r].raced = (Recovering(u) # {})
  BY <1>3, <1>5
<1>8. \A q \in Requests \ {r} :
         /\ req'[q].pc = req[q].pc /\ req'[q].user = req[q].user
         /\ req'[q].item = req[q].item /\ req'[q].at = req[q].at
         /\ req'[q].subject = req[q].subject /\ req'[q].op = req[q].op
         /\ req'[q].raced = (req[q].raced \/ q \in Recovering(u))
  BY <1>4
<1> QED
  BY <1>1, <1>5, <1>6, <1>7, <1>8, Zenon

LEMMA RequestResetKeeps ==
    ASSUME AccountInv, NEW r \in Requests, RequestReset(r)
    PROVE  AccountInv'
<1>1. UNCHANGED <<now, account, subscribed, session, token, flow, link, failures, cut>>
      /\ left' \in [Operations -> Nat]
  BY SpendKeeps DEF RequestReset, accounts, Operations, AccountInv
<1>2. req' \in [Requests -> Request]
  BY ResetRequested
<1>3. \A q \in Requests : Proper(req[q])'
  <2> TAKE q \in Requests
  <2>1. Proper(req[q]) /\ now \in Nat
    BY AccountsAssumption DEF AccountInv, RequestsOK, TablesOK, Times
  <2>2. CASE q = r
    BY <1>1, <2>1, <2>2, ResetRequested DEF Proper, NeedsUser, NeedsSubject
  <2>3. CASE q # r
    BY <1>1, <2>1, <2>3, ResetRequested DEF Proper, NeedsUser, NeedsSubject
  <2> QED
    BY <2>2, <2>3
<1>4. TablesOK' /\ RequestsOK'
  BY <1>1, <1>2, <1>3 DEF AccountInv, TablesOK, RequestsOK
<1> QED
  BY <1>1, <1>4, RowsOnlyGo DEF AccountInv

LEMMA SignOutKeeps ==
    ASSUME AccountInv, SignOut
    PROVE  AccountInv'
<1>1. UNCHANGED <<now, account, subscribed, token, flow, link, req, failures, cut>>
      /\ left' \in [Operations -> Nat]
  BY SpendKeeps DEF SignOut, accounts, Operations, AccountInv
<1>2. /\ session' \in [Sessions -> Session]
      /\ \A s \in Sessions : session'[s].st = session[s].st /\ session'[s].user = session[s].user
  BY DEF SignOut, AccountInv, TablesOK, Session
<1>3. TablesOK' /\ RequestsOK'
  BY <1>1, <1>2 DEF AccountInv, TablesOK, RequestsOK, Proper
<1> QED
  BY <1>1, <1>2, <1>3, RowsOnlyGo DEF AccountInv

(* New names a row that is free.                                           *)
LEMMA NewIsFree ==
    ASSUME NEW table, HasNew(table)
    PROVE  New(table) \in DOMAIN table /\ table[New(table)].st = "none"
BY DEF HasNew, New

LEMMA StartExternalKeeps ==
    ASSUME AccountInv, StartExternal
    PROVE  AccountInv'
<1>1. UNCHANGED <<now, account, subscribed, session, token, link, req, failures, cut>>
      /\ left' \in [Operations -> Nat]
  BY SpendKeeps DEF StartExternal, accounts, Operations, AccountInv
<1>2. NewFlow \in Flow
  BY AccountsAssumption DEF NewFlow, Flow, AccountInv, TablesOK, Times
<1>3. flow' \in [Flows -> Flow]
  BY <1>2 DEF StartExternal, AccountInv, TablesOK
<1>4. TablesOK' /\ RequestsOK'
  BY <1>1, <1>3 DEF AccountInv, TablesOK, RequestsOK, Proper
<1> QED
  BY <1>1, <1>4, RowsOnlyGo DEF AccountInv

LEMMA TickKeeps ==
    ASSUME AccountInv, Tick
    PROVE  AccountInv'
<1>1. UNCHANGED <<account, subscribed, session, token, flow, link, req, failures, cut>>
      /\ left' \in [Operations -> Nat]
  BY SpendKeeps DEF Tick, accounts, Operations, AccountInv
<1>2. now' \in Times /\ now \in Nat /\ now' = now + 1
  BY AccountsAssumption DEF Tick, AccountInv, TablesOK, Times
<1>3. \A r \in Requests : Proper(req[r])'
  <2> TAKE r \in Requests
  <2>1. Proper(req[r]) /\ req[r].at \in Nat
    BY AccountsAssumption DEF AccountInv, RequestsOK, Request, Times
  <2> QED
    BY <1>1, <1>2, <2>1 DEF Proper
<1>4. TablesOK' /\ RequestsOK'
  BY <1>1, <1>2, <1>3 DEF AccountInv, TablesOK, RequestsOK
<1> QED
  BY <1>1, <1>4, RowsOnlyGo DEF AccountInv

LEMMA CleanupKeeps ==
    ASSUME AccountInv, Cleanup
    PROVE  AccountInv'
<1>1. UNCHANGED <<now, account, subscribed, token, link, req, failures, cut>>
      /\ left' \in [Operations -> Nat]
  BY SpendKeeps DEF Cleanup, accounts, Operations, AccountInv
<1>2. /\ session' \in [Sessions -> Session]
      /\ \A s \in Sessions : /\ session'[s].user = session[s].user
                             /\ session'[s].st = "live" => session[s].st = "live"
  BY DEF Cleanup, AccountInv, TablesOK, Session
<1>3. flow' \in [Flows -> Flow]
  BY DEF Cleanup, AccountInv, TablesOK, Flow
<1>4. TablesOK' /\ RequestsOK'
  BY <1>1, <1>2, <1>3 DEF AccountInv, TablesOK, RequestsOK, Proper
<1> QED
  BY <1>1, <1>2, <1>4, RowsOnlyGo DEF AccountInv

LEMMA FailKeeps ==
    ASSUME AccountInv, NEW r \in Requests, Fail(r)
    PROVE  AccountInv'
<1>1. UNCHANGED <<now, account, subscribed, session, token, flow, link, left>>
  BY DEF Fail, accounts
<1>2. failures' \in 0 .. MaxFailures
  BY AccountsAssumption DEF Fail, AccountInv, TablesOK
<1>3. cut' \subseteq Users
  BY DEF Fail, AccountInv, TablesOK, RequestsOK, Proper, NeedsUser
<1>4. TablesOK' /\ RequestsOK'
  BY <1>1, <1>2, <1>3, EndMoves DEF Fail, AccountInv, TablesOK
<1> QED
  BY <1>1, <1>4, RowsOnlyGo DEF AccountInv

(* Steps that write accounts, identities, or rows that need one.           *)
LEMMA CreateSessionKeeps ==
    ASSUME AccountInv, NEW r \in Requests, CreateSession(r)
    PROVE  AccountInv'
<1>1. UNCHANGED <<now, account, subscribed, token, flow, link, left, failures, cut>>
  BY DEF CreateSession, At, accounts
<1>2. req[r].pc = "session" /\ req[r] \in Request /\ req[r].user \in Users
  BY DEF CreateSession, At, AccountInv, RequestsOK, Proper, NeedsUser
<1>3. /\ session' \in [Sessions -> Session]
      /\ \A s \in Sessions : session'[s].st = "live"
            => session'[s].user \in Users /\ Exists(session'[s].user)
  <2>1. CASE Exists(req[r].user)
    <3>1. PICK s \in Sessions : session' = [session EXCEPT ![s] = NewSession(req[r].user, req[r].via)]
      BY <2>1, NewIsFree DEF CreateSession, AccountInv, TablesOK
    <3>2. NewSession(req[r].user, req[r].via) \in Session
      BY <1>2 DEF NewSession, Session, Request, AccountInv, TablesOK, Account
    <3>3. NewSession(req[r].user, req[r].via).user = req[r].user
      BY DEF NewSession
    <3> QED
      BY <1>2, <2>1, <3>1, <3>2, <3>3 DEF AccountInv, TablesOK, KeysOK
  <2>2. CASE ~Exists(req[r].user)
    BY <2>2 DEF CreateSession, AccountInv, TablesOK, KeysOK
  <2> QED
    BY <2>1, <2>2
<1>4. RequestsOK' /\ TablesOK'
  BY <1>1, <1>3, EndMoves DEF CreateSession, AccountInv, TablesOK
<1>5. KeysOK' /\ NoAccountWithoutAccess'
  BY <1>1, <1>3 DEF AccountInv, KeysOK, NoAccountWithoutAccess, Exists, Linked
<1> QED
  BY <1>4, <1>5 DEF AccountInv

LEMMA UpdatePasswordKeeps ==
    ASSUME AccountInv, NEW r \in Requests, UpdatePassword(r)
    PROVE  AccountInv'
<1>1. UNCHANGED <<now, subscribed, session, token, flow, link, left, failures, cut>>
  BY DEF UpdatePassword, At
<1>2. req[r].pc = "update" /\ Proper(req[r]) /\ req[r].user \in Users
  BY DEF UpdatePassword, At, AccountInv, RequestsOK, Proper, NeedsUser
<1>3. PICK q : q = [req[r] EXCEPT !.pc = "revoke"]
  OBVIOUS
<1>4. Proper(q) /\ req' = [req EXCEPT ![r] = q]
  BY <1>2, <1>3 DEF UpdatePassword, GoTo, Proper, Request, NeedsUser, NeedsSubject
<1>5. /\ account' \in [Users -> Account]
      /\ \A u \in Users : /\ account'[u].st = account[u].st
                          /\ account'[u].email = account[u].email
                          /\ account[u].hash > 0 => account'[u].hash > 0
  BY <1>2 DEF UpdatePassword, AccountInv, TablesOK, Account
<1>6. TablesOK' /\ RequestsOK'
  BY <1>1, <1>4, <1>5, RequestMoves DEF AccountInv, TablesOK
<1>7. KeysOK'
  BY <1>1, <1>5 DEF AccountInv, KeysOK, TablesOK, Exists
<1>8. NoAccountWithoutAccess'
  BY <1>1, <1>5 DEF AccountInv, NoAccountWithoutAccess, Exists, Linked
<1> QED
  BY <1>6, <1>7, <1>8 DEF AccountInv

LEMMA PurgeKeeps ==
    ASSUME AccountInv, NEW r \in Requests, Purge(r)
    PROVE  AccountInv'
<1>1. UNCHANGED <<now, flow, left, failures, cut>>
  BY DEF Purge, At
<1>2. PICK u \in Users : u = req[r].user
  BY DEF Purge, At, AccountInv, RequestsOK, Proper, NeedsUser
<1>3. /\ account' \in [Users -> Account] /\ account'[u].st = "deleted"
      /\ \A v \in Users \ {u} : account'[v] = account[v]
  BY <1>2 DEF Purge, AccountInv, TablesOK, Account
<1>4. /\ link' \in [Subjects -> Users \cup {None}]
      /\ \A g \in Subjects : link'[g] = IF link[g] = u THEN None ELSE link[g]
  BY <1>2 DEF Purge, AccountInv, TablesOK
<1>5. /\ session' \in [Sessions -> Session]
      /\ \A s \in Sessions : /\ session'[s].user = session[s].user
                             /\ session'[s].st = "live"
                                  => session[s].st = "live" /\ session[s].user # u
  BY <1>2 DEF Purge, AccountInv, TablesOK, Session
<1>6. /\ token' \in [Tokens -> Token]
      /\ \A t \in Tokens :
            /\ token'[t].user = token[t].user
            /\ token'[t].st # "none" => token[t].st # "none" \/ token[t].user = u
  BY <1>2 DEF Purge, AccountInv, TablesOK, Token
<1>7. RequestsOK'
  BY <1>1, EndMoves DEF Purge, AccountInv
<1>8. TablesOK'
  BY <1>1, <1>3, <1>4, <1>5, <1>6 DEF Purge, AccountInv, TablesOK
<1>9. KeysOK'
  <2>1. \A v, w \in Users :
           v # w /\ account'[v].st = "live" /\ account'[w].st = "live"
             => account'[v].email # account'[w].email
    BY <1>3 DEF AccountInv, KeysOK
  <2>2. \A g, h \in Subjects : g # h /\ link'[g] # None => link'[g] # link'[h]
    BY <1>4, AccountsAssumption DEF AccountInv, KeysOK
  <2>3. \A s \in Sessions : session'[s].st = "live"
          => session'[s].user \in Users /\ account'[session'[s].user].st = "live"
    BY <1>3, <1>5 DEF AccountInv, KeysOK, Exists
  <2>4. \A g \in Subjects : link'[g] # None => account'[link'[g]].st = "live"
    <3> TAKE g \in Subjects
    <3> HAVE link'[g] # None
    <3>1. link'[g] = link[g] /\ link[g] # u /\ link[g] \in Users
      BY <1>4
    <3> QED
      BY <1>3, <3>1 DEF AccountInv, KeysOK, Exists
  <2>5. \A t \in Tokens : token'[t].st # "none"
          => token'[t].user \in Users /\ account'[token'[t].user].st # "none"
    BY <1>3, <1>6 DEF AccountInv, KeysOK
  <2> QED
    BY <2>1, <2>2, <2>3, <2>4, <2>5 DEF KeysOK, Exists
<1>10. NoAccountWithoutAccess'
  BY <1>3, <1>4 DEF AccountInv, NoAccountWithoutAccess, Exists, Linked
<1> QED
  BY <1>7, <1>8, <1>9, <1>10 DEF AccountInv

LEMMA IssueTokenKeeps ==
    ASSUME AccountInv, NEW r \in Requests, IssueToken(r)
    PROVE  AccountInv'
<1>1. UNCHANGED <<now, account, subscribed, session, flow, link, left, failures, cut>>
  BY DEF IssueToken, At, accounts
<1>2. req[r].pc = "issue" /\ Proper(req[r]) /\ req[r].user \in Users /\ req[r].raced \in BOOLEAN
  BY DEF IssueToken, At, AccountInv, RequestsOK, Proper, NeedsUser, Request
<1>3. CASE ~Exists(req[r].user)
  <2>1. TablesOK' /\ RequestsOK' /\ UNCHANGED token
    BY <1>1, <1>3, EndMoves DEF IssueToken, AccountInv, TablesOK
  <2> QED
    BY <1>1, <2>1, RowsOnlyGo DEF AccountInv
<1>4. CASE Exists(req[r].user)
  <2>1. PICK t \in Tokens : token' = [token EXCEPT ![t] = NewToken(req[r].user, req[r].raced)]
    BY <1>4, NewIsFree DEF IssueToken, AccountInv, TablesOK
  <2>2. PICK new : new = NewToken(req[r].user, req[r].raced)
    OBVIOUS
  <2>3. new \in Token /\ new.user = req[r].user
    BY <1>2, <2>2 DEF NewToken, Token, AccountInv, TablesOK
  <2>4. PICK q : q = [req[r] EXCEPT !.pc = "sweep"]
    OBVIOUS
  <2>5. Proper(q) /\ req' = [req EXCEPT ![r] = q]
    BY <1>2, <1>4, <2>4 DEF IssueToken, GoTo, Proper, Request, NeedsUser, NeedsSubject
  <2>6. TablesOK' /\ RequestsOK'
    BY <1>1, <2>1, <2>2, <2>3, <2>5, RequestMoves DEF AccountInv, TablesOK
  <2>7. \A v \in Tokens : token'[v].st # "none"
          => token'[v].user \in Users /\ account[token'[v].user].st # "none"
    BY <1>2, <1>4, <2>1, <2>2, <2>3 DEF AccountInv, KeysOK, TablesOK, Exists
  <2>8. KeysOK' /\ NoAccountWithoutAccess'
    BY <1>1, <2>7 DEF AccountInv, KeysOK, NoAccountWithoutAccess, Exists, Linked
  <2> QED
    BY <2>6, <2>8 DEF AccountInv
<1> QED
  BY <1>3, <1>4

LEMMA CreateLinkKeeps ==
    ASSUME AccountInv, NEW r \in Requests, CreateLink(r)
    PROVE  AccountInv'
<1>1. UNCHANGED <<now, account, subscribed, session, token, flow, left, failures, cut>>
  BY DEF CreateLink, At
<1>2. /\ req[r].pc = "link" /\ Proper(req[r]) /\ req[r].user \in Users
      /\ req[r].subject \in Subjects
  BY DEF CreateLink, At, AccountInv, RequestsOK, Proper, NeedsUser, NeedsSubject
<1>3. CASE ~MayLink(req[r].user, req[r].subject)
  <2>1. TablesOK' /\ RequestsOK' /\ UNCHANGED link
    BY <1>1, <1>3, EndMoves DEF CreateLink, AccountInv, TablesOK
  <2> QED
    BY <1>1, <2>1, RowsOnlyGo DEF AccountInv
<1>4. CASE MayLink(req[r].user, req[r].subject)
  <2>1. link' = [link EXCEPT ![req[r].subject] = req[r].user]
    BY <1>4 DEF CreateLink
  <2>2. PICK q : q = [req[r] EXCEPT !.pc = "session", !.via = "linked"]
    OBVIOUS
  <2>3. req' = [req EXCEPT ![r] = q]
    BY <1>4, <2>2 DEF CreateLink, AccountInv, RequestsOK
  <2>4. Proper(q)
    BY <1>2, <2>2 DEF Proper, Request, NeedsUser, NeedsSubject
  <2>5. TablesOK' /\ RequestsOK'
    BY <1>1, <1>2, <2>1, <2>3, <2>4, RequestMoves DEF AccountInv, TablesOK
  <2>6. /\ \A g, h \in Subjects : g # h /\ link'[g] # None => link'[g] # link'[h]
        /\ \A g \in Subjects : link'[g] # None => Exists(link'[g])
        /\ \A u \in Users : Linked(u) => \E g \in Subjects : link'[g] = u
    BY <1>2, <1>4, <2>1, AccountsAssumption DEF MayLink, Linked, AccountInv, KeysOK, TablesOK
  <2>7. KeysOK' /\ NoAccountWithoutAccess'
    BY <1>1, <2>6 DEF AccountInv, KeysOK, NoAccountWithoutAccess, Exists, Linked
  <2> QED
    BY <2>5, <2>7 DEF AccountInv
<1> QED
  BY <1>3, <1>4

(* A new account: its row was free, its address is nobody's, and it comes  *)
(* with a password or with an identity of its own.                         *)
LEMMA AccountIsNew ==
    ASSUME AccountInv, NEW r \in Requests, NEW u \in Users, NEW new \in Account,
           account[u].st = "none", new.st = "live",
           \A v \in Users : Exists(v) => account[v].email # new.email,
           account' = [account EXCEPT ![u] = new],
           UNCHANGED <<now, subscribed, session, token, flow, left, failures, cut>>,
           \/ (link' = link /\ new.hash > 0)
           \/ \E g \in Subjects : link[g] = None /\ link' = [link EXCEPT ![g] = u],
           NEW q, Proper(q), req' = [req EXCEPT ![r] = q]
    PROVE  AccountInv'
<1>1. /\ account' \in [Users -> Account] /\ account'[u] = new
      /\ \A v \in Users \ {u} : account'[v] = account[v]
  BY DEF AccountInv, TablesOK
<1>2. /\ link' \in [Subjects -> Users \cup {None}]
      /\ \A g \in Subjects : link'[g] = link[g] \/ (link[g] = None /\ link'[g] = u)
      /\ \A g, h \in Subjects : g # h /\ link'[g] = u => link'[h] # u
      /\ new.hash > 0 \/ \E g \in Subjects : link'[g] = u
  <2>1. /\ link \in [Subjects -> Users \cup {None}] /\ u # None
        /\ \A g \in Subjects : link[g] # u
    BY AccountsAssumption DEF AccountInv, TablesOK, KeysOK, Exists
  <2>2. CASE link' = link /\ new.hash > 0
    BY <2>1, <2>2
  <2>3. ASSUME NEW g \in Subjects, link[g] = None, link' = [link EXCEPT ![g] = u]
        PROVE  /\ link' \in [Subjects -> Users \cup {None}] /\ link'[g] = u
               /\ \A h \in Subjects \ {g} : link'[h] = link[h]
    BY <2>1, <2>3
  <2> QED
    BY <2>1, <2>2, <2>3
<1>3. TablesOK' /\ RequestsOK'
  BY <1>1, <1>2, RequestMoves DEF AccountInv, TablesOK
<1>4. \A v, w \in Users :
         v # w /\ account'[v].st = "live" /\ account'[w].st = "live"
           => account'[v].email # account'[w].email
  BY <1>1 DEF AccountInv, KeysOK, Exists
<1>5. \A g, h \in Subjects : g # h /\ link'[g] # None => link'[g] # link'[h]
  BY <1>2, AccountsAssumption DEF AccountInv, KeysOK, TablesOK, Exists
<1>6. \A s \in Sessions : session'[s].st = "live"
         => session'[s].user \in Users /\ account'[session'[s].user].st = "live"
  BY <1>1 DEF AccountInv, KeysOK, Exists
<1>7. \A g \in Subjects : link'[g] # None => account'[link'[g]].st = "live"
  <2> TAKE g \in Subjects
  <2>1. link[g] # None => link[g] \in Users /\ account[link[g]].st = "live"
    BY DEF AccountInv, KeysOK, TablesOK, Exists
  <2> QED
    BY <1>1, <1>2, <2>1
<1>8. \A t \in Tokens : token'[t].st # "none"
         => token'[t].user \in Users /\ account'[token'[t].user].st # "none"
  BY <1>1 DEF AccountInv, KeysOK
<1>9. KeysOK'
  BY <1>4, <1>5, <1>6, <1>7, <1>8 DEF KeysOK, Exists
<1>10. NoAccountWithoutAccess'
  <2> SUFFICES ASSUME NEW v \in Users, account'[v].st = "live"
               PROVE  account'[v].hash > 0 \/ \E g \in Subjects : link'[g] = v
    BY DEF NoAccountWithoutAccess, Exists, Linked
  <2>1. CASE v = u
    BY <1>1, <1>2, <2>1
  <2>2. CASE v # u
    <3>1. account[v].hash > 0 \/ \E g \in Subjects : link[g] = v
      BY <1>1, <2>2 DEF AccountInv, NoAccountWithoutAccess, Exists, Linked
    <3> QED
      BY <1>1, <1>2, <2>2, <3>1, AccountsAssumption
  <2> QED
    BY <2>1, <2>2
<1> QED
  BY <1>3, <1>9, <1>10 DEF AccountInv

LEMMA AddUserKeeps ==
    ASSUME AccountInv, NEW r \in Requests, AddUser(r)
    PROVE  AccountInv'
<1>1. UNCHANGED <<now, subscribed, session, token, flow, link, left, failures, cut>>
  BY DEF AddUser, At
<1>2. req[r].pc = "adduser" /\ Proper(req[r])
  BY DEF AddUser, At, AccountInv, RequestsOK
<1>3. CASE \E u \in Users : Exists(u) /\ account[u].email = req[r].email
  <2>1. TablesOK' /\ RequestsOK' /\ UNCHANGED account
    BY <1>1, <1>3, EndMoves DEF AddUser, AccountInv, TablesOK
  <2> QED
    BY <1>1, <2>1, RowsOnlyGo DEF AccountInv
<1>4. CASE ~ \E u \in Users : Exists(u) /\ account[u].email = req[r].email
  <2>1. PICK u \in Users :
           /\ account[u].st = "none"
           /\ account' = [account EXCEPT ![u] =
                 [st |-> "live", email |-> req[r].email, hash |-> 1]]
           /\ req' = [req EXCEPT ![r].pc = "announce", ![r].user = u]
    BY <1>4, NewIsFree DEF AddUser, AccountInv, TablesOK
  <2>2. PICK new : new = [st |-> "live", email |-> req[r].email, hash |-> 1]
    OBVIOUS
  <2>3. new \in Account /\ new.st = "live" /\ new.hash > 0 /\ new.email = req[r].email
    BY <1>2, <2>2 DEF Account, Proper, Request
  <2>4. PICK q : q = [req[r] EXCEPT !.pc = "announce", !.user = u]
    OBVIOUS
  <2>5. req' = [req EXCEPT ![r] = q]
    BY <2>1, <2>4 DEF AccountInv, RequestsOK
  <2>6. Proper(q)
    BY <1>2, <2>4 DEF Proper, Request, NeedsUser, NeedsSubject
  <2> QED
    <3>1. \A v \in Users : Exists(v) => account[v].email # new.email
      BY <1>4, <2>3
    <3>2. account' = [account EXCEPT ![u] = new]
      BY <2>1, <2>2
    <3>3. account[u].st = "none"
      BY <2>1
    <3> QED
      BY <1>1, <2>3, <2>5, <2>6, <3>1, <3>2, <3>3, AccountIsNew
<1> QED
  BY <1>3, <1>4

LEMMA CreateAccountKeeps ==
    ASSUME AccountInv, NEW r \in Requests, CreateAccount(r)
    PROVE  AccountInv'
<1>1. UNCHANGED <<now, subscribed, session, token, flow, left, failures, cut>>
  BY DEF CreateAccount, At
<1>2. req[r].pc = "create" /\ Proper(req[r]) /\ req[r].subject \in Subjects
  BY DEF CreateAccount, At, AccountInv, RequestsOK, Proper, NeedsSubject
<1>3. CASE \/ \E u \in Users : Exists(u) /\ account[u].email = req[r].email
           \/ link[req[r].subject] # None
  <2>1. TablesOK' /\ RequestsOK' /\ UNCHANGED <<account, link>>
    BY <1>1, <1>3, EndMoves DEF CreateAccount, AccountInv, TablesOK
  <2> QED
    BY <1>1, <2>1, RowsOnlyGo DEF AccountInv
<1>4. CASE ~ \/ \E u \in Users : Exists(u) /\ account[u].email = req[r].email
             \/ link[req[r].subject] # None
  <2>1. PICK u \in Users :
           /\ account[u].st = "none"
           /\ account' = NewAccount(r, u)
           /\ link' = [link EXCEPT ![req[r].subject] = u]
           /\ req' = [req EXCEPT ![r].pc = "announce", ![r].user = u, ![r].via = "created"]
    BY <1>4, NewIsFree DEF CreateAccount, AccountInv, TablesOK
  <2>2. PICK new : new = [st |-> "live", email |-> req[r].email, hash |-> 0]
    OBVIOUS
  <2>3. new \in Account /\ new.st = "live" /\ new.email = req[r].email
    BY <1>2, <2>2 DEF Account, Proper, Request
  <2>4. account' = [account EXCEPT ![u] = new]
    BY <2>1, <2>2 DEF NewAccount
  <2>5. PICK q : q = [req[r] EXCEPT !.pc = "announce", !.user = u, !.via = "created"]
    OBVIOUS
  <2>6. req' = [req EXCEPT ![r] = q]
    BY <2>1, <2>5 DEF AccountInv, RequestsOK
  <2>7. Proper(q)
    BY <1>2, <2>5 DEF Proper, Request, NeedsUser, NeedsSubject
  <2> QED
    <3>1. \A v \in Users : Exists(v) => account[v].email # new.email
      BY <1>4, <2>3
    <3>2. \E g \in Subjects : link[g] = None /\ link' = [link EXCEPT ![g] = u]
      BY <1>2, <1>4, <2>1
    <3>3. account[u].st = "none"
      BY <2>1
    <3> QED
      BY <1>1, <2>3, <2>4, <2>6, <2>7, <3>1, <3>2, <3>3, AccountIsNew
<1> QED
  BY <1>3, <1>4

LEMMA NothingKeeps ==
    ASSUME AccountInv, UNCHANGED vars
    PROVE  AccountInv'
<1>1. /\ UNCHANGED <<now, account, subscribed, session, token, flow, link>>
      /\ UNCHANGED <<req, left, failures, cut>>
  BY DEF vars
<1>2. TablesOK' /\ RequestsOK'
  BY <1>1 DEF AccountInv, TablesOK, RequestsOK, Proper
<1> QED
  BY <1>1, <1>2, RowsOnlyGo DEF AccountInv

LEMMA AccountStep == AccountInv /\ [Next]_vars => AccountInv'
<1> SUFFICES ASSUME AccountInv, [Next]_vars PROVE AccountInv'
  OBVIOUS
<1>1. ASSUME NEW r \in Requests,
             \/ Register(r) \/ AddUser(r) \/ Announce(r)
             \/ SignIn(r) \/ CreateSession(r)
             \/ \E op \in {"visit", "change", "purge"} : Authenticate(r, op)
             \/ Touch(r) \/ Load(r) \/ UpdatePassword(r) \/ RevokeAll(r)
             \/ Purge(r)
      PROVE  AccountInv'
  BY <1>1, RegisterKeeps, AddUserKeeps, AnnounceKeeps, SignInKeeps, CreateSessionKeeps,
     AuthenticateKeeps, TouchKeeps, LoadKeeps, UpdatePasswordKeeps, RevokeAllKeeps,
     PurgeKeeps
<1>2. ASSUME NEW r \in Requests,
             \/ RequestReset(r) \/ InvalidatePending(r) \/ IssueToken(r)
             \/ PurgeRequests(r) \/ ResetPassword(r)
             \/ CompleteExternal(r) \/ FindLinked(r) \/ FindAccounts(r)
             \/ ExistsForUser(r) \/ CreateLink(r) \/ CreateAccount(r)
             \/ Fail(r)
      PROVE  AccountInv'
  BY <1>2, RequestResetKeeps, InvalidateKeeps, IssueTokenKeeps, PurgeRequestsKeeps,
     ResetPasswordKeeps, CompleteExternalKeeps, FindLinkedKeeps, FindAccountsKeeps,
     ExistsForUserKeeps, CreateLinkKeeps, CreateAccountKeeps, FailKeeps
<1>3. CASE SignOut \/ StartExternal \/ Tick \/ Cleanup
  BY <1>3, SignOutKeeps, StartExternalKeeps, TickKeeps, CleanupKeeps
<1>4. CASE UNCHANGED vars
  BY <1>4, NothingKeeps
<1> QED
  BY <1>1, <1>2, <1>3, <1>4 DEF Next

LEMMA AccountAlways == Spec => []AccountInv
<1> QED
  BY InitAccount, AccountStep, PTL DEF Spec

-----------------------------------------------------------------------------
(* What a step leaves of the other requests, and where its own one was.    *)

LEMMA OthersStay ==
    ASSUME RequestsOK, NEW r \in Requests,
           \/ Register(r) \/ AddUser(r) \/ Announce(r)
           \/ SignIn(r) \/ CreateSession(r)
           \/ \E op \in {"visit", "change", "purge"} : Authenticate(r, op)
           \/ Touch(r) \/ Load(r) \/ UpdatePassword(r) \/ RevokeAll(r)
           \/ Purge(r)
           \/ InvalidatePending(r) \/ IssueToken(r)
           \/ PurgeRequests(r) \/ ResetPassword(r)
           \/ CompleteExternal(r) \/ FindLinked(r) \/ FindAccounts(r)
           \/ ExistsForUser(r) \/ CreateLink(r) \/ CreateAccount(r)
           \/ Fail(r)
    PROVE  \A p \in Requests \ {r} : req'[p] = req[p]
<1> USE DEF RequestsOK, End, GoTo, Begin
<1>1. CASE Register(r) \/ AddUser(r) \/ Announce(r) \/ SignIn(r) \/ CreateSession(r)
  BY <1>1 DEF Register, AddUser, Announce, SignIn, CreateSession
<1>2. CASE \E op \in {"visit", "change", "purge"} : Authenticate(r, op)
  BY <1>2 DEF Authenticate
<1>3. CASE Touch(r) \/ Load(r) \/ UpdatePassword(r) \/ RevokeAll(r) \/ Purge(r)
  BY <1>3 DEF Touch, Load, UpdatePassword, RevokeAll, Purge
<1>4. CASE InvalidatePending(r) \/ IssueToken(r) \/ PurgeRequests(r) \/ ResetPassword(r)
  BY <1>4 DEF InvalidatePending, IssueToken, PurgeRequests, ResetPassword
<1>5. CASE CompleteExternal(r) \/ FindLinked(r) \/ FindAccounts(r)
  BY <1>5 DEF CompleteExternal, FindLinked, FindAccounts, ExchangeFails
<1>6. CASE ExistsForUser(r) \/ CreateLink(r) \/ CreateAccount(r) \/ Fail(r)
  BY <1>6 DEF ExistsForUser, CreateLink, CreateAccount, Fail
<1> QED
  BY <1>1, <1>2, <1>3, <1>4, <1>5, <1>6

-----------------------------------------------------------------------------
(* No session of an earlier password outlives the end of a change.         *)

LEMMA OldSessionsQuiet ==
    ASSUME OldSessionsEnd, UNCHANGED <<account, cut>>,
           \A p \in Requests : req[p].pc = "revoke"
              => req'[p].pc = "revoke" /\ req'[p].user = req[p].user,
           \A s \in Sessions : session'[s].st = "live" /\ session'[s].revoked = None
              => /\ session[s].st = "live" /\ session[s].revoked = None
                 /\ session'[s].user = session[s].user
                 /\ session'[s].born = session[s].born
    PROVE  OldSessionsEnd'
BY DEF OldSessionsEnd

(* The steps that write neither accounts nor sessions.                     *)
LEMMA OldSessionsCalm ==
    ASSUME AccountInv, OldSessionsEnd, NEW r \in Requests,
           \/ Register(r) \/ Announce(r) \/ SignIn(r)
           \/ \E op \in {"visit", "change", "purge"} : Authenticate(r, op)
           \/ Load(r) \/ RequestReset(r) \/ InvalidatePending(r) \/ IssueToken(r)
           \/ PurgeRequests(r) \/ ResetPassword(r)
           \/ CompleteExternal(r) \/ FindLinked(r) \/ FindAccounts(r)
           \/ ExistsForUser(r) \/ CreateLink(r)
    PROVE  OldSessionsEnd'
<1>1. UNCHANGED <<account, session, cut>> /\ req[r].pc # "revoke"
  <2>1. CASE Register(r) \/ Announce(r) \/ SignIn(r) \/ Load(r) \/ RequestReset(r)
    BY <2>1 DEF Register, Announce, SignIn, Load, RequestReset, At, Begin, accounts
  <2>2. CASE \E op \in {"visit", "change", "purge"} : Authenticate(r, op)
    BY <2>2 DEF Authenticate, Begin, accounts
  <2>3. CASE InvalidatePending(r) \/ IssueToken(r) \/ PurgeRequests(r) \/ ResetPassword(r)
    BY <2>3 DEF InvalidatePending, IssueToken, PurgeRequests, ResetPassword, At, Begin, accounts
  <2>4. CASE \/ CompleteExternal(r) \/ FindLinked(r) \/ FindAccounts(r)
             \/ ExistsForUser(r) \/ CreateLink(r)
    BY <2>4 DEF CompleteExternal, FindLinked, FindAccounts, ExistsForUser, CreateLink,
       ExchangeFails, At, Begin, accounts
  <2> QED
    BY <2>1, <2>2, <2>3, <2>4
<1>2. \A p \in Requests \ {r} : req'[p].pc = req[p].pc /\ req'[p].user = req[p].user
  <2>1. CASE RequestReset(r)
    BY <2>1, ResetRequested
  <2>2. CASE ~RequestReset(r)
    BY <2>2, OthersStay DEF AccountInv
  <2> QED
    BY <2>1, <2>2
<1> QED
  BY <1>1, <1>2, OldSessionsQuiet

(* The steps that end sessions or extend them.                             *)
LEMMA OldSessionsOnlyGo ==
    ASSUME AccountInv, OldSessionsEnd,
           \/ SignOut \/ Cleanup \/ \E r \in Requests : Touch(r)
           \/ StartExternal \/ Tick \/ UNCHANGED vars
    PROVE  OldSessionsEnd'
<1>1. CASE SignOut \/ Cleanup
  <2>1. \A s \in Sessions : session'[s].st = "live" /\ session'[s].revoked = None
              => /\ session[s].st = "live" /\ session[s].revoked = None
                 /\ session'[s].user = session[s].user
                 /\ session'[s].born = session[s].born
    BY <1>1, AccountsAssumption DEF SignOut, Cleanup, AccountInv, TablesOK, Session, Times
  <2>2. UNCHANGED <<account, cut, req>>
    BY <1>1 DEF SignOut, Cleanup, accounts
  <2> QED
    BY <2>1, <2>2, OldSessionsQuiet
<1>2. ASSUME NEW r \in Requests, Touch(r) PROVE OldSessionsEnd'
  <2>1. \A s \in Sessions : /\ session'[s].st = session[s].st
                            /\ session'[s].revoked = session[s].revoked
                            /\ session'[s].user = session[s].user
                            /\ session'[s].born = session[s].born
    BY <1>2 DEF Touch, AccountInv, TablesOK, Session
  <2>2. UNCHANGED <<account, cut>> /\ req[r].pc = "touch"
    BY <1>2 DEF Touch, At, accounts
  <2>3. \A p \in Requests \ {r} : req'[p] = req[p]
    BY <1>2, OthersStay DEF AccountInv
  <2> QED
    BY <2>1, <2>2, <2>3, OldSessionsQuiet
<1>3. CASE StartExternal \/ Tick \/ UNCHANGED vars
  <2>1. UNCHANGED <<account, cut, req, session>>
    BY <1>3 DEF StartExternal, Tick, accounts, vars
  <2> QED
    BY <2>1, OldSessionsQuiet
<1> QED
  BY <1>1, <1>2, <1>3

(* A session is born with the password of its account.                     *)
LEMMA OldSessionsNew ==
    ASSUME AccountInv, OldSessionsEnd, NEW r \in Requests, CreateSession(r)
    PROVE  OldSessionsEnd'
<1>1. UNCHANGED <<account, cut>> /\ req[r].pc = "session"
  BY DEF CreateSession, At, accounts
<1>2. \A p \in Requests \ {r} : req'[p] = req[p]
  BY OthersStay DEF AccountInv
<1>3. CASE ~Exists(req[r].user)
  BY <1>1, <1>2, <1>3, OldSessionsQuiet DEF CreateSession
<1>4. CASE Exists(req[r].user)
  <2>1. PICK s \in Sessions : session' = [session EXCEPT ![s] = NewSession(req[r].user, req[r].via)]
    BY <1>4, NewIsFree DEF CreateSession, AccountInv, TablesOK
  <2>2. /\ session'[s].user = req[r].user /\ session'[s].born = account[req[r].user].hash
        /\ \A z \in Sessions \ {s} : session'[z] = session[z]
    BY <2>1 DEF NewSession, AccountInv, TablesOK
  <2>3. account[req[r].user].hash \in Nat
    BY <1>1 DEF AccountInv, TablesOK, Account, RequestsOK, Proper, NeedsUser
  <2> QED
    BY <1>1, <1>2, <2>2, <2>3 DEF OldSessionsEnd
<1> QED
  BY <1>3, <1>4

(* The statement that writes the password leaves the request about to end  *)
(* the sessions; a failure there is on record.                             *)
LEMMA OldSessionsChange ==
    ASSUME AccountInv, OldSessionsEnd, NEW r \in Requests, UpdatePassword(r) \/ Fail(r)
    PROVE  OldSessionsEnd'
<1>1. UNCHANGED session /\ \A p \in Requests \ {r} : req'[p] = req[p]
  BY OthersStay DEF UpdatePassword, Fail, accounts, AccountInv
<1>2. CASE UpdatePassword(r)
  <2>1. req[r].pc = "update" /\ req'[r].pc = "revoke" /\ req'[r].user = req[r].user /\ cut' = cut
    BY <1>2 DEF UpdatePassword, At, GoTo, AccountInv, RequestsOK, Request
  <2>2. \A u \in Users : u # req[r].user => account'[u].hash = account[u].hash
    BY <1>2 DEF UpdatePassword, AccountInv, TablesOK
  <2>3. \A s \in Sessions : session[s].st = "live" => session[s].user \in Users
    BY DEF AccountInv, KeysOK
  <2> QED
    BY <1>1, <2>1, <2>2, <2>3 DEF OldSessionsEnd
<1>3. CASE Fail(r)
  <2>1. /\ account' = account /\ cut \subseteq cut'
        /\ req[r].pc = "revoke" => req[r].user \in cut'
    BY <1>3 DEF Fail, accounts
  <2> QED
    BY <1>1, <2>1 DEF OldSessionsEnd
<1> QED
  BY <1>2, <1>3

(* The statement that ends them leaves none but the one the change was     *)
(* made with, which from here on counts as of the new password.            *)
LEMMA OldSessionsRevoked ==
    ASSUME AccountInv, OldSessionsEnd, NEW r \in Requests, RevokeAll(r)
    PROVE  OldSessionsEnd'
<1>1. UNCHANGED <<now, account>> /\ \A p \in Requests \ {r} : req'[p] = req[p]
  BY OthersStay DEF RevokeAll, At, accounts, AccountInv
<1>2. PICK u \in Users : u = req[r].user
  BY DEF RevokeAll, At, AccountInv, RequestsOK, Proper, NeedsUser
<1>3. cut' = cut \ {u} /\ account[u].hash \in Nat /\ now # None
  BY <1>2, AccountsAssumption DEF RevokeAll, AccountInv, TablesOK, Account, Times
<1>4. SUFFICES ASSUME NEW s \in Sessions, session'[s].st = "live", session'[s].revoked = None,
                      session'[s].born < account[session'[s].user].hash
               PROVE  \/ session'[s].user \in cut'
                      \/ \E p \in Requests : req'[p].pc = "revoke" /\ req'[p].user = session'[s].user
  BY <1>1 DEF OldSessionsEnd
<1>5. session[s] \in Session
  BY DEF AccountInv, TablesOK
<1>6. session[s].st = "live" /\ session'[s].user = session[s].user
  BY <1>4, <1>5 DEF RevokeAll, Session
<1>7. CASE session[s].user = u
  <2>1. session[s].revoked = None
    BY <1>4, <1>6 DEF RevokeAll
  <2>2. MadeWith(r, s)
    BY <1>2, <1>3, <1>4, <1>5, <1>6, <1>7, <2>1 DEF RevokeAll, Spared, Session
  <2>3. session'[s].born = account[u].hash
    BY <1>2, <1>5, <1>6, <1>7, <2>1, <2>2 DEF RevokeAll, Spared, Session
  <2> QED
    BY <1>3, <1>4, <1>6, <1>7, <2>3
<1>8. CASE session[s].user # u
  <2>1. session'[s] = session[s]
    BY <1>2, <1>8 DEF RevokeAll
  <2> QED
    BY <1>1, <1>2, <1>3, <1>4, <1>8, <2>1 DEF OldSessionsEnd
<1> QED
  BY <1>7, <1>8

(* A new account has no session, and those of a deleted one go with it.    *)
LEMMA OldSessionsAccounts ==
    ASSUME AccountInv, OldSessionsEnd, NEW r \in Requests,
           AddUser(r) \/ CreateAccount(r) \/ Purge(r)
    PROVE  OldSessionsEnd'
<1>1. cut' = cut /\ req[r].pc # "revoke" /\ \A p \in Requests \ {r} : req'[p] = req[p]
  BY OthersStay DEF AddUser, CreateAccount, Purge, At, AccountInv
<1>2. \A s \in Sessions : session[s].st = "live" => session[s].user \in Users /\ Exists(session[s].user)
  BY DEF AccountInv, KeysOK
<1>3. CASE AddUser(r) \/ CreateAccount(r)
  <2>1. \A u \in Users : Exists(u) => account'[u] = account[u]
    BY <1>3, NewIsFree DEF AddUser, CreateAccount, NewAccount, Exists, AccountInv, TablesOK
  <2>2. session' = session
    BY <1>3 DEF AddUser, CreateAccount
  <2> QED
    BY <1>1, <1>2, <2>1, <2>2 DEF OldSessionsEnd
<1>4. CASE Purge(r)
  <2>1. \A s \in Sessions : session'[s].st = "live"
           => session'[s] = session[s] /\ session[s].user # req[r].user
    BY <1>4 DEF Purge, AccountInv, TablesOK, Session
  <2>2. \A u \in Users : u # req[r].user => account'[u] = account[u]
    BY <1>4 DEF Purge, AccountInv, TablesOK
  <2> QED
    BY <1>1, <1>2, <2>1, <2>2 DEF OldSessionsEnd
<1> QED
  BY <1>3, <1>4

LEMMA OldSessionsStep ==
    ASSUME AccountInv, OldSessionsEnd, [Next]_vars
    PROVE  OldSessionsEnd'
BY OldSessionsCalm, OldSessionsOnlyGo, OldSessionsNew, OldSessionsChange,
   OldSessionsRevoked, OldSessionsAccounts DEF Next

-----------------------------------------------------------------------------
(* Recoveries stay within their quota.                                     *)

(* What a step does that neither issues a token nor lets a request through *)
(* to issue one: tokens are consumed, and deleted once they are outside    *)
(* the window or with their account; recoveries only end or move on.       *)
Calm ==
    /\ now' = now
    /\ \A t \in Tokens :
          /\ token'[t].user = token[t].user /\ token'[t].created = token[t].created
          /\ token'[t].raced = token[t].raced
          /\ token'[t].st = "none" <=> token[t].st = "none"
          /\ token'[t].st = "pending" => token[t].st = "pending"
          /\ token'[t].st = "deleted" =>
                \/ token[t].st = "deleted"
                \/ account'[token[t].user].st = "deleted"
                \/ token[t].created + Window < now
    /\ \A q \in Requests : req'[q].pc \in {"invalidate", "issue"} =>
          /\ req[q].pc \in {"invalidate", "issue"}
          /\ req'[q].user = req[q].user /\ req'[q].at = req[q].at
          /\ req'[q].raced = req[q].raced
          /\ req'[q].pc = "issue" =>
                \/ req[q].pc = "issue"
                \/ \A t \in Tokens : token'[t].st = "pending" => token[t].user # req[q].user
    /\ \A u \in Users : account[u].st # "none" /\ account'[u].st = "live"
          => account[u].st = "live"

LEMMA CalmKeeps ==
    ASSUME AccountInv, RecoveryInv, Calm
    PROVE  RecoveryInv'
<1>1. \A u \in Users : Recovering(u)' \subseteq Recovering(u)
  BY DEF Recovering, Calm
<1>2. \A u \in Users : \A q \in Recovering(u)' :
         req'[q].raced = req[q].raced /\ req'[q].at = req[q].at
  BY DEF Recovering, Calm
<1>3. Overlaps'
  BY <1>1, <1>2 DEF Overlaps, RecoveryInv
<1>4. IssuesAlone'
  BY DEF Calm, IssuesAlone, RecoveryInv
<1>5. Swept'
  <2> SUFFICES ASSUME NEW t \in Tokens
               PROVE  /\ token'[t].created <= now'
                      /\ token'[t].st = "deleted" /\ account'[token'[t].user].st = "live"
                            => token'[t].created + Window < now'
    BY DEF Swept, Exists
  <2>1. token[t].st # "none" => token[t].user \in Users /\ account[token[t].user].st # "none"
    BY DEF AccountInv, KeysOK
  <2> QED
    BY <2>1 DEF Calm, Swept, RecoveryInv, Exists
<1>6. \A u, from : Since(u, from)' = Since(u, from)
  BY DEF Since, Calm
<1>7. RoomLeft'
  <2> SUFFICES ASSUME NEW u \in Users, NEW r \in Recovering(u)', ~req'[r].raced
               PROVE  Cardinality({t \in Tokens :
                         /\ token'[t].st # "none" /\ token'[t].user = u
                         /\ ~token'[t].raced /\ token'[t].created >= req'[r].at - Window}) < Limit
    BY DEF RoomLeft, Since
  <2>1. Cardinality(Since(u, req[r].at - Window)) < Limit
    BY <1>1, <1>2 DEF RecoveryInv, RoomLeft
  <2>2. {t \in Tokens : /\ token'[t].st # "none" /\ token'[t].user = u
                        /\ ~token'[t].raced /\ token'[t].created >= req'[r].at - Window}
        = Since(u, req[r].at - Window)
    BY <1>2 DEF Since, Calm
  <2> QED
    BY <2>1, <2>2
<1>8. IsFiniteSet(Issued)'
  <2>1. Issued' = Issued
    BY DEF Issued, Calm
  <2> QED
    BY <2>1 DEF RecoveryInv
<1>9. OneTokenAtATime'
  BY DEF OneTokenAtATime, RecoveryInv, Calm
<1>10. QuotaHolds'
  <2> SUFFICES ASSUME NEW u \in Users, NEW w \in Times
               PROVE  Cardinality({t \in Tokens :
                         /\ token'[t].st # "none" /\ token'[t].user = u /\ ~token'[t].raced
                         /\ token'[t].created \in w .. (w + Window)}) <= Limit
    BY DEF QuotaHolds
  <2>1. {t \in Tokens : /\ token'[t].st # "none" /\ token'[t].user = u /\ ~token'[t].raced
                        /\ token'[t].created \in w .. (w + Window)}
        = {t \in Tokens : /\ token[t].st # "none" /\ token[t].user = u /\ ~token[t].raced
                          /\ token[t].created \in w .. (w + Window)}
    BY DEF Calm
  <2> QED
    BY <2>1 DEF QuotaHolds, RecoveryInv
<1>11. Blank'
  BY DEF Blank, RecoveryInv, Calm
<1> QED
  BY <1>3, <1>4, <1>5, <1>7, <1>8, <1>9, <1>10, <1>11 DEF RecoveryInv

(* Most steps are calm: their request is at no recovery when they end.     *)
LEMMA CalmMoves ==
    ASSUME AccountInv, NEW r \in Requests, now' = now, token' = token,
           req'[r].pc \notin {"invalidate", "issue"},
           \A p \in Requests \ {r} : req'[p] = req[p],
           \A u \in Users : account[u].st # "none" /\ account'[u].st = "live"
              => account[u].st = "live"
    PROVE  Calm
BY DEF Calm

LEMMA CalmEntries ==
    ASSUME AccountInv, NEW r \in Requests,
           \/ Register(r) \/ Announce(r) \/ SignIn(r) \/ CreateSession(r)
           \/ \E op \in {"visit", "change", "purge"} : Authenticate(r, op)
           \/ Touch(r) \/ Load(r) \/ RevokeAll(r) \/ CompleteExternal(r)
    PROVE  Calm
<1>1. \A p \in Requests \ {r} : req'[p] = req[p]
  BY OthersStay DEF AccountInv
<1>2. now' = now /\ token' = token /\ account' = account
  <2>1. CASE Register(r) \/ Announce(r) \/ SignIn(r) \/ CreateSession(r) \/ Load(r)
    BY <2>1 DEF Register, Announce, SignIn, CreateSession, Load, At, Begin, accounts
  <2>2. CASE \/ \E op \in {"visit", "change", "purge"} : Authenticate(r, op)
             \/ Touch(r) \/ RevokeAll(r) \/ CompleteExternal(r)
    BY <2>2 DEF Authenticate, Touch, RevokeAll, CompleteExternal, ExchangeFails,
       At, Begin, accounts
  <2> QED
    BY <2>1, <2>2
<1>3. req'[r].pc \notin {"invalidate", "issue"}
  <2>1. CASE Register(r) \/ SignIn(r)
    BY <2>1 DEF Register, SignIn, Begin, Idle, AccountInv, RequestsOK
  <2>2. CASE \E op \in {"visit", "change", "purge"} : Authenticate(r, op)
    <3>1. PICK op \in Operations, s \in Sessions, pc \in {"touch", "load"} :
             Begin(r, op, pc, [Idle EXCEPT !.user = session[s].user, !.item = s, !.at = now])
      BY <2>2 DEF Authenticate, Operations
    <3>2. PICK f : f = [Idle EXCEPT !.user = session[s].user, !.item = s, !.at = now]
      OBVIOUS
    <3>3. DOMAIN f = DOMAIN Idle
      BY <3>2
    <3>4. req'[r] = [f EXCEPT !.op = op, !.pc = pc]
      BY <3>1, <3>2 DEF Begin, AccountInv, RequestsOK
    <3> QED
      BY <3>3, <3>4 DEF Idle
  <2>3. CASE CompleteExternal(r)
    BY <2>3 DEF CompleteExternal, ExchangeFails, Begin, Idle, AccountInv, RequestsOK
  <2>4. CASE Announce(r) \/ CreateSession(r) \/ Touch(r) \/ Load(r) \/ RevokeAll(r)
    BY <2>4 DEF Announce, CreateSession, Touch, Load, RevokeAll, GoTo, End, Idle,
       AccountInv, RequestsOK, Request
  <2> QED
    BY <2>1, <2>2, <2>3, <2>4
<1> QED
  BY <1>1, <1>2, <1>3, CalmMoves

LEMMA CalmExternal ==
    ASSUME AccountInv, NEW r \in Requests,
           \/ AddUser(r) \/ UpdatePassword(r) \/ FindLinked(r) \/ FindAccounts(r)
           \/ ExistsForUser(r) \/ CreateLink(r) \/ CreateAccount(r)
    PROVE  Calm
<1>1. \A p \in Requests \ {r} : req'[p] = req[p]
  BY OthersStay DEF AccountInv
<1>2. now' = now /\ token' = token
  BY DEF AddUser, UpdatePassword, FindLinked, FindAccounts, ExistsForUser, CreateLink,
     CreateAccount, At
<1>3. req'[r].pc \notin {"invalidate", "issue"}
  <2>1. CASE AddUser(r) \/ UpdatePassword(r) \/ FindLinked(r)
    BY <2>1 DEF AddUser, UpdatePassword, FindLinked, GoTo, End, Idle,
       AccountInv, RequestsOK, Request
  <2>2. CASE FindAccounts(r) \/ ExistsForUser(r)
    BY <2>2 DEF FindAccounts, ExistsForUser, GoTo, End, Idle, AccountInv, RequestsOK, Request
  <2>3. CASE CreateLink(r) \/ CreateAccount(r)
    BY <2>3 DEF CreateLink, CreateAccount, GoTo, End, Idle, AccountInv, RequestsOK, Request
  <2> QED
    BY <2>1, <2>2, <2>3
<1>4. \A u \in Users : account[u].st # "none" /\ account'[u].st = "live"
          => account[u].st = "live"
  <2>1. CASE AddUser(r) \/ CreateAccount(r)
    BY <2>1, NewIsFree DEF AddUser, CreateAccount, NewAccount, AccountInv, TablesOK
  <2>2. CASE UpdatePassword(r)
    BY <2>2 DEF UpdatePassword, AccountInv, TablesOK, Account
  <2>3. CASE FindLinked(r) \/ FindAccounts(r) \/ ExistsForUser(r) \/ CreateLink(r)
    BY <2>3 DEF FindLinked, FindAccounts, ExistsForUser, CreateLink, accounts
  <2> QED
    BY <2>1, <2>2, <2>3
<1> QED
  BY <1>1, <1>2, <1>3, <1>4, CalmMoves

LEMMA CalmAround ==
    ASSUME AccountInv,
           \/ SignOut \/ StartExternal \/ Cleanup \/ UNCHANGED vars
           \/ \E r \in Requests : Fail(r)
    PROVE  Calm
<1>1. CASE SignOut \/ StartExternal \/ Cleanup \/ UNCHANGED vars
  BY <1>1 DEF SignOut, StartExternal, Cleanup, vars, accounts, Calm
<1>2. ASSUME NEW r \in Requests, Fail(r) PROVE Calm
  <2>1. \A p \in Requests \ {r} : req'[p] = req[p]
    BY <1>2, OthersStay DEF AccountInv
  <2>2. now' = now /\ token' = token /\ account' = account
    BY <1>2 DEF Fail, accounts
  <2>3. req'[r].pc = "idle"
    BY <1>2 DEF Fail, End, Idle, AccountInv, RequestsOK
  <2> QED
    BY <2>1, <2>2, <2>3, CalmMoves
<1> QED
  BY <1>1, <1>2

(* The steps that consume and delete tokens.                               *)
LEMMA CalmTokens ==
    ASSUME AccountInv, Blank, NEW r \in Requests,
           \/ InvalidatePending(r) \/ PurgeRequests(r) \/ ResetPassword(r) \/ Purge(r)
    PROVE  Calm
<1>1. \A p \in Requests \ {r} : req'[p] = req[p]
  BY OthersStay DEF AccountInv
<1>2. token \in [Tokens -> Token] /\ req[r] \in Request /\ now \in Nat
  BY AccountsAssumption DEF AccountInv, TablesOK, RequestsOK, Times
<1>3. CASE InvalidatePending(r)
  <2>1. /\ req[r].pc = "invalidate" /\ req'[r].user = req[r].user /\ req'[r].at = req[r].at
        /\ req'[r].raced = req[r].raced
    BY <1>2, <1>3 DEF InvalidatePending, At, GoTo, AccountInv, RequestsOK, Request
  <2>2. \A t \in Tokens :
          /\ token'[t].user = token[t].user /\ token'[t].created = token[t].created
          /\ token'[t].raced = token[t].raced
          /\ token'[t].st = "none" <=> token[t].st = "none"
          /\ token'[t].st = "pending" => token[t].st = "pending" /\ token[t].user # req[r].user
          /\ token'[t].st = "deleted" => token[t].st = "deleted"
    BY <1>2, <1>3 DEF InvalidatePending, Consume, OpenTokens, Token
  <2>3. now' = now /\ account' = account
    BY <1>3 DEF InvalidatePending, At, accounts
  <2> QED
    BY <1>1, <2>1, <2>2, <2>3 DEF Calm
<1>4. CASE PurgeRequests(r)
  <2>1. req'[r].pc = "idle"
    BY <1>4 DEF PurgeRequests, End, Idle, AccountInv, RequestsOK
  <2>2. req[r].at <= now /\ req[r].at \in Nat
    BY AccountsAssumption DEF AccountInv, RequestsOK, Proper, Request, Times
  <2>3. \A t \in Tokens :
          /\ token'[t].user = token[t].user /\ token'[t].created = token[t].created
          /\ token'[t].raced = token[t].raced
          /\ token'[t].st = "none" <=> token[t].st = "none"
          /\ token'[t].st = "pending" => token[t].st = "pending"
          /\ token'[t].st = "deleted" =>
                token[t].st = "deleted" \/ token[t].created + Window < req[r].at
    BY <1>2, <1>4 DEF PurgeRequests, OutsideQuotaWindow, Token
  <2>4. \A t \in Tokens : token[t].created + Window < req[r].at => token[t].created + Window < now
    BY <1>2, <2>2, AccountsAssumption DEF Token, Times
  <2>5. now' = now /\ account' = account
    BY <1>4 DEF PurgeRequests, At, accounts
  <2> QED
    BY <1>1, <2>1, <2>3, <2>4, <2>5 DEF Calm
<1>5. CASE ResetPassword(r)
  <2>1. req'[r].pc \notin {"invalidate", "issue"}
    BY <1>5 DEF ResetPassword, Begin, Idle, AccountInv, RequestsOK
  <2>2. \A t \in Tokens :
          /\ token'[t].user = token[t].user /\ token'[t].created = token[t].created
          /\ token'[t].raced = token[t].raced
          /\ token'[t].st = "none" <=> token[t].st = "none"
          /\ token'[t].st = "pending" => token[t].st = "pending"
          /\ token'[t].st = "deleted" => token[t].st = "deleted"
    <3>1. PICK v \in Tokens : token[v].st = "pending" /\ Consume({v})
      BY <1>5 DEF ResetPassword, Claimable
    <3> QED
      BY <1>2, <3>1 DEF Consume, Token
  <2>3. now' = now /\ account' = account
    BY <1>5 DEF ResetPassword, Begin, accounts
  <2> QED
    BY <1>1, <2>1, <2>2, <2>3 DEF Calm
<1>6. CASE Purge(r)
  <2>1. req'[r].pc = "idle"
    BY <1>6 DEF Purge, End, Idle, AccountInv, RequestsOK
  <2>2. PICK u \in Users : u = req[r].user
    BY <1>6 DEF Purge, At, AccountInv, RequestsOK, Proper, NeedsUser
  <2>3. account'[u].st = "deleted" /\ \A v \in Users : v # u => account'[v] = account[v]
    BY <1>6, <2>2 DEF Purge, AccountInv, TablesOK, Account
  <2>4. \A t \in Tokens :
          /\ token'[t].user = token[t].user /\ token'[t].created = token[t].created
          /\ token'[t].raced = token[t].raced
          /\ token'[t].st = "pending" => token[t].st = "pending"
          /\ token'[t].st = "deleted" => token[t].st = "deleted" \/ token[t].user = u
          /\ token[t].user # u => token'[t].st = token[t].st
          /\ token[t].user = u => token'[t].st = "deleted" /\ token[t].st # "none"
    BY <1>2, <1>6, <2>2, AccountsAssumption DEF Purge, Token, Blank
  <2>5. now' = now
    BY <1>6 DEF Purge, At
  <2> QED
    BY <1>1, <2>1, <2>2, <2>3, <2>4, <2>5 DEF Calm
<1> QED
  BY <1>3, <1>4, <1>5, <1>6

LEMMA CountIsBounded ==
    ASSUME NEW S, NEW T, NEW x, NEW n \in Nat, IsFiniteSet(T), S \subseteq T \cup {x},
           Cardinality(T) < n
    PROVE  IsFiniteSet(S) /\ Cardinality(S) <= n
<1>1. IsFiniteSet(T \cup {x}) /\ Cardinality(T) \in Nat /\ Cardinality(T \cup {x}) <= Cardinality(T) + 1
  <2>1. Cardinality(T) \in Nat
    BY FS_CardinalityType
  <2>2. /\ IsFiniteSet(T \cup {x})
        /\ Cardinality(T \cup {x}) = IF x \in T THEN Cardinality(T) ELSE Cardinality(T) + 1
    BY FS_AddElement
  <2> QED
    BY <2>1, <2>2
<1>2. IsFiniteSet(S) /\ Cardinality(S) <= Cardinality(T \cup {x})
  BY <1>1, FS_Subset
<1>3. Cardinality(S) \in Nat /\ Cardinality(T \cup {x}) \in Nat
  BY <1>1, <1>2, FS_CardinalityType
<1> QED
  BY <1>1, <1>2, <1>3

(* A request the quota lets through has room for one token, counting what  *)
(* the sweep has deleted as well.                                          *)
LEMMA QuotaLeavesRoom ==
    ASSUME AccountInv, RecoveryInv, NEW u \in Users, Exists(u), ~QuotaExceeded(u)
    PROVE  Cardinality(Since(u, now - Window)) < Limit
<1> DEFINE Counted == {t \in Tokens : /\ token[t].st \in {"pending", "consumed"}
                                      /\ token[t].user = u
                                      /\ token[t].created >= now - Window}
<1>1. token \in [Tokens -> Token] /\ now \in Nat /\ Window \in Nat /\ Limit \in Nat
  BY AccountsAssumption DEF AccountInv, TablesOK, Times
<1>2. Counted \subseteq Issued /\ IsFiniteSet(Issued)
  BY DEF Issued, RecoveryInv
<1>3. Since(u, now - Window) \subseteq Counted
  <2> SUFFICES ASSUME NEW t \in Tokens, token[t].st # "none", token[t].user = u,
                      token[t].created >= now - Window
               PROVE  token[t].st # "deleted"
    BY <1>1 DEF Since, Token
  <2>1. token[t].created \in Nat
    BY <1>1, AccountsAssumption DEF Token, Times
  <2> QED
    BY <1>1, <2>1 DEF RecoveryInv, Swept
<1>4. IsFiniteSet(Counted)
  BY <1>2, FS_Subset
<1>5. Cardinality(Since(u, now - Window)) <= Cardinality(Counted)
  BY <1>3, <1>4, FS_Subset
<1>6. Cardinality(Counted) \in Nat /\ Cardinality(Since(u, now - Window)) \in Nat
  BY <1>3, <1>4, FS_Subset, FS_CardinalityType
<1>7. ~(Cardinality(Counted) >= Limit)
  BY DEF QuotaExceeded
<1> HIDE DEF Counted
<1> QED
  BY <1>1, <1>5, <1>6, <1>7

LEMMA ResetRequestRecovers ==
    ASSUME AccountInv, RecoveryInv, NEW r \in Requests, RequestReset(r)
    PROVE  RecoveryInv'
<1>1. PICK u \in Users :
         /\ Exists(u) /\ ~QuotaExceeded(u) /\ req[r].pc = "idle"
         /\ req' \in [Requests -> Request]
         /\ req'[r].pc = "invalidate" /\ req'[r].user = u /\ req'[r].at = now
         /\ req'[r].op = "forgot"
         /\ req'[r].raced = (Recovering(u) # {})
         /\ \A q \in Requests \ {r} :
               /\ req'[q].pc = req[q].pc /\ req'[q].user = req[q].user
               /\ req'[q].item = req[q].item /\ req'[q].at = req[q].at
               /\ req'[q].subject = req[q].subject /\ req'[q].op = req[q].op
               /\ req'[q].raced = (req[q].raced \/ q \in Recovering(u))
  BY ResetRequested, Zenon
<1>2. UNCHANGED <<now, account, token>>
  BY DEF RequestReset, accounts
<1>3. /\ \A v \in Users : v # u => Recovering(v)' = Recovering(v)
      /\ \A q \in Recovering(u)' : q = r \/ q \in Recovering(u)
      /\ \A v \in Users : r \notin Recovering(v)
  BY <1>1 DEF Recovering
<1>4. req'[r].raced <=> Recovering(u) # {}
  BY <1>1
<1>5. \A q \in Requests \ {r} : req'[q].raced <=> (req[q].raced \/ q \in Recovering(u))
  BY <1>1
<1>6. Overlaps'
  <2> SUFFICES ASSUME NEW v \in Users, NEW p \in Recovering(v)', NEW q \in Recovering(v)', p # q
               PROVE  req'[p].raced /\ req'[q].raced
    BY DEF Overlaps
  <2>1. p \in Requests /\ q \in Requests
    BY DEF Recovering
  <2>2. CASE v # u
    <3>1. p \in Recovering(v) /\ q \in Recovering(v) /\ p # r /\ q # r
      BY <1>3, <2>2
    <3>2. req[p].raced /\ req[q].raced
      BY <3>1 DEF RecoveryInv, Overlaps
    <3> QED
      BY <1>5, <2>1, <3>1, <3>2
  <2>3. CASE v = u
    BY <1>3, <1>4, <1>5, <2>1, <2>3
  <2> QED
    BY <2>2, <2>3
<1>7. IssuesAlone'
  <2> SUFFICES ASSUME NEW q \in Requests, NEW t \in Tokens, req'[q].pc = "issue",
                      token[t].st = "pending", token[t].user = req'[q].user
               PROVE  token[t].raced /\ req'[q].raced
    BY <1>2 DEF IssuesAlone
  <2>1. q # r /\ req[q].pc = "issue" /\ token[t].user = req[q].user
    BY <1>1
  <2> QED
    BY <1>5, <2>1 DEF RecoveryInv, IssuesAlone
<1>8. RoomLeft'
  <2> SUFFICES ASSUME NEW v \in Users, NEW q \in Recovering(v)', ~req'[q].raced
               PROVE  Cardinality(Since(v, req'[q].at - Window)) < Limit
    BY <1>2 DEF RoomLeft, Since
  <2>1. q \in Requests
    BY DEF Recovering
  <2>2. CASE q = r
    <3>1. v = u
      BY <1>1, <2>2 DEF Recovering
    <3> QED
      BY <1>1, <2>2, <3>1, QuotaLeavesRoom
  <2>3. CASE q # r
    BY <1>1, <1>3, <1>5, <2>1, <2>3 DEF RecoveryInv, RoomLeft
  <2> QED
    BY <2>2, <2>3
<1>9. Swept' /\ OneTokenAtATime' /\ Blank'
  BY <1>2 DEF RecoveryInv, Swept, OneTokenAtATime, Blank, Exists
<1>10. QuotaHolds' /\ IsFiniteSet(Issued)'
  BY <1>2 DEF RecoveryInv, QuotaHolds, Issued
<1> QED
  BY <1>6, <1>7, <1>8, <1>9, <1>10 DEF RecoveryInv

LEMMA IssueRecovers ==
    ASSUME AccountInv, RecoveryInv, NEW r \in Requests, IssueToken(r)
    PROVE  RecoveryInv'
<1>1. /\ UNCHANGED <<now, account>> /\ req[r].pc = "issue" /\ Proper(req[r])
      /\ \A p \in Requests \ {r} : req'[p] = req[p]
  BY OthersStay DEF IssueToken, At, accounts, AccountInv, RequestsOK
<1>2. PICK u \in Users : u = req[r].user
  BY <1>1 DEF Proper, NeedsUser
<1>3. req'[r].pc \in {"idle", "sweep"}
  BY DEF IssueToken, GoTo, End, Idle, AccountInv, RequestsOK, Request
<1>4. CASE ~Exists(u)
  <2>1. token' = token
    BY <1>2, <1>4 DEF IssueToken
  <2> QED
    BY <1>1, <1>3, <2>1, CalmMoves, CalmKeeps
<1>5. CASE Exists(u)
  <2>1. PICK n \in Tokens :
           /\ token[n].st = "none"
           /\ token' = [token EXCEPT ![n] = NewToken(req[r].user, req[r].raced)]
    BY <1>2, <1>5, NewIsFree DEF IssueToken, AccountInv, TablesOK
  <2>2. /\ token'[n].st = "pending" /\ token'[n].user = u /\ token'[n].created = now
        /\ \A t \in Tokens \ {n} : token'[t] = token[t]
    BY <1>2, <2>1 DEF NewToken, AccountInv, TablesOK
  <2>3. token'[n].raced <=> req[r].raced
    BY <2>1 DEF NewToken, AccountInv, TablesOK
  <2>4. \A v \in Users : /\ Recovering(v)' \subseteq Recovering(v) \ {r}
                         /\ \A q \in Recovering(v)' : q # r /\ req'[q] = req[q]
    BY <1>1, <1>3 DEF Recovering
  <2>5. r \in Recovering(u)
    BY <1>1, <1>2 DEF Recovering
  <2>6. /\ now \in Nat /\ Window \in Nat /\ Limit \in Nat /\ token \in [Tokens -> Token]
        /\ req[r].at \in Nat /\ req[r].at <= now
    BY <1>1, AccountsAssumption DEF AccountInv, TablesOK, Times, Proper, Request
  <2>7. Overlaps'
    BY <2>4 DEF Overlaps, RecoveryInv
  <2>8. IssuesAlone'
    <3> SUFFICES ASSUME NEW q \in Requests, NEW t \in Tokens, req'[q].pc = "issue",
                        token'[t].st = "pending", token'[t].user = req'[q].user
                 PROVE  token'[t].raced /\ req'[q].raced
      BY DEF IssuesAlone
    <3>1. q # r /\ req'[q] = req[q]
      BY <1>1, <1>3
    <3>2. CASE t = n
      <4>1. q \in Recovering(u)
        BY <2>2, <3>1, <3>2 DEF Recovering
      <4>2. req[q].raced /\ req[r].raced
        BY <2>5, <3>1, <4>1 DEF RecoveryInv, Overlaps
      <4> QED
        BY <2>3, <3>1, <3>2, <4>2
    <3>3. CASE t # n
      BY <2>2, <3>1, <3>3 DEF RecoveryInv, IssuesAlone
    <3> QED
      BY <3>2, <3>3
  <2>9. Swept'
    <3> SUFFICES ASSUME NEW t \in Tokens
                 PROVE  /\ token'[t].created <= now
                        /\ token'[t].st = "deleted" /\ account[token'[t].user].st = "live"
                              => token'[t].created + Window < now
      BY <1>1 DEF Swept, Exists
    <3> QED
      BY <2>2, <2>6 DEF RecoveryInv, Swept, Exists
  <2>10. RoomLeft'
    <3> SUFFICES ASSUME NEW v \in Users, NEW q \in Recovering(v)', ~req'[q].raced
                 PROVE  Cardinality({t \in Tokens :
                           /\ token'[t].st # "none" /\ token'[t].user = v
                           /\ ~token'[t].raced /\ token'[t].created >= req'[q].at - Window}) < Limit
      BY DEF RoomLeft, Since
    <3>1. q # r /\ req'[q] = req[q] /\ q \in Recovering(v)
      BY <2>4
    <3>2. v # u
      BY <2>5, <3>1 DEF RecoveryInv, Overlaps
    <3>3. token[n].user # v
      BY <2>1, AccountsAssumption DEF RecoveryInv, Blank
    <3>4. {t \in Tokens : /\ token'[t].st # "none" /\ token'[t].user = v
                          /\ ~token'[t].raced /\ token'[t].created >= req'[q].at - Window}
          = Since(v, req[q].at - Window)
      BY <2>2, <3>1, <3>2, <3>3 DEF Since
    <3> QED
      BY <3>1, <3>4 DEF RecoveryInv, RoomLeft
  <2>11. IsFiniteSet(Issued)'
    <3>1. Issued' = Issued \cup {n}
      BY <2>2 DEF Issued
    <3> QED
      BY <3>1, FS_AddElement DEF RecoveryInv
  <2>12. OneTokenAtATime'
    <3> SUFFICES ASSUME NEW t \in Tokens, t # n, token[t].st = "pending", token[t].user = u
                 PROVE  token[t].raced /\ req[r].raced
      BY <2>2, <2>3 DEF RecoveryInv, OneTokenAtATime
    <3> QED
      BY <1>1, <1>2 DEF RecoveryInv, IssuesAlone
  <2>13. QuotaHolds'
    <3> SUFFICES ASSUME NEW v \in Users, NEW w \in Times
                 PROVE  Cardinality({t \in Tokens :
                           /\ token'[t].st # "none" /\ token'[t].user = v /\ ~token'[t].raced
                           /\ token'[t].created \in w .. (w + Window)}) <= Limit
      BY DEF QuotaHolds
    <3> DEFINE Was == {t \in Tokens : /\ token[t].st # "none" /\ token[t].user = v /\ ~token[t].raced
                                      /\ token[t].created \in w .. (w + Window)}
               Is == {t \in Tokens : /\ token'[t].st # "none" /\ token'[t].user = v /\ ~token'[t].raced
                                     /\ token'[t].created \in w .. (w + Window)}
    <3>1. w \in Nat
      BY AccountsAssumption DEF Times
    <3>2. CASE v = u /\ ~req[r].raced /\ now \in w .. (w + Window)
      <4>1. Cardinality(Since(u, req[r].at - Window)) < Limit
        BY <2>5, <3>2 DEF RecoveryInv, RoomLeft
      <4>2. Is \subseteq Since(u, req[r].at - Window) \cup {n}
        <5> SUFFICES ASSUME NEW t \in Is, t # n PROVE t \in Since(u, req[r].at - Window)
          OBVIOUS
        <5>1. token'[t] = token[t] /\ t \in Tokens /\ token[t].created \in Nat
          BY <2>2, <2>6, AccountsAssumption DEF Token, Times
        <5> QED
          BY <2>6, <3>1, <3>2, <5>1 DEF Since
      <4>3. IsFiniteSet(Since(u, req[r].at - Window))
        <5>1. Since(u, req[r].at - Window) \subseteq Issued
          BY DEF Since, Issued
        <5> QED
          BY <5>1, FS_Subset DEF RecoveryInv
      <4> HIDE DEF Is
      <4>4. Cardinality(Is) <= Limit
        BY <2>6, <4>1, <4>2, <4>3, CountIsBounded
      <4> QED
        BY <4>4 DEF Is
    <3>3. CASE ~(v = u /\ ~req[r].raced /\ now \in w .. (w + Window))
      <4>1. n \notin Is
        BY <2>2, <2>3, <3>3
      <4>2. n \notin Was
        BY <2>1
      <4>3. Is = Was
        BY <2>2, <4>1, <4>2
      <4>4. Cardinality(Was) <= Limit
        BY DEF RecoveryInv, QuotaHolds
      <4> QED
        BY <4>3, <4>4
    <3> QED
      BY <3>2, <3>3
  <2>14. Blank'
    BY <2>2 DEF RecoveryInv, Blank
  <2> QED
    BY <2>7, <2>8, <2>9, <2>10, <2>11, <2>12, <2>13, <2>14 DEF RecoveryInv
<1> QED
  BY <1>4, <1>5

LEMMA TickRecovers ==
    ASSUME AccountInv, RecoveryInv, Tick
    PROVE  RecoveryInv'
<1>1. UNCHANGED <<account, token, req>> /\ now' = now + 1 /\ now \in Nat
  BY AccountsAssumption DEF Tick, accounts, AccountInv, TablesOK, Times
<1>2. \A t \in Tokens : token[t].created \in Nat
  BY AccountsAssumption DEF AccountInv, TablesOK, Token, Times
<1>3. Swept'
  BY <1>1, <1>2, AccountsAssumption DEF RecoveryInv, Swept, Exists
<1>4. Overlaps' /\ IssuesAlone' /\ RoomLeft'
  BY <1>1 DEF RecoveryInv, Overlaps, IssuesAlone, RoomLeft, Recovering, Since
<1>5. IsFiniteSet(Issued)' /\ OneTokenAtATime' /\ QuotaHolds' /\ Blank'
  BY <1>1 DEF RecoveryInv, Issued, OneTokenAtATime, QuotaHolds, Blank
<1> QED
  BY <1>3, <1>4, <1>5 DEF RecoveryInv

LEMMA InitRecovers == Init => RecoveryInv
<1> SUFFICES ASSUME Init PROVE RecoveryInv
  OBVIOUS
<1>1. Overlaps /\ IssuesAlone /\ RoomLeft
  BY DEF Init, Overlaps, IssuesAlone, RoomLeft, Recovering, Idle
<1>2. Swept /\ OneTokenAtATime /\ Blank
  BY DEF Init, Swept, OneTokenAtATime, Blank
<1>3. IsFiniteSet(Issued)
  <2>1. Issued = {}
    BY DEF Init, Issued
  <2> QED
    BY <2>1, FS_EmptySet
<1>4. QuotaHolds
  <2> SUFFICES ASSUME NEW u \in Users, NEW w \in Times
               PROVE  Cardinality({t \in Tokens :
                         /\ token[t].st # "none" /\ token[t].user = u /\ ~token[t].raced
                         /\ token[t].created \in w .. (w + Window)}) <= Limit
    BY DEF QuotaHolds
  <2>1. {t \in Tokens : /\ token[t].st # "none" /\ token[t].user = u /\ ~token[t].raced
                        /\ token[t].created \in w .. (w + Window)} = {}
    BY DEF Init
  <2>2. Cardinality({}) <= Limit
    BY FS_EmptySet, AccountsAssumption
  <2> QED
    BY <2>1, <2>2, Zenon
<1> QED
  BY <1>1, <1>2, <1>3, <1>4 DEF RecoveryInv

LEMMA RecoveryStep ==
    ASSUME AccountInv, RecoveryInv, [Next]_vars
    PROVE  RecoveryInv'
<1>1. Blank
  BY DEF RecoveryInv
<1>2. Calm => RecoveryInv'
  BY CalmKeeps
<1> QED
  BY <1>1, <1>2, CalmEntries, CalmExternal, CalmAround, CalmTokens, ResetRequestRecovers,
     IssueRecovers, TickRecovers DEF Next

-----------------------------------------------------------------------------
(* The cleanup.                                                            *)

LEMMA CleanupStep ==
    ASSUME AccountInv, [Next]_vars, NEW s \in Sessions, Valid(s), session'[s].st = "deleted"
    PROVE  account'[session[s].user].st = "deleted"
<1>1. /\ session[s].st = "live" /\ session[s].revoked = None
      /\ session[s].created + SessionTtl > now /\ now < session[s].used + IdleTtl
      /\ session[s] \in Session /\ now \in Nat /\ session[s].user \in Users
  BY AccountsAssumption DEF Valid, AccountInv, TablesOK, KeysOK, Times
<1>2. CASE \E r \in Requests : Purge(r)
  <2>1. PICK r \in Requests : Purge(r)
    BY <1>2
  <2>2. session[s].user = req[r].user
    BY <1>1, <2>1 DEF Purge
  <2> QED
    BY <1>1, <2>1, <2>2 DEF Purge, AccountInv, TablesOK, Account
<1>3. CASE Cleanup
  <2>1. ~Prunable(s)
    BY <1>1, AccountsAssumption DEF Prunable, Session, Times
  <2>2. session'[s] = session[s]
    BY <1>3, <2>1 DEF Cleanup
  <2> QED
    BY <1>1, <2>2
<1>4. CASE \E r \in Requests : CreateSession(r)
  BY <1>1, <1>4, NewIsFree DEF CreateSession, NewSession, AccountInv, TablesOK
<1>5. CASE SignOut \/ \E r \in Requests : Touch(r) \/ RevokeAll(r)
  <2>1. session'[s].st = session[s].st
    <3>1. CASE SignOut
      BY <3>1 DEF SignOut, AccountInv, TablesOK, Session
    <3>2. ASSUME NEW r \in Requests, Touch(r) PROVE session'[s].st = session[s].st
      BY <3>2 DEF Touch, AccountInv, TablesOK, Session
    <3>3. ASSUME NEW r \in Requests, RevokeAll(r) PROVE session'[s].st = session[s].st
      BY <3>3 DEF RevokeAll, AccountInv, TablesOK, Session
    <3> QED
      BY <1>5, <3>1, <3>2, <3>3
  <2> QED
    BY <1>1, <2>1
<1>6. ASSUME NEW r \in Requests,
             \/ Register(r) \/ AddUser(r) \/ Announce(r) \/ SignIn(r)
             \/ \E op \in {"visit", "change", "purge"} : Authenticate(r, op)
             \/ Load(r) \/ UpdatePassword(r)
      PROVE  session' = session
  BY <1>6 DEF Register, AddUser, Announce, SignIn, Authenticate, Load, UpdatePassword
<1>7. ASSUME NEW r \in Requests,
             \/ RequestReset(r) \/ InvalidatePending(r) \/ IssueToken(r)
             \/ PurgeRequests(r) \/ ResetPassword(r)
             \/ CompleteExternal(r) \/ FindLinked(r) \/ FindAccounts(r)
             \/ ExistsForUser(r) \/ CreateLink(r) \/ CreateAccount(r)
             \/ Fail(r)
      PROVE  session' = session
  BY <1>7 DEF RequestReset, InvalidatePending, IssueToken, PurgeRequests, ResetPassword,
     CompleteExternal, FindLinked, FindAccounts, ExistsForUser, CreateLink, CreateAccount, Fail
<1>8. CASE StartExternal \/ Tick \/ UNCHANGED vars
  <2>1. session' = session
    BY <1>8 DEF StartExternal, Tick, vars
  <2> QED
    BY <1>1, <2>1
<1> QED
  BY <1>1, <1>2, <1>3, <1>4, <1>5, <1>6, <1>7, <1>8 DEF Next

-----------------------------------------------------------------------------
(* The tables and the requests stay of their types, the unique indexes and *)
(* the foreign keys hold after every statement.                            *)
THEOREM TypeCorrect == Spec => []TypeOK
<1>1. AccountInv => TypeOK
  BY DEF AccountInv, TablesOK, RequestsOK, KeysOK, TypeOK, Exists
<1> QED
  BY <1>1, AccountAlways, PTL

(* Every account has a password or an identity, however registrations,     *)
(* external sign-ins and deletions interleave and wherever they die:       *)
(* CreateAccountFromExternalIdentity writes both rows or none.             *)
THEOREM AccessCorrect == Spec => []NoAccountWithoutAccess
<1>1. AccountInv => NoAccountWithoutAccess
  BY DEF AccountInv
<1> QED
  BY <1>1, AccountAlways, PTL

(* A session of an earlier password lives on only until the request that   *)
(* replaced the password ends the sessions, or for good if it dies first.  *)
THEOREM OldSessionsCorrect == Spec => []OldSessionsEnd
<1>1. Init => OldSessionsEnd
  BY DEF Init, OldSessionsEnd
<1>2. AccountInv /\ OldSessionsEnd /\ [Next]_vars => OldSessionsEnd'
  BY OldSessionsStep
<1> QED
  BY <1>1, <1>2, AccountAlways, PTL DEF Spec

(* One recovery token is open at a time and no window holds more of them   *)
(* than the quota, but for requests that overlapped: the order of          *)
(* countByUserSince, invalidatePendingByUser and create, and a sweep that  *)
(* spares what the quota still counts, are enough.                         *)
THEOREM RecoveryCorrect == Spec => []RecoveryIsBounded
<1>1. AccountInv /\ RecoveryInv /\ [Next]_vars => RecoveryInv'
  BY RecoveryStep
<1>2. RecoveryInv => RecoveryIsBounded
  BY DEF RecoveryInv, RecoveryIsBounded
<1> QED
  BY <1>1, <1>2, InitRecovers, AccountAlways, PTL DEF Spec

(* No step takes a session that would still be accepted, but with its      *)
(* account: the cleanup never deletes what isValid allows.                 *)
THEOREM CleanupCorrect == Spec => CleanupSparesTheValid
<1> DEFINE Spares == \A s \in Sessions :
              Valid(s) /\ session'[s].st = "deleted"
                 => account'[session[s].user].st = "deleted"
<1>1. AccountInv /\ [Next]_vars => [Spares]_vars
  BY CleanupStep
<1>2. []AccountInv /\ [][Next]_vars => [][Spares]_vars
  BY <1>1, PTL
<1> QED
  BY <1>2, AccountAlways, PTL DEF Spec, CleanupSparesTheValid

=============================================================================
