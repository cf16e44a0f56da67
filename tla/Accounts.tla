------------------------------ MODULE Accounts ------------------------------
(***************************************************************************)
(* Accounts and the ways into them: registration, sign-in with a password, *)
(* sign-in with an external identity, change and recovery of the password, *)
(* the sessions all of these open and end, and deletion of the account.    *)
(*                                                                         *)
(* Each action is one statement against the database with the code that    *)
(* runs between it and the next. The creation of an account for an         *)
(* external identity and its deletion are transactions, one action each.   *)
(* A request that its first read refuses changes nothing and is no step.   *)
(***************************************************************************)
EXTENDS Integers, FiniteSets

CONSTANTS
    Users, Sessions, Tokens, Flows,  \* identifiers new rows may get
    Emails, Fold,           \* addresses; what lower() makes of each
    Subjects,               \* identities at the provider
    Requests,               \* requests that may be in flight at once
    TokenTtl, Window, Limit,        \* of password recovery
    SessionTtl, IdleTtl, TouchAfter, Grace, FlowTtl,
    None,
    Budgets,                \* bound: how often each operation may start
    MaxTime,                \* bound: the last instant
    MaxFailures             \* bound: requests killed half way

Operations == {"register", "signin", "signout", "visit", "change", "forgot",
               "reset", "start", "external", "purge", "tick", "cleanup"}

ASSUME AccountsAssumption ==
    /\ {TokenTtl, Window, Limit, SessionTtl, IdleTtl, TouchAfter, Grace,
        FlowTtl, MaxTime, MaxFailures} \subseteq Nat
    /\ \A e \in Emails : Fold[e] \in Emails
    /\ Budgets \subseteq [Operations -> Nat]
    /\ None \notin Users \cup Sessions \cup Tokens \cup Flows \cup Nat

VARIABLES
    now,
    account,                \* users table
    subscribed,             \* users whose Free subscription was started
    session, token, flow,   \* sessions, reset requests, sign-in requests
    link,                   \* linked_identities, by subject
    req,                    \* requests in flight
    left, failures,         \* what remains of the bounds
    cut                     \* history: users of a change that died before
                            \* it could end their sessions

vars == <<now, account, subscribed, session, token, flow, link, req, left,
          failures, cut>>
accounts == <<account, subscribed, link>>

Times == 0 .. MaxTime

-----------------------------------------------------------------------------
(* Rows are never given the id of a deleted one. The hash of an account    *)
(* counts its passwords, 0 being none. What a row keeps for the properties *)
(* alone: via says what opened a session, born is the hash of its account  *)
(* then; raced says that two recoveries overlapped.                        *)
Account == [st : {"none", "live", "deleted"}, email : Emails \cup {None},
            hash : Nat]
Session == [st : {"none", "live", "deleted"}, user : Users \cup {None},
            via : {"none", "password", "register", "linked", "created"},
            born : Nat, created : Times,
            used : Times, revoked : Times \cup {None}]
Token == [st : {"none", "pending", "consumed", "deleted"},
          user : Users \cup {None}, created : Times, raced : BOOLEAN]
Flow == [st : {"none", "pending", "consumed", "deleted"}, expires : Nat]

(* item is the session, reset token or sign-in request presented.          *)
Request == [op : Operations \cup {"none"},
            pc : {"idle", "adduser", "announce", "session", "touch", "load",
                  "update", "revoke", "invalidate", "issue", "sweep",
                  "linked", "accounts", "exists", "link", "create", "purge"},
            user : Users \cup {None}, email : Emails \cup {None},
            via : {"none", "password", "register", "linked", "created"},
            item : Sessions \cup Tokens \cup Flows \cup {None},
            subject : Subjects \cup {None}, verified : BOOLEAN,
            at : Times, raced : BOOLEAN]
Idle == [op |-> "none", pc |-> "idle", user |-> None, email |-> None,
         via |-> "none", item |-> None, subject |-> None,
         verified |-> FALSE, at |-> 0, raced |-> FALSE]

TypeOK ==
    /\ now \in Times
    /\ account \in [Users -> Account] /\ subscribed \subseteq Users
    /\ session \in [Sessions -> Session]
    /\ token \in [Tokens -> Token] /\ flow \in [Flows -> Flow]
    /\ link \in [Subjects -> Users \cup {None}]
    /\ req \in [Requests -> Request]
    /\ left \in [Operations -> Nat]
    /\ failures \in 0 .. MaxFailures /\ cut \subseteq Users
    \* unique indexes and foreign keys
    /\ \A u, v \in Users :
          u # v /\ account[u].st = "live" /\ account[v].st = "live"
             => account[u].email # account[v].email
    /\ \A g, h \in Subjects :
          g # h /\ link[g] # None => link[g] # link[h]
    /\ \A s \in Sessions : session[s].st = "live"
          => account[session[s].user].st = "live"
    /\ \A g \in Subjects : link[g] # None => account[link[g]].st = "live"

Init ==
    /\ now = 0
    /\ account = [u \in Users |->
                     [st |-> "none", email |-> None, hash |-> 0]]
    /\ subscribed = {} /\ cut = {}
    /\ session = [s \in Sessions |->
                     [st |-> "none", user |-> None, via |-> "none",
                      born |-> 0, created |-> 0, used |-> 0,
                      revoked |-> None]]
    /\ token = [t \in Tokens |->
                   [st |-> "none", user |-> None, created |-> 0,
                    raced |-> FALSE]]
    /\ flow = [f \in Flows |-> [st |-> "none", expires |-> 0]]
    /\ link = [g \in Subjects |-> None]
    /\ req = [r \in Requests |-> Idle]
    /\ left \in Budgets
    /\ failures = 0

-----------------------------------------------------------------------------
Exists(u) == account[u].st = "live"
HasNew(table) == \E x \in DOMAIN table : table[x].st = "none"
New(table) == CHOOSE x \in DOMAIN table : table[x].st = "none"

(* The rows that create and findByProviderAndSubject write and read.       *)
NewSession(u, via) ==
    [st |-> "live", user |-> u, via |-> via, born |-> account[u].hash,
     created |-> now, used |-> now, revoked |-> None]
NewToken(u, overlapped) ==
    [st |-> "pending", user |-> u, created |-> now, raced |-> overlapped]
NewFlow == [st |-> "pending", expires |-> now + FlowTtl]
LinkedUser(g) == link[g]

(* Session.isValid.                                                        *)
Valid(s) ==
    /\ session[s].st = "live" /\ session[s].revoked = None
    /\ session[s].created + SessionTtl > now
    /\ now < session[s].used + IdleTtl

Spend(op) == left[op] > 0 /\ left' = [left EXCEPT ![op] = @ - 1]
Begin(r, op, pc, fields) ==
    /\ req[r].pc = "idle" /\ Spend(op)
    /\ req' = [req EXCEPT ![r] = [fields EXCEPT !.op = op, !.pc = pc]]
    /\ UNCHANGED <<now, failures, cut>>
At(r, pc) == req[r].pc = pc /\ UNCHANGED <<now, left, failures>>
GoTo(r, pc) == req' = [req EXCEPT ![r].pc = pc]
End(r) == req' = [req EXCEPT ![r] = Idle]

-----------------------------------------------------------------------------
(* Registration and sign-in with a password.                               *)

Register(r) ==
    /\ \E e \in Emails :
          /\ ~ \E u \in Users : Exists(u) /\ account[u].email = e
          /\ Begin(r, "register", "adduser",
                   [Idle EXCEPT !.email = e, !.via = "register"])
    /\ UNCHANGED <<accounts, session, token, flow>>

AddUser(r) ==
    /\ At(r, "adduser") /\ HasNew(account)
    /\ IF \E u \in Users : Exists(u) /\ account[u].email = req[r].email
       THEN End(r) /\ UNCHANGED account
       ELSE LET u == New(account) IN
            /\ account' = [account EXCEPT ![u] =
                  [st |-> "live", email |-> req[r].email, hash |-> 1]]
            /\ req' = [req EXCEPT ![r].pc = "announce", ![r].user = u]
    /\ UNCHANGED <<subscribed, link, session, token, flow, cut>>

(* UserCreated, whose handler starts the Free subscription; with the       *)
(* account gone its insert fails and the request with it.                  *)
Announce(r) ==
    /\ At(r, "announce")
    /\ IF Exists(req[r].user)
       THEN GoTo(r, "session") /\ subscribed' = subscribed \cup {req[r].user}
       ELSE End(r) /\ UNCHANGED subscribed
    /\ UNCHANGED <<account, link, session, token, flow, cut>>

SignIn(r) ==
    /\ \E u \in Users :
          /\ Exists(u) /\ account[u].hash > 0
          /\ Begin(r, "signin", "session",
                   [Idle EXCEPT !.user = u, !.via = "password"])
    /\ UNCHANGED <<accounts, session, token, flow>>

(* SessionManager.createSession, the last step of every way in.            *)
CreateSession(r) ==
    /\ At(r, "session") /\ HasNew(session)
    /\ IF Exists(req[r].user)
       THEN session' = [session EXCEPT ![New(session)] =
               NewSession(req[r].user, req[r].via)]
       ELSE UNCHANGED session
    /\ End(r)
    /\ UNCHANGED <<accounts, token, flow, cut>>

SignOut ==
    /\ Spend("signout")
    /\ \E s \in Sessions :
          /\ session[s].st = "live" /\ session[s].revoked = None
          /\ session' = [session EXCEPT ![s].revoked = now]
    /\ UNCHANGED <<now, accounts, token, flow, req, failures, cut>>

-----------------------------------------------------------------------------
(* Requests made with a session: AuthMiddleware, then the use case.        *)

Authenticate(r, op) ==
    /\ \E s \in Sessions :
          /\ Valid(s)
          /\ Begin(r, op,
                   IF now > session[s].used + TouchAfter THEN "touch"
                                                         ELSE "load",
                   [Idle EXCEPT !.user = session[s].user, !.item = s,
                                !.at = now])
    /\ UNCHANGED <<accounts, session, token, flow>>

Touch(r) ==
    /\ At(r, "touch")
    /\ session' = IF session[req[r].item].st = "live"
                  THEN [session EXCEPT ![req[r].item].used = req[r].at]
                  ELSE session
    /\ GoTo(r, "load")
    /\ UNCHANGED <<accounts, token, flow, cut>>

(* findUserById; a change then compares the current password and the new   *)
(* one, both of which may make it stop here.                               *)
Load(r) ==
    /\ At(r, "load")
    /\ LET u == req[r].user IN
       \/ End(r)
       \/ /\ Exists(u)
          /\ \/ req[r].op = "change" /\ account[u].hash > 0
                /\ GoTo(r, "update")
             \/ req[r].op = "reset" /\ GoTo(r, "update")
             \/ req[r].op = "purge" /\ GoTo(r, "purge")
    /\ UNCHANGED <<accounts, session, token, flow, cut>>

(* updatePassword, of a change or a reset.                                 *)
UpdatePassword(r) ==
    /\ At(r, "update")
    /\ LET u == req[r].user IN
       IF Exists(u)
       THEN account' = [account EXCEPT ![u].hash = @ + 1]
       ELSE UNCHANGED account
    /\ GoTo(r, "revoke")
    /\ UNCHANGED <<subscribed, link, session, token, flow, cut>>

(* The session a change was made with; a reset has none.                   *)
MadeWith(r, s) == req[r].op = "change" /\ s = req[r].item
(* Fault: the session an account was created with is spared as well.       *)
SparedIfFirst(r, s) == MadeWith(r, s) \/ session[s].via = "created"
Spared(r, s) == MadeWith(r, s)

(* revokeAllForUser. Looking up the spared session before the update shows *)
(* nowhere: if its row is gone the update cannot touch it either way.      *)
RevokeAll(r) ==
    /\ At(r, "revoke")
    /\ LET u == req[r].user IN
       /\ session' = [s \in Sessions |->
             IF session[s].st # "live" \/ session[s].user # u
                \/ session[s].revoked # None THEN session[s]
             ELSE IF Spared(r, s)
                  THEN [session[s] EXCEPT
                           !.born = IF MadeWith(r, s) THEN account[u].hash
                                    ELSE @]
                  ELSE [session[s] EXCEPT !.revoked = now]]
       /\ cut' = cut \ {u}
    /\ End(r)
    /\ UNCHANGED <<accounts, token, flow>>

(* purgeUserData, one transaction; the cascades of the foreign keys.       *)
Purge(r) ==
    /\ At(r, "purge")
    /\ LET u == req[r].user IN
       /\ account' = [account EXCEPT ![u].st = "deleted"]
       /\ subscribed' = subscribed \ {u}
       /\ link' = [g \in Subjects |-> IF link[g] = u THEN None ELSE link[g]]
       /\ session' = [s \in Sessions |->
             IF session[s].user = u
             THEN [session[s] EXCEPT !.st = "deleted"] ELSE session[s]]
       /\ token' = [t \in Tokens |->
             IF token[t].user = u
             THEN [token[t] EXCEPT !.st = "deleted"] ELSE token[t]]
    /\ End(r)
    /\ UNCHANGED <<flow, cut>>

-----------------------------------------------------------------------------
(* Recovery of a password.                                                 *)

Recovering(u) == {q \in Requests :
    req[q].user = u /\ req[q].pc \in {"invalidate", "issue"}}

(* countByUserSince the start of the window; rows of the past only.        *)
QuotaExceeded(u) ==
    Cardinality({t \in Tokens : /\ token[t].st \in {"pending", "consumed"}
                                /\ token[t].user = u
                                /\ token[t].created >= now - Window}) >= Limit

(* The account, then the quota: below it the request goes on, and from     *)
(* here the tokens of overlapping requests are marked.                     *)
RequestReset(r) ==
    /\ req[r].pc = "idle" /\ Spend("forgot")
    /\ \E u \in Users :
          /\ Exists(u) /\ ~QuotaExceeded(u)
          /\ req' = [q \in Requests |->
                IF q = r
                THEN [Idle EXCEPT !.op = "forgot", !.pc = "invalidate",
                                  !.user = u, !.at = now,
                                  !.raced = Recovering(u) # {}]
                ELSE [req[q] EXCEPT !.raced = @ \/ q \in Recovering(u)]]
    /\ UNCHANGED <<now, accounts, session, token, flow, failures, cut>>

Consume(ts) == token' = [t \in Tokens |->
    IF t \in ts THEN [token[t] EXCEPT !.st = "consumed"] ELSE token[t]]

(* Fault: only tokens that have expired are invalidated.                   *)
OpenTokensExpired(u) ==
    {t \in Tokens : /\ token[t].st = "pending" /\ token[t].user = u
                    /\ token[t].created + TokenTtl <= now}
OpenTokens(u) == {t \in Tokens : token[t].st = "pending" /\ token[t].user = u}

InvalidatePending(r) ==
    /\ At(r, "invalidate")
    /\ Consume(OpenTokens(req[r].user))
    /\ GoTo(r, "issue")
    /\ UNCHANGED <<accounts, session, flow, cut>>

(* The e-mail is sent without waiting for it and changes no row.           *)
IssueToken(r) ==
    /\ At(r, "issue") /\ HasNew(token)
    /\ IF Exists(req[r].user)
       THEN /\ token' = [token EXCEPT ![New(token)] =
                  NewToken(req[r].user, req[r].raced)]
            /\ GoTo(r, "sweep")
       ELSE End(r) /\ UNCHANGED token
    /\ UNCHANGED <<accounts, session, flow, cut>>

OutsideQuotaWindow(r, t) == token[t].created + Window < req[r].at

PurgeRequests(r) ==
    /\ At(r, "sweep")
    /\ token' = [t \in Tokens |->
          IF token[t].st # "none" /\ OutsideQuotaWindow(r, t)
          THEN [token[t] EXCEPT !.st = "deleted"] ELSE token[t]]
    /\ End(r)
    /\ UNCHANGED <<accounts, session, flow, cut>>

Claimable(t) == token[t].st = "pending"

(* The claim consumes the token before anything is known of it.            *)
ResetPassword(r) ==
    /\ \E t \in Tokens :
          /\ Claimable(t) /\ Consume({t})
          /\ IF token[t].created + TokenTtl > now
             THEN Begin(r, "reset", "load",
                        [Idle EXCEPT !.user = token[t].user, !.item = t])
             ELSE /\ req[r].pc = "idle" /\ Spend("reset")
                  /\ UNCHANGED <<now, req, failures, cut>>
    /\ UNCHANGED <<accounts, session, flow>>

-----------------------------------------------------------------------------
(* Sign-in with an external identity.                                      *)

StartExternal ==
    /\ Spend("start") /\ HasNew(flow)
    /\ flow' = [flow EXCEPT ![New(flow)] = NewFlow]
    /\ UNCHANGED <<now, accounts, session, token, req, failures, cut>>

ClaimableFlow(f) == flow[f].st = "pending" /\ flow[f].expires > now
ExpiredFlows == {f \in Flows : flow[f].st # "none" /\ flow[f].expires < now}

(* What the provider may attest: the address counts as verified when it    *)
(* says so and the domain is its own, or one it hosts.                     *)
AttestedIdentity == [subject : Subjects, email : Emails, verified : BOOLEAN]

(* It does not answer in time, refuses the code, answers what cannot be    *)
(* read, or the nonce or the cookie does not match.                        *)
ExchangeFails(r) ==
    /\ req[r].pc = "idle" /\ Spend("external")
    /\ UNCHANGED <<now, req, failures, cut>>

(* The request is claimed before anything else is looked at.               *)
CompleteExternal(r) ==
    /\ \E f \in Flows :
          /\ ClaimableFlow(f)
          /\ flow' = [flow EXCEPT ![f].st = "consumed"]
          /\ \/ ExchangeFails(r)
             \/ \E id \in AttestedIdentity :
                   Begin(r, "external", "linked",
                         [Idle EXCEPT !.item = f, !.subject = id.subject,
                             !.email = id.email, !.verified = id.verified])
    /\ UNCHANGED <<accounts, session, token>>

(* findByProviderAndSubject.                                               *)
FindLinked(r) ==
    /\ At(r, "linked")
    /\ LET u == LinkedUser(req[r].subject) IN
       IF u # None
       THEN req' = [req EXCEPT ![r].pc = "session", ![r].user = u,
                               ![r].via = "linked"]
       ELSE IF req[r].verified THEN GoTo(r, "accounts")
       ELSE End(r)
    /\ UNCHANGED <<accounts, session, token, flow, cut>>

WithEmail(e) ==
    {u \in Users : Exists(u) /\ Fold[account[u].email] = Fold[e]}

(* findUsersByEmailCaseInsensitive: none opens an account, one may be      *)
(* linked, several are a conflict.                                         *)
FindAccounts(r) ==
    /\ At(r, "accounts")
    /\ LET found == WithEmail(req[r].email) IN
       IF found = {} THEN GoTo(r, "create")
       ELSE IF Cardinality(found) > 1 THEN End(r)
       ELSE \E u \in found : req' = [req EXCEPT ![r].pc = "exists",
                                                ![r].user = u]
    /\ UNCHANGED <<accounts, session, token, flow, cut>>

Linked(u) == \E g \in Subjects : link[g] = u

ExistsForUser(r) ==
    /\ At(r, "exists")
    /\ IF Linked(req[r].user) THEN End(r) ELSE GoTo(r, "link")
    /\ UNCHANGED <<accounts, session, token, flow, cut>>

(* Fault: the unique index on user and provider is missing.                *)
MayLinkTwice(u, g) == Exists(u) /\ link[g] = None
(* The foreign key and both unique indexes.                                *)
MayLink(u, g) == Exists(u) /\ ~Linked(u) /\ link[g] = None

CreateLink(r) ==
    /\ At(r, "link")
    /\ LET u == req[r].user g == req[r].subject IN
       IF MayLink(u, g)
       THEN /\ link' = [link EXCEPT ![g] = u]
            /\ req' = [req EXCEPT ![r].pc = "session", ![r].via = "linked"]
       ELSE End(r) /\ UNCHANGED link
    /\ UNCHANGED <<account, subscribed, session, token, flow, cut>>

NewAccount(r, u) == [account EXCEPT ![u] =
    [st |-> "live", email |-> req[r].email, hash |-> 0]]

(* Fault: the account is committed before its identity is written.         *)
CreateAccountNoTx(r) ==
    /\ At(r, "create") /\ HasNew(account)
    /\ IF \E u \in Users : Exists(u) /\ account[u].email = req[r].email
       THEN End(r) /\ UNCHANGED account
       ELSE LET u == New(account) IN
            /\ account' = NewAccount(r, u)
            /\ req' = [req EXCEPT ![r].pc = "link", ![r].user = u]
    /\ UNCHANGED <<subscribed, link, session, token, flow, cut>>
(* addUser and the identity in one transaction: a uniqueness violation of  *)
(* either leaves nothing.                                                  *)
CreateAccount(r) ==
    /\ At(r, "create") /\ HasNew(account)
    /\ IF \/ \E u \in Users : Exists(u) /\ account[u].email = req[r].email
          \/ link[req[r].subject] # None
       THEN End(r) /\ UNCHANGED <<account, link>>
       ELSE LET u == New(account) IN
            /\ account' = NewAccount(r, u)
            /\ link' = [link EXCEPT ![req[r].subject] = u]
            /\ req' = [req EXCEPT ![r].pc = "announce", ![r].user = u,
                                  ![r].via = "created"]
    /\ UNCHANGED <<subscribed, session, token, flow, cut>>

-----------------------------------------------------------------------------
(* The clock, the hourly cleanup and failures.                             *)

Tick ==
    /\ Spend("tick") /\ now < MaxTime /\ now' = now + 1
    /\ UNCHANGED <<accounts, session, token, flow, req, failures, cut>>

(* Fault: idleness is measured from the creation of the session.           *)
PrunableByAge(s) ==
    \/ session[s].created + SessionTtl < now
    \/ session[s].created + IdleTtl < now
    \/ session[s].revoked # None /\ session[s].revoked + Grace < now
Prunable(s) ==
    \/ session[s].created + SessionTtl < now
    \/ session[s].used + IdleTtl < now
    \/ session[s].revoked # None /\ session[s].revoked + Grace < now

Cleanup ==
    /\ Spend("cleanup")
    /\ session' = [s \in Sessions |->
          IF session[s].st = "live" /\ Prunable(s)
          THEN [session[s] EXCEPT !.st = "deleted"] ELSE session[s]]
    /\ flow' = [f \in Flows |->
          IF f \in ExpiredFlows
          THEN [flow[f] EXCEPT !.st = "deleted"] ELSE flow[f]]
    /\ UNCHANGED <<now, accounts, token, req, failures, cut>>

Fail(r) ==
    /\ req[r].pc # "idle" /\ failures < MaxFailures
    /\ failures' = failures + 1
    /\ cut' = IF req[r].pc = "revoke" THEN cut \cup {req[r].user} ELSE cut
    /\ End(r)
    /\ UNCHANGED <<now, accounts, session, token, flow, left>>

Next ==
    \/ \E r \in Requests :
          \/ Register(r) \/ AddUser(r) \/ Announce(r)
          \/ SignIn(r) \/ CreateSession(r)
          \/ \E op \in {"visit", "change", "purge"} : Authenticate(r, op)
          \/ Touch(r) \/ Load(r) \/ UpdatePassword(r) \/ RevokeAll(r)
          \/ Purge(r)
          \/ RequestReset(r) \/ InvalidatePending(r) \/ IssueToken(r)
          \/ PurgeRequests(r) \/ ResetPassword(r)
          \/ CompleteExternal(r) \/ FindLinked(r) \/ FindAccounts(r)
          \/ ExistsForUser(r) \/ CreateLink(r) \/ CreateAccount(r)
          \/ Fail(r)
    \/ SignOut \/ StartExternal \/ Tick \/ Cleanup

Spec == Init /\ [][Next]_vars

-----------------------------------------------------------------------------
(* No session opened under an earlier password of its account outlives the *)
(* change or the reset that replaced it, but the one the change was made   *)
(* with: ResetPassword and ChangePassword write the password first and end *)
(* the sessions after, so the only time both exist is in between, or after *)
(* a failure there.                                                        *)
OldSessionsEnd ==
    \A s \in Sessions :
       LET u == session[s].user IN
       /\ session[s].st = "live" /\ session[s].revoked = None
       /\ session[s].born < account[u].hash
       => \/ u \in cut
          \/ \E r \in Requests : req[r].pc = "revoke" /\ req[r].user = u

(* Asking for a recovery makes every earlier token of the account useless  *)
(* (R6): two can only be open when the requests for them overlapped.       *)
OneTokenAtATime ==
    \A t, v \in Tokens :
       /\ t # v /\ token[t].st = "pending" /\ token[v].st = "pending"
       /\ token[t].user = token[v].user
       => token[t].raced /\ token[v].raced

(* Nor does an account get, in any window of the quota, more tokens than   *)
(* the limit, whatever the retention sweep has deleted meanwhile.          *)
QuotaHolds ==
    \A u \in Users, w \in Times :
       Cardinality({t \in Tokens :
          /\ token[t].st # "none" /\ token[t].user = u /\ ~token[t].raced
          /\ token[t].created \in w .. (w + Window)}) <= Limit

(* What an account can be sent is bounded, but for requests that overlap   *)
(* and count, or invalidate, before either has written.                    *)
RecoveryIsBounded == OneTokenAtATime /\ QuotaHolds

(* Every account has a way in, a password or an identity, also when the    *)
(* creation of an account loses the race for its identity or dies.         *)
NoAccountWithoutAccess ==
    \A u \in Users : Exists(u) => account[u].hash > 0 \/ Linked(u)

(* The hourly cleanup never takes a session that would still be accepted.  *)
CleanupSparesTheValid ==
    [][\A s \in Sessions :
          Valid(s) /\ session'[s].st = "deleted"
             => account'[session[s].user].st = "deleted"]_vars

=============================================================================
