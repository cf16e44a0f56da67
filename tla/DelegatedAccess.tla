-------------------------- MODULE DelegatedAccess --------------------------
(***************************************************************************)
(* Delegated access (OAuth) of the Sogio API: how a user's consent for an  *)
(* app turns into authorization codes and rotating credentials, and how    *)
(* both are taken away again.  Every HTTP request runs as one process; it  *)
(* suspends at each await, so its database statements interleave with      *)
(* those of every other request.  One action is one statement together     *)
(* with the synchronous code up to the next await.                         *)
(*                                                                         *)
(* A bulk UPDATE (revokeFamily, revokeAllByConsent) is two actions: the    *)
(* statement's snapshot, and its writes.  Under READ COMMITTED a row that  *)
(* commits in between is not visited, and a row locked by an open rotation *)
(* makes the statement wait.  Tokens, digests and secrets are the ids of   *)
(* the rows that hold them.                                                *)
(***************************************************************************)
EXTENDS Integers, FiniteSets

CONSTANTS
    Users, Apps,        \* a consent belongs to one (user, app) pair
    Requests, Codes, Creds,    \* ids, each given to at most one row
    Procs,              \* HTTP requests in flight
    Null,
    RequestTTL, CodeTTL, AccessTTL, RefreshTTL,
    Grace,              \* REFRESH_ROTATION_GRACE_WINDOW_SECONDS
    AbsoluteLife, Inactivity,  \* E9 limits of a consent
    CacheCapacity,      \* maxTrackedEntries of the grace cache
    MaxTime             \* bound of the model's clock

Consents == Users \X Apps
NoTime == -1
Time == 0 .. MaxTime

ASSUME ClockAssumption == MaxTime \in Nat
ASSUME TtlAssumption ==
    /\ RequestTTL \in Nat /\ CodeTTL \in Nat
    /\ AccessTTL \in Nat  /\ RefreshTTL \in Nat /\ Grace \in Nat
    /\ AbsoluteLife \in Nat /\ Inactivity \in Nat /\ CacheCapacity \in Nat
ASSUME NullAssumption ==
    Null \notin Creds \cup Codes \cup Consents \cup Requests \cup Apps

VARIABLES
    now,        \* wall clock
    consent,    \* consents table, by (user, app)
    request,    \* authorization_requests table
    code,       \* authorization_codes table
    cred,       \* issued_credentials table
    cache,      \* in-memory grace cache: superseded credential -> successor
    task,       \* the suspended handler of every process
    \* History variables, read by the properties only:
    stale,      \* credentials that existed when their consent was revoked
    raced,      \* credentials inserted while a cascade of their consent ran
    killed,     \* families a completed revokeFamily has visited
    forked      \* families a credential joined while revokeFamily ran

vars == <<now, consent, request, code, cred, cache, task,
          stale, raced, killed, forked>>
history == <<stale, raced, killed, forked>>

-----------------------------------------------------------------------------
(* Rows.  st is "none" before the INSERT and "gone" after the DELETE.      *)

Status == {"none", "row", "gone"}

ConsentRow == [st : Status, granted_at : Int, last_used_at : Int,
               revoked : BOOLEAN]
RequestRow == [st : Status, app : Apps \cup {Null}, expires_at : Int,
               consumed : BOOLEAN]
CodeRow == [st : Status, consent : Consents \cup {Null}, expires_at : Int,
            consumed : BOOLEAN]
CredRow == [st : Status, consent : Consents \cup {Null},
            family : Creds \cup {Null}, code : Codes \cup {Null},
            created_at : Int, rotated_at : Int,
            successor : Creds \cup {Null}, revoked : BOOLEAN]

NoConsent == [st |-> "none", granted_at |-> 0, last_used_at |-> 0,
              revoked |-> FALSE]
NoRequest == [st |-> "none", app |-> Null, expires_at |-> 0,
              consumed |-> FALSE]
NoCode == [st |-> "none", consent |-> Null, expires_at |-> 0,
           consumed |-> FALSE]
NoCred == [st |-> "none", consent |-> Null, family |-> Null, code |-> Null,
           created_at |-> 0, rotated_at |-> NoTime, successor |-> Null,
           revoked |-> FALSE]

(* A suspended handler: where it resumes, and the locals it carries over   *)
(* the await.  rows is the snapshot of a bulk UPDATE, then is where the    *)
(* caller of ConsentCascade.revoke continues.                              *)
PCs == {"idle", "d_consent", "d_create", "d_touch", "d_revive", "d_code",
        "x_consent", "x_issue", "x_replay",
        "r_consent", "r_rotate", "r_commit", "r_put", "r_lost",
        "v_consent", "v_touch", "l_purge",
        "f_scan", "f_stamp", "c_scan", "c_stamp", "c_consent"}
Task == [pc : PCs, con : Consents \cup {Null}, code : Codes \cup {Null},
         cred : Creds \cup {Null}, succ : Creds \cup {Null}, at : Int,
         rows : SUBSET Creds, then : {"idle", "d_revive", "l_purge"}]
Handler(pc, k, x, c) ==
    [pc |-> pc, con |-> k, code |-> x, cred |-> c,
     succ |-> Null, at |-> NoTime, rows |-> {}, then |-> "idle"]
Idle == Handler("idle", Null, Null, Null)

CacheEntry == [succ : Creds \cup {Null}, until : Int]
NoEntry == [succ |-> Null, until |-> NoTime]

TablesOK ==
    /\ consent \in [Consents -> ConsentRow]
    /\ request \in [Requests -> RequestRow]
    /\ code \in [Codes -> CodeRow]
    /\ cred \in [Creds -> CredRow]
    /\ \A r \in Requests : request[r].st = "row" => request[r].app \in Apps
    /\ \A x \in Codes : code[x].st = "row" => code[x].consent \in Consents
    /\ \A c \in Creds : cred[c].st = "row" => /\ cred[c].consent \in Consents
                                             /\ cred[c].family \in Creds

LocalsOK(t) ==
    /\ t.pc \in {"d_consent", "d_create", "d_touch", "d_revive", "d_code",
                 "x_consent", "x_issue", "r_consent", "r_rotate", "r_commit",
                 "v_consent", "v_touch", "c_scan", "c_stamp", "c_consent"}
         => t.con \in Consents
    /\ t.pc \in {"x_consent", "x_issue", "x_replay"} => t.code \in Codes
    /\ t.pc \in {"r_consent", "r_rotate", "r_commit", "r_put", "r_lost",
                 "f_scan", "f_stamp"} => t.cred \in Creds
    /\ t.pc \in {"r_commit", "r_put"} => t.succ \in Creds
    /\ t.pc = "r_commit" => t.at \in Time

TasksOK == /\ task \in [Procs -> Task]
           /\ \A p \in Procs : LocalsOK(task[p])
HistoryOK == /\ stale \subseteq Creds /\ raced \subseteq Creds
             /\ killed \subseteq Creds /\ forked \subseteq Creds

(* Every row and every suspended handler is well-formed: no handler        *)
(* resumes after an await without the locals its next statement needs.     *)
TypeOK == /\ now \in Time
          /\ TablesOK
          /\ cache \in [Creds -> CacheEntry]
          /\ TasksOK
          /\ HistoryOK

Init ==
    /\ now = 0
    /\ consent = [k \in Consents |-> NoConsent]
    /\ request = [r \in Requests |-> NoRequest]
    /\ code = [x \in Codes |-> NoCode]
    /\ cred = [c \in Creds |-> NoCred]
    /\ cache = [c \in Creds |-> NoEntry]
    /\ task = [p \in Procs |-> Idle]
    /\ stale = {} /\ raced = {} /\ killed = {} /\ forked = {}

-----------------------------------------------------------------------------
(* Consent predicates.                                                     *)

IsConsentExpired(k) ==
    \/ now - consent[k].granted_at >= AbsoluteLife
    \/ now - consent[k].last_used_at >= Inactivity

IsUsable(k) == /\ consent[k].st = "row"
               /\ ~consent[k].revoked
               /\ ~IsConsentExpired(k)

(* What the bearer verifier accepts at this instant. *)
Usable(c) == /\ cred[c].st = "row"
             /\ ~cred[c].revoked
             /\ cred[c].created_at + AccessTTL > now
             /\ IsUsable(cred[c].consent)

Goto(p, t) == task' = [task EXCEPT ![p] = t]
Finish(p) == Goto(p, Idle)

(* Fault: the consent is forgotten across the cascade. *)
ResumeWithoutConsent(next, k) == Handler(next, Null, Null, Null)

Resume(next, k) ==
    Handler(next, IF next = "d_revive" THEN k ELSE Null, Null, Null)
Cascade(k, next) == [Handler("c_scan", k, Null, Null) EXCEPT !.then = next]

(* ConsentCascade.revokeIfNotAlreadyRevoked: a consent that is unusable    *)
(* because it was revoked is left alone, an expired one is cascaded.       *)
RevokeIfNotAlreadyRevoked(p, k, next) ==
    Goto(p, IF consent[k].revoked THEN Resume(next, k) ELSE Cascade(k, next))

RevokeFamily(p, f) == Goto(p, Handler("f_scan", Null, Null, f))

(* Rows an open rotation transaction holds a lock on. *)
Locked(c) == \E p \in Procs : task[p].pc = "r_commit" /\ task[p].cred = c
(* Ids handed out but not yet visible to others. *)
Unused(c) == /\ cred[c].st = "none"
             /\ \A p \in Procs : task[p].succ # c

-----------------------------------------------------------------------------
(* /authorize and the user's decision.                                     *)

InitiateAuthorization(r, a) ==
    /\ request[r].st = "none"
    /\ request' = [request EXCEPT ![r] =
          [st |-> "row", app |-> a, expires_at |-> now + RequestTTL,
           consumed |-> FALSE]]
    /\ UNCHANGED <<now, consent, code, cred, cache, task, history>>

(* The one-shot claim.  A claim that finds no row changes nothing, as do a *)
(* denial and a plan without AI access beyond consuming the request.       *)
DecideClaim(p, r, u) ==
    /\ task[p].pc = "idle"
    /\ request[r].st = "row" /\ ~request[r].consumed
    /\ request[r].expires_at > now
    /\ request' = [request EXCEPT ![r].consumed = TRUE]
    /\ \E approved, entitled \in BOOLEAN :
          Goto(p, IF approved /\ entitled
                  THEN Handler("d_consent", <<u, request[r].app>>, Null, Null)
                  ELSE Idle)
    /\ UNCHANGED <<now, consent, code, cred, cache, history>>

DecideReadConsent(p) ==
    LET k == task[p].con
        Step(pc) == Goto(p, Handler(pc, k, Null, Null))
    IN  /\ task[p].pc = "d_consent"
        /\ \/ consent[k].st # "row" /\ Step("d_create")
           \/ IsUsable(k) /\ Step("d_touch")
           \/ /\ consent[k].st = "row" /\ ~IsUsable(k)
              /\ RevokeIfNotAlreadyRevoked(p, k, "d_revive")
        /\ UNCHANGED <<now, consent, request, code, cred, cache, history>>

FreshGrant == [st |-> "row", granted_at |-> now, last_used_at |-> now,
               revoked |-> FALSE]

(* The unique index on (user, app) makes the second of two inserts throw.  *)
DecideCreateConsent(p) ==
    LET k == task[p].con
    IN  /\ task[p].pc = "d_create"
        /\ IF consent[k].st = "none"
           THEN /\ consent' = [consent EXCEPT ![k] = FreshGrant]
                /\ Goto(p, Handler("d_code", k, Null, Null))
           ELSE Finish(p) /\ UNCHANGED consent
        /\ UNCHANGED <<now, request, code, cred, cache, history>>

TouchLastUsedAt(k) == consent' = [consent EXCEPT ![k].last_used_at = now]

DecideTouchConsent(p) ==
    /\ task[p].pc = "d_touch"
    /\ TouchLastUsedAt(task[p].con)
    /\ Goto(p, [task[p] EXCEPT !.pc = "d_code"])
    /\ UNCHANGED <<now, request, code, cred, cache, history>>

DecideReviveConsent(p) ==
    /\ task[p].pc = "d_revive"
    /\ consent' = [consent EXCEPT ![task[p].con] = FreshGrant]
    /\ Goto(p, [task[p] EXCEPT !.pc = "d_code"])
    /\ UNCHANGED <<now, request, code, cred, cache, history>>

DecideIssueCode(p, x) ==
    /\ task[p].pc = "d_code"
    /\ code[x].st = "none"
    /\ code' = [code EXCEPT ![x] =
          [st |-> "row", consent |-> task[p].con,
           expires_at |-> now + CodeTTL, consumed |-> FALSE]]
    /\ Finish(p)
    /\ UNCHANGED <<now, consent, request, cred, cache, history>>

-----------------------------------------------------------------------------
(* /token, grant_type=authorization_code.                                  *)

(* Fault: a claim that forgets WHERE consumed_at IS NULL. *)
ClaimableTwice(x) == code[x].st = "row"
Claimable(x) == code[x].st = "row" /\ ~code[x].consumed

(* The claim has no filter on expires_at.  valid: client, redirect URI,    *)
(* resource and PKCE all match what the code was issued for.               *)
ExchangeClaim(p, x, valid) ==
    /\ task[p].pc = "idle"
    /\ code[x].st # "none"
    /\ IF Claimable(x)
       THEN /\ code' = [code EXCEPT ![x].consumed = TRUE]
            /\ Goto(p, IF valid /\ code[x].expires_at > now
                       THEN Handler("x_consent", code[x].consent, x, Null)
                       ELSE Idle)
       ELSE /\ Goto(p, Handler("x_replay", Null, x, Null))
            /\ UNCHANGED code
    /\ UNCHANGED <<now, consent, request, cred, cache, history>>

ExchangeReadConsent(p) ==
    LET k == task[p].con
    IN  /\ task[p].pc = "x_consent"
        /\ \/ consent[k].st # "row" /\ Finish(p)
           \/ IsUsable(k) /\ Goto(p, [task[p] EXCEPT !.pc = "x_issue"])
           \/ /\ consent[k].st = "row" /\ ~IsUsable(k)
              /\ RevokeIfNotAlreadyRevoked(p, k, "idle")
        /\ UNCHANGED <<now, consent, request, code, cred, cache, history>>

(* An INSERT into issued_credentials, seen by the history variables: does  *)
(* it land inside a cascade of its consent, or a revocation of its family? *)
InsertHistory(c, k, f) ==
    /\ raced' = IF \E q \in Procs : /\ task[q].con = k
                                     /\ task[q].pc \in {"c_stamp", "c_consent"}
                THEN raced \cup {c} ELSE raced
    /\ forked' = IF \E q \in Procs : /\ task[q].cred = f
                                      /\ task[q].pc = "f_stamp"
                 THEN forked \cup {f} ELSE forked
    /\ UNCHANGED <<stale, killed>>

NewCred(k, f, x) ==
    [st |-> "row", consent |-> k, family |-> f, code |-> x,
     created_at |-> now, rotated_at |-> NoTime, successor |-> Null,
     revoked |-> FALSE]

(* The first credential of a new family; authorization_code_digest is      *)
(* unique, so a second credential for the same code would throw.           *)
ExchangeIssue(p, c) ==
    LET x == task[p].code
        k == task[p].con
    IN  /\ task[p].pc = "x_issue"
        /\ Unused(c)
        /\ IF \E d \in Creds : cred[d].st = "row" /\ cred[d].code = x
           THEN UNCHANGED <<cred, history>>
           ELSE /\ cred' = [cred EXCEPT ![c] = NewCred(k, c, x)]
                /\ InsertHistory(c, k, c)
        /\ Finish(p)
        /\ UNCHANGED <<now, consent, request, code, cache>>

(* A code that was already claimed: revoke the family it produced, unless  *)
(* that family is younger than the grace window.                           *)
ExchangeReplay(p) ==
    LET issued == {c \in Creds : cred[c].st = "row"
                                 /\ cred[c].code = task[p].code}
    IN  /\ task[p].pc = "x_replay"
        /\ \/ issued = {} /\ Finish(p)
           \/ \E c \in issued :
                 IF now - cred[c].created_at <= Grace
                 THEN Finish(p) ELSE RevokeFamily(p, cred[c].family)
        /\ UNCHANGED <<now, consent, request, code, cred, cache, history>>

-----------------------------------------------------------------------------
(* /token, grant_type=refresh_token.                                       *)

Refreshable(c) == /\ cred[c].st = "row" /\ ~cred[c].revoked
                  /\ cred[c].created_at + RefreshTTL > now

RefreshRead(p, c) ==
    /\ task[p].pc = "idle"
    /\ Refreshable(c)
    /\ Goto(p, [Handler("r_consent", cred[c].consent, Null, c)
                   EXCEPT !.at = cred[c].rotated_at])
    /\ UNCHANGED <<now, consent, request, code, cred, cache, history>>

CacheDelete(c) == [cache EXCEPT ![c] = NoEntry]

(* A superseded token: past the grace window the family is revoked; inside *)
(* it the cached successor is handed over, once.                           *)
HandleAlreadyRotated(p, c, rotatedAt) ==
    IF now - rotatedAt > Grace
    THEN RevokeFamily(p, cred[c].family) /\ UNCHANGED cache
    ELSE Finish(p) /\ cache' = CacheDelete(c)

RefreshReadConsent(p, a) ==
    LET t == task[p]
    IN  /\ t.pc = "r_consent"
        /\ \/ /\ consent[t.con].st # "row" \/ t.con[2] # a
              /\ Finish(p) /\ UNCHANGED cache
           \/ /\ consent[t.con].st = "row" /\ t.con[2] = a
              /\ \/ /\ ~IsUsable(t.con)
                    /\ RevokeIfNotAlreadyRevoked(p, t.con, "idle")
                    /\ UNCHANGED cache
                 \/ /\ IsUsable(t.con) /\ t.at = NoTime
                    /\ Goto(p, [t EXCEPT !.pc = "r_rotate"])
                    /\ UNCHANGED cache
                 \/ /\ IsUsable(t.con) /\ t.at # NoTime
                    /\ HandleAlreadyRotated(p, t.cred, t.at)
        /\ UNCHANGED <<now, consent, request, code, cred, history>>

(* rotateRefreshToken, up to its conditional UPDATE: the successor is      *)
(* inserted and the presented row locked, or the transaction rolls back.   *)
(* Fault: the conditional UPDATE forgets rotated_at IS NULL. *)
RotatableTwice(c) == cred[c].st = "row" /\ ~cred[c].revoked
Rotatable(c) == /\ cred[c].st = "row"
                /\ cred[c].rotated_at = NoTime
                /\ ~cred[c].revoked

RotateClaim(p, s) ==
    LET c == task[p].cred
    IN  /\ task[p].pc = "r_rotate"
        /\ ~Locked(c)
        /\ Unused(s)
        /\ Goto(p, IF Rotatable(c)
                   THEN [task[p] EXCEPT !.pc = "r_commit", !.succ = s,
                                        !.at = now]
                   ELSE [task[p] EXCEPT !.pc = "r_lost"])
        /\ UNCHANGED <<now, consent, request, code, cred, cache, history>>

RotateCommit(p) ==
    LET t == task[p]
        f == cred[t.cred].family
    IN  /\ t.pc = "r_commit"
        /\ cred' = [cred EXCEPT ![t.succ] = NewCred(t.con, f, Null),
                                ![t.cred].rotated_at = t.at,
                                ![t.cred].successor = t.succ]
        /\ InsertHistory(t.succ, t.con, f)
        /\ Goto(p, [Handler("r_put", Null, Null, t.cred)
                       EXCEPT !.succ = t.succ])
        /\ UNCHANGED <<now, consent, request, code, cache>>

(* Fault: the payload is filed under the new token. *)
RotateCachePutByNewToken(p) ==
    /\ task[p].pc = "r_put"
    /\ cache' = [cache EXCEPT ![task[p].succ] = [succ |-> task[p].succ,
                                                 until |-> now + Grace]]
    /\ Finish(p)
    /\ UNCHANGED <<now, consent, request, code, cred, history>>

(* The winner stashes the successor only after its transaction committed.  *)
RotateCachePut(p) ==
    LET c == task[p].cred
        others == {d \in Creds \ {c} : cache[d].succ # Null}
    IN  /\ task[p].pc = "r_put"
        /\ cache' = IF Cardinality(others) >= CacheCapacity
                    THEN CacheDelete(c)
                    ELSE [cache EXCEPT ![c] = [succ |-> task[p].succ,
                                               until |-> now + Grace]]
        /\ Finish(p)
        /\ UNCHANGED <<now, consent, request, code, cred, history>>

(* The loser refetches the row to learn what it lost to. *)
RotateRefetch(p) ==
    LET c == task[p].cred
    IN  /\ task[p].pc = "r_lost"
        /\ IF cred[c].st = "row" /\ cred[c].rotated_at # NoTime
           THEN HandleAlreadyRotated(p, c, cred[c].rotated_at)
           ELSE Finish(p) /\ UNCHANGED cache
        /\ UNCHANGED <<now, consent, request, code, cred, history>>

(* The entry's own timer. *)
CacheTimer(c) ==
    /\ cache[c].succ # Null
    /\ now >= cache[c].until
    /\ cache' = CacheDelete(c)
    /\ UNCHANGED <<now, consent, request, code, cred, task, history>>

-----------------------------------------------------------------------------
(* Revocation: the two bulk UPDATEs, and what starts them.                 *)

Revoke(rows) ==
    cred' = [c \in Creds |-> IF c \in rows /\ cred[c].st = "row"
                             THEN [cred[c] EXCEPT !.revoked = TRUE]
                             ELSE cred[c]]

(* Fault: only the credential at the root of the family. *)
FamilyRootRow(f) == {c \in {f} : cred[c].st = "row" /\ ~cred[c].revoked}
FamilyRows(f) == {c \in Creds : /\ cred[c].st = "row" /\ ~cred[c].revoked
                                /\ cred[c].family = f}

(* Fault: superseded credentials are taken for dead. *)
ConsentTipRows(k) == {c \in Creds : /\ cred[c].st = "row" /\ ~cred[c].revoked
                                    /\ cred[c].consent = k
                                    /\ cred[c].rotated_at = NoTime}
ConsentRows(k) == {c \in Creds : /\ cred[c].st = "row" /\ ~cred[c].revoked
                                 /\ cred[c].consent = k}

RevokeFamilyScan(p) ==
    /\ task[p].pc = "f_scan"
    /\ Goto(p, [task[p] EXCEPT !.pc = "f_stamp",
                               !.rows = FamilyRows(task[p].cred)])
    /\ UNCHANGED <<now, consent, request, code, cred, cache, history>>

RevokeFamilyStamp(p) ==
    /\ task[p].pc = "f_stamp"
    /\ \A c \in task[p].rows : ~Locked(c)
    /\ Revoke(task[p].rows)
    /\ killed' = killed \cup {task[p].cred}
    /\ Finish(p)
    /\ UNCHANGED <<now, consent, request, code, cache, stale, raced, forked>>

CascadeScan(p) ==
    /\ task[p].pc = "c_scan"
    /\ Goto(p, [task[p] EXCEPT !.pc = "c_stamp",
                               !.rows = ConsentRows(task[p].con)])
    /\ UNCHANGED <<now, consent, request, code, cred, cache, history>>

CascadeStamp(p) ==
    /\ task[p].pc = "c_stamp"
    /\ \A c \in task[p].rows : ~Locked(c)
    /\ Revoke(task[p].rows)
    /\ Goto(p, [task[p] EXCEPT !.pc = "c_consent", !.rows = {}])
    /\ UNCHANGED <<now, consent, request, code, cache, history>>

CascadeRevokeConsent(p) ==
    LET k == task[p].con
    IN  /\ task[p].pc = "c_consent"
        /\ consent' = [consent EXCEPT ![k].revoked = TRUE]
        /\ stale' = stale \cup {c \in Creds : /\ cred[c].st = "row"
                                              /\ cred[c].consent = k}
        /\ Goto(p, Resume(task[p].then, k))
        /\ UNCHANGED <<now, request, code, cred, cache,
                       raced, killed, forked>>

(* The user disconnects an app of their own. *)
RevokeConsent(p, k) ==
    /\ task[p].pc = "idle"
    /\ consent[k].st = "row" /\ ~consent[k].revoked
    /\ Goto(p, Cascade(k, "idle"))
    /\ UNCHANGED <<now, consent, request, code, cred, cache, history>>

(* /revoke with an access token stamps one row, with a refresh token the   *)
(* whole family.  A client_id that is not the credential's changes nothing.*)
RevokeAccessToken(c) ==
    /\ cred[c].st = "row" /\ ~cred[c].revoked /\ ~Locked(c)
    /\ Revoke({c})
    /\ UNCHANGED <<now, consent, request, code, cache, task, history>>

RevokeRefreshToken(p, c) ==
    /\ task[p].pc = "idle"
    /\ cred[c].st = "row"
    /\ RevokeFamily(p, cred[c].family)
    /\ UNCHANGED <<now, consent, request, code, cred, cache, history>>

-----------------------------------------------------------------------------
(* The bearer verifier in front of /mcp.                                   *)

VerifyRead(p, c) ==
    /\ task[p].pc = "idle"
    /\ cred[c].st = "row" /\ ~cred[c].revoked
    /\ cred[c].created_at + AccessTTL > now
    /\ Goto(p, Handler("v_consent", cred[c].consent, Null, Null))
    /\ UNCHANGED <<now, consent, request, code, cred, cache, history>>

VerifyReadConsent(p) ==
    LET k == task[p].con
    IN  /\ task[p].pc = "v_consent"
        /\ IF IsUsable(k) THEN Goto(p, [task[p] EXCEPT !.pc = "v_touch"])
           ELSE IF consent[k].st = "row"
           THEN RevokeIfNotAlreadyRevoked(p, k, "idle")
           ELSE Finish(p)
        /\ UNCHANGED <<now, consent, request, code, cred, cache, history>>

VerifyAccept(p) ==
    /\ task[p].pc = "v_touch"
    /\ TouchLastUsedAt(task[p].con)
    /\ Finish(p)
    /\ UNCHANGED <<now, request, code, cred, cache, history>>

-----------------------------------------------------------------------------
(* The connected-apps screen: cascade what E9 has ended, then purge dead   *)
(* rows.  One consent per visit; each DELETE succeeds or fails on its own. *)

ListConnectedApps(p, k) ==
    /\ task[p].pc = "idle"
    /\ consent[k].st = "row" /\ ~consent[k].revoked
    /\ Goto(p, IF IsUsable(k) THEN Resume("l_purge", k)
                              ELSE Cascade(k, "l_purge"))
    /\ UNCHANGED <<now, consent, request, code, cred, cache, history>>

DeadCreds == {c \in Creds : /\ cred[c].st = "row"
                            /\ \/ cred[c].revoked
                               \/ cred[c].created_at + RefreshTTL < now}

PurgeRequests ==
    request' = [r \in Requests |->
        IF request[r].st = "row" /\ request[r].expires_at < now
        THEN [NoRequest EXCEPT !.st = "gone"] ELSE request[r]]
PurgeCodes ==
    code' = [x \in Codes |->
        IF code[x].st = "row" /\ code[x].expires_at < now
        THEN [NoCode EXCEPT !.st = "gone"] ELSE code[x]]

(* The foreign key successor_id is ON DELETE SET NULL. *)
PurgeCreds ==
    /\ \A c \in DeadCreds : ~Locked(c)
    /\ cred' = [c \in Creds |->
          IF c \in DeadCreds
          THEN [NoCred EXCEPT !.st = "gone", !.family = cred[c].family]
          ELSE IF cred[c].successor \in DeadCreds
          THEN [cred[c] EXCEPT !.successor = Null] ELSE cred[c]]

PurgeDeadRows(p) ==
    /\ task[p].pc = "l_purge"
    /\ PurgeRequests \/ UNCHANGED request
    /\ PurgeCodes \/ UNCHANGED code
    /\ PurgeCreds \/ UNCHANGED cred
    /\ Finish(p)
    /\ UNCHANGED <<now, consent, cache, history>>

-----------------------------------------------------------------------------
(* The environment.                                                        *)

Tick == /\ now < MaxTime
        /\ now' = now + 1
        /\ UNCHANGED <<consent, request, code, cred, cache, task, history>>

(* The single process dies: handlers vanish where they stood, an open      *)
(* transaction rolls back, the grace cache is empty on restart.            *)
Crash == /\ \E p \in Procs : task[p] # Idle
         /\ task' = [p \in Procs |-> Idle]
         /\ cache' = [c \in Creds |-> NoEntry]
         /\ UNCHANGED <<now, consent, request, code, cred, history>>

Decide(p) ==
    \/ \E r \in Requests, u \in Users : DecideClaim(p, r, u)
    \/ DecideReadConsent(p)
    \/ DecideCreateConsent(p)
    \/ DecideTouchConsent(p)
    \/ DecideReviveConsent(p)
    \/ \E x \in Codes : DecideIssueCode(p, x)

Exchange(p) ==
    \/ \E x \in Codes, valid \in BOOLEAN : ExchangeClaim(p, x, valid)
    \/ ExchangeReadConsent(p)
    \/ \E c \in Creds : ExchangeIssue(p, c)
    \/ ExchangeReplay(p)

Refresh(p) ==
    \/ \E c \in Creds : RefreshRead(p, c)
    \/ \E a \in Apps : RefreshReadConsent(p, a)
    \/ \E s \in Creds : RotateClaim(p, s)
    \/ RotateCommit(p)
    \/ RotateCachePut(p)
    \/ RotateRefetch(p)

Revocation(p) ==
    \/ RevokeFamilyScan(p)
    \/ RevokeFamilyStamp(p)
    \/ CascadeScan(p)
    \/ CascadeStamp(p)
    \/ CascadeRevokeConsent(p)
    \/ \E k \in Consents : RevokeConsent(p, k)
    \/ \E c \in Creds : RevokeRefreshToken(p, c)

Bearer(p) ==
    \/ \E c \in Creds : VerifyRead(p, c)
    \/ VerifyReadConsent(p)
    \/ VerifyAccept(p)
    \/ \E k \in Consents : ListConnectedApps(p, k)
    \/ PurgeDeadRows(p)

Next ==
    \/ \E p \in Procs : \/ Decide(p) \/ Exchange(p) \/ Refresh(p)
                        \/ Revocation(p) \/ Bearer(p)
    \/ \E r \in Requests, a \in Apps : InitiateAuthorization(r, a)
    \/ \E c \in Creds : RevokeAccessToken(c) \/ CacheTimer(c)
    \/ Tick
    \/ Crash

Spec == Init /\ [][Next]_vars

-----------------------------------------------------------------------------
(* Safety properties.                                                      *)

(* E4: a refresh chain never forks, whatever two refreshes, a replay and a *)
(* revocation interleave: of the rows of a family at most one has not been *)
(* superseded (rotateRefreshToken's conditional UPDATE).                   *)
ChainNeverForks ==
    \A c, d \in Creds :
        (/\ cred[c].st = "row" /\ cred[c].rotated_at = NoTime
         /\ cred[d].st = "row" /\ cred[d].rotated_at = NoTime
         /\ cred[c].family = cred[d].family) => c = d

(* An authorization code gets at most one request past its claim, so two   *)
(* concurrent exchanges of one code never both reach the INSERT.           *)
CodeClaimedOnce ==
    \A p, q \in Procs :
        (/\ task[p].pc \in {"x_consent", "x_issue"}
         /\ task[q].pc \in {"x_consent", "x_issue"}
         /\ task[p].code = task[q].code) => p = q

(* Disconnecting an app (revoke_consent.ts) or E9 ending its consent puts  *)
(* every credential of before out of use for good, even if the user grants *)
(* the app access again on the same row: only a credential inserted inside *)
(* the cascade's own window can come back.                                 *)
DisconnectFence ==
    \A c \in stale : Usable(c) => c \in raced

(* Once revokeFamily has run on a family (replayed code, replayed refresh  *)
(* token, /revoke), no credential of it is live, unless a rotation         *)
(* committed between that statement's snapshot and its writes.             *)
FamilyFence ==
    \A c \in Creds :
        (/\ cred[c].st = "row" /\ ~cred[c].revoked
         /\ cred[c].family \in killed) => cred[c].family \in forked

(* What the grace cache would hand to the loser of a rotation is the       *)
(* successor the database recorded for the token it presents, never a      *)
(* credential of another chain or of a transaction that rolled back.       *)
GraceReturnsSuccessor ==
    \A c \in Creds :
        LET s == cache[c].succ
        IN  s # Null =>
              /\ cred[s].st # "none"
              /\ cred[s].family = cred[c].family
              /\ cred[c].st = "row" /\ cred[s].st = "row"
                    => cred[c].successor = s
=============================================================================
