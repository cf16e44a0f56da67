------------------------ MODULE AuthorizationServer ------------------------
(***************************************************************************)
(* What a grant is made of on its way through the authorization server     *)
(* (auth/.../delegated_access): an assistant registers itself, sends the   *)
(* browser to /authorize, the user decides on the consent screen, the      *)
(* assistant exchanges the code at /token.  DelegatedAccess follows the    *)
(* rows of one such grant through rotation, revocation and expiry; this    *)
(* module follows what they carry - application, redirect URI, PKCE        *)
(* challenge, user - and how they go: with a registration that /register   *)
(* purges, with the account, or swept once expired.                        *)
(*                                                                         *)
(* One action is one statement with the code up to the next await.  The    *)
(* purge is two, its snapshot and its deletion: a row that another request *)
(* only references meanwhile is not looked at again.  A request the server *)
(* refuses without a redirect changes nothing and is no step.              *)
(***************************************************************************)
EXTENDS Integers, FiniteSets

CONSTANTS
    None,               \* no value
    Apps, Users, Requests, Codes, Creds,    \* ids of rows
    Uris,               \* [scheme, host, port, rest, other]; host None: no authority
    Verifiers,          \* a PKCE challenge is known by its verifier
    Procs,              \* HTTP requests in flight
    UnusedAfter,        \* UNUSED_REGISTRATION_PURGE_THRESHOLD_MS
    RequestTTL, CodeTTL,
    MaxUris,            \* MAX_REDIRECT_URIS
    MaxTime             \* bound of the model's clock

ASSUME NoneIsNoCode == None \notin Codes
ASSUME BoundsAreNaturals == {UnusedAfter, RequestTTL, CodeTTL, MaxTime} \subseteq Nat
ASSUME UrisAreRecords ==
    \A uri \in Uris : uri = [scheme |-> uri.scheme, host |-> uri.host, port |-> uri.port,
                             rest |-> uri.rest, other |-> uri.other]

VARIABLES
    now, user, app, request, consent, code, cred,   \* the clock and the tables
    task,       \* the suspended handler of every process
    shown,      \* history: what the consent screen said of a request
    sent,       \* history: where a browser was last redirected to
    raced       \* history: what was consented to since the purge of a process looked

tables == <<user, app, request, consent, code, cred>>
history == <<shown, sent, raced>>
vars == <<now, tables, task, history>>

Consents == Users \X Apps
Status == {"none", "row", "gone"}

NoApp == [st |-> "none", uris |-> {}, at |-> 0]
NoRequest == [st |-> "none", app |-> None, uri |-> None, challenge |-> None,
              until |-> 0, consumed |-> FALSE]
(* req is history: the authorization request a code comes from.           *)
NoCode == [st |-> "none", consent |-> None, uri |-> None, challenge |-> None,
           until |-> 0, consumed |-> FALSE, req |-> None]
(* client, uri and verifier are history: what /token was shown.           *)
NoCred == [st |-> "none", consent |-> None, code |-> None, client |-> None,
           uri |-> None, verifier |-> None]

Idle == [pc |-> "idle", app |-> None, req |-> None, user |-> None, code |-> None,
         uri |-> None, verifier |-> None, rows |-> {}]
At(p, pc) == task[p].pc = pc
GoTo(p, t) == task' = [task EXCEPT ![p] = t]
End(p) == GoTo(p, Idle)
Resume(p, pc) == GoTo(p, [task[p] EXCEPT !.pc = pc])

-----------------------------------------------------------------------------
(* Redirect URIs                                                           *)

Loopback == {"127.0.0.1", "[::1]", "localhost"}

(* What a URI is apart from scheme, host, port and path with query, in     *)
(* other: userinfo, a fragment, a spelling that parses alike.  What is no  *)
(* URI and a wildcard in the path are one scheme.                          *)
Refused == {"userinfo", "fragment"}

(* isRegistrableRedirectUri *)
IsRegistrableRedirectUri(uri) ==
    /\ uri.other \notin Refused
    /\ uri.scheme \notin {"malformed", "javascript", "data", "vbscript", "file", "blob"}
    /\ uri.scheme = "http" => uri.host \in Loopback

(* matchesIgnoringLoopbackPort compares what the parser returns for four   *)
(* parts; port and other are not among them.                               *)
MatchesIgnoringLoopbackPort(registered, presented) ==
    /\ registered.scheme = "http" /\ presented.scheme = "http"
    /\ registered.host \in Loopback /\ registered.host = presented.host
    /\ registered.rest = presented.rest

(* redirectUriMatches: the same string, or the same place on the user's    *)
(* own machine.                                                            *)
RedirectUriMatches(registered, presented) ==
    \/ registered = presented
    \/ MatchesIgnoringLoopbackPort(registered, presented)

(* redirectUriDisplayAnchor *)
DisplayAnchor(uri) == IF uri.host = None THEN [uri |-> uri] ELSE [host |-> uri.host]

Redirected(a, uri) == sent' = [app |-> a, to |-> uri]
(* An error goes back to the client on the URI it presented.               *)
ErrorRedirected(a, uri) == Redirected(a, uri)

(* The rows that are inserted: what each takes over from the one before.   *)
NewApp(uris) == [st |-> "row", uris |-> uris, at |-> now]
NewRequest(t) ==
    [st |-> "row", app |-> t.app, uri |-> t.uri, challenge |-> t.verifier,
     until |-> now + RequestTTL, consumed |-> FALSE]
NewCode(t) ==
    [st |-> "row", consent |-> <<t.user, t.app>>, uri |-> t.uri,
     challenge |-> t.verifier, until |-> now + CodeTTL, consumed |-> FALSE,
     req |-> t.req]
NewCred(t) ==
    [st |-> "row", consent |-> code[t.code].consent, code |-> t.code,
     client |-> t.app, uri |-> t.uri, verifier |-> t.verifier]

-----------------------------------------------------------------------------
(* Registration and the purge of unused registrations                      *)

(* What /register accepts; the rest of the metadata is either supported or *)
(* the request is refused.                                                 *)
Registrable(uris) ==
    /\ uris # {} /\ Cardinality(uris) <= MaxUris
    /\ \A uri \in uris : IsRegistrableRedirectUri(uri)

Register(p, a, uris) ==
    /\ At(p, "idle") /\ app[a].st = "none" /\ Registrable(uris)
    /\ app' = [app EXCEPT ![a] = NewApp(uris)]
    /\ GoTo(p, [Idle EXCEPT !.pc = "purge"])
    /\ UNCHANGED <<now, user, request, consent, code, cred, history>>

(* Fault: whatever is old goes. *)
OldRegistrations == {a \in Apps : app[a].st = "row" /\ app[a].at < now - UnusedAfter}
(* The condition of deleteUnusedRegisteredBefore.                          *)
UnusedRegistrations ==
    {a \in Apps : /\ app[a].st = "row" /\ app[a].at < now - UnusedAfter
                  /\ \A u \in Users : consent[<<u, a>>].st # "row"}

(* A purge that fails is logged and forgotten.                             *)
PurgeScan(p) ==
    /\ At(p, "purge")
    /\ \/ GoTo(p, [Idle EXCEPT !.pc = "delete", !.rows = UnusedRegistrations])
       \/ End(p)
    /\ UNCHANGED <<now, tables, history>>

Gone(table, ids) ==
    [i \in DOMAIN table |-> IF i \in ids /\ table[i].st = "row"
                            THEN [table[i] EXCEPT !.st = "gone"] ELSE table[i]]

(* ON DELETE CASCADE sees what is there when the row goes, not what the    *)
(* snapshot saw.                                                           *)
PurgeDelete(p) ==
    LET as == task[p].rows
        of(k) == k \in Consents /\ k[2] \in as
    IN  /\ At(p, "delete")
        /\ app' = Gone(app, as)
        /\ request' = Gone(request, {r \in Requests : request[r].app \in as})
        /\ consent' = Gone(consent, {k \in Consents : of(k)})
        /\ code' = Gone(code, {x \in Codes : code[x].st = "row" /\ of(code[x].consent)})
        /\ cred' = Gone(cred, {c \in Creds : cred[c].st = "row" /\ of(cred[c].consent)})
        /\ raced' = [raced EXCEPT ![p] = {}]
        /\ End(p)
        /\ UNCHANGED <<now, user, shown, sent>>

(* Fault: no foreign key. *)
ReferencesAnything(a) == TRUE
(* The foreign key of an insert; one that is refused ends the request.    *)
References(a) == app[a].st = "row"

-----------------------------------------------------------------------------
(* The other ways in which rows go                                         *)

(* purgeUserData: the cascade from users.                                  *)
DeleteAccount(u) ==
    LET of(k) == k \in Consents /\ k[1] = u
    IN  /\ user[u] = "row"
        /\ user' = [user EXCEPT ![u] = "gone"]
        /\ consent' = Gone(consent, {k \in Consents : of(k)})
        /\ code' = Gone(code, {x \in Codes : code[x].st = "row" /\ of(code[x].consent)})
        /\ cred' = Gone(cred, {c \in Creds : cred[c].st = "row" /\ of(cred[c].consent)})
        /\ UNCHANGED <<now, app, request, task, history>>

(* #purgeDeadRows: three statements side by side, of which any may fail.   *)
DeleteExpiredRequests ==
    /\ request' = Gone(request, {r \in Requests : request[r].until < now})
    /\ UNCHANGED <<now, user, app, consent, code, cred, task, history>>
DeleteExpiredCodes ==
    /\ code' = Gone(code, {x \in Codes : code[x].until < now})
    /\ UNCHANGED <<now, user, app, request, consent, cred, task, history>>
(* Which credentials are revoked or have expired: see DelegatedAccess.     *)
DeleteExpiredOrRevoked ==
    /\ \E dead \in SUBSET Creds : cred' = Gone(cred, dead)
    /\ UNCHANGED <<now, user, app, request, consent, code, task, history>>

-----------------------------------------------------------------------------
(* GET /authorize                                                          *)

(* Up to the match of the redirect URI a failure is a page; after it, one  *)
(* of any kind (response type, PKCE, scope, resource, state) is a redirect.*)
Authorize(p, a, uri, challenge) ==
    /\ At(p, "idle") /\ app[a].st = "row"
    /\ \E registered \in app[a].uris : RedirectUriMatches(registered, uri)
    /\ \/ ErrorRedirected(a, uri) /\ UNCHANGED task
       \/ /\ GoTo(p, [Idle EXCEPT !.pc = "authorize", !.app = a, !.uri = uri,
                                  !.verifier = challenge])
          /\ UNCHANGED sent
    /\ UNCHANGED <<now, tables, shown, raced>>

CreateRequest(p, r) ==
    LET t == task[p]
    IN  /\ At(p, "authorize") /\ request[r].st = "none"
        /\ IF References(t.app)
           THEN request' = [request EXCEPT ![r] = NewRequest(t)]
           ELSE UNCHANGED request
        /\ End(p)
        /\ UNCHANGED <<now, user, app, consent, code, cred, history>>

-----------------------------------------------------------------------------
(* The consent screen                                                      *)

(* #isLive, and the condition of claim.                                    *)
Live(r) == request[r].st = "row" /\ ~request[r].consumed /\ now < request[r].until

Screen(r) ==
    [app |-> request[r].app, anchor |-> DisplayAnchor(request[r].uri)]

(* Its reads of the request and of the application are one step: what they *)
(* return never changes, and the request goes with the application.  That  *)
(* the caller has consented before or may connect is for the screen alone; *)
(* the decision asks again.                                                *)
PendingRequest(r) ==
    /\ Live(r) /\ app[request[r].app].st = "row"
    /\ shown' = [shown EXCEPT ![r] = Screen(r)]
    /\ UNCHANGED <<now, tables, task, sent, raced>>

-----------------------------------------------------------------------------
(* The decision                                                            *)

DecideClaim(p, r, u) ==
    /\ At(p, "idle") /\ user[u] = "row" /\ Live(r)
    /\ request' = [request EXCEPT ![r].consumed = TRUE]
    /\ GoTo(p, [Idle EXCEPT !.pc = "decide", !.req = r, !.user = u, !.app = request[r].app,
                            !.uri = request[r].uri, !.verifier = request[r].challenge])
    /\ UNCHANGED <<now, user, app, consent, code, cred, history>>

(* No application, no redirect; a denial and a plan without assistants     *)
(* redirect with an error.                                                 *)
DecideFindApp(p) ==
    LET t == task[p]
    IN  /\ At(p, "decide")
        /\ \/ app[t.app].st # "row" /\ End(p) /\ UNCHANGED sent
           \/ app[t.app].st = "row" /\ Redirected(t.app, t.uri) /\ End(p)
           \/ app[t.app].st = "row" /\ Resume(p, "resolve") /\ UNCHANGED sent
        /\ UNCHANGED <<now, tables, shown, raced>>

(* A consent that is there is touched, or revived if it was revoked or has *)
(* expired (see DelegatedAccess); either way the row stays.                *)
ResolveConsent(p) ==
    LET t == task[p]
    IN  /\ At(p, "resolve")
        /\ Resume(p, IF consent[<<t.user, t.app>>].st = "row" THEN "issue" ELSE "consent")
        /\ UNCHANGED <<now, tables, history>>

(* The unique index and the two foreign keys.                              *)
Insertable(k) == consent[k].st = "none" /\ user[k[1]] = "row" /\ References(k[2])

(* Refused, it ends the request. *)
CreateConsent(p) ==
    LET k == <<task[p].user, task[p].app>>
    IN  /\ At(p, "consent")
        /\ \/ /\ Insertable(k)
              /\ consent' = [consent EXCEPT ![k].st = "row"]
              /\ raced' = [q \in Procs |-> IF k[2] \in task[q].rows
                                          THEN raced[q] \cup {k} ELSE raced[q]]
              /\ Resume(p, "issue")
           \/ ~Insertable(k) /\ End(p) /\ UNCHANGED <<consent, raced>>
        /\ UNCHANGED <<now, user, app, request, code, cred, shown, sent>>

(* The code inherits what /authorize recorded, and goes where it said.    *)
IssueCode(p, x) ==
    LET t == task[p]
        k == <<t.user, t.app>>
    IN  /\ At(p, "issue") /\ code[x].st = "none"
        /\ \/ /\ consent[k].st = "row"
              /\ code' = [code EXCEPT ![x] = NewCode(t)]
              /\ Redirected(t.app, t.uri)
           \/ consent[k].st # "row" /\ UNCHANGED <<code, sent>>
        /\ End(p)
        /\ UNCHANGED <<now, user, app, request, consent, cred, shown, raced>>

-----------------------------------------------------------------------------
(* POST /token, grant_type=authorization_code                              *)

FindClient(p, a) ==
    /\ At(p, "idle") /\ app[a].st = "row"
    /\ GoTo(p, [Idle EXCEPT !.pc = "token", !.app = a])
    /\ UNCHANGED <<now, tables, history>>

(* verifyPkceS256: two verifiers never have one challenge.                 *)
VerifyPkce(verifier, challenge) == verifier = challenge

(* Fault: any registered application may redeem the code. *)
RedeemableByAny(x, client, uri, verifier) ==
    /\ now < code[x].until
    /\ RedirectUriMatches(code[x].uri, uri)
    /\ VerifyPkce(verifier, code[x].challenge)
(* Fault: the verifier is not looked at. *)
RedeemableUnproven(x, client, uri, verifier) ==
    /\ now < code[x].until
    /\ code[x].consent[2] = client
    /\ RedirectUriMatches(code[x].uri, uri)
Redeemable(x, client, uri, verifier) ==
    /\ now < code[x].until
    /\ code[x].consent[2] = client
    /\ RedirectUriMatches(code[x].uri, uri)
    /\ VerifyPkce(verifier, code[x].challenge)

(* The claim consumes the code whether or not it can be redeemed.  A code  *)
(* that is not there to claim may end a family: see DelegatedAccess.       *)
ExchangeClaim(p, x, uri, verifier) ==
    /\ At(p, "token") /\ code[x].st = "row" /\ ~code[x].consumed
    /\ code' = [code EXCEPT ![x].consumed = TRUE]
    /\ IF Redeemable(x, task[p].app, uri, verifier)
       THEN GoTo(p, [task[p] EXCEPT !.pc = "vigency", !.code = x, !.uri = uri,
                                    !.verifier = verifier])
       ELSE End(p)
    /\ UNCHANGED <<now, user, app, request, consent, cred, history>>

ExchangeRefused(p) ==
    /\ At(p, "token") /\ End(p)
    /\ UNCHANGED <<now, tables, history>>

(* A consent that is gone, or not usable any more, ends the exchange.      *)
ExchangeReadConsent(p) ==
    /\ At(p, "vigency")
    /\ \/ consent[code[task[p].code].consent].st = "row" /\ Resume(p, "mint")
       \/ End(p)
    /\ UNCHANGED <<now, tables, history>>

Issue(p, c) ==
    LET t == task[p]
        k == code[t.code].consent
    IN  /\ At(p, "mint") /\ cred[c].st = "none"
        /\ cred' = IF consent[k].st # "row" THEN cred
                   ELSE [cred EXCEPT ![c] = NewCred(t)]
        /\ End(p)
        /\ UNCHANGED <<now, user, app, request, consent, code, history>>

-----------------------------------------------------------------------------
Tick == now < MaxTime /\ now' = now + 1 /\ UNCHANGED <<tables, task, history>>

Crash ==
    /\ task' = [p \in Procs |-> Idle] /\ raced' = [p \in Procs |-> {}]
    /\ UNCHANGED <<now, tables, shown, sent>>

Init ==
    /\ now = 0
    /\ user = [u \in Users |-> "row"]
    /\ app = [a \in Apps |-> NoApp] /\ request = [r \in Requests |-> NoRequest]
    /\ consent = [k \in Consents |-> [st |-> "none"]]
    /\ code = [x \in Codes |-> NoCode] /\ cred = [c \in Creds |-> NoCred]
    /\ task = [p \in Procs |-> Idle]
    /\ shown = [r \in Requests |-> None] /\ sent = None
    /\ raced = [p \in Procs |-> {}]

Registration(p) ==
    \/ \E a \in Apps, uris \in SUBSET Uris : Register(p, a, uris)
    \/ PurgeScan(p) \/ PurgeDelete(p)

Authorization(p) ==
    \/ \E a \in Apps, uri \in Uris, v \in Verifiers : Authorize(p, a, uri, v)
    \/ \E r \in Requests : CreateRequest(p, r)

Decision(p) ==
    \/ \E r \in Requests, u \in Users : DecideClaim(p, r, u)
    \/ DecideFindApp(p) \/ ResolveConsent(p) \/ CreateConsent(p)
    \/ \E x \in Codes : IssueCode(p, x)

Exchange(p) ==
    \/ \E a \in Apps : FindClient(p, a)
    \/ \E x \in Codes, uri \in Uris, v \in Verifiers : ExchangeClaim(p, x, uri, v)
    \/ ExchangeRefused(p) \/ ExchangeReadConsent(p)
    \/ \E c \in Creds : Issue(p, c)

Deletions ==
    \/ \E u \in Users : DeleteAccount(u)
    \/ DeleteExpiredRequests \/ DeleteExpiredCodes \/ DeleteExpiredOrRevoked

Next ==
    \/ \E p \in Procs : Registration(p) \/ Authorization(p) \/ Decision(p) \/ Exchange(p)
    \/ \E r \in Requests : PendingRequest(r)
    \/ Deletions \/ Tick \/ Crash
Spec == Init /\ [][Next]_vars

-----------------------------------------------------------------------------
(* The tables have their types and their foreign keys hold: no row is left *)
(* of an application that was purged, or of an account that was deleted,   *)
(* while a request for it went on (delegated_access_schemas.ts).           *)
TypeOK ==
    /\ now \in 0 .. MaxTime /\ user \in [Users -> Status]
    /\ \A a \in Apps : app[a].st \in Status /\ app[a].uris \subseteq Uris
    /\ \A r \in Requests : request[r].st = "row" => app[request[r].app].st = "row"
    /\ \A k \in Consents :
          consent[k].st = "row" => user[k[1]] = "row" /\ app[k[2]].st = "row"
    /\ \A x \in Codes : code[x].st = "row" => consent[code[x].consent].st = "row"
    /\ \A c \in Creds : cred[c].st = "row" => consent[cred[c].consent].st = "row"

(* The place a URI leads to: where it differs from the one that was        *)
(* registered, it is on the user's own machine, at another port or with    *)
(* what the application there does not see as a path.                      *)
Same(uri, registered) ==
    /\ uri.scheme = registered.scheme /\ uri.host = registered.host
    /\ uri.rest = registered.rest
    /\ uri # registered => uri.scheme = "http" /\ uri.host \in Loopback

(* A browser is only ever sent to the place its application registered; on *)
(* the user's own machine the port may differ, and userinfo and fragment.  *)
(* A code goes where the screen said (E3, E6:                              *)
(* initiate_authorization.ts:56-68, redirect_uri_policy.ts:120-148).       *)
RedirectsStayRegistered ==
    /\ sent # None => \E registered \in app[sent.app].uris : Same(sent.to, registered)
    /\ \A x \in Codes :
          LET r == code[x].req
          IN  code[x].st # "none" /\ shown[r] # None
                 => shown[r] = [app |-> code[x].consent[2], anchor |-> DisplayAnchor(code[x].uri)]

(* Whoever holds a credential is the application that sent the browser to  *)
(* /authorize, and has shown the verifier of that very request; a code     *)
(* mints once, and never after it was presented in vain                    *)
(* (exchange_authorization_code.ts:35-79).                                 *)
TokensMatchTheGrant ==
    \A c \in Creds : cred[c].st # "none" =>
       LET x == code[cred[c].code]
           r == request[x.req]
       IN  /\ cred[c].client = r.app /\ cred[c].consent[2] = r.app
           /\ cred[c].verifier = r.challenge /\ Same(cred[c].uri, r.uri)
           /\ x.consumed
           /\ \A d \in Creds \ {c} : cred[d].code # cred[c].code

(* A grant is bound, from /authorize to the credential. *)
GrantsAreBound == RedirectsStayRegistered /\ TokensMatchTheGrant

(* A consent leaves the table with its account or by a purge of unused     *)
(* registrations, and such a purge takes one only if it came in since the  *)
(* purge itself had looked, when nobody had consented to the application   *)
(* and its registration was too old (register_app.ts:20-26).               *)
ConsentedAppsStay ==
    [][\A k \in Consents : consent[k].st = "row" /\ consent'[k].st # "row" =>
          \/ user'[k[1]] # "row"
          \/ app[k[2]].at < now - UnusedAfter /\ \E p \in Procs : k \in raced[p]]_vars

(* What the comment on redirectUriMatches says of a URI that matches: all  *)
(* but a loopback port is as registered (redirect_uri_policy.ts:59-65).    *)
OnlyThePortIsLoose ==
    sent # None =>
       \E registered \in app[sent.app].uris :
          [sent.to EXCEPT !.port = 0] = [registered EXCEPT !.port = 0]
=============================================================================
