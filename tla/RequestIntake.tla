--------------------------- MODULE RequestIntake ---------------------------
(***************************************************************************)
(* What a request passes before code of a module runs for it: the HTTP     *)
(* controller adapter (core/infra/http/adapters/http_controller_adapter.ts)*)
(* and the MCP endpoint (core/infra/mcp/routes.ts), over the shared rate   *)
(* limiter, the authentication middleware and the entitlement service, and *)
(* the body of a bulk import once its handler runs (CsvImport).            *)
(*                                                                         *)
(* req       one record per connection: the locals of its handler          *)
(* entries   the limiter's map                                             *)
(* session, account, grant, access, granted                                *)
(*           what the database says of a user; it changes between awaits   *)
(* clock     the clock; arrivals and changes only count                    *)
(* admitted  history: the attempts every limit let through                 *)
(***************************************************************************)
EXTENDS CsvImport, RateLimiter, RouteTable

CONSTANTS
    Callers, Users, Admins, Peers,
    Routes,             \* routes of the table, RouteTable's records
    Mcp,                \* the MCP endpoint, not in Routes
    McpPolicy,          \* MCP_TRANSPORT_RATE_LIMIT_POLICY
    Tools,              \* its tools
    TrustedProxy,       \* env.TRUSTED_PROXY
    MaxArrivals, MaxIdentified, MaxClock, MaxChanges,    \* bounds: requests, those that
                                                        \* name a user, clock, changes
    Alone               \* bound: an import comes first, and nothing moves beside it

Nowhere == [name |-> <<NoValue, NoValue>>]    \* the route of an idle connection

Statuses == {200, 202, 204, 401, 403, 404, 409, 413, 422, 429, 500}

Capabilities == {"ai_assistant", "bulk_import"}

ASSUME RouteAssumption == \A route \in Routes : WellDeclared(route)

VARIABLES req, entries, session, account, grant, access, granted, clock, arrivals,
          changes, admitted
world == <<session, account, grant, access, granted, changes>>
limits == <<entries, admitted>>
intakeVars == <<req, entries, session, account, grant, access, granted, clock, arrivals, changes,
          admitted, doc, reader, batch>>

IdleConnection == [phase |-> "idle", route |-> Nowhere, user |-> NoValue, source |-> NoValue,
         sameSite |-> FALSE, saw |-> {}, held |-> {}, calls |-> {}, opens |-> 0,
         closes |-> 0, closing |-> {}]

To(c, phase) == req' = [req EXCEPT ![c].phase = phase]

(* The answer, of one of these statuses, ends the request and is not kept. *)
Answer(c, statuses) ==
    /\ statuses # {} /\ statuses \subseteq Statuses
    /\ req' = [req EXCEPT ![c] =
           [IdleConnection EXCEPT !.opens = req[c].opens, !.closes = req[c].closes]]

At(c, phase) == req[c].phase = phase /\ req[c].route # Mcp
AtMcp(c, phase) == req[c].phase = phase /\ req[c].route = Mcp

(* What else may move while a body is read: all of it, if not Alone.      *)
NoImport == \A c \in Callers : req[c].phase # "importing"
Quiet == Alone => NoImport

(***************************************************************************)
(* The database behind the checks; other handlers change it at any time.  *)
(***************************************************************************)

(* Facts about a user: the credentials that stand, the capabilities that  *)
(* are granted, and those granted at an instant with platform access.      *)
Facts(u) ==
    IF u = NoValue THEN {} ELSE
    {<<"is", f>> : f \in {g \in {"session", "account", "grant", "access"} :
        CASE g = "session" -> session[u]
          [] g = "account" -> account[u]
          [] g = "grant"   -> grant[u]
          [] g = "access"  -> access[u]}}
    \union {<<"has", k>> : k \in granted[u]}
    \union {<<"enters with", k>> : k \in IF access[u] THEN granted[u] ELSE {}}

(* Entitlement.has_platform_access and CapabilitySet.allows.               *)
HasPlatformAccess(u) == access[u]
Allows(u, capability) == capability \in granted[u]

(* History: what has been true of a caller since its request arrived.     *)
Witnessed(u) ==
    req' = [c \in Callers |->
               IF req[c].user = u THEN [req[c] EXCEPT !.saw = @ \union Facts(u)'] ELSE req[c]]

(* Bound: what is lost does not come back, except platform access.        *)
Change ==
    /\ Quiet /\ changes < MaxChanges /\ changes' = changes + 1
    /\ \E u \in Users :
        /\ \/ /\ session[u] /\ session' = [session EXCEPT ![u] = FALSE]
              /\ UNCHANGED <<account, grant, access, granted>>
           \/ /\ account[u] /\ account' = [account EXCEPT ![u] = FALSE]
              /\ UNCHANGED <<session, grant, access, granted>>
           \/ /\ grant[u] /\ grant' = [grant EXCEPT ![u] = FALSE]
              /\ UNCHANGED <<session, account, access, granted>>
           \/ /\ u \notin Admins /\ access' = [access EXCEPT ![u] = ~@]
              /\ UNCHANGED <<session, account, grant, granted>>
           \/ /\ u \notin Admins
              /\ \E k \in granted[u] : granted' = [granted EXCEPT ![u] = @ \ {k}]
              /\ UNCHANGED <<session, account, grant, access>>
        /\ Witnessed(u)
    /\ UNCHANGED <<limits, clock, arrivals, csvVars>>

(* Only the limiter reads the clock, as a distance to an entry's start.   *)
ClockTicks ==
    /\ Quiet /\ entries # NoEntries /\ clock < MaxClock /\ clock' = clock + 1
    /\ UNCHANGED <<req, limits, world, arrivals, csvVars>>

(***************************************************************************)
(* The limiter                                                             *)
(***************************************************************************)

RateKey(route, caller) == <<route.name, caller>>
McpKey(u) == <<Mcp.name, u>>
ToolKey(tool, u) == <<<<"tool", tool.name>>, u>>

(* Everyone a policy counts, and the policy.                               *)
Limited ==
    {<<RateKey(r, p), r.peerPolicy>> : r \in {q \in Routes : q.peerPolicy # NoPolicy}, p \in Peers}
    \union {<<RateKey(r, u), r.userPolicy>> : r \in {q \in Routes : q.userPolicy # NoPolicy},
                                            u \in Users}
    \union {<<McpKey(u), McpPolicy>> : u \in Users}
    \union {<<ToolKey(t, u), t.policy>> : t \in {q \in Tools : q.policy # NoPolicy}, u \in Users}

(* A key counts the attempts of one caller at one limit: the path and the  *)
(* method are in it, and the id of a user is no address.  A limit lets     *)
(* something through.                                                      *)
ASSUME LimitAssumption ==
    /\ NoValue \notin Users
    /\ \A l, m \in Limited : l[1] = m[1] => l = m
    /\ \A l \in Limited : {l[2].window, l[2].max} \subseteq Nat \ {0}

(* Fault: the header counts whoever sent it. *)
ForwardedIp(peer, hop) == IF hop # NoValue THEN hop ELSE peer
(* A forwarded header counts only behind a trusted proxy.                 *)
CallerIp(peer, hop) == IF TrustedProxy /\ hop # NoValue THEN hop ELSE peer

Attempt(key, policy) == Consume(entries, key, policy, clock)

(* The attempt is recorded under who made it, not under the key used.     *)
Attempted(key, policy, subject) ==
    LET d == Attempt(key, policy)
    IN  /\ entries' = d.entries
        /\ admitted' = IF d.allowed
                       THEN [admitted EXCEPT ![subject] = Append(@, clock)]
                       ELSE admitted

(***************************************************************************)
(* The adapter, one action between two awaits                              *)
(***************************************************************************)

(* Bound: more requests than MaxIdentified only of callers without a name. *)
Anonymous == changes = 0 /\ \A c \in Callers : req[c].user = NoValue

(* From the first byte to the first await: the limit on the peer.  What a *)
(* route does not read of its caller is not chosen.                        *)
Arrive(c, route, u, source) ==
    /\ Quiet /\ req[c].phase = "idle"
    /\ arrivals < (IF u = NoValue /\ Anonymous THEN MaxArrivals ELSE MaxIdentified)
    /\ arrivals' = arrivals + 1
    /\ LET r == [IdleConnection EXCEPT !.phase = "parsing", !.route = route, !.user = u,
                             !.source = source, !.saw = Facts(u)]
       IN  \/ /\ route.peerPolicy = NoPolicy /\ UNCHANGED limits
              /\ req' = [req EXCEPT ![c] = r]
           \/ /\ route.peerPolicy # NoPolicy
              /\ \E peer \in Peers, hop \in Peers \union {NoValue} :
                   LET key == RateKey(route, CallerIp(peer, hop))
                   IN  /\ Attempted(key, route.peerPolicy,
                             RateKey(route, IF TrustedProxy /\ hop # NoValue THEN hop ELSE peer))
                       /\ req' = [req EXCEPT ![c] =
                             IF Attempt(key, route.peerPolicy).allowed THEN r
                             ELSE [r EXCEPT !.phase = "draining"]]
    /\ UNCHANGED <<world, clock, csvVars>>

(* The refused body is read and dropped; if it breaks before its first    *)
(* byte the error is not one of size and becomes a 500.                    *)
Drain(c) ==
    /\ At(c, "draining")
    /\ Answer(c, {429, 500})
    /\ UNCHANGED <<limits, world, clock, arrivals, csvVars>>

(* AuthMiddleware.extract: a cookie is no credential on a public route;   *)
(* assertSameSiteRequest.                                                  *)
Credential(r) == r.source = "header" \/ (r.source = "cookie" /\ ~r.route.public)

CrossSite(r, originAllowed) == r.source = "cookie" /\ r.route.unsafe /\ ~originAllowed

(* Why a body is refused: too long or broken off; nested too deep, or a   *)
(* parameter given twice; not of the schema.  JSON that does not parse is *)
(* the empty body.                                                         *)
Unread == {413, 500}
Malformed == {422}
Invalid == {422}

(* The body and its schema come before the credential.                    *)
Parse(c) ==
    LET r == req[c]
    IN  /\ At(c, "parsing")
        /\ \/ ~r.route.stream /\ Answer(c, Unread \union Malformed \union Invalid)
           \/ ~RequiresAuth(r.route) /\ To(c, "handling")
           \/ RequiresAuth(r.route) /\ ~Credential(r) /\ Answer(c, {401})
           \/ /\ RequiresAuth(r.route) /\ Credential(r)
              /\ \E originAllowed \in BOOLEAN :
                    \/ CrossSite(r, originAllowed) /\ Answer(c, {403})
                    \/ /\ ~CrossSite(r, originAllowed)
                       /\ req' = [req EXCEPT ![c].phase = "verifying",
                                             ![c].sameSite = originAllowed]
        /\ UNCHANGED <<limits, world, clock, arrivals, csvVars>>

VerifySession(c) ==
    /\ At(c, "verifying")
    /\ IF session[req[c].user] THEN To(c, "finding") ELSE Answer(c, {401})
    /\ UNCHANGED <<limits, world, clock, arrivals, csvVars>>

IsAdmin(r) == r.user \in Admins

NeedsPlatformAccess(route) == ~route.open

NeedsEntitlement(r) == ~IsAdmin(r) /\ (NeedsPlatformAccess(r.route) \/ r.route.needs # NoValue)

(* findUserById, the role, and whatever runs on without another await.    *)
FindUser(c) ==
    LET r == req[c]
    IN  /\ At(c, "finding")
        /\ \/ ~account[r.user] /\ Answer(c, {401})
           \/ /\ account[r.user] /\ r.route.adminOnly /\ ~IsAdmin(r)
              /\ Answer(c, {403})
           \/ /\ account[r.user] /\ (r.route.adminOnly => IsAdmin(r))
              /\ To(c, IF NeedsEntitlement(r) THEN "entitling" ELSE "limiting")
        /\ UNCHANGED <<limits, world, clock, arrivals, csvVars>>

(* Fault: a route that needs a capability asks for nothing else. *)
EntitledOnce(r) ==
    IF r.route.needs # NoValue THEN Allows(r.user, r.route.needs) ELSE HasPlatformAccess(r.user)
(* entitlementOf is read once for both checks.                            *)
Entitled(r) ==
    /\ NeedsPlatformAccess(r.route) => HasPlatformAccess(r.user)
    /\ r.route.needs # NoValue => Allows(r.user, r.route.needs)

(* The user's limit and the start of the handler follow the last await of *)
(* the checks at once.                                                     *)
Admit(c) ==
    LET r == req[c]
        key == RateKey(r.route, r.user)
        policy == r.route.userPolicy
    IN  /\ \/ At(c, "limiting")
           \/ At(c, "entitling") /\ Entitled(r)
        /\ \/ policy = NoPolicy /\ To(c, "handling") /\ UNCHANGED limits
           \/ /\ policy # NoPolicy /\ Attempted(key, policy, key)
              /\ IF Attempt(key, policy).allowed THEN To(c, "handling")
                 ELSE IF r.route.stream THEN To(c, "draining")
                 ELSE Answer(c, {429})
        /\ UNCHANGED <<world, clock, arrivals, csvVars>>

Forbid(c) ==
    /\ At(c, "entitling") /\ ~Entitled(req[c])
    /\ Answer(c, {403})
    /\ UNCHANGED <<limits, world, clock, arrivals, csvVars>>

(* The controller returns, or throws; the error's name picks the status.  *)
ErrorCodes == {401, 403, 404, 409, 422, 429, 500}

(* Bound: one body is read at a time (doc, reader and batch are one each,  *)
(* the code's are locals of the request); any other import has no body.    *)
BringsTable(c) ==
    /\ req[c].route.stream /\ NoImport
    /\ Alone => /\ ~IsAdmin(req[c]) /\ req[c].source = "header"
                /\ arrivals = 1 /\ clock = 0 /\ changes = 0

Handle(c) ==
    /\ At(c, "handling")
    /\ \/ Answer(c, {200, 204} \union ErrorCodes)
       \/ BringsTable(c) /\ To(c, "importing")
    /\ UNCHANGED <<limits, world, clock, arrivals, csvVars>>

Import(c) ==
    /\ At(c, "importing") /\ batch.state = "reading" /\ CsvNext
    /\ UNCHANGED <<req, limits, world, clock, arrivals>>

(* importRejectedResponse: a report is a 422, another error is rethrown.  *)
ImportAnswered(c) ==
    /\ At(c, "importing") /\ batch.state # "reading"
    /\ Answer(c, IF doc.end = "broken" THEN {500}
                 ELSE IF batch.state = "imported" THEN {200} ELSE {422})
    /\ doc' = NoDoc /\ reader' = NewReader /\ batch' = NewBatch
    /\ UNCHANGED <<limits, world, clock, arrivals>>

(***************************************************************************)
(* The MCP endpoint                                                        *)
(***************************************************************************)

McpArrive(c, u, source) ==
    /\ Quiet /\ req[c].phase = "idle"
    /\ arrivals < MaxIdentified /\ arrivals' = arrivals + 1
    /\ req' = [req EXCEPT ![c] =
           [IdleConnection EXCEPT !.phase = "parsing", !.route = Mcp, !.user = u,
                        !.source = source, !.saw = Facts(u)]]
    /\ UNCHANGED <<limits, world, clock, csvVars>>

(* What the endpoint answers by itself: a body too long or nested too     *)
(* deep; no token, or one that does not stand; no capability, or the limit.*)
BadBody == {413, 422}
Unauthorized == {401}
Forbidden == {403}
TooMany == {429}

(* The bounded body, its depth, and a header with a token.                *)
McpParse(c) ==
    /\ AtMcp(c, "parsing")
    /\ \/ Answer(c, BadBody \union {500})
       \/ req[c].source = NoValue /\ Answer(c, Unauthorized)
       \/ req[c].source # NoValue /\ To(c, "resolving")
    /\ UNCHANGED <<limits, world, clock, arrivals, csvVars>>

(* The credential verifier (DelegatedAccess), then the transport's limit. *)
McpResolve(c) ==
    LET u == req[c].user
    IN  /\ AtMcp(c, "resolving")
        /\ \/ ~(grant[u] /\ account[u]) /\ Answer(c, Unauthorized) /\ UNCHANGED limits
           \/ /\ grant[u] /\ account[u]
              /\ Attempted(McpKey(u), McpPolicy, McpKey(u))
              /\ IF ~Attempt(McpKey(u), McpPolicy).allowed THEN Answer(c, TooMany)
                 ELSE To(c, IF u \in Admins THEN "connecting" ELSE "entitling")
        /\ UNCHANGED <<world, clock, arrivals, csvVars>>

(* The capabilities read here are the ones the tools of this request see. *)
McpEntitle(c) ==
    LET u == req[c].user
    IN  /\ AtMcp(c, "entitling")
        /\ IF HasPlatformAccess(u) /\ Allows(u, "ai_assistant")
           THEN req' = [req EXCEPT ![c].phase = "connecting", ![c].held = granted[u]]
           ELSE Answer(c, Forbidden)
        /\ UNCHANGED <<limits, world, clock, arrivals, csvVars>>

(* connect and handleRequest: a throw closes the server; an answer without *)
(* a body closes it at once; a body keeps it until the stream ends.        *)
McpServe(c) ==
    /\ AtMcp(c, "connecting")
    /\ \/ req' = [req EXCEPT ![c] = [IdleConnection EXCEPT !.opens = 1, !.closes = 1]]
       \/ req' = [req EXCEPT ![c].phase = "streaming", ![c].opens = 1]
    /\ UNCHANGED <<limits, world, clock, arrivals, csvVars>>

ToolAllowed(r, tool) == tool.needs # NoValue => r.user \in Admins \/ tool.needs \in r.held

(* registerMcpTool: the tool's limit, the capability, then its handler; a *)
(* refused call is an error result only the limiter remembers.  Bound: a  *)
(* call counts as an arrival.                                              *)
CallTool(c, tool) ==
    LET r == req[c]
        key == ToolKey(tool, r.user)
        free == tool.policy = NoPolicy
    IN  /\ AtMcp(c, "streaming") /\ tool \notin r.calls
        /\ arrivals < MaxIdentified /\ arrivals' = arrivals + 1
        /\ \/ free /\ UNCHANGED limits
           \/ ~free /\ Attempted(key, tool.policy, key)
        /\ req' = [req EXCEPT ![c].calls =
               IF (free \/ Attempt(key, tool.policy).allowed) /\ ToolAllowed(r, tool)
               THEN @ \union {tool} ELSE @]
        /\ UNCHANGED <<world, clock, csvVars>>

ToolReturns(c) ==
    /\ AtMcp(c, "streaming") /\ req[c].calls # {}
    /\ \E tool \in req[c].calls : req' = [req EXCEPT ![c].calls = @ \ {tool}]
    /\ UNCHANGED <<limits, world, clock, arrivals, csvVars>>

(* The stream ends when every call is answered, or fails: pull closes. If *)
(* the client leaves, cancel makes the read pull waits for end as well:   *)
(* both come to closeOnce, in either order.                                *)
StreamEnds(c) ==
    /\ AtMcp(c, "streaming")
    /\ \E closers \in {{"pull"}, {"pull", "cancel"}, {"cancel"}} :
          /\ req' = [req EXCEPT ![c].phase = "closing", ![c].closing = closers]
          /\ closers = {"pull"} => req[c].calls = {}
    /\ UNCHANGED <<limits, world, clock, arrivals, csvVars>>

StreamFails(c) ==
    /\ AtMcp(c, "streaming")
    /\ req' = [req EXCEPT ![c].phase = "closing", ![c].closing = {"pull"}]
    /\ UNCHANGED <<limits, world, clock, arrivals, csvVars>>

(* Fault: closed by everyone who comes to it. *)
CloseServerAgain(r) == r.closes + 1
CloseServer(r) == IF r.closes = 0 THEN 1 ELSE r.closes

CloseOnce(c, closer) ==
    LET r == [req[c] EXCEPT !.closing = @ \ {closer}, !.closes = CloseServer(req[c])]
    IN  /\ AtMcp(c, "closing") /\ closer \in req[c].closing
        /\ req' = [req EXCEPT ![c] =
               IF r.closing # {} THEN r
               ELSE [IdleConnection EXCEPT !.opens = r.opens, !.closes = r.closes]]
        /\ UNCHANGED <<limits, world, clock, arrivals, csvVars>>

(***************************************************************************)
(* Specification                                                           *)
(***************************************************************************)

IntakeInit ==
    /\ req = [c \in Callers |-> IdleConnection]
    /\ entries = NoEntries
    /\ admitted = [s \in {l[1] : l \in Limited} |-> <<>>]
    /\ session = [u \in Users |-> TRUE] /\ account = [u \in Users |-> TRUE]
    /\ grant = [u \in Users |-> TRUE]
    /\ access = [u \in Users |-> TRUE] /\ granted = [u \in Users |-> Capabilities]
    /\ clock = 0 /\ arrivals = 0 /\ changes = 0
    /\ CsvInit

Step(c) ==
    \/ \E route \in Routes, u \in Users, source \in {"header", "cookie"} :
           RequiresAuth(route) /\ Arrive(c, route, u, source)
    \/ \E route \in Routes : Arrive(c, route, NoValue, NoValue)
    \/ Drain(c) \/ Parse(c) \/ VerifySession(c)
    \/ FindUser(c) \/ Admit(c) \/ Forbid(c) \/ Handle(c) \/ Import(c) \/ ImportAnswered(c)
    \/ \E u \in Users : McpArrive(c, u, "header")
    \/ McpArrive(c, NoValue, NoValue)
    \/ McpParse(c) \/ McpResolve(c) \/ McpEntitle(c) \/ McpServe(c)
    \/ \E tool \in Tools : CallTool(c, tool)
    \/ ToolReturns(c) \/ StreamEnds(c) \/ StreamFails(c)
    \/ \E closer \in {"pull", "cancel"} : CloseOnce(c, closer)

IntakeNext == (\E c \in Callers : Step(c)) \/ Change \/ ClockTicks
IntakeSpec == IntakeInit /\ [][IntakeNext]_intakeVars

(***************************************************************************)
(* Properties                                                              *)
(***************************************************************************)

Phases == {"idle", "parsing", "verifying", "finding", "entitling", "limiting",
           "handling", "draining", "importing", "resolving", "connecting", "streaming",
           "closing"}

(* The requests, the limiter's map and log and what the database says of  *)
(* the users have their types, and the limiter never tracks more keys than *)
(* its cap (in_memory_rate_limiter.ts:86).                                 *)
IntakeTypeOK ==
    /\ \A c \in Callers :
          /\ req[c].phase \in Phases /\ req[c].closes \in 0 .. 2
          /\ req[c].calls \subseteq Tools
    /\ Cardinality(DOMAIN entries) <= MaxTracked
    /\ \A k \in DOMAIN entries : entries[k].count \in Nat /\ entries[k].start \in 0 .. clock
    /\ \A l \in Limited : admitted[l[1]] \in Seq(Nat)
    /\ {session, account, grant, access} \subseteq [Users -> BOOLEAN]
    /\ granted \in [Users -> SUBSET Capabilities]

(* Whatever the forwarded headers say and however many other keys come and *)
(* go, one peer or user is let through fewer than twice the policy's       *)
(* attempts in any stretch of one window's length: as many in a row as     *)
(* that always span a window (in_memory_rate_limiter.ts:15-20,             *)
(* caller_ip_resolver.ts:1-8).                                             *)
BurstIsBounded ==
    \A limit \in Limited :
        LET times == admitted[limit[1]]
            burst == 2 * limit[2].max
        IN  \A i, j \in DOMAIN times :
                j - i + 1 = burst => times[j] - times[i] >= limit[2].window

(* When the code behind a route runs, everything the route demands of its *)
(* caller has held at some instant since the request arrived, access and  *)
(* capability at one and the same instant, and a cookie came from an      *)
(* allowed origin if the method writes; for MCP the same of the grant and *)
(* of every tool that runs (http_controller_adapter.ts:484-539,           *)
(* mcp/routes.ts:219-297, mcp_tool_adapter.ts:54).                        *)
HandledOnlyIfAdmitted ==
    \A c \in Callers :
        LET r == req[c]
            Held(facts) == facts \subseteq r.saw
            staff == r.user \in Admins
        IN  /\ (r.phase \in {"handling", "importing"} /\ RequiresAuth(r.route)) =>
                 /\ Held({<<"is", "session">>, <<"is", "account">>})
                 /\ r.source = "cookie" => ~r.route.unsafe \/ r.sameSite
                 /\ r.route.adminOnly => staff
                 /\ staff \/ r.route.open \/ Held({<<"is", "access">>})
                 /\ staff \/ r.route.needs = NoValue
                      \/ Held({<<IF r.route.open THEN "has" ELSE "enters with", r.route.needs>>})
            /\ r.phase \in {"connecting", "streaming", "closing"} =>
                 /\ Held({<<"is", "grant">>, <<"is", "account">>})
                 /\ staff \/ Held({<<"enters with", "ai_assistant">>})
                 /\ \A tool \in r.calls :
                      staff \/ tool.needs = NoValue \/ Held({<<"enters with", tool.needs>>})

(* The server made for an MCP request is closed exactly once, not before  *)
(* its stream ended, whichever of the end, a failure and the client's     *)
(* leaving comes first, and never outlives the request                     *)
(* (mcp/routes.ts:442-459).                                                *)
ServerClosedOnce ==
    \A c \in Callers :
        /\ req[c].closes <= req[c].opens
        /\ req[c].phase = "streaming" => req[c].closes = 0
        /\ req[c].phase = "idle" => req[c].closes = req[c].opens

=============================================================================
