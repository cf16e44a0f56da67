----------------------------- MODULE RouteTable -----------------------------
(***************************************************************************)
(* What the server offers: the route table                                 *)
(* (core/infra/http/routes/routes.ts) with the limits its controllers      *)
(* declare, the MCP tools (core/infra/mcp/routes.ts) and the preflight     *)
(* answers (core/presentation/middleware/cors.middleware.ts).              *)
(***************************************************************************)
EXTENDS Integers, FiniteSets

NoValue == "none"

Policy(seconds, max) == [window |-> seconds, max |-> max]
NoPolicy == Policy(0, 0)
Minute == 60
Hour == 3600

McpTransportPolicy == Policy(Minute, 300)

(***************************************************************************)
(* A route, unauthenticated, and what is declared on top.                  *)
(***************************************************************************)

Route(method, path) ==
    [name |-> <<method, path>>, auth |-> FALSE, adminOnly |-> FALSE, open |-> FALSE,
     needs |-> NoValue, public |-> FALSE, unsafe |-> method # "GET", stream |-> FALSE,
     peerPolicy |-> NoPolicy, userPolicy |-> NoPolicy]

Member(method, path) == [Route(method, path) EXCEPT !.auth = TRUE]
(* A blocked user reaches it too: allowWithoutPlatformAccess. *)
Account(method, path) == [Member(method, path) EXCEPT !.open = TRUE]
Staff(method, path) == [Member(method, path) EXCEPT !.adminOnly = TRUE]
Document(path) == [Route("GET", path) EXCEPT !.public = TRUE]

PerPeer(route, max) == [route EXCEPT !.peerPolicy = Policy(Minute, max)]
PerUser(route, max) == [route EXCEPT !.userPolicy = Policy(Hour, max)]

BulkImport(path, perPeer) ==
    [PerPeer(PerUser(Member("POST", path), 10), perPeer)
        EXCEPT !.needs = "bulk_import", !.stream = TRUE]

RequiresAuth(route) == route.auth \/ route.adminOnly

TenantRoutes == {Member("GET", "/tenants")}

PropertyRoutes ==
    {PerUser(Member("POST", "/booking/property/:property_id/book"), 120),
     Member("GET", "/booking/reconcile-external-booking"),
     Member("POST", "/booking/property/:property_id/external-booking"),
     Member("GET", "/booking/property/:property_id/external-booking"),
     Member("GET", "/booking/property/:property_id/external-booking/:id"),
     PerPeer(Member("PUT", "/booking/property/:property_id/external-booking/:id"), 30),
     PerPeer(Member("DELETE", "/booking/property/:property_id/external-booking/:id"), 30),
     BulkImport("/import/stays", 5)}

FinanceRoutes ==
    {PerUser(Member("POST", "/finance/:property_id/expense"), 120),
     PerUser(Member("POST", "/finance/:property_id/revenue"), 120),
     Member("GET", "/finance/properties/:property_id/movements"),
     BulkImport("/import/ledger-entries", 10),
     PerPeer(Member("DELETE", "/finance/properties/:property_id/movements/:entry_id"), 30)}

PropertyManagementRoutes ==
    {Member("POST", "/property"), Member("PATCH", "/property/:property_id"),
     Member("GET", "/property/user/all"), Member("GET", "/property/:property_id"),
     PerPeer(Member("POST", "/property/:property_id/settings"), 30),
     Member("GET", "/property/:property_id/settings"),
     Member("GET", "/property/:property_id/settings/:id"),
     PerPeer(Member("PUT", "/property/:property_id/settings/:id"), 30),
     PerPeer(Member("DELETE", "/property/:property_id/settings/:id"), 30),
     PerPeer(Member("DELETE", "/property/:property_id"), 30),
     BulkImport("/import/properties", 5)}

StayRoutes ==
    {Route("GET", "/public/booking/stay/:stay_id"),
     Member("GET", "/booking/property/:property_id/stays"),
     Member("GET", "/dashboard/overview")}
    \union {Member(method, "/booking/stay/:stay_id") : method \in {"GET", "DELETE", "PATCH"}}

AuthRoutes ==
    {Route("POST", "/auth/users"), PerPeer(Route("POST", "/auth/sign-in"), 20),
     Account("POST", "/auth/sign-out"),
     Account("GET", "/auth/me"), Account("DELETE", "/auth/me"),
     Account("GET", "/auth/me/preferences"), Account("PATCH", "/auth/me/preferences"),
     PerPeer(Member("POST", "/auth/change-password"), 20),
     PerPeer(Route("POST", "/auth/password-reset/request"), 10),
     PerPeer(Route("POST", "/auth/password-reset/confirm"), 10),
     Account("GET", "/auth/connected-apps"),
     Account("DELETE", "/auth/connected-apps/:consentId"),
     PerPeer(Route("GET", "/auth/google/start"), 20),
     PerPeer(Route("GET", "/auth/google/callback"), 20)}

DiscoveryRoutes ==
    {Document("/.well-known/oauth-protected-resource"),
     Document("/.well-known/oauth-protected-resource/mcp"),
     Document("/.well-known/oauth-authorization-server")}

DelegatedAccessRoutes ==
    {[Route("POST", "/register") EXCEPT !.peerPolicy = Policy(Hour, 20)],
     PerPeer(Route("GET", "/authorize"), 20),
     Route("GET", "/connect/authorize/pending-request"),
     Account("POST", "/connect/authorize/decision"),
     PerPeer(Route("POST", "/token"), 30), PerPeer(Route("POST", "/revoke"), 30)}

BackofficeRoutes ==
    {Member("GET", "/settings"), Member("GET", "/settings/:id"),
     Member("GET", "/settings/key/:key"), Staff("POST", "/settings"),
     Staff("PUT", "/settings/:id"), Staff("DELETE", "/settings/:id")}

BillingRoutes ==
    {Route("GET", "/billing/plans"),
     Account("GET", "/billing/subscription"),
     Account("GET", "/billing/subscription/history"),
     PerPeer(Account("POST", "/billing/checkout-session"), 10),
     PerPeer(Account("POST", "/billing/portal-session"), 10),
     PerPeer(Route("POST", "/billing/webhooks/stripe"), 300),
     [Staff("POST", "/billing/catalog/sync") EXCEPT !.open = TRUE]}

NotificationRoutes ==
    {Member("GET", "/notifications/preferences"),
     Member("PUT", "/notifications/preferences"), Member("GET", "/notifications"),
     Member("POST", "/notifications/:notification_id/read"),
     Member("POST", "/notifications/read-all")}

MarketingRoutes ==
    {[Route("POST", "/waitlist") EXCEPT !.public = TRUE,
                                        !.peerPolicy = Policy(10 * Minute, 5)]}

RouteTable ==
    TenantRoutes \union PropertyRoutes \union AuthRoutes \union DiscoveryRoutes
    \union DelegatedAccessRoutes \union StayRoutes \union FinanceRoutes
    \union PropertyManagementRoutes \union BackofficeRoutes \union BillingRoutes
    \union NotificationRoutes \union MarketingRoutes \union {Route("GET", "/health")}

(***************************************************************************)
(* MCP tools: [name, policy, needs], and the route that runs the same use  *)
(* case.                                                                   *)
(***************************************************************************)

Tool(name, method, path) ==
    [name |-> name, route |-> <<method, path>>, policy |-> NoPolicy, needs |-> NoValue]

ToolPerUser(tool, max) == [tool EXCEPT !.policy = Policy(Hour, max)]

ImportTool(name, path) ==
    [ToolPerUser(Tool(name, "POST", path), 30) EXCEPT !.needs = "bulk_import"]

McpTools ==
    {ToolPerUser(Tool("book_stay", "POST", "/booking/property/:property_id/book"), 120),
     ToolPerUser(Tool("record_expense", "POST", "/finance/:property_id/expense"), 120),
     ToolPerUser(Tool("record_revenue", "POST", "/finance/:property_id/revenue"), 120),
     ImportTool("import_properties", "/import/properties"),
     ImportTool("import_stays", "/import/stays"),
     ImportTool("import_ledger_entries", "/import/ledger-entries"),
     Tool("list_properties", "GET", "/property/user/all"),
     Tool("create_property", "POST", "/property"),
     Tool("get_property", "GET", "/property/:property_id"),
     Tool("update_property", "PATCH", "/property/:property_id"),
     Tool("delete_property", "DELETE", "/property/:property_id"),
     Tool("list_property_settings", "GET", "/property/:property_id/settings"),
     Tool("get_property_setting", "GET", "/property/:property_id/settings/:id"),
     Tool("create_property_setting", "POST", "/property/:property_id/settings"),
     Tool("update_property_setting", "PUT", "/property/:property_id/settings/:id"),
     Tool("delete_property_setting", "DELETE", "/property/:property_id/settings/:id"),
     Tool("list_stays", "GET", "/booking/property/:property_id/stays"),
     Tool("get_stay", "GET", "/booking/stay/:stay_id"),
     Tool("update_stay", "PATCH", "/booking/stay/:stay_id"),
     Tool("cancel_stay", "DELETE", "/booking/stay/:stay_id"),
     Tool("get_dashboard_overview", "GET", "/dashboard/overview"),
     Tool("list_tenants", "GET", "/tenants"),
     Tool("reconcile_external_bookings", "GET", "/booking/reconcile-external-booking"),
     Tool("create_external_booking_source", "POST",
          "/booking/property/:property_id/external-booking"),
     Tool("list_external_booking_sources", "GET",
          "/booking/property/:property_id/external-booking"),
     Tool("get_external_booking_source", "GET",
          "/booking/property/:property_id/external-booking/:id"),
     Tool("update_external_booking_source", "PUT",
          "/booking/property/:property_id/external-booking/:id"),
     Tool("delete_external_booking_source", "DELETE",
          "/booking/property/:property_id/external-booking/:id"),
     Tool("delete_ledger_entry", "DELETE",
          "/finance/properties/:property_id/movements/:entry_id"),
     Tool("list_financial_movements", "GET", "/finance/properties/:property_id/movements"),
     Tool("get_me", "GET", "/auth/me"),
     Tool("get_user_preferences", "GET", "/auth/me/preferences"),
     Tool("update_user_preferences", "PATCH", "/auth/me/preferences"),
     Tool("get_notification_preferences", "GET", "/notifications/preferences"),
     Tool("update_notification_preferences", "PUT", "/notifications/preferences"),
     Tool("list_notifications", "GET", "/notifications"),
     Tool("mark_notification_read", "POST", "/notifications/:notification_id/read"),
     Tool("mark_all_notifications_read", "POST", "/notifications/read-all"),
     Tool("get_subscription_status", "GET", "/billing/subscription"),
     Tool("get_subscription_history", "GET", "/billing/subscription/history"),
     Tool("list_plans", "GET", "/billing/plans")}

(***************************************************************************)
(* The map Bun serves                                                      *)
(***************************************************************************)

Methods(path) == {route.name[1] : route \in {r \in RouteTable : r.name[2] = path}}

(* A second registration of a method on a path would replace the first,   *)
(* and the last controller of a path decides its preflight.                *)
Served(method, path) == {r \in RouteTable : r.name = <<method, path>>}
PreflightPolicies(path) == {r.public : r \in {s \in RouteTable : s.name[2] = path}}

(* An origin outside the list is refused unless the path is public.       *)
PreflightStatus(public, originAllowed) == IF public \/ originAllowed THEN 200 ELSE 403

(* The methods a browser is told it may use.                               *)
AllowedMethods(public) ==
    {"GET", "POST", "DELETE", "OPTIONS"} \union (IF public THEN {} ELSE {"PUT", "PATCH"})

(* What the adapter and the table throw for when they are built.          *)
WellDeclared(route) ==
    /\ route.needs # NoValue => RequiresAuth(route) /\ ~route.adminOnly
    /\ route.userPolicy # NoPolicy => RequiresAuth(route)
    /\ route.public => ~RequiresAuth(route)

(* No route hides another; a path has one preflight policy, under which   *)
(* each of its methods may be used; the server starts.                     *)
ASSUME TableAssumption == \A route \in RouteTable :
    /\ WellDeclared(route)
    /\ Served(route.name[1], route.name[2]) = {route}
    /\ PreflightPolicies(route.name[2]) = {route.public}
    /\ Methods(route.name[2]) \subseteq AllowedMethods(route.public)

(* An assistant gets through a tool to nothing its user would be refused  *)
(* at the route: the tool needs the same capability, and no administrator's *)
(* route has a tool.                                                       *)
ASSUME ToolsAssumption == \A tool \in McpTools :
    \E route \in RouteTable :
        route.name = tool.route /\ route.needs = tool.needs /\ ~route.adminOnly

=============================================================================
