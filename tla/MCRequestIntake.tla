-------------------------- MODULE MCRequestIntake --------------------------
(* Two connections of a user and an administrator, from two addresses, to *)
(* four routes of the table and the MCP endpoint with two of its tools;   *)
(* a limit that is there is scaled down.                                   *)
EXTENDS RequestIntake, TLC

Scaled(policy, max) == IF policy = NoPolicy THEN NoPolicy ELSE [window |-> 2, max |-> max]

MCRoutes ==
    {[r EXCEPT !.peerPolicy = Scaled(@, 2), !.userPolicy = Scaled(@, 1)] :
        r \in {r \in RouteTable :
                 r.name \in {<<"POST", "/auth/sign-in">>, <<"POST", "/import/stays">>,
                            <<"GET", "/auth/me">>, <<"POST", "/settings">>}}}

MCMcp == [name |-> <<"POST", "/mcp">>]

MCTools ==
    {[name |-> t.name, policy |-> Scaled(t.policy, 1), needs |-> t.needs] :
        t \in {t \in McpTools : t.name \in {"book_stay", "import_stays"}}}

MCMcpPolicy == Scaled(McpTransportPolicy, 1)

(* Connections and addresses are interchangeable.                          *)
Symmetry == Permutations(Callers) \union Permutations(Peers)
=============================================================================
