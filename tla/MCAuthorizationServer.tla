----------------------- MODULE MCAuthorizationServer -----------------------
(* URIs on the user's machine, two ports and one with a fragment, and on a *)
(* remote host at two ports.                                               *)
EXTENDS AuthorizationServer, TLC

Uri(scheme, host, port, other) ==
    [scheme |-> scheme, host |-> host, port |-> port, rest |-> "/", other |-> other]
OtherPort == Uri("https", "remote", 2, "none")
MCUris == {Uri("http", "localhost", 1, "none"), Uri("http", "localhost", 2, "fragment"),
           Uri("https", "remote", 1, "none"), OtherPort}
MCSymmetry == Permutations(Apps) \cup Permutations(Requests) \cup Permutations(Codes)
              \cup Permutations(Creds) \cup Permutations(Procs) \cup Permutations(Verifiers)

(* With two applications the clock stops before the last instant, and none *)
(* registers the other port of the remote host.                            *)
Registered == {a \in Apps : app[a].st # "none"}
Small == \/ \A a, b \in Registered : a = b
         \/ now < MaxTime /\ \A a \in Registered : OtherPort \notin app[a].uris
MCSpec == Init /\ [][Next /\ Small']_vars
=============================================================================
