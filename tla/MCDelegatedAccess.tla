------------------------- MODULE MCDelegatedAccess -------------------------
(* One user, one app and two HTTP requests in flight at a time, from two   *)
(* beginnings: an empty database, and a first connection whose credential  *)
(* is the first of three.                                                  *)
EXTENDS DelegatedAccess, TLC

MCSymmetry == Permutations(Requests) \cup Permutations(Codes)
              \cup Permutations(Creds) \cup Permutations(Procs)

(* Right after a first connection: every code has been exchanged for a     *)
(* credential, and no authorization request is left.                       *)
InitConnected ==
    /\ now = 0
    /\ consent = [k \in Consents |-> [NoConsent EXCEPT !.st = "row"]]
    /\ request = [r \in Requests |-> NoRequest]
    /\ \E k \in Consents, first \in [Codes -> Creds] :
          /\ \A x, y \in Codes : first[x] = first[y] => x = y
          /\ code = [x \in Codes |-> [st |-> "row", consent |-> k,
                       expires_at |-> CodeTTL, consumed |-> TRUE]]
          /\ cred = [c \in Creds |->
                IF \E x \in Codes : first[x] = c
                THEN NewCred(k, c, CHOOSE x \in Codes : first[x] = c)
                ELSE NoCred]
    /\ cache = [c \in Creds |-> NoEntry]
    /\ task = [p \in Procs |-> Idle]
    /\ stale = {} /\ raced = {} /\ killed = {} /\ forked = {}

(* In the last instant a handler begins beside another only if that one is *)
(* past its checks.                                                        *)
Checked == {"d_create", "d_touch", "d_revive", "d_code", "x_issue", "r_rotate", "r_commit"}
FewBegin == \A p, q \in Procs :
    task[p].pc = "idle" /\ task'[p].pc # "idle" => p = q \/ task[q].pc \in Checked \cup {"idle"}

(* The connection is not asked for again, and only access tokens expire.   *)
Connected == /\ \A r \in Requests : request[r].st = "none"
             /\ \E x \in Codes : code[x].st # "none"
OneConnection == UNCHANGED request /\ now' < MaxTime /\ (now > 0 => FewBegin)

(* From nothing there are two credentials, and nothing happens between the *)
(* first instant and the last, when all may have expired.                  *)
FromNothing == /\ Cardinality({c \in Creds : cred'[c].st # "none"}) <= 2
               /\ now \in {0, MaxTime} \/ now' = now + 1
               /\ now = MaxTime => FewBegin

MCNext == \/ Connected /\ Next /\ OneConnection
          \/ ~Connected /\ Next /\ FromNothing
MCSpec == (Init \/ InitConnected) /\ [][MCNext]_vars
=============================================================================
