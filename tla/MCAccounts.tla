----------------------------- MODULE MCAccounts -----------------------------
(***************************************************************************)
(* Accounts for TLC. Every behaviour may start the operations of one       *)
(* scenario, so that each question gets the depth it needs.                *)
(***************************************************************************)
EXTENDS Accounts, TLC

CONSTANTS lower, upper

Mix(n) == [op \in Operations |-> IF op \in DOMAIN n THEN n[op] ELSE 0]

(* Changes, resets and sign-ins that race; overlapping recoveries; the     *)
(* quota over time; external sign-ins against registration, the clock and  *)
(* deletion; the life of a session.                                        *)
Scenarios == {
    Mix([register |-> 1, signin |-> 1, change |-> 2, forgot |-> 1,
         reset |-> 1]),
    Mix([register |-> 1, forgot |-> 3, reset |-> 2, tick |-> 1]),
    Mix([register |-> 1, forgot |-> 3, tick |-> 4]),
    Mix([register |-> 1, start |-> 2, external |-> 2, signin |-> 1]),
    Mix([start |-> 1, external |-> 1, tick |-> 2, cleanup |-> 1]),
    Mix([start |-> 2, external |-> 2, purge |-> 1, forgot |-> 1, reset |-> 1]),
    Mix([register |-> 1, visit |-> 2, tick |-> 5, cleanup |-> 1,
         signout |-> 1])}

Lowered == [e \in Emails |-> lower]
Symmetry == Permutations(Requests) \cup Permutations(Subjects)
=============================================================================
