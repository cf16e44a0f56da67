--------------------------- MODULE MCPropertyDesk ---------------------------
(***************************************************************************)
(* The property desk for TLC: two requests at once, out of one scenario    *)
(* per behaviour.                                                          *)
(***************************************************************************)
EXTENDS PropertyDesk, TLC

CONSTANTS x1, x2
Typing == x1 :> "string" @@ x2 :> "number"

Mix(n) == [op \in Operations |-> IF op \in DOMAIN n THEN n[op] ELSE 0]
Of(op, on, n) == <<op, on>> :> n

(* Creations and imports against the quota; updates against deletions;     *)
(* settings at their limit and deleted under an update; application        *)
(* settings; calendars and reconciliation; the ledger.                     *)
Scenarios == {
    Mix(Of("create", "property", 2) @@ Of("import", "property", 1)
        @@ Of("change", "quota", 2) @@ Of("delete", "property", 1)),
    Mix(Of("create", "property", 2) @@ Of("update", "property", 1)
        @@ Of("delete", "property", 2) @@ Of("change", "quota", 1)),
    Mix(Of("create", "property", 1) @@ Of("create", "setting", 3)
        @@ Of("delete", "setting", 1) @@ Of("delete", "property", 1)),
    Mix(Of("create", "property", 1) @@ Of("create", "setting", 1)
        @@ Of("update", "setting", 2) @@ Of("delete", "setting", 1)
        @@ Of("delete", "property", 1)),
    Mix(Of("create", "app", 3) @@ Of("update", "app", 2)
        @@ Of("delete", "app", 1)),
    Mix(Of("create", "property", 1) @@ Of("create", "source", 2)
        @@ Of("update", "source", 1) @@ Of("delete", "source", 1)
        @@ Of("reconcile", "source", 1) @@ Of("change", "stays", 1)),
    Mix(Of("import", "property", 1) @@ Of("create", "source", 1)
        @@ Of("delete", "property", 1) @@ Of("reconcile", "source", 1)
        @@ Of("change", "stays", 2)),
    Mix(Of("create", "property", 1) @@ Of("create", "entry", 1)
        @@ Of("import", "entry", 1) @@ Of("delete", "entry", 1)
        @@ Of("delete", "property", 1))}

Symmetry == Permutations(Tasks) \cup Permutations(Keys)
=============================================================================
