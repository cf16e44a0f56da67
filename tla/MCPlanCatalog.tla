--------------------------- MODULE MCPlanCatalog ---------------------------
(* Two prices of one product, which may both claim a plan, for the free    *)
(* plan and one paid plan.                                                 *)
EXTENDS PlanCatalog, TLC

MCProductOf == [p \in Prices |-> CHOOSE x \in Products : TRUE]
Symmetry == Permutations(Handlers) \cup Permutations(Prices)
=============================================================================
