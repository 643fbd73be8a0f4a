--------------------------- MODULE MCRouterSystem ---------------------------
(* RouterSystem on two nodes, a primary and a reserve, with two callers. *)
EXTENDS RouterSystem, TLC

CONSTANTS dgx, radeon, j1, j2

MCNodes == {dgx, radeon}
MCPriority == [n \in MCNodes |-> IF n = dgx THEN 0 ELSE 1]
MCJobs == {j1, j2}

\* The callers are alike.
JobSymmetry == Permutations(MCJobs)

=============================================================================
