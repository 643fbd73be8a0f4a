--------------------------- MODULE MCBatchDispatch ---------------------------
(* BatchDispatch: three items, two threads, two nodes. *)
EXTENDS BatchDispatch

CONSTANTS dgx, radeon, j1, j2, j3

MCNodes == {dgx, radeon}
MCPriority == [n \in MCNodes |-> IF n = dgx THEN 0 ELSE 1]
MCJobs == {j1, j2, j3}
MCItems == <<j1, j2, j3>>

=============================================================================
