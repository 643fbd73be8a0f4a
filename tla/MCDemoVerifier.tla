--------------------------- MODULE MCDemoVerifier ---------------------------
(* DemoVerifier on two nodes, either of them enough. *)
EXTENDS DemoVerifier

CONSTANTS dgx, radeon

MCNodes == {dgx, radeon}
MCPriority == [n \in MCNodes |-> IF n = dgx THEN 0 ELSE 1]

=============================================================================
