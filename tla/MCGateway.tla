----------------------------- MODULE MCGateway -----------------------------
(* Gateway: a plain request and a stream, two nodes. *)
EXTENDS Gateway

CONSTANTS dgx, radeon, plain, stream

MCNodes == {dgx, radeon}
MCPriority == [n \in MCNodes |-> IF n = dgx THEN 0 ELSE 1]
MCJobs == {plain, stream}
MCStreams == {stream}

=============================================================================
