---------------------------- MODULE MCRouterPool ----------------------------
(* RouterPool on the three nodes of _router_payload (src/router.py). *)
EXTENDS RouterPool

CONSTANTS dgx, radeon, standby

MCNodes == {dgx, radeon, standby}

MCPriority == [n \in MCNodes |-> CASE n = dgx -> 0 [] n = radeon -> 1
                                   [] n = standby -> 2]

MCStandby == {standby}

=============================================================================
