------------------------------ MODULE MCRouter ------------------------------
(* Router on three nodes, two of them primaries. *)
EXTENDS RouterTurns

CONSTANTS dgx, radeon, standby, j1, j2, j3

MCNodes == {dgx, radeon, standby}

MCPriority == [n \in MCNodes |-> CASE n = dgx -> 0 [] n = radeon -> 1
                                   [] n = standby -> 2]

MCJobs == {j1, j2, j3}

\* Bound: how often the callers send all together, so that one of them may try again when
\* each has been served, or two when the third has not.
SendsMax == 4
MCNext == TurnsNext /\ sends'[j1] + sends'[j2] + sends'[j3] <= SendsMax
MCSpec == TurnsInit /\ [][MCNext]_<<vars, history>>

\* The callers are alike.
JobSymmetry == Permutations(MCJobs)

=============================================================================
