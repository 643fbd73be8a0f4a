---------------------------- MODULE MCOperations ----------------------------
(* Operations: two workers, the second the target of the drill, and a new *)
(* configuration for both applications.                                   *)
EXTENDS Operations

CONSTANTS dgx, radeon

MCWorkers == {dgx, radeon}
MCExpected == <<dgx, radeon>>
MCNewConfig == [a \in Applications |-> "new"]

\* Bound: the controller runs beside a drill and not beside a refactor, which reads nothing
\* that the controller changes and changes nothing that it reads.
MCNext ==
    \/ World \/ Drilling \/ Refactoring \/ Raising
    \/ refactor = "idle" /\ Controlling

MCSpec == OpInit /\ [][MCNext]_opVars /\ OpFairness

=============================================================================
