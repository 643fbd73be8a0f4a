----------------------------- MODULE Operations -----------------------------
(***************************************************************************)
(* The operation of the cluster: the failover controller, the view of the   *)
(* gateway, and a command of src/main.py, which is a recovery drill or a    *)
(* safe refactor, on one Ray cluster whose workers come and go.             *)
(***************************************************************************)
EXTENDS ClusterFailover, RecoveryDrill, SafeRefactor, NodeView

opVars == <<cluster, controller, drilling, refactoring>>

\* One command is run.
OpInit ==
    /\ ClusterInit
    /\ ControllerInit
    /\ DrillInit
    /\ RefactorInit
    /\ drill = "idle" <=> refactor # "idle"

\* The history of the target goes on with the cluster.
World ==
    /\ ClusterStep
    /\ out' = (out \/ (drill = "outage" /\ Target \notin alive'))
    /\ UNCHANGED <<controller, drill, passed, blind, refactoring>>

Controlling == ControllerStep /\ UNCHANGED <<drilling, refactoring>>

Drilling == DrillStep /\ UNCHANGED <<controller, refactoring>>

Refactoring == RefactorStep /\ UNCHANGED <<controller, drilling>>

Raising == StatusRaises /\ UNCHANGED <<controller, drilling>>

OpNext == World \/ Controlling \/ Drilling \/ Refactoring \/ Raising

\* A command runs: its waits are bounded by deadlines and by counts of checks;
\* that the dashboard fails is not assumed.
OpFairness == WF_opVars(Drilling) /\ WF_opVars(Refactoring)

OpSpec == OpInit /\ [][OpNext]_opVars /\ OpFairness

-----------------------------------------------------------------------------
(* Properties. *)

OpTypeOK == ClusterTypeOK /\ ControllerTypeOK /\ DrillTypeOK /\ RefactorTypeOK

\* A refactor that passes has tested what it deployed: of an application with a new
\* configuration no old replica is left but on its way out, be it in service or about to be,
\* every worker serves, and a gateway runs the new files.  A gateway whose configuration is
\* as before is not replaced, and may run the old ones.
PassTestsNewCode ==
    [][refactor = "test" /\ refactor' = "passed" =>
          /\ \A h \in Hosts : NewConfig[AppOn(h)] = "new" =>
                 \A r \in Present(h) : r.config = "new" /\ (h = HeadNode => r.code = "new")
          /\ \A w \in Workers : \E r \in Present(w) : r.state = "RUNNING"]_opVars

\* The steps a command has left at most; a wait_healthy takes MaxChecks checks.
DrillLeft ==
    CASE drill \in DrillEnds -> 0 [] drill = "rejoin" -> 1
      [] drill = "outage" -> 2    [] drill = "baseline" -> 3

RefactorLeft ==
    CASE refactor \in RefactorEnds -> 0
      [] refactor = "waitBack" -> MaxChecks - checks
      [] refactor = "rollback" -> MaxChecks + 1
      [] refactor = "test" -> MaxChecks + 2
      [] refactor = "wait" -> 2 * MaxChecks + 2 - checks
      [] refactor = "deploy" -> 2 * MaxChecks + 3
      [] refactor = "copy" -> 2 * MaxChecks + 4
      [] refactor = "snapshot" -> 2 * MaxChecks + 5

\* A command that moves comes nearer to its end, with the rollback and its second wait if
\* need be: no failing step, read or check sends it round again.
CommandAdvances ==
    [][ /\ UNCHANGED drill \/ DrillLeft' < DrillLeft
        /\ UNCHANGED <<refactor, checks>> \/ RefactorLeft' < RefactorLeft ]_opVars

\* Every command ends.
CommandEnds == <>(drill \in DrillEnds /\ refactor \in RefactorEnds)

\* "refactor validation failed and rollback was applied" (run_safe_refactor): after a
\* rollback the gateway serves the code it served before.
RollbackRestoresCode ==
    refactor = "rolledBack" =>
        \A r \in replicas[HeadNode] : r.state = "RUNNING" => r.code = "old"

=============================================================================
