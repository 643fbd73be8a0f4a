---------------------------- MODULE SafeRefactor ----------------------------
(***************************************************************************)
(* run_safe_refactor of src/commands.py: snapshot, copy the files and the    *)
(* configuration to the head, deploy, wait, test, and roll back if anything *)
(* raises.  Every step is a blocking command that may raise.                *)
(***************************************************************************)
EXTENDS RayCluster

CONSTANTS
    NewConfig,  \* serve_config.yaml: "old" for an application it leaves as deployed
    MaxChecks   \* max_checks of wait_healthy

ASSUME RefactorAssumption ==
    /\ NewConfig \in Configs
    /\ MaxChecks \in Nat \ {0}

VARIABLES
    refactor,   \* the step to take, or how the command ended
    snapshot,   \* the configurations of the snapshot
    checks      \* how often the wait has looked

refactoring == <<refactor, snapshot, checks>>

RefactorEnds == {"idle", "passed", "rolledBack", "crashed"}
RefactorSteps == {"snapshot", "copy", "deploy", "wait", "test", "rollback", "waitBack"}

RefactorInit == refactor \in {"idle", "snapshot"} /\ snapshot = deployed /\ checks = 0

Then(step) == refactor' = step

\* snapshot_serve_config is outside the try.
TakeSnapshot ==
    /\ refactor = "snapshot"
    /\ \/ snapshot' = deployed /\ Then("copy")
       \/ UNCHANGED snapshot /\ Then("crashed")
    /\ UNCHANGED <<cluster, checks>>

\* _copy_to_head and _copy_config_to_head: a copy that raises may have copied some.
Copy ==
    /\ refactor = "copy"
    /\ \/ files' = "new" /\ (Then("deploy") \/ Then("rollback"))
       \/ UNCHANGED files /\ Then("rollback")
    /\ UNCHANGED <<alive, replicas, deployed, snapshot, checks>>

\* serve deploy, whose command may fail before or after Serve has taken it.
Deploy ==
    /\ refactor = "deploy"
    /\ \/ deployed' = NewConfig /\ (Then("wait") \/ Then("rollback"))
       \/ UNCHANGED deployed /\ Then("rollback")
    /\ UNCHANGED <<alive, replicas, files, snapshot, checks>>

\* Mutant of Healthy: DEPLOYING and UPDATING are taken for HEALTHY.
HealthyUpdating == \A h \in Hosts : \E r \in replicas[h] : r.state = "RUNNING"

\* _evaluate_statuses, of both applications: what Serve says when all replicas of the
\* deployed configurations are up.
Healthy == \A h \in Hosts : \E r \in replicas[h] : r.state = "RUNNING" /\ Current(h, r)

\* Mutant of NextCheck: the checks are not counted.
NextCheckSame == checks

NextCheck == checks + 1

\* One check of wait_healthy, which returns (to done) or, after the last, raises (to
\* failed).
Await(done, failed) ==
    \/ Healthy /\ Then(done) /\ checks' = 0
    \/ ~Healthy /\ NextCheck < MaxChecks /\ UNCHANGED refactor /\ checks' = NextCheck
    \/ ~Healthy /\ NextCheck = MaxChecks /\ Then(failed) /\ checks' = 0

WaitHealthy ==
    /\ \/ refactor = "wait" /\ Await("test", "rollback")
       \/ refactor = "waitBack" /\ Await("rolledBack", "crashed")
    /\ UNCHANGED <<cluster, snapshot>>

\* The read of the status raises.
StatusRaises ==
    /\ \/ refactor = "wait" /\ Then("rollback")
       \/ refactor = "waitBack" /\ Then("crashed")
    /\ checks' = 0
    /\ UNCHANGED <<cluster, snapshot>>

Spread == \A w \in Workers : \E r \in replicas[w] : r.state = "RUNNING"

\* run_e2e: a replica of the model must be RUNNING on each expected node, and the load may
\* fail.  The gateway's replica is not looked at.
Test ==
    /\ refactor = "test"
    /\ (Spread /\ Then("passed")) \/ Then("rollback")
    /\ UNCHANGED <<cluster, snapshot, checks>>

\* rollback_to_snapshot: the configurations of the snapshot are deployed; the files stay.
\* A rollback that raises replaces the exception that led to it.
Rollback ==
    /\ refactor = "rollback"
    /\ \/ deployed' = snapshot /\ (Then("waitBack") \/ Then("crashed"))
       \/ UNCHANGED deployed /\ Then("crashed")
    /\ UNCHANGED <<alive, replicas, files, snapshot, checks>>

RefactorStep ==
    TakeSnapshot \/ Copy \/ Deploy \/ WaitHealthy \/ Test \/ Rollback

RefactorTypeOK ==
    /\ refactor \in RefactorSteps \cup RefactorEnds
    /\ snapshot \in Configs
    /\ checks \in 0..MaxChecks - 1

=============================================================================
