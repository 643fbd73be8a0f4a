---------------------------- MODULE DemoVerifier ----------------------------
(***************************************************************************)
(* The command demo-verify of src/main.py (src/demo_verifier.py): four       *)
(* phases, two of which read a failover router, and a report.  RouterPool   *)
(* is the router the gateway uses.                                          *)
(*                                                                         *)
(* Named actors are looked up in the namespace of the process.  The gateway *)
(* runs in "serve", where batch_job.py looks for its router; the command    *)
(* connects to Ray without a namespace, which gives it one of its own, and  *)
(* ensure_router, finding no router there, creates another.  That one is    *)
(* detached: it probes and starts the same nodes from then on, but nobody   *)
(* routes through it or reports to it.                                      *)
(***************************************************************************)
EXTENDS RouterPool

VARIABLES
    demo,       \* the phase under way, or how the command ended
    passedDemo, \* the phases that have passed
    made        \* the command has created its router

VARIABLES       \* the router of the command: the variables of RouterPool but for up
    status2, failures2, ready2, toPrimary2, owed2, tick2, answers2, chatting2

pool2 == <<status2, failures2, ready2, toPrimary2, owed2, tick2, answers2, chatting2>>
command == <<demo, passedDemo, made>>
demoVars == <<poolVars, pool2, command>>

Second == INSTANCE RouterPool WITH
    status <- status2, failures <- failures2, ready <- ready2,
    toPrimary <- toPrimary2, owed <- owed2, tick <- tick2,
    answers <- answers2, chatting <- chatting2

DemoPhases == {"pre-checks", "heterogeneous-load", "failover-tracking", "recovery-tracking"}
DemoEnds == {"reported", "crashed"}

\* Until it is made the second router stands as a router does when it is created.
DemoInit ==
    /\ PoolInit
    /\ Second!PoolInit
    /\ demo = "pre-checks"
    /\ passedDemo = {}
    /\ made = FALSE

-----------------------------------------------------------------------------
(* The phases. *)

AfterPhase ==
    CASE demo = "pre-checks" -> "heterogeneous-load"
      [] demo = "heterogeneous-load" -> "failover-tracking"
      [] demo = "failover-tracking" -> "recovery-tracking"
      [] demo = "recovery-tracking" -> "report"

\* _run_phase: a phase that fails or raises does not keep the next from being run.
EndDemoPhase(ok) ==
    /\ passedDemo' = IF ok THEN passedDemo \cup {demo} ELSE passedDemo
    /\ demo' = AfterPhase

\* _pre_checks and _heterogeneous_load: what the dashboard and the endpoints answer.
CheckOutside ==
    /\ demo \in {"pre-checks", "heterogeneous-load"}
    /\ \E ok \in BOOLEAN : EndDemoPhase(ok)
    /\ UNCHANGED <<poolVars, pool2, made>>

Tracking == demo \in {"failover-tracking", "recovery-tracking"}

\* ensure_router: no router of the name in the namespace of the command, so one is made.
EnsureRouter ==
    /\ Tracking
    /\ ~made
    /\ made' = TRUE
    /\ UNCHANGED <<poolVars, pool2, demo, passedDemo>>

\* _failover_tracking and _recovery_tracking, of the standing st and the readiness rd of
\* the nodes in the snapshot.
EnoughRoutable(st) ==
    Cardinality({n \in Nodes : st[n] \in {"primary", "reserve"}}) >= PrimaryCount

AllRecovered(st, rd) == \A n \in Nodes : st[n] \in {"primary", "reserve"} /\ rd[n]

\* metrics of the router that was made.
ReadRouter ==
    /\ Tracking
    /\ made
    /\ EndDemoPhase(IF demo = "failover-tracking" THEN EnoughRoutable(status2)
                                                  ELSE AllRecovered(status2, ready2))
    /\ UNCHANGED <<poolVars, pool2, made>>

\* ray.init, the creation or the call of metrics raises: "router unreachable".
RouterUnreachable ==
    /\ Tracking
    /\ EndDemoPhase(FALSE)
    /\ UNCHANGED <<poolVars, pool2, made>>

\* The report is written and posted; the file may not be writable.
ReportDemo ==
    /\ demo = "report"
    /\ demo' \in DemoEnds
    /\ UNCHANGED <<poolVars, pool2, passedDemo, made>>

DemoStep ==
    CheckOutside \/ EnsureRouter \/ ReadRouter \/ RouterUnreachable \/ ReportDemo

-----------------------------------------------------------------------------
(* The two routers, and the nodes they share. *)

GatewayRouter ==
    /\ ProbeStep \/ (\E n \in Nodes : ReportedFailure(n)) \/ Restart
    /\ UNCHANGED <<pool2, command>>

SecondRouter ==
    /\ made
    /\ Second!ProbeStep \/ Second!Restart
    /\ UNCHANGED <<pool, probes, command>>

NodesFlip ==
    /\ \E n \in Nodes : Flip(n) /\ Second!Flip(n)
    /\ UNCHANGED command

DemoNext == DemoStep \/ GatewayRouter \/ SecondRouter \/ NodesFlip

\* The command runs: its requests have time limits and its calls return or raise.
DemoSpec == DemoInit /\ [][DemoNext]_demoVars /\ WF_demoVars(DemoStep)

-----------------------------------------------------------------------------

\* "recovery-tracking - no node is stuck failed/respawning and every routable node passes
\* its readiness probe" (demo_verifier.py:13), of the nodes as the router of the gateway
\* has them at the time.
RecoveryPassTells ==
    [][demo = "recovery-tracking" /\ "recovery-tracking" \in passedDemo'
          => AllRecovered(status, ready)]_demoVars

=============================================================================
