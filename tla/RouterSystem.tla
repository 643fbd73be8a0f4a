---------------------------- MODULE RouterSystem ----------------------------
(***************************************************************************)
(* The failover router whole (RouterService of src/router.py): the pool of  *)
(* nodes of RouterPool under the calls of Router.  The two meet in four     *)
(* places.  A pick reads the standings the pool has at that moment; a       *)
(* report of failure is _handle_failure on the pool before it is an answer  *)
(* to the caller; the probes move nodes whatever the calls are about; and a *)
(* death of the actor takes the standings and the tables at once.           *)
(***************************************************************************)
EXTENDS RouterPool

CONSTANTS
    Jobs, NoNode, QueueMax, Queueing, SlaOn, MaxSends   \* those of Router

\* As RouterAssumption.
ASSUME SystemAssumption ==
    /\ NoNode \notin Nodes
    /\ QueueMax \in Nat
    /\ Queueing \in BOOLEAN
    /\ SlaOn \in BOOLEAN
    /\ MaxSends \in Nat \ {0}

VARIABLES
    pointer, slow, inflight, attempts, queue, caller, route, sends  \* likewise

callVars == <<pointer, slow, inflight, attempts, queue, caller, route, sends>>
systemVars == <<poolVars, callVars>>

\* The calls, on the nodes the pool has in service.
R == INSTANCE Router WITH primaries <- Primaries, reserves <- Reserves

SystemInit == PoolInit /\ R!RouterInit

-----------------------------------------------------------------------------

\* The calls that take a node or let it go, and do nothing to the pool.
Call(j) ==
    /\ UNCHANGED poolVars
    /\ R!Route(j) \/ R!Poll(j) \/ R!TimeOut(j) \/ R!ReportSuccess(j)

\* Mutant of HandleFailure: a report is noted and the failover left to the probes.
HandleFailureLater(n) == UNCHANGED poolVars

\* _handle_failure: a node that is respawning is left to it.
HandleFailure(n) ==
    \/ ReportedFailure(n)
    \/ Handled(n) /\ UNCHANGED poolVars

\* report_failure: the answer is computed from the pool the failover has left.
FailureReport(j, retry) ==
    /\ caller[j] = "holding"
    /\ HandleFailure(route[j])
    /\ R!AfterFailure(j, retry)

\* start() raises when the pool has the node out already.
FailureReportRaised(j) ==
    /\ "raised" \in StartOutcomes
    /\ caller[j] = "holding"
    /\ ReportedFailure(route[j])
    /\ R!ReportCut(j)

\* The probes, and the nodes themselves.
Probes ==
    /\ ProbeStep \/ \E n \in Nodes : Flip(n)
    /\ UNCHANGED callVars

CallersLeave(away) == UNCHANGED poolVars /\ R!Vanish(away)

ActorRestart(cut) == Restart /\ R!Forget(cut)

SystemNext ==
    \/ \E j \in Jobs : \/ Call(j)
                       \/ \E retry \in BOOLEAN : FailureReport(j, retry)
                       \/ FailureReportRaised(j)
    \/ Probes
    \/ \E away \in SUBSET R!Holding : CallersLeave(away)
    \/ \E cut \in SUBSET R!Holding : ActorRestart(cut)

\* No call is needed for the probes to go on.
SystemSpec == SystemInit /\ [][SystemNext]_systemVars /\ ProbeFairness

-----------------------------------------------------------------------------
(* Properties. *)

\* Whatever reports, probes, recoveries and restarts go on between a caller's wish and
\* its route, no job is dispatched to a node that awaits the end of a start, or has the
\* threshold of failed probes on its count.
DispatchesToLiving ==
    [][\A j \in Jobs : R!Dispatched(j) =>
          /\ inflight'[j] \in InService'
          /\ failures'[inflight'[j]] < Threshold
          /\ owed'[inflight'[j]] = 0]_systemVars

\* The actor whole keeps to Router: each call is answered as Router says over the standings
\* the pool has then, and the pool moves them under the calls only as Rotation allows.
KeepsRouter == R!Spec

=============================================================================
