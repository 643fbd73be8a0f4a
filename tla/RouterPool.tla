----------------------------- MODULE RouterPool -----------------------------
(***************************************************************************)
(* The pool of inference nodes kept by the failover router (src/router.py): *)
(* the standing of each node, the periodic health probes, failover on       *)
(* failed probes or on failures reported by callers, recovery, and a crash  *)
(* of the router actor.                                                     *)
(*                                                                         *)
(* The router is one asyncio actor.  A coroutine gives up the loop only at  *)
(* an await that really suspends: the sleep of the tick, the two HTTP calls *)
(* of a probe and the poll of the admission queue.  Everything between two  *)
(* of those points, the blocking start() of a controller included, is one   *)
(* atomic action here.                                                      *)
(***************************************************************************)
EXTENDS NodeRanking

CONSTANTS
    Threshold,      \* RouterConfig.threshold
    Standby,        \* the nodes whose controller is "standby": probed twice
    StartOutcomes   \* what start() of a worker controller may do

ASSUME SettingsAssumption ==
    /\ Threshold \in Nat \ {0}
    /\ Standby \subseteq Nodes
    /\ "started" \in StartOutcomes
    /\ StartOutcomes \subseteq {"started", "raised"}

VARIABLES
    status,     \* NodeRuntime.status; "failed" never outlives a step
    failures,   \* NodeRuntime.failures, told apart up to Threshold
    ready,      \* NodeRuntime.readiness_ok
    toPrimary,  \* NodeRuntime.recover_to_primary
    owed,       \* calls of a node's start() less NodeRuntime.respawns
    tick,       \* the _tick task: "asleep", "probing" or "dead"
    answers,    \* what the /health call in flight to a node may bring back
    chatting,   \* the nodes with a chat probe in flight
    up          \* the nodes whose /health answers 200 in time: the world outside

pool == <<status, failures, ready, toPrimary, owed>>
probes == <<tick, answers, chatting>>
poolVars == <<pool, probes, up>>

-----------------------------------------------------------------------------
(* The standing of the nodes. *)

WithStatus(st, s) == {n \in Nodes : st[n] = s}

\* RouterState.active: the primaries, or the reserves when there are none.
ActiveOf(st) ==
    IF WithStatus(st, "primary") # {} THEN WithStatus(st, "primary")
                                      ELSE WithStatus(st, "reserve")

Primaries == WithStatus(status, "primary")
Reserves == WithStatus(status, "reserve")
InService == Primaries \cup Reserves

\* _build_nodes: every node is in service, whatever its health.
InitialStatus ==
    [n \in Nodes |-> IF n \in TopRanked(Nodes) THEN "primary" ELSE "reserve"]

PoolInit ==
    /\ status = InitialStatus
    /\ failures = [n \in Nodes |-> 0]
    /\ ready = [n \in Nodes |-> TRUE]
    /\ toPrimary = [n \in Nodes |-> FALSE]
    /\ owed = [n \in Nodes |-> 0]
    /\ tick = "asleep"
    /\ answers = [n \in Nodes |-> {}]
    /\ chatting = {}
    /\ up \in SUBSET Nodes

-----------------------------------------------------------------------------
(* Failover. *)

\* promote_reserve, called once n has been marked failed.
BestReserve(n) == BestOf({m \in Reserves \ {n} : ready[m]})

\* Mutant of Promoted: nobody steps in.
PromotedNobody(n) == {}

\* A failover promotes a reserve only when n was among the active nodes.
Promoted(n) == IF n \in ActiveOf(status) THEN BestReserve(n) ELSE {}

\* mark_failed, promote_reserve, mark_respawning.
AfterFailover(n) ==
    [m \in Nodes |-> IF m = n THEN "respawning"
                     ELSE IF m \in Promoted(n) THEN "primary"
                     ELSE status[m]]

\* _apply_failover and the call of start().
Failover(n) ==
    /\ status' = AfterFailover(n)
    /\ failures' = [m \in Nodes |->
                       IF m \in Promoted(n) \cup {n} THEN 0 ELSE failures[m]]
    /\ toPrimary' = [toPrimary EXCEPT ![n] = n \in ActiveOf(status)]
    /\ owed' = [owed EXCEPT ![n] = @ + 1]

\* Mutant of Handled: the early return of _handle_failure is lost.
HandledNever(n) == FALSE

\* The early return of _handle_failure.
Handled(n) == status[n] = "respawning"

\* A caller reports that a request to n failed: _handle_failure whatever the
\* count says.  A caller may hold a route to any node, one given by an earlier
\* incarnation of the router included.  When start() raises, the exception goes
\* to the caller and the pool keeps the state it has.
ReportedFailure(n) ==
    /\ ~Handled(n)
    /\ Failover(n)
    /\ UNCHANGED <<ready, probes, up>>

-----------------------------------------------------------------------------
(* Recovery. *)

\* Mutant of AfterRecovery: mark_respawned without reconcile_primaries.
AfterRecoveryUnreconciled(n) ==
    [status EXCEPT ![n] = IF toPrimary[n] THEN "primary" ELSE "reserve"]

\* mark_respawned followed by reconcile_primaries, which ranks afresh every node
\* in service: what mark_respawned chose for n is overwritten.
AfterRecovery(n) ==
    [m \in Nodes |-> IF m \in TopRanked(InService \cup {n}) THEN "primary"
                     ELSE IF m \in InService \cup {n} THEN "reserve"
                     ELSE status[m]]

\* Mutant of HandleRecovery: only "failed" is looked for, which never outlives a step.
HandleRecoveryFailed(n) ==
    failures' = [failures EXCEPT ![n] = 0] /\ UNCHANGED <<status, toPrimary, owed>>

\* _handle_recovery: reconcile_primaries clears the count of every node in service.
HandleRecovery(n) ==
    IF status[n] = "respawning"
    THEN /\ status' = AfterRecovery(n)
         /\ failures' = [m \in Nodes |->
                            IF m \in InService \cup {n} THEN 0 ELSE failures[m]]
         /\ toPrimary' = [toPrimary EXCEPT ![n] = FALSE]
         /\ owed' = [owed EXCEPT ![n] = @ - 1]
    ELSE /\ failures' = [failures EXCEPT ![n] = 0]
         /\ UNCHANGED <<status, toPrimary, owed>>

-----------------------------------------------------------------------------
(* The health probes. *)

\* _tick wakes, _probe_all gathers one probe of each node.
StartProbes ==
    /\ tick = "asleep"
    /\ tick' = "probing"
    /\ answers' = [n \in Nodes |-> {(n \in up)}]
    /\ UNCHANGED <<pool, chatting, up>>

\* Every probe is over: _tick schedules the next one.
EndProbes ==
    /\ tick = "probing"
    /\ answers = [n \in Nodes |-> {}]
    /\ chatting = {}
    /\ tick' = "asleep"
    /\ UNCHANGED <<pool, answers, chatting, up>>

\* A 200 from /health.  A standby node is then asked for a chat completion, and
\* is taken for ready while that answer is awaited.
HealthyAnswer(n) ==
    /\ TRUE \in answers[n]
    /\ answers' = [answers EXCEPT ![n] = {}]
    /\ ready' = [ready EXCEPT ![n] = TRUE]
    /\ IF n \in Standby
       THEN /\ chatting' = chatting \cup {n}
            /\ failures' = [failures EXCEPT ![n] = 0]
            /\ UNCHANGED <<status, toPrimary, owed>>
       ELSE HandleRecovery(n) /\ UNCHANGED chatting
    /\ UNCHANGED <<tick, up>>

\* The chat answer decides readiness alone: _post_probe gets the first answer.
ChatAnswer(n) ==
    /\ n \in chatting
    /\ chatting' = chatting \ {n}
    /\ \E ok \in BOOLEAN : ready' = [ready EXCEPT ![n] = ok]
    /\ HandleRecovery(n)
    /\ UNCHANGED <<tick, answers, up>>

\* Mutant of Missed: every failed probe is taken for the first.
MissedOnce(n) == 1

\* One more failed probe: failures is compared with the threshold and with
\* nothing else, so counts above it are not told apart.
Missed(n) == IF failures[n] < Threshold THEN failures[n] + 1 ELSE Threshold

\* Mutants of ReachedThreshold: off by one; the count is never looked at.
ReachedThresholdLate(n) == failures[n] >= Threshold
ReachedThresholdNever(n) == FALSE

ReachedThreshold(n) == Missed(n) >= Threshold

\* start() raising ends the gather, and with it the _tick task; probes that are
\* in flight run to their end and nothing schedules another round.
TickAfterStart(outcome) ==
    IF outcome = "raised" THEN "dead" ELSE tick

\* No 200 from /health.
UnhealthyAnswer(n) ==
    /\ FALSE \in answers[n]
    /\ answers' = [answers EXCEPT ![n] = {}]
    /\ ready' = [ready EXCEPT ![n] = FALSE]
    /\ IF ReachedThreshold(n) /\ ~Handled(n)
       THEN /\ Failover(n)
            /\ \E outcome \in StartOutcomes : tick' = TickAfterStart(outcome)
       ELSE /\ failures' = [failures EXCEPT ![n] = Missed(n)]
            /\ UNCHANGED <<status, toPrimary, owed, tick>>
    /\ UNCHANGED <<chatting, up>>

-----------------------------------------------------------------------------
(* The world outside, and the actor's own death. *)

\* A node goes down or comes back, or a start() that blocks the event loop makes
\* its answer late.  A probe in flight may then bring either answer.
Flip(n) ==
    /\ up' = IF n \in up THEN up \ {n} ELSE up \cup {n}
    /\ answers' = [answers EXCEPT ![n] = IF @ = {} THEN {} ELSE BOOLEAN]
    /\ UNCHANGED <<pool, tick, chatting>>

\* Ray restarts a dead actor (max_restarts=-1) by running __init__ again.
Restart ==
    /\ status' = InitialStatus
    /\ failures' = [n \in Nodes |-> 0]
    /\ ready' = [n \in Nodes |-> TRUE]
    /\ toPrimary' = [n \in Nodes |-> FALSE]
    /\ owed' = [n \in Nodes |-> 0]
    /\ tick' = "asleep"
    /\ answers' = [n \in Nodes |-> {}]
    /\ chatting' = {}
    /\ UNCHANGED up

-----------------------------------------------------------------------------

ProbeStep ==
    \/ StartProbes
    \/ EndProbes
    \/ \E n \in Nodes : HealthyAnswer(n) \/ UnhealthyAnswer(n) \/ ChatAnswer(n)

PoolStep ==
    \/ ProbeStep
    \/ \E n \in Nodes : ReportedFailure(n) \/ Flip(n)

PoolNext == PoolStep \/ Restart

\* The event loop runs every timer and every answered call: a probe is answered
\* or times out, and the tick goes on while its task lives.
ProbeFairness ==
    /\ WF_poolVars(StartProbes)
    /\ WF_poolVars(EndProbes)
    /\ \A n \in Nodes : /\ WF_poolVars(HealthyAnswer(n) \/ UnhealthyAnswer(n))
                        /\ WF_poolVars(ChatAnswer(n))

PoolSpec == PoolInit /\ [][PoolNext]_poolVars /\ ProbeFairness

-----------------------------------------------------------------------------
(* Properties. *)

PoolTypeOK ==
    /\ status \in [Nodes -> {"primary", "reserve", "respawning"}]
    /\ failures \in [Nodes -> 0..Threshold]
    /\ ready \in [Nodes -> BOOLEAN]
    /\ toPrimary \in [Nodes -> BOOLEAN]
    /\ owed \in [Nodes -> Int]
    /\ tick \in {"asleep", "probing", "dead"}
    /\ answers \in [Nodes -> SUBSET BOOLEAN]
    /\ chatting \in SUBSET Nodes
    /\ up \in SUBSET Nodes

\* Promotions at a failover, the reshuffle at a recovery and restarts, in any
\* order, never leave more primaries than primary_count asks for.
AtMostPrimaryCount == Cardinality(Primaries) <= PrimaryCount

\* The failed probes of a round and the failures reported by any number of callers
\* start the controller of a node once per outage: a start is owed a recovery
\* exactly while the node is respawning.
OneStartPerOutage ==
    \A n \in Nodes : owed[n] = IF status[n] = "respawning" THEN 1 ELSE 0

\* A node with the threshold of failed probes on its count takes no traffic: no
\* order of probes, promotions and recoveries leaves one in service.
InServiceBelowThreshold == \A n \in InService : failures[n] < Threshold

\* A failover does not shrink the primaries while a ready reserve stands by.
FailoverKeepsCapacity ==
    [][ (\E n \in InService : status'[n] = "respawning"
            /\ \E m \in Reserves \ {n} : ready[m])
        => Cardinality(Primaries') >= Cardinality(Primaries) ]_poolVars

\* No failed probe is lost on a node in service, and its count goes back only at an answer
\* of the node itself, when the node is promoted, or when another one returns and the
\* roles are dealt afresh: reports, failovers and probes of other nodes leave it alone.
MissesAddUp ==
    [][ PoolStep => \A n \in InService :
          /\ answers[n] = {FALSE} /\ answers'[n] = {}
                => n \notin InService' \/ failures'[n] = failures[n] + 1
          /\ failures'[n] < failures[n]
                => \/ TRUE \in answers[n] /\ answers'[n] = {}
                   \/ n \in chatting \ chatting'
                   \/ n \notin InService'
                   \/ n \in Primaries' \ Primaries
                   \/ InService' \ InService # {} ]_poolVars

\* The pool keeps the promise of Rotation: departures demote nobody, fill vacancies
\* only, and the order of priority returns with the node that returns.
Abstract == INSTANCE Rotation WITH primaries <- Primaries, reserves <- Reserves
KeepsRotation == Abstract!RolesSpec

\* A node that stays up is in service again and again, whatever callers report and
\* however often the actor dies: the probes bring it back.  It takes a health loop that
\* lives: one whose task a raising start() has ended finds no node again.
HealthyNodeReturns ==
    \A n \in Nodes :
        <>[](n \in up) /\ []<>(tick # "dead") => []<>(n \in InService)

\* A node that stays down is out for good, once the other nodes no longer come and
\* go, which each time clears its count, and the actor no longer dies, which brings
\* every node back.
DeadNodeLeaves ==
    \A n \in Nodes :
        ( /\ <>[](n \notin up /\ \A m \in Nodes \ {n} : m \in InService)
          /\ <>[](tick # "dead")
          /\ <>[][PoolStep]_poolVars )
            => <>[](n \notin InService)

=============================================================================
