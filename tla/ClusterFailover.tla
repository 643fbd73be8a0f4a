-------------------------- MODULE ClusterFailover --------------------------
(***************************************************************************)
(* The FailoverController of src/failover.py: every five seconds it reads    *)
(* the table of nodes and respawns a worker missed twice in a row.  A round *)
(* awaits nothing that suspends, so it is one action; a respawn is a        *)
(* blocking start() whose effect, if any, is a WorkerJoins.                 *)
(***************************************************************************)
EXTENDS RayCluster

CONSTANT Expected   \* the expected nodes in the order of their list

ASSUME ExpectedAssumption ==
    /\ Expected \in Seq(Workers)
    /\ \A i, k \in 1..Len(Expected) : Expected[i] = Expected[k] => i = k

VARIABLES
    missed,     \* per worker the rounds it was missed in a row, cut off at MissedMax
    failedAt,   \* the workers in failed_at
    looping,    \* _loop is running
    starts      \* history: per worker the calls of start() since the actor last saw it
                \* alive, or started; cut off at StartsMax

controller == <<missed, failedAt, looping, starts>>

\* Bounds: the count of rounds is compared with 2 only, that of calls with 1.
MissedMax == 3
StartsMax == 2

ControllerInit ==
    /\ missed = [w \in Workers |-> 0]
    /\ failedAt = {}
    /\ looping = TRUE
    /\ starts = [w \in Workers |-> 0]

\* The count of a worker after a round.
AfterCheck(w) ==
    IF w \in alive THEN 0
    ELSE IF missed[w] = MissedMax THEN MissedMax ELSE missed[w] + 1

\* Mutant of Failing: a worker is respawned at every round from the second it is missed.
FailingOnAndOn(w) == w \notin alive /\ AfterCheck(w) >= 2

\* The round in which a worker is recorded as failed and respawned.
Failing(w) == w \notin alive /\ AfterCheck(w) = 2

\* The calls of start() after a round, one that raises included.
AfterRound(w) ==
    IF w \in alive THEN 0
    ELSE IF Failing(w) /\ starts[w] < StartsMax THEN starts[w] + 1 ELSE starts[w]

UpTo(k) == {Expected[i] : i \in 1..k}

\* One round over the first k nodes: all of them, or those up to the one whose
\* start() raises, which ends _loop for the life of the actor.
Check ==
    /\ looping
    /\ \E k \in 0..Len(Expected) :
          /\ missed' = [w \in Workers |->
                           IF w \in UpTo(k) THEN AfterCheck(w) ELSE missed[w]]
          /\ failedAt' = (failedAt \ (UpTo(k) \cap alive))
                            \cup {w \in UpTo(k) : Failing(w)}
          /\ starts' = [w \in Workers |->
                           IF w \in UpTo(k) THEN AfterRound(w) ELSE starts[w]]
          /\ \/ k = Len(Expected) /\ looping' = TRUE
             \/ k > 0 /\ Failing(Expected[k]) /\ looping' = FALSE
    /\ UNCHANGED cluster

\* ray.nodes() raises.
CheckRaises ==
    /\ looping
    /\ looping' = FALSE
    /\ UNCHANGED <<cluster, missed, failedAt, starts>>

\* The actor dies and Ray restarts it (max_restarts=-1).  It remembers nothing: an outage
\* that goes on is a new one to it.
ControllerRestart ==
    /\ missed' = [w \in Workers |-> 0]
    /\ failedAt' = {}
    /\ looping' = TRUE
    /\ starts' = [w \in Workers |-> 0]
    /\ UNCHANGED cluster

ControllerStep == Check \/ CheckRaises \/ ControllerRestart

ControllerTypeOK ==
    /\ missed \in [Workers -> 0..MissedMax]
    /\ failedAt \in SUBSET Workers
    /\ looping \in BOOLEAN
    /\ starts \in [Workers -> 0..StartsMax]

\* An actor respawns a worker once per outage that it sees: start() has been called once, and
\* the worker is on record as failed, from its second missed round in a row until a round
\* sees it alive, and not before, also if a respawn raised and cut the round short.  Across
\* a restart of the actor this is not so: the new one calls start() again.
OneRespawnPerOutage ==
    \A w \in Workers :
        /\ starts[w] = IF missed[w] >= 2 THEN 1 ELSE 0
        /\ w \in failedAt <=> missed[w] >= 2

=============================================================================
