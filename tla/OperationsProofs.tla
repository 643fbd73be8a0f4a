-------------------------- MODULE OperationsProofs --------------------------
(***************************************************************************)
(* Theorems about Operations, for any workers, any list of expected nodes,  *)
(* any target, configuration and bound on the checks.                       *)
(***************************************************************************)
EXTENDS Operations, TLAPS

-----------------------------------------------------------------------------
(* The failover controller. *)

\* The counts, the record of failures and the calls of start() are typed and agree.
ControllerInv == ControllerTypeOK /\ OneRespawnPerOutage

\* A round of the controller over the first nodes of the list leaves count, record and calls
\* of each of them, and of the others, in agreement.
LEMMA CheckKeepsController == ControllerInv /\ Check => ControllerInv'
<1> SUFFICES ASSUME ControllerInv, Check
             PROVE  ControllerInv'
    OBVIOUS
<1> USE DEF ControllerInv, ControllerTypeOK, OneRespawnPerOutage
<1>1. PICK k \in 0..Len(Expected) :
          /\ missed' = [w \in Workers |->
                           IF w \in UpTo(k) THEN AfterCheck(w) ELSE missed[w]]
          /\ failedAt' = (failedAt \ (UpTo(k) \cap alive))
                            \cup {w \in UpTo(k) : Failing(w)}
          /\ starts' = [w \in Workers |->
                           IF w \in UpTo(k) THEN AfterRound(w) ELSE starts[w]]
      BY DEF Check
<1>2. looping' \in BOOLEAN
      BY DEF Check
<1>3. UpTo(k) \subseteq Workers
      BY ExpectedAssumption DEF UpTo
<1>4. ASSUME NEW w \in Workers
      PROVE  AfterCheck(w) \in 0..MissedMax
      BY DEF AfterCheck, MissedMax
<1>5. missed' \in [Workers -> 0..MissedMax]
      BY <1>1, <1>4
<1>6. failedAt' \in SUBSET Workers
      BY <1>1, <1>3
<1>7. ASSUME NEW w \in Workers
      PROVE  /\ starts'[w] = IF missed'[w] >= 2 THEN 1 ELSE 0
             /\ w \in failedAt' <=> missed'[w] >= 2
  <2>1. /\ missed[w] \in 0..3
        /\ starts[w] = IF missed[w] >= 2 THEN 1 ELSE 0
        /\ w \in failedAt <=> missed[w] >= 2
        BY DEF MissedMax
  <2>2. CASE w \notin UpTo(k)
        BY <1>1, <2>1, <2>2
  <2>3. CASE w \in UpTo(k) /\ w \in alive
        BY <1>1, <2>3 DEF AfterCheck, AfterRound, Failing
  <2>4. CASE w \in UpTo(k) /\ w \notin alive
    <3>1. /\ missed'[w] = AfterCheck(w) /\ starts'[w] = AfterRound(w)
          /\ w \in failedAt' <=> w \in failedAt \/ Failing(w)
          BY <1>1, <2>4
    <3>2. Failing(w) <=> missed[w] = 1
          BY <2>1, <2>4 DEF AfterCheck, Failing, MissedMax
    <3>3. AfterCheck(w) >= 2 <=> missed[w] >= 1
          BY <2>1, <2>4 DEF AfterCheck, MissedMax
    <3>4. AfterRound(w) = IF missed[w] >= 1 THEN 1 ELSE 0
          BY <2>1, <2>4, <3>2 DEF AfterRound, StartsMax
    <3>5. QED
          BY <2>1, <3>1, <3>2, <3>3, <3>4
  <2>5. QED
        BY <2>2, <2>3, <2>4
<1>8. starts' \in [Workers -> 0..StartsMax]
  <2>1. ASSUME NEW w \in Workers
        PROVE  (IF w \in UpTo(k) THEN AfterRound(w) ELSE starts[w]) \in 0..StartsMax
        BY DEF AfterRound, StartsMax
  <2>2. QED
        BY <1>1, <2>1
<1>9. QED
      BY <1>2, <1>5, <1>6, <1>7, <1>8

LEMMA ControllerInvInit == OpInit => ControllerInv
BY DEF OpInit, ControllerInit, ControllerInv, ControllerTypeOK,
       OneRespawnPerOutage, MissedMax, StartsMax

LEMMA ControllerInvStep == ControllerInv /\ [OpNext]_opVars => ControllerInv'
<1> SUFFICES ASSUME ControllerInv, [OpNext]_opVars
             PROVE  ControllerInv'
    OBVIOUS
<1>1. CASE UNCHANGED controller
      BY <1>1 DEF controller, ControllerInv, ControllerTypeOK, OneRespawnPerOutage
<1>2. CASE Check
      BY <1>2, CheckKeepsController
<1>3. CASE CheckRaises
      BY <1>3 DEF CheckRaises, ControllerInv, ControllerTypeOK, OneRespawnPerOutage
<1>4. CASE ControllerRestart
      BY <1>4 DEF ControllerRestart, ControllerInv, ControllerTypeOK,
                  OneRespawnPerOutage, MissedMax, StartsMax
<1>5. QED
      BY <1>1, <1>2, <1>3, <1>4 DEF OpNext, World, Controlling, ControllerStep,
         Drilling, Refactoring, Raising, opVars

\* FailoverController: however rounds, respawns that raise and restarts of the actor follow
\* each other, each life of the actor calls start() for a worker once from the second missed
\* round on until it sees the worker again (OneRespawnPerOutage).
THEOREM OneRespawn == OpSpec => []OneRespawnPerOutage
<1>1. ControllerInv => OneRespawnPerOutage
      BY DEF ControllerInv
<1>2. QED
      BY <1>1, ControllerInvInit, ControllerInvStep, PTL DEF OpSpec

-----------------------------------------------------------------------------
(* The recovery drill. *)

\* The phase "outage" passes only with the target out, or on a read that failed.
DrillInv ==
    /\ drill \in {"baseline", "outage"} => "outage" \notin passed
    /\ drill = "outage" /\ Target \notin alive => out
    /\ "outage" \in passed => out \/ blind

\* run_recovery_verification: a drill that passes had its outage (PassNeedsOutage).
THEOREM DrillHadOutage == OpSpec => []PassNeedsOutage
<1>1. OpInit => DrillInv
      BY DEF OpInit, DrillInit, DrillInv
<1>2. DrillInv /\ [OpNext]_opVars => DrillInv'
  <2> SUFFICES ASSUME DrillInv, [OpNext]_opVars
               PROVE  DrillInv'
      OBVIOUS
  <2>1. CASE World
        BY <2>1 DEF World, DrillInv
  <2>2. CASE Baseline
        BY <2>2 DEF Baseline, EndPhase, After, DrillInv, cluster
  <2>3. CASE PollTarget
    <3>1. PICK read \in BOOLEAN :
              /\ read => Target \in alive
              /\ EndsWait(read)
              /\ EndPhase(TRUE)
              /\ blind' = (blind \/ (drill = "outage" /\ read # (Target \in alive)))
          BY <2>3 DEF PollTarget
    <3>2. UNCHANGED <<alive, out>>
          BY <2>3 DEF PollTarget, cluster
    <3>3. CASE drill = "outage"
      <4>1. passed' = passed \cup {"outage"} /\ drill' = "rejoin"
            BY <3>1, <3>3 DEF EndPhase, After
      <4>2. ~read
            BY <3>1, <3>3 DEF EndsWait
      <4>3. out' \/ blind'
            BY <3>1, <3>2, <3>3, <4>2 DEF DrillInv
      <4>4. QED
            BY <4>1, <4>3 DEF DrillInv
    <3>4. CASE drill = "rejoin"
      <4>1. passed' = passed \cup {"rejoin"} /\ drill' = "reported"
            BY <3>1, <3>4 DEF EndPhase, After
      <4>2. blind' <=> blind
            BY <3>1, <3>4
      <4>3. QED
            BY <3>2, <4>1, <4>2 DEF DrillInv
    <3>5. QED
          BY <2>3, <3>3, <3>4 DEF PollTarget
  <2>4. CASE PhaseTimesOut
        BY <2>4 DEF PhaseTimesOut, EndPhase, After, DrillInv, cluster
  <2>5. CASE UNCHANGED drilling /\ UNCHANGED alive
        BY <2>5 DEF drilling, DrillInv
  <2>6. Controlling \/ Refactoring \/ Raising \/ UNCHANGED opVars
            => UNCHANGED drilling /\ UNCHANGED alive
        BY DEF Controlling, ControllerStep, Check, CheckRaises, ControllerRestart,
               Refactoring, RefactorStep, TakeSnapshot, Copy, Deploy, WaitHealthy, Test,
               Rollback, Raising, StatusRaises, opVars, cluster
  <2>7. QED
        BY <2>1, <2>2, <2>3, <2>4, <2>5, <2>6 DEF OpNext, Drilling, DrillStep
<1>3. DrillInv => PassNeedsOutage
      BY DEF DrillInv, PassNeedsOutage, PhaseNames
<1>4. QED
      BY <1>1, <1>2, <1>3, PTL DEF OpSpec

-----------------------------------------------------------------------------
(* The safe refactor. *)

\* A gateway of the new configuration was started after the files were copied, and the
\* replicas of a host that are not on their way out are of one configuration.
ReplicasFollow ==
    /\ \A a \in Applications : "new" \in {deployed[a], snapshot[a]} => files = "new"
    /\ \A r \in replicas[HeadNode] : r.config = "new" => r.code = "new"
    /\ \A h \in Hosts : \A r1, r2 \in Present(h) : r1.config = r2.config

\* What the command has done before each of its steps.
StepsFollow ==
    /\ refactor = "deploy" => files = "new"
    /\ refactor \in {"wait", "test"} => deployed = NewConfig
    /\ refactor = "test" => \A h \in Hosts : \A r \in Present(h) : Current(h, r)

RefactorInv == ClusterTypeOK /\ snapshot \in Configs /\ ReplicasFollow /\ StepsFollow

\* Whatever Ray and Serve do, the replicas follow the configuration and the files.
LEMMA ClusterKeepsRefactor ==
    RefactorInv /\ ClusterStep /\ UNCHANGED refactoring => RefactorInv'
<1> SUFFICES ASSUME RefactorInv, ClusterStep, UNCHANGED refactoring
             PROVE  RefactorInv'
    OBVIOUS
<1> USE DEF RefactorInv, ClusterTypeOK, ReplicasFollow, StepsFollow, refactoring, Present,
            Current
<1>0. AppOn(HeadNode) \in Applications /\ HeadNode \in Hosts /\ Workers \subseteq Hosts
      BY DEF AppOn, Applications, Hosts
<1>1. CASE \E w \in Workers : WorkerLeaves(w)
  <2>1. PICK w \in Workers : WorkerLeaves(w)
        BY <1>1
  <2>2. UNCHANGED <<deployed, files>> /\ alive' \in SUBSET Workers
        BY <2>1 DEF WorkerLeaves
  <2>3. replicas' = [replicas EXCEPT ![w] = {}] /\ w \in Hosts
        BY <1>0, <2>1 DEF WorkerLeaves
  <2>4. QED
        BY <1>0, <2>2, <2>3
<1>2. CASE \E w \in Workers : WorkerJoins(w)
  <2>1. PICK w \in Workers : WorkerJoins(w)
        BY <1>2
  <2>2. QED
        BY <1>0, <2>1 DEF WorkerJoins
<1>3. CASE \E h \in Hosts : ServeUpdates(h)
  <2>0. PICK w \in Hosts : ServeUpdates(w)
        BY <1>3
  <2>1. replicas' = [replicas EXCEPT ![w] =
            {[r EXCEPT !.state = "STOPPING"] : r \in replicas[w]}
                \cup {Fresh(w, "STARTING")}]
        BY <2>0 DEF ServeUpdates
  <2>2. UNCHANGED <<deployed, files>> /\ alive' = alive
        BY <2>0 DEF ServeUpdates
  <2>3. /\ Fresh(w, "STARTING") \in Replica
        /\ Fresh(w, "STARTING").config = deployed[AppOn(w)]
        /\ w = HeadNode => Fresh(w, "STARTING").code = files
        BY DEF Fresh, Replica, ReplicaStates, Configs, AppOn, Applications
  <2>4. ASSUME NEW r \in replicas[w]
        PROVE  /\ [r EXCEPT !.state = "STOPPING"] \in Replica
               /\ [r EXCEPT !.state = "STOPPING"].state = "STOPPING"
               /\ [r EXCEPT !.state = "STOPPING"].config = r.config
               /\ [r EXCEPT !.state = "STOPPING"].code = r.code
        BY DEF Replica, ReplicaStates
  <2>5. replicas' \in [Hosts -> SUBSET Replica]
        BY <2>1, <2>3, <2>4
  <2>6. ASSUME NEW s \in replicas'[w]
        PROVE  /\ w = HeadNode /\ s.config = "new" => s.code = "new"
               /\ s.state # "STOPPING" => s.config = deployed[AppOn(w)]
    <3>1. CASE s = Fresh(w, "STARTING")
          BY <1>0, <2>3, <3>1
    <3>2. CASE s # Fresh(w, "STARTING")
      <4>1. PICK r \in replicas[w] : s = [r EXCEPT !.state = "STOPPING"]
            BY <2>1, <3>2
      <4>2. w = HeadNode /\ r.config = "new" => r.code = "new"
            OBVIOUS
      <4>3. QED
            BY <2>4, <4>1, <4>2
    <3>3. QED
          BY <3>1, <3>2
  <2>7. \A v \in Hosts \ {w} : replicas'[v] = replicas[v]
        BY <2>1
  <2>8. \A r \in replicas'[HeadNode] : r.config = "new" => r.code = "new"
        BY <1>0, <2>6, <2>7
  <2>9. \A h \in Hosts : \A r1, r2 \in Present(h)' : r1.config = r2.config
        BY <2>6, <2>7
  <2>10. refactor = "test" => \A h \in Hosts : \A r \in Present(h)' : Current(h, r)
        BY <2>6, <2>7
  <2>11. QED
        BY <2>2, <2>5, <2>8, <2>9, <2>10
<1>4. CASE \E h \in Hosts : ReplicaMoves(h)
  <2>0. PICK w \in Hosts : ReplicaMoves(w)
        BY <1>4
  <2>1. UNCHANGED <<alive, deployed, files>>
        BY <2>0 DEF ReplicaMoves
  <2>2. PICK r \in replicas[w] :
            \/ /\ r.state = "STARTING"
               /\ replicas' = [replicas EXCEPT ![w] =
                      (@ \ {r}) \cup {[r EXCEPT !.state = "RUNNING"]}]
            \/ /\ r.state = "RUNNING"
               /\ replicas' = [replicas EXCEPT ![w] =
                      (@ \ {r}) \cup {[r EXCEPT !.state = "STOPPING"]}]
            \/ /\ r.state = "STOPPING"
               /\ replicas' = [replicas EXCEPT ![w] = @ \ {r}]
        BY <2>0 DEF ReplicaMoves
  <2>3. r \in Replica
        OBVIOUS
  <2>4. ASSUME NEW st \in ReplicaStates
        PROVE  /\ [r EXCEPT !.state = st] \in Replica
               /\ [r EXCEPT !.state = st].state = st
               /\ [r EXCEPT !.state = st].config = r.config
               /\ [r EXCEPT !.state = st].code = r.code
        BY <2>3 DEF Replica
  <2>5. {"RUNNING", "STOPPING"} \subseteq ReplicaStates
        BY DEF ReplicaStates
  <2>6. replicas' \in [Hosts -> SUBSET Replica]
        BY <2>2, <2>4, <2>5
  <2>7. ASSUME NEW s \in replicas'[w]
        PROVE  \E t \in replicas[w] :
                   /\ s.config = t.config /\ s.code = t.code
                   /\ s.state # "STOPPING" => t.state # "STOPPING"
    <3>1. CASE s \in replicas[w]
          BY <3>1
    <3>2. CASE s \notin replicas[w]
      <4>1. CASE r.state = "STARTING" /\ s = [r EXCEPT !.state = "RUNNING"]
            BY <2>4, <2>5, <4>1
      <4>2. CASE r.state = "RUNNING" /\ s = [r EXCEPT !.state = "STOPPING"]
            BY <2>4, <2>5, <4>2
      <4>3. QED
            BY <2>2, <3>2, <4>1, <4>2
    <3>3. QED
          BY <3>1, <3>2
  <2>8. \A v \in Hosts \ {w} : replicas'[v] = replicas[v]
        BY <2>2
  <2>9. \A s \in replicas'[HeadNode] : s.config = "new" => s.code = "new"
        BY <1>0, <2>7, <2>8
  <2>10. \A h \in Hosts : \A r1, r2 \in Present(h)' : r1.config = r2.config
        BY <2>7, <2>8
  <2>11. refactor = "test" => \A h \in Hosts : \A s \in Present(h)' : Current(h, s)
        BY <2>7, <2>8
  <2>12. QED
        BY <2>1, <2>6, <2>9, <2>10, <2>11
<1>5. QED
      BY <1>1, <1>2, <1>3, <1>4 DEF ClusterStep

\* Every step of the command leaves the replicas alone and does what the next relies on.
LEMMA CommandKeepsRefactor == RefactorInv /\ (RefactorStep \/ StatusRaises) => RefactorInv'
<1> SUFFICES ASSUME RefactorInv, RefactorStep \/ StatusRaises
             PROVE  RefactorInv'
    OBVIOUS
<1> USE DEF RefactorInv, ClusterTypeOK, ReplicasFollow, StepsFollow, Present, Current, Then
<1>1. CASE TakeSnapshot
      BY <1>1 DEF TakeSnapshot, cluster
<1>2. CASE Copy
      BY <1>2 DEF Copy, Versions
<1>3. CASE Deploy
      BY <1>3, RefactorAssumption DEF Deploy, Versions
<1>4. CASE WaitHealthy
  <2>1. UNCHANGED <<alive, replicas, deployed, files, snapshot>>
        BY <1>4 DEF WaitHealthy, cluster
  <2>2. CASE refactor' = "test"
    <3>1. (Healthy /\ refactor = "wait") \/ refactor = "test"
          BY <1>4, <2>2 DEF WaitHealthy, Await
    <3>2. \A h \in Hosts : \A r \in Present(h) : Current(h, r)
          BY <3>1 DEF Healthy
    <3>3. deployed = NewConfig
          BY <3>1
    <3>4. QED
          BY <2>1, <2>2, <3>2, <3>3
  <2>3. CASE refactor' # "test"
    <3>1. refactor' # "deploy" /\ (refactor' = "wait" => refactor = "wait")
          BY <1>4 DEF WaitHealthy, Await
    <3>2. QED
          BY <2>1, <2>3, <3>1
  <2>4. QED
        BY <2>2, <2>3
<1>5. CASE Test
      BY <1>5 DEF Test, cluster
<1>6. CASE Rollback
      BY <1>6 DEF Rollback, Versions
<1>7. CASE StatusRaises
      BY <1>7 DEF StatusRaises, cluster
<1>8. QED
      BY <1>1, <1>2, <1>3, <1>4, <1>5, <1>6, <1>7 DEF RefactorStep

LEMMA RefactorInvInit == OpInit => RefactorInv
<1> SUFFICES ASSUME OpInit
             PROVE  RefactorInv
    OBVIOUS
<1>1. deployed \in Configs /\ snapshot = deployed /\ files \in Versions
          /\ \A a \in Applications : deployed[a] = "old"
      BY DEF OpInit, ClusterInit, RefactorInit, Configs, Versions
<1>2. ASSUME NEW h \in Hosts
      PROVE  Fresh(h, "RUNNING") \in Replica /\ Fresh(h, "RUNNING").config = "old"
      BY <1>1 DEF Fresh, Replica, ReplicaStates, Versions, Applications, AppOn
<1>3. /\ replicas = [h \in Hosts |-> {Fresh(h, "RUNNING")}] /\ alive = Workers
      /\ refactor \in {"idle", "snapshot"}
      BY DEF OpInit, ClusterInit, RefactorInit
<1>4. HeadNode \in Hosts
      BY DEF Hosts
<1>5. QED
      BY <1>1, <1>2, <1>3, <1>4 DEF RefactorInv, ClusterTypeOK, ReplicasFollow, StepsFollow,
         Present

LEMMA RefactorInvStep == RefactorInv /\ [OpNext]_opVars => RefactorInv'
<1> SUFFICES ASSUME RefactorInv, [OpNext]_opVars
             PROVE  RefactorInv'
    OBVIOUS
<1>1. CASE World
      BY <1>1, ClusterKeepsRefactor DEF World
<1>2. CASE Refactoring \/ Raising
      BY <1>2, CommandKeepsRefactor DEF Refactoring, Raising
<1>3. CASE UNCHANGED <<cluster, refactoring>>
      BY <1>3 DEF cluster, refactoring, RefactorInv, ClusterTypeOK, ReplicasFollow,
         StepsFollow, Present, Current
<1>4. Controlling \/ Drilling \/ UNCHANGED opVars => UNCHANGED <<cluster, refactoring>>
      BY DEF Controlling, ControllerStep, Check, CheckRaises, ControllerRestart,
             Drilling, DrillStep, Baseline, PollTarget, PhaseTimesOut, opVars
<1>5. QED
      BY <1>1, <1>2, <1>3, <1>4 DEF OpNext

\* run_safe_refactor: what passes the test is what was deployed, of both applications and with
\* the files copied, whatever failed or restarted meanwhile (PassTestsNewCode).
THEOREM RefactorTestsNewCode == OpSpec => PassTestsNewCode
<1> DEFINE Tested == /\ \A h \in Hosts : NewConfig[AppOn(h)] = "new" =>
                            \A r \in Present(h) :
                                r.config = "new" /\ (h = HeadNode => r.code = "new")
                     /\ \A w \in Workers : \E r \in Present(w) : r.state = "RUNNING"
<1>1. RefactorInv /\ [OpNext]_opVars =>
          [refactor = "test" /\ refactor' = "passed" => Tested]_opVars
  <2> SUFFICES ASSUME RefactorInv, OpNext, refactor = "test", refactor' = "passed"
               PROVE  Tested
      OBVIOUS
  <2>1. Spread
        BY DEF OpNext, World, Controlling, Drilling, Refactoring, Raising, refactoring,
               RefactorStep, TakeSnapshot, Copy, Deploy, WaitHealthy, Test, Rollback,
               StatusRaises, Then
  <2>2. \A w \in Workers : \E r \in Present(w) : r.state = "RUNNING"
        BY <2>1 DEF Spread, Present
  <2>3. ASSUME NEW h \in Hosts, NewConfig[AppOn(h)] = "new", NEW r \in Present(h)
        PROVE  r.config = "new" /\ (h = HeadNode => r.code = "new")
    <3>1. r.config = "new" /\ r \in replicas[h]
          BY <2>3 DEF RefactorInv, StepsFollow, Current, Present
    <3>2. QED
          BY <3>1 DEF RefactorInv, ReplicasFollow
  <2>4. QED
        BY <2>2, <2>3
<1>2. QED
      BY <1>1, RefactorInvInit, RefactorInvStep, PTL DEF OpSpec, PassTestsNewCode

-----------------------------------------------------------------------------
(* Types, and the view of the gateway. *)

CommandTypeOK == DrillTypeOK /\ RefactorTypeOK

LEMMA CommandTypeInit == OpInit => CommandTypeOK
<1> SUFFICES ASSUME OpInit
             PROVE  CommandTypeOK
    OBVIOUS
<1>1. DrillTypeOK
      BY DEF OpInit, DrillInit, DrillTypeOK, DrillEnds, PhaseNames
<1>2. 0 \in 0..MaxChecks - 1
      BY RefactorAssumption
<1>3. RefactorTypeOK
      BY <1>2 DEF OpInit, ClusterInit, RefactorInit, RefactorTypeOK, RefactorEnds,
         RefactorSteps, Configs, Versions
<1>4. QED
      BY <1>1, <1>3 DEF CommandTypeOK

LEMMA CommandTypeStep ==
    CommandTypeOK /\ ClusterTypeOK /\ [OpNext]_opVars => CommandTypeOK'
<1> SUFFICES ASSUME CommandTypeOK, ClusterTypeOK, [OpNext]_opVars
             PROVE  CommandTypeOK'
    OBVIOUS
<1> USE DEF CommandTypeOK
<1>1. DrillTypeOK'
  <2> USE DEF DrillTypeOK, PhaseNames, DrillEnds
  <2>1. CASE Baseline
        BY <2>1 DEF Baseline, EndPhase, After
  <2>2. CASE PollTarget \/ PhaseTimesOut
    <3>1. /\ \/ drill = "outage" /\ drill' = "rejoin"
             \/ drill = "rejoin" /\ drill' = "reported"
          /\ passed' \in {passed, passed \cup {drill}}
          /\ UNCHANGED out
          BY <2>2 DEF PollTarget, PhaseTimesOut, EndPhase, After
    <3>2. blind' \in BOOLEAN
          BY <2>2 DEF PollTarget, PhaseTimesOut
    <3>3. QED
          BY <3>1, <3>2
  <2>3. CASE World
        BY <2>3 DEF World
  <2>4. CASE UNCHANGED drilling
        BY <2>4 DEF drilling
  <2>5. QED
        BY <2>1, <2>2, <2>3, <2>4
           DEF OpNext, DrillStep, Controlling, Drilling, Refactoring, Raising, opVars
<1>2. RefactorTypeOK'
  <2> USE RefactorAssumption
          DEF RefactorTypeOK, RefactorEnds, RefactorSteps, ClusterTypeOK, Then
  <2>1. CASE TakeSnapshot \/ Copy \/ Deploy \/ Test \/ Rollback
        BY <2>1 DEF TakeSnapshot, Copy, Deploy, Test, Rollback
  <2>2. CASE WaitHealthy
        BY <2>2 DEF WaitHealthy, Await, NextCheck
  <2>3. CASE StatusRaises
        BY <2>3 DEF StatusRaises
  <2>4. CASE UNCHANGED refactoring
        BY <2>4 DEF refactoring
  <2>5. QED
        BY <2>1, <2>2, <2>3, <2>4 DEF OpNext, World, Controlling, Drilling, Refactoring,
           Raising, RefactorStep, opVars
<1>3. QED
      BY <1>1, <1>2

\* The cluster, the controller and the command keep their types: no wait looks more often
\* than it may, and no count of misses grows past what tells it from two.
THEOREM OpTyping == OpSpec => []OpTypeOK
<1> DEFINE Inv == ControllerInv /\ RefactorInv /\ CommandTypeOK
<1>1. OpInit => Inv
      BY ControllerInvInit, RefactorInvInit, CommandTypeInit
<1>2. Inv /\ [OpNext]_opVars => Inv'
      BY ControllerInvStep, RefactorInvStep, CommandTypeStep DEF RefactorInv
<1>3. Inv => OpTypeOK
      BY DEF ControllerInv, RefactorInv, CommandTypeOK, OpTypeOK
<1>4. QED
      BY <1>1, <1>2, <1>3, PTL DEF OpSpec

\* Every step of a command lessens what it has left.
LEMMA DrillAdvances ==
    CommandTypeOK /\ [OpNext]_opVars => UNCHANGED drill \/ DrillLeft' < DrillLeft
<1> SUFFICES ASSUME CommandTypeOK, [OpNext]_opVars
             PROVE  UNCHANGED drill \/ DrillLeft' < DrillLeft
    OBVIOUS
<1>1. CASE DrillStep
  <2>1. \/ drill = "baseline" /\ drill' \in {"outage", "crashed"}
        \/ drill = "outage" /\ drill' = "rejoin"
        \/ drill = "rejoin" /\ drill' = "reported"
        BY <1>1 DEF DrillStep, Baseline, PollTarget, PhaseTimesOut, EndPhase, After
  <2>2. QED
        BY <2>1 DEF DrillLeft, DrillEnds
<1>2. CASE ~DrillStep
      BY <1>2 DEF OpNext, World, Controlling, Drilling, Refactoring, Raising, drilling, opVars
<1>3. QED
      BY <1>1, <1>2

LEMMA RefactorAdvances ==
    CommandTypeOK /\ [OpNext]_opVars
        => UNCHANGED <<refactor, checks>> \/ RefactorLeft' < RefactorLeft
<1> SUFFICES ASSUME CommandTypeOK, [OpNext]_opVars
             PROVE  UNCHANGED <<refactor, checks>> \/ RefactorLeft' < RefactorLeft
    OBVIOUS
<1>1. /\ checks \in 0..MaxChecks - 1 /\ MaxChecks \in Nat \ {0}
      /\ checks' \in 0..MaxChecks - 1 \/ UNCHANGED refactoring
  <2>1. checks \in 0..MaxChecks - 1 /\ MaxChecks \in Nat \ {0}
        BY RefactorAssumption DEF CommandTypeOK, RefactorTypeOK
  <2>2. \/ UNCHANGED checks \/ checks' = 0
        \/ ~Healthy /\ NextCheck < MaxChecks /\ checks' = NextCheck
        BY DEF OpNext, World, Controlling, Drilling, Refactoring, Raising, RefactorStep,
               TakeSnapshot, Copy, Deploy, WaitHealthy, Await, Test, Rollback, StatusRaises,
               refactoring, opVars
  <2>3. QED
        BY <2>1, <2>2 DEF NextCheck
<1>2. \/ UNCHANGED <<refactor, checks>>
      \/ refactor = "snapshot" /\ refactor' \in {"copy", "crashed"}
      \/ refactor = "copy" /\ refactor' \in {"deploy", "rollback"}
      \/ refactor = "deploy" /\ refactor' \in {"wait", "rollback"}
      \/ refactor = "wait" /\ refactor' \in {"test", "rollback"}
      \/ refactor = "wait" /\ refactor' = "wait" /\ checks' = checks + 1
      \/ refactor = "test" /\ refactor' \in {"passed", "rollback"}
      \/ refactor = "rollback" /\ refactor' \in {"waitBack", "crashed"}
      \/ refactor = "waitBack" /\ refactor' \in {"rolledBack", "crashed"}
      \/ refactor = "waitBack" /\ refactor' = "waitBack" /\ checks' = checks + 1
  <2>1. CASE TakeSnapshot \/ Copy \/ Deploy \/ Test \/ Rollback
        BY <2>1 DEF TakeSnapshot, Copy, Deploy, Test, Rollback, Then
  <2>2. CASE WaitHealthy \/ StatusRaises
        BY <2>2 DEF WaitHealthy, Await, NextCheck, StatusRaises, Then
  <2>3. CASE UNCHANGED refactoring
        BY <2>3 DEF refactoring
  <2>4. QED
        BY <2>1, <2>2, <2>3 DEF OpNext, World, Controlling, Drilling, Refactoring, Raising,
           RefactorStep, refactoring, opVars
<1>3. QED
      BY <1>1, <1>2 DEF RefactorLeft, RefactorEnds, refactoring

\* A command takes a bounded number of steps, for any number of checks: a refactor no more
\* than 2 * MaxChecks + 5, its rollback included.  With the fairness of its steps it is
\* why CommandEnds holds.
THEOREM CommandDoesAdvance == OpSpec => CommandAdvances
<1> DEFINE Inv == ControllerInv /\ RefactorInv /\ CommandTypeOK
<1>1. OpInit => Inv
      BY ControllerInvInit, RefactorInvInit, CommandTypeInit
<1>2. Inv /\ [OpNext]_opVars => Inv'
      BY ControllerInvStep, RefactorInvStep, CommandTypeStep DEF RefactorInv
<1>3. Inv /\ [OpNext]_opVars =>
        [ /\ UNCHANGED drill \/ DrillLeft' < DrillLeft
          /\ UNCHANGED <<refactor, checks>> \/ RefactorLeft' < RefactorLeft ]_opVars
      BY DrillAdvances, RefactorAdvances
<1>4. QED
      BY <1>1, <1>2, <1>3, PTL DEF OpSpec, CommandAdvances

\* _build_nodes_view: whatever replicas a worker has and whatever the earlier reads saw,
\* status and replica of its row agree.
THEOREM ViewMatches == OpSpec => []StatusMatchesReplica
<1>1. ClusterTypeOK => StatusMatchesReplica
  <2> SUFFICES ASSUME ClusterTypeOK, NEW w \in Workers, NEW joined \in BOOLEAN,
                      NEW row \in RouterRows, NEW st \in RowReplicas(w),
                      Shown(joined, row)
               PROVE  LET status == RowStatus(w, joined, row)
                      IN  /\ st = "RUNNING" <=> status = "LIVE"
                          /\ st \in Warming <=> status = "WARMING"
                          /\ st \in Broken => status = "FAILED"
                          /\ status = "IDLE" => joined /\ row # "notReady"
      BY DEF StatusMatchesReplica
  <2> DEFINE S == {r.state : r \in replicas[w]}
  <2>1. S \subseteq {"STARTING", "RUNNING", "STOPPING"}
        BY DEF ClusterTypeOK, Hosts, Replica, ReplicaStates
  <2>2. RowStatus(w, joined, row) = Lifecycle(S, joined, row # "notReady")
        BY DEF RowStatus
  <2>3. st \in PreferredStates(S)
        BY DEF RowReplicas
  <2> HIDE DEF S
  <2> USE DEF Lifecycle, Warming, Broken
  <2>4. CASE S = {}
    <3>1. st = "none"
          BY <2>3, <2>4 DEF PreferredStates
    <3>2. QED
          BY <2>2, <2>4, <3>1
  <2>5. CASE "RUNNING" \in S
    <3>1. st = "RUNNING"
          BY <2>1, <2>3, <2>5 DEF PreferredStates, ReplicaPriority
    <3>2. QED
          BY <2>2, <2>5, <3>1
  <2>6. CASE "RUNNING" \notin S /\ "STARTING" \in S
    <3>1. st = "STARTING"
          BY <2>1, <2>3, <2>6 DEF PreferredStates, ReplicaPriority
    <3>2. QED
          BY <2>2, <2>6, <3>1
  <2>7. CASE S = {"STOPPING"}
    <3>1. st = "STOPPING"
          BY <2>3, <2>7 DEF PreferredStates
    <3>2. QED
          BY <2>2, <2>7, <3>1
  <2>8. QED
        BY <2>1, <2>4, <2>5, <2>6, <2>7
<1>2. RefactorInv => ClusterTypeOK
      BY DEF RefactorInv
<1>3. QED
      BY <1>1, <1>2, RefactorInvInit, RefactorInvStep, PTL DEF OpSpec

=============================================================================
