-------------------------- MODULE RouterPoolProofs --------------------------
(***************************************************************************)
(* Theorems about RouterPool, for every set of nodes, every choice of       *)
(* primary_count and threshold, and every outcome of start().               *)
(*                                                                         *)
(* The roles of the nodes move in three ways only: a failover, a recovery,  *)
(* a restart (RoleSteps).  Each has a lemma that says what becomes of the   *)
(* sets of primaries and reserves, and the theorems are drawn from these.   *)
(***************************************************************************)
EXTENDS RouterSystem, NodeRankingProofs

-----------------------------------------------------------------------------
(* Type correctness. *)

\* The pool starts in its types.
LEMMA InitTypeOK == PoolInit => PoolTypeOK
BY SettingsAssumption DEF PoolInit, PoolTypeOK, InitialStatus

\* A failover keeps the types of what it writes.
LEMMA FailoverTypeOK ==
    ASSUME PoolTypeOK, NEW n \in Nodes, Failover(n)
    PROVE  /\ status' \in [Nodes -> {"primary", "reserve", "respawning"}]
           /\ failures' \in [Nodes -> 0..Threshold]
           /\ toPrimary' \in [Nodes -> BOOLEAN]
           /\ owed' \in [Nodes -> Int]
<1>1. failures' \in [Nodes -> 0..Threshold]
  BY SettingsAssumption DEF PoolTypeOK, Failover
<1>2. status' \in [Nodes -> {"primary", "reserve", "respawning"}]
  BY DEF PoolTypeOK, Failover, AfterFailover
<1>3. (n \in ActiveOf(status)) \in BOOLEAN
  OBVIOUS
<1>4. toPrimary' \in [Nodes -> BOOLEAN]
  BY <1>3 DEF PoolTypeOK, Failover
<1>5. owed' \in [Nodes -> Int]
  BY DEF PoolTypeOK, Failover
<1>6. QED
  BY <1>1, <1>2, <1>4, <1>5

\* A healthy answer, with or without a recovery, keeps the types of what it writes.
LEMMA RecoveryTypeOK ==
    ASSUME PoolTypeOK, NEW n \in Nodes, HandleRecovery(n)
    PROVE  /\ status' \in [Nodes -> {"primary", "reserve", "respawning"}]
           /\ failures' \in [Nodes -> 0..Threshold]
           /\ toPrimary' \in [Nodes -> BOOLEAN]
           /\ owed' \in [Nodes -> Int]
<1>1. CASE status[n] = "respawning"
  <2>1. status' \in [Nodes -> {"primary", "reserve", "respawning"}]
    BY <1>1 DEF PoolTypeOK, HandleRecovery, AfterRecovery
  <2>2. failures' \in [Nodes -> 0..Threshold]
    BY <1>1, SettingsAssumption DEF PoolTypeOK, HandleRecovery
  <2>3. toPrimary' \in [Nodes -> BOOLEAN]
    BY <1>1 DEF PoolTypeOK, HandleRecovery
  <2>4. owed' \in [Nodes -> Int]
    BY <1>1 DEF PoolTypeOK, HandleRecovery
  <2>5. QED
    BY <2>1, <2>2, <2>3, <2>4
<1>2. CASE status[n] # "respawning"
  BY <1>2, SettingsAssumption DEF PoolTypeOK, HandleRecovery
<1>3. QED
  BY <1>1, <1>2

\* Every step of the pool, a restart included, keeps every variable in its type.
LEMMA TypeStep == PoolTypeOK /\ [PoolNext]_poolVars => PoolTypeOK'
<1> SUFFICES ASSUME PoolTypeOK, [PoolNext]_poolVars PROVE PoolTypeOK'
  OBVIOUS
<1>1. CASE StartProbes
  BY <1>1 DEF StartProbes, PoolTypeOK, pool
<1>2. CASE EndProbes
  BY <1>2 DEF EndProbes, PoolTypeOK, pool
<1>3. ASSUME NEW n \in Nodes, HealthyAnswer(n) PROVE PoolTypeOK'
  <2>1. /\ ready' \in [Nodes -> BOOLEAN]
        /\ answers' \in [Nodes -> SUBSET BOOLEAN]
        /\ tick' = tick /\ up' = up
    BY <1>3 DEF HealthyAnswer, PoolTypeOK
  <2>2. CASE n \in Standby
    BY <1>3, <2>1, <2>2, SettingsAssumption DEF HealthyAnswer, PoolTypeOK
  <2>3. CASE n \notin Standby
    BY <1>3, <2>1, <2>3, RecoveryTypeOK DEF HealthyAnswer, PoolTypeOK
  <2>4. QED
    BY <2>2, <2>3
<1>4. ASSUME NEW n \in Nodes, UnhealthyAnswer(n) PROVE PoolTypeOK'
  <2>1. /\ ready' \in [Nodes -> BOOLEAN]
        /\ answers' \in [Nodes -> SUBSET BOOLEAN]
        /\ chatting' = chatting /\ up' = up
    BY <1>4 DEF UnhealthyAnswer, PoolTypeOK
  <2>2. CASE ReachedThreshold(n) /\ ~Handled(n)
    <3>1. Failover(n)
      BY <1>4, <2>2 DEF UnhealthyAnswer
    <3>2. tick' \in {"asleep", "probing", "dead"}
      BY <1>4, <2>2 DEF UnhealthyAnswer, TickAfterStart, PoolTypeOK
    <3>3. QED
      BY <2>1, <3>1, <3>2, FailoverTypeOK DEF PoolTypeOK
  <2>3. CASE ~(ReachedThreshold(n) /\ ~Handled(n))
    <3>1. Missed(n) \in 0..Threshold
      BY SettingsAssumption DEF Missed, PoolTypeOK
    <3>2. /\ failures' = [failures EXCEPT ![n] = Missed(n)]
          /\ UNCHANGED <<status, toPrimary, owed, tick>>
      BY <1>4, <2>3 DEF UnhealthyAnswer
    <3>3. QED
      BY <2>1, <3>1, <3>2 DEF PoolTypeOK
  <2>4. QED
    BY <2>2, <2>3
<1>5. ASSUME NEW n \in Nodes, ChatAnswer(n) PROVE PoolTypeOK'
  BY <1>5, RecoveryTypeOK DEF ChatAnswer, PoolTypeOK
<1>6. ASSUME NEW n \in Nodes, ReportedFailure(n) PROVE PoolTypeOK'
  BY <1>6, FailoverTypeOK DEF ReportedFailure, PoolTypeOK, probes
<1>7. ASSUME NEW n \in Nodes, Flip(n) PROVE PoolTypeOK'
  BY <1>7 DEF Flip, PoolTypeOK, pool
<1>8. CASE Restart
  BY <1>8, SettingsAssumption DEF Restart, PoolTypeOK, InitialStatus
<1>9. CASE UNCHANGED poolVars
  BY <1>9 DEF poolVars, pool, probes, PoolTypeOK
<1>10. QED
  BY <1>1, <1>2, <1>3, <1>4, <1>5, <1>6, <1>7, <1>8, <1>9
     DEF PoolNext, PoolStep, ProbeStep

\* Every variable of the pool keeps its type.
THEOREM PoolTyping == PoolSpec => []PoolTypeOK
BY InitTypeOK, TypeStep, PTL DEF PoolSpec

-----------------------------------------------------------------------------
(* What becomes of the roles. *)

\* The roles are sets of nodes, and apart.
LEMMA Roles ==
    /\ Primaries \in SUBSET Nodes /\ Reserves \in SUBSET Nodes
    /\ InService \in SUBSET Nodes
    /\ Primaries \cap Reserves = {}
    /\ \A n \in Nodes : n \in InService => ~Handled(n)
BY DEF Primaries, Reserves, InService, WithStatus, Handled

\* A node is in service or respawning, never both: _handle_failure returns early exactly
\* for the nodes out of service.
LEMMA ServingNotHandled ==
    ASSUME PoolTypeOK, NEW n \in Nodes
    PROVE  n \in InService <=> ~Handled(n)
BY DEF PoolTypeOK, Primaries, Reserves, InService, WithStatus, Handled

\* A step of the pool leaves the roles alone, or takes one serving node out, or brings
\* one node back.
LEMMA PoolStepRoles ==
    ASSUME PoolStep
    PROVE  \/ UNCHANGED <<status, owed>>
           \/ \E n \in Nodes : ~Handled(n) /\ Failover(n)
           \/ \E n \in Nodes : status[n] = "respawning" /\ HandleRecovery(n)
<1>1. CASE StartProbes \/ EndProbes \/ \E n \in Nodes : Flip(n)
  BY <1>1 DEF StartProbes, EndProbes, Flip, pool
<1>2. CASE \E n \in Nodes : HealthyAnswer(n)
  BY <1>2 DEF HealthyAnswer, HandleRecovery
<1>3. CASE \E n \in Nodes : UnhealthyAnswer(n)
  BY <1>3 DEF UnhealthyAnswer
<1>4. CASE \E n \in Nodes : ChatAnswer(n)
  BY <1>4 DEF ChatAnswer, HandleRecovery
<1>5. CASE \E n \in Nodes : ReportedFailure(n)
  BY <1>5 DEF ReportedFailure
<1>6. QED
  BY <1>1, <1>2, <1>3, <1>4, <1>5 DEF PoolStep, ProbeStep

\* The one other step starts the router again.
LEMMA RoleSteps ==
    ASSUME [PoolNext]_poolVars
    PROVE  \/ UNCHANGED <<status, owed>>
           \/ \E n \in Nodes : ~Handled(n) /\ Failover(n)
           \/ \E n \in Nodes : status[n] = "respawning" /\ HandleRecovery(n)
           \/ Restart
<1>1. CASE Restart \/ UNCHANGED poolVars
  BY <1>1 DEF poolVars, pool
<1>2. QED
  BY <1>1, PoolStepRoles DEF PoolNext

\* The promoted node is a reserve other than the failed one, and there is at most one.
LEMMA PromotedIsReserve ==
    ASSUME PoolTypeOK, NEW n \in Nodes
    PROVE  /\ Promoted(n) \in SUBSET (Reserves \ {n})
           /\ IsFiniteSet(Promoted(n))
           /\ Cardinality(Promoted(n)) \in {0, 1}
           /\ Promoted(n) # {} => n \in Primaries \/ Primaries = {}
<1> DEFINE candidates == {m \in Reserves \ {n} : ready[m]}
<1>1. candidates \in SUBSET Nodes /\ candidates \in SUBSET (Reserves \ {n})
  BY DEF Reserves, WithStatus
<1>2. CASE n \in ActiveOf(status)
  <2>1. Promoted(n) = BestOf(candidates)
    BY <1>2 DEF Promoted, BestReserve
  <2>2. n \in Primaries \/ Primaries = {}
    BY <1>2 DEF ActiveOf, Primaries
  <2> HIDE DEF candidates
  <2>3. QED
    BY <1>1, <2>1, <2>2, BestIsOne
<1>3. CASE n \notin ActiveOf(status)
  <2>1. Promoted(n) = {}
    BY <1>3 DEF Promoted
  <2>2. QED
    BY <2>1, FS_EmptySet
<1>4. QED
  BY <1>2, <1>3

\* _apply_failover as sets: the failed node leaves, the promoted one moves up.
LEMMA FailoverRoles ==
    ASSUME PoolTypeOK, NEW n \in Nodes, ~Handled(n), Failover(n)
    PROVE  /\ n \in InService
           /\ Primaries' = (Primaries \ {n}) \cup Promoted(n)
           /\ Reserves' = Reserves \ (Promoted(n) \cup {n})
<1>1. n \in InService
  BY ServingNotHandled
<1>2. Promoted(n) \in SUBSET (Reserves \ {n})
  BY PromotedIsReserve
<1>3. \A m \in Nodes : status'[m] = IF m = n THEN "respawning"
                                     ELSE IF m \in Promoted(n) THEN "primary"
                                     ELSE status[m]
  BY DEF Failover, AfterFailover
<1>4. Primaries' = {m \in Nodes : status'[m] = "primary"}
  BY DEF Primaries, WithStatus
<1>5. Reserves' = {m \in Nodes : status'[m] = "reserve"}
  BY DEF Reserves, WithStatus
<1>6. Primaries' = (Primaries \ {n}) \cup Promoted(n)
  BY <1>2, <1>3, <1>4 DEF Primaries, Reserves, WithStatus
<1>7. Reserves' = Reserves \ (Promoted(n) \cup {n})
  BY <1>2, <1>3, <1>5 DEF Reserves, WithStatus
<1>8. QED
  BY <1>1, <1>6, <1>7

\* _handle_recovery as sets: the nodes in service are ranked afresh with the one that
\* returns.
LEMMA RecoveryRoles ==
    ASSUME PoolTypeOK, NEW n \in Nodes, status[n] = "respawning",
           HandleRecovery(n)
    PROVE  /\ n \notin InService
           /\ InService \cup {n} \in SUBSET Nodes
           /\ Primaries' = TopRanked(InService \cup {n})
           /\ Reserves' = (InService \cup {n}) \ TopRanked(InService \cup {n})
<1> DEFINE S == InService \cup {n}
<1>1. n \notin InService /\ S \in SUBSET Nodes
  BY ServingNotHandled, Roles DEF Handled
<1>2. TopRanked(S) \in SUBSET S
  BY <1>1, TopRankedBounded
<1>3. \A m \in Nodes : status'[m] = IF m \in TopRanked(S) THEN "primary"
                                     ELSE IF m \in S THEN "reserve"
                                     ELSE status[m]
  BY DEF HandleRecovery, AfterRecovery
<1>4. \A m \in Nodes \ S : status[m] = "respawning"
  BY DEF PoolTypeOK, InService, Primaries, Reserves, WithStatus
<1> HIDE DEF S
<1>5. Primaries' = {m \in Nodes : status'[m] = "primary"}
  BY DEF Primaries, WithStatus
<1>6. Reserves' = {m \in Nodes : status'[m] = "reserve"}
  BY DEF Reserves, WithStatus
<1>7. Primaries' = TopRanked(S)
  BY <1>1, <1>2, <1>3, <1>4, <1>5
<1>8. Reserves' = S \ TopRanked(S)
  BY <1>1, <1>2, <1>3, <1>4, <1>6
<1>9. QED
  BY <1>1, <1>7, <1>8 DEF S

\* A restart ranks all the nodes.
LEMMA RestartRoles ==
    ASSUME Restart
    PROVE  /\ Primaries' = TopRanked(Nodes)
           /\ Reserves' = Nodes \ TopRanked(Nodes)
<1>1. TopRanked(Nodes) \in SUBSET Nodes
  BY DEF TopRanked
<1>2. \A m \in Nodes :
         status'[m] = IF m \in TopRanked(Nodes) THEN "primary" ELSE "reserve"
  BY DEF Restart, InitialStatus
<1>3. Primaries' = {m \in Nodes : status'[m] = "primary"}
  BY DEF Primaries, WithStatus
<1>4. Reserves' = {m \in Nodes : status'[m] = "reserve"}
  BY DEF Reserves, WithStatus
<1>5. QED
  BY <1>1, <1>2, <1>3, <1>4

\* _build_nodes ranks all the nodes.
LEMMA InitRoles ==
    ASSUME PoolInit
    PROVE  /\ Primaries = TopRanked(Nodes)
           /\ Reserves = Nodes \ TopRanked(Nodes)
<1>1. TopRanked(Nodes) \in SUBSET Nodes
  BY DEF TopRanked
<1>2. QED
  BY <1>1 DEF PoolInit, InitialStatus, Primaries, Reserves, WithStatus

-----------------------------------------------------------------------------
(* The number of primaries. *)

\* No step makes more primaries than PrimaryCount: a promotion fills the place of the
\* node that leaves, or comes when there is no primary at all.
LEMMA BoundedStep ==
    ASSUME PoolTypeOK, AtMostPrimaryCount, [PoolNext]_poolVars
    PROVE  AtMostPrimaryCount'
<1>1. IsFiniteSet(Primaries) /\ Cardinality(Primaries) \in Nat
  BY Roles, FiniteNodes
<1>2. CASE UNCHANGED <<status, owed>>
  BY <1>2 DEF AtMostPrimaryCount, Primaries, WithStatus
<1>3. ASSUME NEW n \in Nodes, ~Handled(n), Failover(n)
      PROVE  AtMostPrimaryCount'
  <2> DEFINE kept == Primaries \ {n}
  <2>1. Primaries' = kept \cup Promoted(n)
    BY <1>3, FailoverRoles
  <2>2. /\ Promoted(n) \in SUBSET (Reserves \ {n})
        /\ IsFiniteSet(Promoted(n))
        /\ Cardinality(Promoted(n)) \in {0, 1}
        /\ Promoted(n) # {} => n \in Primaries \/ Primaries = {}
    BY PromotedIsReserve
  <2>3. /\ IsFiniteSet(kept)
        /\ Cardinality(kept) = IF n \in Primaries THEN Cardinality(Primaries) - 1
                                                ELSE Cardinality(Primaries)
    BY <1>1, FS_RemoveElement
  <2>4. kept \cap Promoted(n) = {}
    BY <2>2, Roles
  <2>5. Cardinality(Primaries') = Cardinality(kept) + Cardinality(Promoted(n))
    <3>1. Cardinality(kept \cup Promoted(n))
            = Cardinality(kept) + Cardinality(Promoted(n)) - Cardinality({})
      BY <2>2, <2>3, <2>4, FS_Union
    <3>2. QED
      BY <1>1, <2>1, <2>2, <2>3, <3>1, FS_EmptySet
  <2>6. CASE Promoted(n) = {}
    BY <1>1, <2>3, <2>5, <2>6, FS_EmptySet, CountAssumption
       DEF AtMostPrimaryCount
  <2>7. CASE n \in Primaries
    BY <1>1, <2>2, <2>3, <2>5, <2>7, CountAssumption DEF AtMostPrimaryCount
  <2>8. CASE Primaries = {} /\ n \notin Primaries
    BY <1>1, <2>2, <2>3, <2>5, <2>8, FS_EmptySet, CountAssumption
       DEF AtMostPrimaryCount
  <2>9. QED
    BY <2>2, <2>6, <2>7, <2>8
<1>4. ASSUME NEW n \in Nodes, status[n] = "respawning", HandleRecovery(n)
      PROVE  AtMostPrimaryCount'
  BY <1>4, RecoveryRoles, TopRankedBounded DEF AtMostPrimaryCount
<1>5. CASE Restart
  BY <1>5, RestartRoles, TopRankedBounded DEF AtMostPrimaryCount
<1>6. QED
  BY <1>2, <1>3, <1>4, <1>5, RoleSteps

\* There are never more primaries than primary_count.
THEOREM PrimariesBounded == PoolSpec => []AtMostPrimaryCount
<1>1. PoolInit => AtMostPrimaryCount
  BY InitRoles, TopRankedBounded DEF AtMostPrimaryCount
<1>2. PoolTypeOK /\ AtMostPrimaryCount /\ [PoolNext]_poolVars
          => AtMostPrimaryCount'
  BY BoundedStep
<1>3. QED
  BY <1>1, <1>2, PoolTyping, PTL DEF PoolSpec

-----------------------------------------------------------------------------
(* One start of the controller per outage. *)

\* A start is owed by the node a failover takes out, and paid by its recovery alone.
LEMMA OneStartStep ==
    ASSUME PoolTypeOK, OneStartPerOutage, [PoolNext]_poolVars
    PROVE  OneStartPerOutage'
<1>1. CASE UNCHANGED <<status, owed>>
  BY <1>1 DEF OneStartPerOutage
<1>2. ASSUME NEW n \in Nodes, ~Handled(n), Failover(n)
      PROVE  OneStartPerOutage'
  <2>1. Promoted(n) \in SUBSET (Reserves \ {n})
    BY PromotedIsReserve
  <2>2. \A m \in Nodes : status'[m] = IF m = n THEN "respawning"
                                      ELSE IF m \in Promoted(n) THEN "primary"
                                      ELSE status[m]
    BY <1>2 DEF Failover, AfterFailover
  <2>3. owed' = [owed EXCEPT ![n] = owed[n] + 1] /\ owed[n] = 0
    BY <1>2 DEF Failover, OneStartPerOutage, Handled
  <2>4. \A m \in Promoted(n) : m # n /\ status[m] = "reserve"
    BY <2>1 DEF Reserves, WithStatus
  <2>5. QED
    BY <2>2, <2>3, <2>4 DEF OneStartPerOutage, PoolTypeOK
<1>3. ASSUME NEW n \in Nodes, status[n] = "respawning", HandleRecovery(n)
      PROVE  OneStartPerOutage'
  <2> DEFINE S == InService \cup {n}
  <2>1. TopRanked(S) \in SUBSET S
    BY Roles, TopRankedBounded
  <2>2. owed' = [owed EXCEPT ![n] = owed[n] - 1] /\ owed[n] = 1
    BY <1>3 DEF HandleRecovery, OneStartPerOutage
  <2>3. \A m \in Nodes : status'[m] = IF m \in TopRanked(S) THEN "primary"
                                      ELSE IF m \in S THEN "reserve"
                                      ELSE status[m]
    BY <1>3 DEF HandleRecovery, AfterRecovery
  <2>4. \A m \in S : m # n => status[m] # "respawning"
    BY Roles DEF Handled
  <2> HIDE DEF S
  <2>5. \A m \in Nodes \ {n} : status'[m] = "respawning" <=> status[m] = "respawning"
    BY <2>1, <2>3, <2>4
  <2>6. status'[n] # "respawning"
    BY <2>1, <2>3 DEF S
  <2>7. QED
    BY <2>2, <2>5, <2>6 DEF OneStartPerOutage, PoolTypeOK
<1>4. CASE Restart
  BY <1>4 DEF Restart, InitialStatus, OneStartPerOutage
<1>5. QED
  BY <1>1, <1>2, <1>3, <1>4, RoleSteps

\* A node is respawning exactly while one start of its controller is unanswered.
THEOREM OneStart == PoolSpec => []OneStartPerOutage
<1>1. PoolInit => OneStartPerOutage
  BY DEF PoolInit, InitialStatus, OneStartPerOutage
<1>2. PoolTypeOK /\ OneStartPerOutage /\ [PoolNext]_poolVars
          => OneStartPerOutage'
  BY OneStartStep
<1>3. QED
  BY <1>1, <1>2, PoolTyping, PTL DEF PoolSpec

-----------------------------------------------------------------------------
(* The count of failed probes of the nodes in service. *)

\* The form used here: a node with the threshold on its count is respawning.
LEMMA BelowByNode ==
    ASSUME PoolTypeOK
    PROVE  InServiceBelowThreshold
             <=> \A m \in Nodes : status[m] # "respawning" => failures[m] < Threshold
BY Roles, ServingNotHandled DEF InServiceBelowThreshold, Handled

\* A count reaches the threshold only in the step that takes its node out, or of a node
\* that is out; a node that comes in comes with its count cleared.
LEMMA BelowThresholdStep ==
    ASSUME PoolTypeOK, PoolTypeOK', InServiceBelowThreshold, [PoolNext]_poolVars
    PROVE  InServiceBelowThreshold'
<1> DEFINE Below == \A m \in Nodes :
                       status[m] # "respawning" => failures[m] < Threshold
<1>1. Below
  BY BelowByNode
<1>2. SUFFICES Below'
  BY DEF InServiceBelowThreshold, InService, Primaries, Reserves, WithStatus
<1>3. ASSUME NEW n \in Nodes, Failover(n) PROVE Below'
  <2>1. Promoted(n) \in SUBSET Nodes
    BY PromotedIsReserve, Roles
  <2>2. \A m \in Nodes : status'[m] = IF m = n THEN "respawning"
                                      ELSE IF m \in Promoted(n) THEN "primary"
                                      ELSE status[m]
    BY <1>3 DEF Failover, AfterFailover
  <2>3. \A m \in Nodes : failures'[m] =
                             IF m \in Promoted(n) \cup {n} THEN 0 ELSE failures[m]
    BY <1>3 DEF Failover
  <2>4. QED
    BY <1>1, <2>1, <2>2, <2>3, SettingsAssumption
<1>4. ASSUME NEW n \in Nodes, HandleRecovery(n) PROVE Below'
  <2>1. CASE status[n] = "respawning"
    <3> DEFINE S == InService \cup {n}
    <3>1. \A m \in Nodes : failures'[m] = IF m \in S THEN 0 ELSE failures[m]
      BY <1>4, <2>1 DEF HandleRecovery
    <3>2. \A m \in Nodes : status'[m] = IF m \in TopRanked(S) THEN "primary"
                                        ELSE IF m \in S THEN "reserve"
                                        ELSE status[m]
      BY <1>4, <2>1 DEF HandleRecovery, AfterRecovery
    <3>3. TopRanked(S) \in SUBSET S
      BY Roles, TopRankedBounded
    <3> HIDE DEF S
    <3>4. QED
      BY <1>1, <3>1, <3>2, <3>3, SettingsAssumption
  <2>2. CASE status[n] # "respawning"
    BY <1>1, <1>4, <2>2, SettingsAssumption DEF HandleRecovery, PoolTypeOK
  <2>3. QED
    BY <2>1, <2>2
<1>5. CASE StartProbes \/ EndProbes \/ \E n \in Nodes : Flip(n)
  BY <1>1, <1>5 DEF StartProbes, EndProbes, Flip, pool
<1>6. ASSUME NEW n \in Nodes, HealthyAnswer(n) PROVE Below'
  <2>1. CASE n \in Standby
    BY <1>1, <1>6, <2>1, SettingsAssumption DEF HealthyAnswer, PoolTypeOK
  <2>2. CASE n \notin Standby
    BY <1>4, <1>6, <2>2 DEF HealthyAnswer
  <2>3. QED
    BY <2>1, <2>2
<1>7. ASSUME NEW n \in Nodes, UnhealthyAnswer(n) PROVE Below'
  <2>1. CASE ReachedThreshold(n) /\ ~Handled(n)
    BY <1>3, <1>7, <2>1 DEF UnhealthyAnswer
  <2>2. CASE ~ReachedThreshold(n) \/ Handled(n)
    <3>1. status' = status /\ failures' = [failures EXCEPT ![n] = Missed(n)]
      BY <1>7, <2>2 DEF UnhealthyAnswer
    <3>2. Missed(n) \in Int /\ (Missed(n) < Threshold \/ status[n] = "respawning")
      BY <2>2, SettingsAssumption
         DEF ReachedThreshold, Handled, Missed, PoolTypeOK
    <3>3. QED
      BY <1>1, <3>1, <3>2 DEF PoolTypeOK
  <2>3. QED
    BY <2>1, <2>2
<1>8. ASSUME NEW n \in Nodes, ChatAnswer(n) PROVE Below'
  BY <1>4, <1>8 DEF ChatAnswer
<1>9. ASSUME NEW n \in Nodes, ReportedFailure(n) PROVE Below'
  BY <1>3, <1>9 DEF ReportedFailure
<1>10. CASE Restart
  BY <1>10, SettingsAssumption DEF Restart
<1>11. CASE UNCHANGED poolVars
  BY <1>1, <1>11 DEF poolVars, pool
<1>12. QED
  BY <1>5, <1>6, <1>7, <1>8, <1>9, <1>10, <1>11 DEF PoolNext, PoolStep, ProbeStep

\* No node with the threshold of failed probes on its count is in service.
THEOREM BelowThreshold == PoolSpec => []InServiceBelowThreshold
<1>1. PoolInit => InServiceBelowThreshold
  BY SettingsAssumption
     DEF PoolInit, InServiceBelowThreshold, InService, Primaries, Reserves, WithStatus
<1>2. PoolTypeOK /\ PoolTypeOK' /\ InServiceBelowThreshold /\ [PoolNext]_poolVars
          => InServiceBelowThreshold'
  BY BelowThresholdStep
<1>3. QED
  BY <1>1, <1>2, PoolTyping, PTL DEF PoolSpec

-----------------------------------------------------------------------------
(* Capacity at a failover. *)

\* When a node in service starts to respawn the step is its failover, and a ready
\* reserve takes its place if it was a primary.
LEMMA CapacityStep ==
    ASSUME PoolTypeOK, [PoolNext]_poolVars,
           NEW n \in InService, status'[n] = "respawning",
           NEW spare \in Reserves \ {n}, ready[spare]
    PROVE  Cardinality(Primaries') >= Cardinality(Primaries)
<1>1. n \in Nodes /\ ~Handled(n)
  BY Roles
<1>2. IsFiniteSet(Primaries) /\ Cardinality(Primaries) \in Nat
  BY Roles, FiniteNodes
<1>3. ~UNCHANGED <<status, owed>>
  BY <1>1 DEF Handled
<1>4. ASSUME NEW m \in Nodes, ~Handled(m), Failover(m)
      PROVE  Cardinality(Primaries') >= Cardinality(Primaries)
  <2>1. /\ Primaries' = (Primaries \ {m}) \cup Promoted(m)
        /\ Promoted(m) \in SUBSET (Reserves \ {m})
        /\ IsFiniteSet(Promoted(m))
        /\ Cardinality(Promoted(m)) \in {0, 1}
    BY <1>4, FailoverRoles, PromotedIsReserve
  <2>2. m = n
    <3>1. status'[n] = IF n = m THEN "respawning"
                       ELSE IF n \in Promoted(m) THEN "primary" ELSE status[n]
      BY <1>1, <1>4 DEF Failover, AfterFailover
    <3>2. QED
      BY <1>1, <3>1 DEF Handled
  <2>3. CASE n \in Primaries
    <3> DEFINE candidates == {r \in Reserves \ {n} : ready[r]}
    <3>1. n \in ActiveOf(status)
      BY <2>3 DEF ActiveOf, Primaries
    <3>2. candidates \in SUBSET Nodes /\ candidates # {}
      BY DEF Reserves, WithStatus
    <3>3. Promoted(n) = BestOf(candidates)
      BY <3>1 DEF Promoted, BestReserve
    <3> HIDE DEF candidates
    <3>4. Promoted(n) # {}
      BY <3>2, <3>3, BestExists
    <3>5. Cardinality(Promoted(n)) = 1
      BY <2>1, <2>2, <3>4, FS_EmptySet
    <3>6. /\ IsFiniteSet(Primaries \ {n})
          /\ Cardinality(Primaries \ {n}) = Cardinality(Primaries) - 1
      BY <1>2, <2>3, FS_RemoveElement
    <3>7. (Primaries \ {n}) \cap Promoted(n) = {}
      BY <2>1, <2>2, Roles
    <3>8. Cardinality(Primaries')
            = Cardinality(Primaries \ {n}) + Cardinality(Promoted(n)) - Cardinality({})
      BY <2>1, <2>2, <3>6, <3>7, FS_Union
    <3>9. QED
      BY <1>2, <3>5, <3>6, <3>8, FS_EmptySet
  <2>4. CASE n \notin Primaries
    <3>1. Primaries \in SUBSET Primaries'
      BY <2>1, <2>2, <2>4
    <3>2. Primaries' \in SUBSET Nodes
      BY <2>1, Roles
    <3>3. IsFiniteSet(Primaries') /\ Cardinality(Primaries') \in Nat
      BY <3>2, FiniteNodes
    <3>4. QED
      BY <1>2, <3>1, <3>3, FS_Subset
  <2>5. QED
    BY <2>3, <2>4
<1>5. ASSUME NEW m \in Nodes, status[m] = "respawning", HandleRecovery(m)
      PROVE  FALSE
  <2>1. n \in InService \cup {m}
    OBVIOUS
  <2>2. status'[n] = IF n \in TopRanked(InService \cup {m}) THEN "primary"
                     ELSE "reserve"
    BY <1>1, <1>5, <2>1 DEF HandleRecovery, AfterRecovery
  <2>3. QED
    BY <2>2
<1>6. ~Restart
  BY <1>1 DEF Restart, InitialStatus
<1>7. QED
  BY <1>3, <1>4, <1>5, <1>6, RoleSteps

\* A failover keeps the number of primaries while a ready reserve stands by.
THEOREM CapacityKept == PoolSpec => FailoverKeepsCapacity
<1>1. PoolTypeOK /\ [PoolNext]_poolVars =>
        [ (\E n \in InService : status'[n] = "respawning"
              /\ \E m \in Reserves \ {n} : ready[m])
          => Cardinality(Primaries') >= Cardinality(Primaries) ]_poolVars
  BY CapacityStep
<1>2. QED
  BY <1>1, PoolTyping, PTL DEF PoolSpec, FailoverKeepsCapacity

-----------------------------------------------------------------------------
(* The count of failed probes goes up with each of them. *)

\* Only a failed probe of n takes the answer that can be nothing else, and n goes out or
\* its count goes up: below the threshold Missed does not saturate.
LEMMA MissCounts ==
    ASSUME PoolTypeOK, InServiceBelowThreshold, PoolStep,
           NEW n \in InService, answers[n] = {FALSE}, answers'[n] = {}
    PROVE  n \notin InService' \/ failures'[n] = failures[n] + 1
<1>1. /\ n \in Nodes /\ ~Handled(n)
      /\ failures[n] < Threshold
      /\ failures \in [Nodes -> 0..Threshold]
      /\ answers \in [Nodes -> SUBSET BOOLEAN]
  BY Roles DEF InServiceBelowThreshold, PoolTypeOK
<1>2. UnhealthyAnswer(n)
  <2>1. ~StartProbes /\ ~EndProbes
    BY <1>1 DEF StartProbes, EndProbes
  <2>2. ASSUME NEW m \in Nodes, HealthyAnswer(m) PROVE FALSE
    <3>1. TRUE \in answers[m] /\ answers' = [answers EXCEPT ![m] = {}]
      BY <2>2 DEF HealthyAnswer
    <3> QED
      BY <1>1, <3>1
  <2>3. ASSUME NEW m \in Nodes, UnhealthyAnswer(m) PROVE m = n
    <3>1. answers' = [answers EXCEPT ![m] = {}]
      BY <2>3 DEF UnhealthyAnswer
    <3> QED
      BY <1>1, <3>1
  <2>4. ASSUME NEW m \in Nodes, ChatAnswer(m) \/ ReportedFailure(m) PROVE FALSE
    BY <2>4 DEF ChatAnswer, ReportedFailure, probes
  <2>5. ASSUME NEW m \in Nodes, Flip(m) PROVE FALSE
    <3>1. answers' = [answers EXCEPT ![m] = IF @ = {} THEN {} ELSE BOOLEAN]
      BY <2>5 DEF Flip
    <3> QED
      BY <1>1, <3>1
  <2> QED
    BY <2>1, <2>2, <2>3, <2>4, <2>5 DEF PoolStep, ProbeStep
<1>3. CASE ReachedThreshold(n)
  BY <1>1, <1>2, <1>3, FailoverRoles, PromotedIsReserve DEF UnhealthyAnswer, InService
<1>4. CASE ~ReachedThreshold(n)
  BY <1>1, <1>2, <1>4 DEF UnhealthyAnswer, Missed
<1> QED
  BY <1>3, <1>4

\* What clears the count of a node in service.
LEMMA CountDrops ==
    ASSUME PoolTypeOK, InServiceBelowThreshold, PoolStep,
           NEW n \in InService, failures'[n] < failures[n]
    PROVE  \/ TRUE \in answers[n] /\ answers'[n] = {}
           \/ n \in chatting \ chatting'
           \/ n \notin InService'
           \/ n \in Primaries' \ Primaries
           \/ InService' \ InService # {}
<1>1. /\ n \in Nodes /\ ~Handled(n)
      /\ failures[n] < Threshold
      /\ failures \in [Nodes -> 0..Threshold]
      /\ answers \in [Nodes -> SUBSET BOOLEAN]
  BY Roles DEF InServiceBelowThreshold, PoolTypeOK
<1>2. failures'[n] # failures[n]
  BY <1>1
<1>3. ASSUME NEW m \in Nodes, ~Handled(m), Failover(m)
      PROVE  n \notin InService' \/ n \in Primaries' \ Primaries
  <2>1. n \in Promoted(m) \cup {m}
    BY <1>1, <1>2, <1>3 DEF Failover
  <2> QED
    BY <1>3, <2>1, FailoverRoles, PromotedIsReserve, Roles DEF InService
<1>4. ASSUME NEW m \in Nodes, HandleRecovery(m) PROVE m = n \/ InService' \ InService # {}
  <2>1. CASE Handled(m)
    <3>1. /\ m \notin InService
          /\ InService' = InService \cup {m}
      BY <1>4, <2>1, RecoveryRoles, TopRankedBounded DEF InService, Handled
    <3> QED
      BY <3>1
  <2>2. CASE ~Handled(m)
    BY <1>1, <1>2, <1>4, <2>2 DEF HandleRecovery, Handled
  <2> QED
    BY <2>1, <2>2
<1>5. ASSUME NEW m \in Nodes, HealthyAnswer(m)
      PROVE  \/ TRUE \in answers[n] /\ answers'[n] = {}
             \/ InService' \ InService # {}
  <2>1. /\ TRUE \in answers[m] /\ answers' = [answers EXCEPT ![m] = {}]
        /\ failures' = [failures EXCEPT ![m] = 0] \/ HandleRecovery(m)
    BY <1>5 DEF HealthyAnswer
  <2>2. m = n \/ InService' \ InService # {}
    BY <1>1, <1>2, <1>4, <2>1
  <2> QED
    BY <1>1, <2>1, <2>2
<1>6. ASSUME NEW m \in Nodes, UnhealthyAnswer(m)
      PROVE  n \notin InService' \/ n \in Primaries' \ Primaries
  <2>1. CASE ReachedThreshold(m) /\ ~Handled(m)
    BY <1>3, <1>6, <2>1 DEF UnhealthyAnswer
  <2>2. CASE ~ReachedThreshold(m) \/ Handled(m)
    BY <1>1, <1>6, <2>2 DEF UnhealthyAnswer, Missed
  <2> QED
    BY <2>1, <2>2
<1>7. ASSUME NEW m \in Nodes, ChatAnswer(m)
      PROVE  n \in chatting \ chatting' \/ InService' \ InService # {}
  BY <1>4, <1>7 DEF ChatAnswer
<1>8. ASSUME NEW m \in Nodes, ReportedFailure(m)
      PROVE  n \notin InService' \/ n \in Primaries' \ Primaries
  BY <1>3, <1>8 DEF ReportedFailure
<1>9. ~StartProbes /\ ~EndProbes /\ \A m \in Nodes : ~Flip(m)
  BY <1>2 DEF StartProbes, EndProbes, Flip, pool
<1> QED
  BY <1>5, <1>6, <1>7, <1>8, <1>9 DEF PoolStep, ProbeStep

\* Failed probes add up, for any threshold: with the fairness of the probes it is why a
\* node that stays down leaves.
THEOREM MissesDoAddUp == PoolSpec => MissesAddUp
<1>1. PoolTypeOK /\ InServiceBelowThreshold =>
        [ PoolStep => \A n \in InService :
            /\ answers[n] = {FALSE} /\ answers'[n] = {}
                  => n \notin InService' \/ failures'[n] = failures[n] + 1
            /\ failures'[n] < failures[n]
                  => \/ TRUE \in answers[n] /\ answers'[n] = {}
                     \/ n \in chatting \ chatting'
                     \/ n \notin InService'
                     \/ n \in Primaries' \ Primaries
                     \/ InService' \ InService # {} ]_poolVars
  BY MissCounts, CountDrops
<1> QED
  BY <1>1, PoolTyping, BelowThreshold, PTL DEF PoolSpec, MissesAddUp

-----------------------------------------------------------------------------
(* RouterPool implements Rotation. *)

\* Rotation's copy of Cardinality is that of FiniteSets.
LEMMA SameCardinality == \A S : Abstract!Cardinality(S) = Cardinality(S)
BY DEF Abstract!Cardinality, Cardinality

\* Rotation selects as RouterPool does.
LEMMA SameRanking == \A S : Abstract!TopRanked(S) = TopRanked(S)
BY SameCardinality DEF Abstract!TopRanked, TopRanked, Abstract!Ahead, Ahead

\* The initial roles are those of Rotation.
LEMMA RotationInit == PoolInit => Abstract!RolesInit
BY InitRoles, SameRanking DEF Abstract!RolesInit

\* A failover is a departure of Rotation.
LEMMA FailoverLeaves ==
    ASSUME PoolTypeOK, NEW n \in Nodes, ~Handled(n), Failover(n)
    PROVE  Abstract!Leave(n)
<1>1. /\ n \in Primaries \cup Reserves
      /\ Primaries' = (Primaries \ {n}) \cup Promoted(n)
      /\ Reserves' = Reserves \ (Promoted(n) \cup {n})
  BY FailoverRoles DEF InService
<1>2. /\ Promoted(n) \in SUBSET (Reserves \ {n})
      /\ Cardinality(Promoted(n)) <= 1
      /\ Promoted(n) # {} => n \in Primaries \/ Primaries = {}
  BY PromotedIsReserve
<1>3. Abstract!Cardinality(Promoted(n)) <= 1
  BY <1>2, SameCardinality
<1>4. \E promoted \in SUBSET (Reserves \ {n}) :
         /\ Abstract!Cardinality(promoted) <= 1
         /\ promoted # {} => n \in Primaries \/ Primaries = {}
         /\ Primaries' = (Primaries \ {n}) \cup promoted
         /\ Reserves' = Reserves \ (promoted \cup {n})
  BY <1>1, <1>2, <1>3, Zenon
<1>5. QED
  BY <1>1, <1>4 DEF Abstract!Leave

\* A recovery is a return.
LEMMA RecoveryReturns ==
    ASSUME PoolTypeOK, NEW n \in Nodes, status[n] = "respawning", HandleRecovery(n)
    PROVE  Abstract!Return(n)
BY RecoveryRoles, SameRanking DEF Abstract!Return, Abstract!Assign, InService

\* A restart starts the rotation again.
LEMMA RestartStartsAgain == Restart => Abstract!StartAgain
BY RestartRoles, SameRanking DEF Abstract!StartAgain, Abstract!Assign

\* Every step of the pool is a step of Rotation or leaves the roles alone.
LEMMA RotationStep ==
    ASSUME PoolTypeOK, [PoolNext]_poolVars
    PROVE  [Abstract!RolesNext]_(Abstract!roles)
<1>1. CASE UNCHANGED <<status, owed>>
  BY <1>1 DEF Abstract!roles, Primaries, Reserves, WithStatus
<1>2. QED
  BY <1>1, RoleSteps, FailoverLeaves, RecoveryReturns, RestartStartsAgain
     DEF Abstract!RolesNext

\* Every behaviour of the pool is one of Rotation.
THEOREM ImplementsRotation == PoolSpec => KeepsRotation
<1>1. PoolTypeOK /\ [PoolNext]_poolVars => [Abstract!RolesNext]_(Abstract!roles)
  BY RotationStep
<1>2. QED
  BY RotationInit, <1>1, PoolTyping, PTL
     DEF PoolSpec, KeepsRotation, Abstract!RolesSpec

-----------------------------------------------------------------------------
(* The router whole.  What is needed of the calls: the tables are functions of the
   jobs, and a caller that holds a route holds one to a node. *)

CallInv ==
    /\ caller \in [Jobs -> R!CallerStates]
    /\ route \in [Jobs -> Nodes \cup {NoNode}]
    /\ inflight \in [Jobs -> Nodes \cup {NoNode}]
    /\ sends \in [Jobs -> Nat]
    /\ \A j \in Jobs : caller[j] = "holding" => route[j] \in Nodes

\* The nodes a call chooses from are in service.
LEMMA PreferredServe ==
    /\ R!Preferred \subseteq InService /\ InService \subseteq Nodes
    /\ R!Preferred' \subseteq InService' /\ InService' \subseteq Nodes
<1>1. R!Preferred \subseteq InService /\ InService \subseteq Nodes
  BY DEF R!Preferred, R!Active, InService, Primaries, Reserves, WithStatus
<1>2. R!Preferred' \subseteq InService' /\ InService' \subseteq Nodes
  BY DEF R!Preferred, R!Active, InService, Primaries, Reserves, WithStatus
<1> QED
  BY <1>1, <1>2

\* What a dispatch does: the job is held by its caller on a node of S, and no other job
\* is touched.
LEMMA DispatchCalls ==
    ASSUME CallInv, NEW j \in Jobs, NEW S \in SUBSET Nodes, R!Dispatch(j, S)
    PROVE  CallInv' /\ inflight'[j] \in S /\ \A k \in Jobs \ {j} : sends'[k] = sends[k]
<1>1. PICK n \in S : /\ inflight' = [inflight EXCEPT ![j] = n]
                     /\ route' = [route EXCEPT ![j] = n]
  BY DEF R!Dispatch
<1>2. /\ sends' = [sends EXCEPT ![j] = @ + 1]
      /\ caller' = [caller EXCEPT ![j] = "holding"]
  BY DEF R!Dispatch
<1> QED
  BY <1>1, <1>2 DEF CallInv, R!CallerStates

LEMMA SettledCalls ==
    ASSUME CallInv, NEW j \in Jobs, NEW outcome \in R!CallerStates \ {"holding"},
           R!Settled(j, outcome)
    PROVE  CallInv' /\ UNCHANGED sends
BY DEF CallInv, R!Settled, R!Cleared

LEMMA AcquireCalls ==
    ASSUME CallInv, NEW j \in Jobs, NEW S \in SUBSET Nodes, R!Acquire(j, S)
    PROVE  /\ CallInv'
           /\ \/ inflight'[j] \in S /\ \A k \in Jobs \ {j} : sends'[k] = sends[k]
              \/ UNCHANGED sends
<1>1. CASE R!Dispatch(j, S)
  BY <1>1, DispatchCalls
<1>2. CASE R!Settled(j, "rejected")
  BY <1>2, SettledCalls DEF R!CallerStates
<1>3. CASE /\ caller' = [caller EXCEPT ![j] = "waiting"]
           /\ UNCHANGED <<R!table, route, sends>>
  BY <1>3 DEF CallInv, R!table, R!CallerStates
<1> QED
  BY <1>1, <1>2, <1>3 DEF R!Acquire, R!Enqueue

\* A job that a call of j moves, and where to.
LEMMA CallCalls ==
    ASSUME CallInv, NEW j \in Jobs, Call(j)
    PROVE  /\ CallInv'
           /\ \/ inflight'[j] \in InService' /\ \A k \in Jobs \ {j} : sends'[k] = sends[k]
              \/ UNCHANGED sends
<1>1. R!Preferred \in SUBSET Nodes /\ R!Preferred \subseteq InService
  BY PreferredServe
<1>2. InService' = InService
  BY DEF Call, poolVars, pool, InService, Primaries, Reserves, WithStatus
<1>3. CASE R!Route(j)
  BY <1>1, <1>2, <1>3, AcquireCalls DEF R!Route
<1>4. CASE R!Poll(j)
  BY <1>1, <1>2, <1>4, DispatchCalls DEF R!Poll
<1>5. CASE R!TimeOut(j)
  BY <1>5, SettledCalls DEF R!TimeOut, R!CallerStates
<1>6. CASE R!ReportSuccess(j)
  BY <1>6, SettledCalls DEF R!ReportSuccess, R!CallerStates
<1> QED
  BY <1>3, <1>4, <1>5, <1>6 DEF Call

LEMMA FailureReportCalls ==
    ASSUME CallInv, NEW j \in Jobs, NEW retry \in BOOLEAN, FailureReport(j, retry)
    PROVE  /\ CallInv'
           /\ \/ inflight'[j] \in InService' /\ \A k \in Jobs \ {j} : sends'[k] = sends[k]
              \/ UNCHANGED sends
<1>1. R!Preferred' \in SUBSET Nodes /\ R!Preferred' \subseteq InService'
  BY PreferredServe
<1>2. CASE retry
  BY <1>1, <1>2, AcquireCalls DEF FailureReport, R!AfterFailure
<1>3. CASE ~retry
  BY <1>3, SettledCalls DEF FailureReport, R!AfterFailure, R!CallerStates
<1> QED
  BY <1>2, <1>3

\* The other steps dispatch nobody.
LEMMA OtherCalls ==
    ASSUME CallInv,
           \/ \E j \in Jobs : FailureReportRaised(j)
           \/ Probes
           \/ \E away \in SUBSET R!Holding : CallersLeave(away)
           \/ \E cut \in SUBSET R!Holding : ActorRestart(cut)
           \/ UNCHANGED systemVars
    PROVE  CallInv' /\ UNCHANGED sends
<1>1. ASSUME NEW j \in Jobs, FailureReportRaised(j) PROVE CallInv' /\ UNCHANGED sends
  BY <1>1 DEF FailureReportRaised, R!ReportCut, CallInv, R!CallerStates, R!table
<1>2. ASSUME NEW away \in SUBSET R!Holding, CallersLeave(away)
      PROVE  CallInv' /\ UNCHANGED sends
  BY <1>2 DEF CallersLeave, R!Vanish, CallInv, R!CallerStates, R!table
<1>3. ASSUME NEW cut \in SUBSET R!Holding, ActorRestart(cut)
      PROVE  CallInv' /\ UNCHANGED sends
  BY <1>3 DEF ActorRestart, R!Forget, CallInv, R!CallerStates
<1>4. CASE Probes \/ UNCHANGED systemVars
  BY <1>4 DEF Probes, systemVars, callVars, CallInv
<1> QED
  BY <1>1, <1>2, <1>3, <1>4

LEMMA CallInvInit == SystemInit => CallInv
BY DEF SystemInit, R!RouterInit, CallInv, R!CallerStates

LEMMA CallInvStep == CallInv /\ [SystemNext]_systemVars => CallInv'
BY CallCalls, FailureReportCalls, OtherCalls DEF SystemNext

-----------------------------------------------------------------------------
(* The pool and the calls fit together. *)

\* A step of the router is one of its pool or leaves the pool alone.
LEMMA SystemStepOfPool == CallInv /\ [SystemNext]_systemVars => [PoolNext]_poolVars
<1> SUFFICES ASSUME CallInv, [SystemNext]_systemVars PROVE [PoolNext]_poolVars
  OBVIOUS
<1>1. ASSUME NEW j \in Jobs, caller[j] = "holding", HandleFailure(route[j])
      PROVE  [PoolNext]_poolVars
  <2>1. route[j] \in Nodes
    BY <1>1 DEF CallInv
  <2> QED
    BY <1>1, <2>1 DEF HandleFailure, PoolNext, PoolStep
<1>2. ASSUME NEW j \in Jobs, NEW retry \in BOOLEAN, FailureReport(j, retry)
      PROVE  [PoolNext]_poolVars
  BY <1>1, <1>2 DEF FailureReport
<1>3. ASSUME NEW j \in Jobs, FailureReportRaised(j) PROVE [PoolNext]_poolVars
  BY <1>1, <1>3 DEF FailureReportRaised, HandleFailure
<1>4. ASSUME NEW j \in Jobs, Call(j) PROVE UNCHANGED poolVars
  BY <1>4 DEF Call
<1>5. CASE Probes
  BY <1>5 DEF Probes, PoolNext, PoolStep
<1>6. CASE \/ \E away \in SUBSET R!Holding : CallersLeave(away)
           \/ \E cut \in SUBSET R!Holding : ActorRestart(cut)
           \/ UNCHANGED systemVars
  BY <1>6 DEF CallersLeave, ActorRestart, systemVars, PoolNext
<1> QED
  BY <1>2, <1>3, <1>4, <1>5, <1>6 DEF SystemNext

\* The calls do to the pool what RouterPool says, and nothing more: what is proved of the
\* pool holds of it while the router serves.
THEOREM SystemUsesPool == SystemSpec => PoolSpec
<1>1. SystemInit => PoolInit
  BY DEF SystemInit
<1> QED
  BY <1>1, CallInvInit, CallInvStep, SystemStepOfPool, PTL DEF SystemSpec, PoolSpec

\* Router's copies of the selections are those of the pool, and so are its departures.
LEMMA SameRoles ==
    /\ \A n \in Nodes : /\ Abstract!Leave(n) => R!Leave(n)
                        /\ Abstract!Return(n) => R!Return(n)
    /\ Abstract!StartAgain => R!StartAgain
    /\ Abstract!RolesInit => R!RolesInit
<1>1. \A S : R!Cardinality(S) = Abstract!Cardinality(S)
  BY DEF R!Cardinality, Abstract!Cardinality
<1>2. \A S : R!TopRanked(S) = Abstract!TopRanked(S)
  BY <1>1 DEF R!TopRanked, Abstract!TopRanked, R!Ahead, Abstract!Ahead
<1>3. \A n \in Nodes : Abstract!Leave(n) => R!Leave(n)
  BY <1>1 DEF Abstract!Leave, R!Leave
<1> QED
  BY <1>2, <1>3 DEF Abstract!Return, R!Return, Abstract!StartAgain, R!StartAgain,
                    Abstract!Assign, R!Assign, Abstract!RolesInit, R!RolesInit

\* _handle_failure is the failover Router takes it for: a node out of service is left
\* alone, one in service leaves.
LEMMA HandleFailureFails ==
    ASSUME PoolTypeOK, NEW n \in Nodes, HandleFailure(n)
    PROVE  R!FailNode(n) /\ (ReportedFailure(n) => R!Leave(n))
<1>1. n \in R!InService <=> ~Handled(n)
  BY ServingNotHandled DEF R!InService, InService
<1>2. CASE ReportedFailure(n)
  <2>1. R!Leave(n)
    BY <1>2, FailoverLeaves, SameRoles DEF ReportedFailure
  <2> QED
    BY <1>1, <1>2, <2>1 DEF R!FailNode, ReportedFailure
<1>3. CASE Handled(n) /\ UNCHANGED poolVars
  <2>1. UNCHANGED R!roles
    BY <1>3 DEF R!roles, poolVars, pool, Primaries, Reserves, WithStatus
  <2> QED
    BY <1>1, <1>3, <2>1 DEF R!FailNode, ReportedFailure
<1> QED
  BY <1>2, <1>3 DEF HandleFailure

\* A step of the router is one of Router or leaves the roles and the tables alone.
LEMMA SystemStepOfRouter ==
    PoolTypeOK /\ CallInv /\ [SystemNext]_systemVars => [R!Next]_(R!vars)
<1> SUFFICES ASSUME PoolTypeOK, CallInv, [SystemNext]_systemVars
             PROVE  [R!Next]_(R!vars)
  OBVIOUS
<1>1. ASSUME NEW j \in Jobs, Call(j) PROVE R!Next
  BY <1>1 DEF Call, R!Next, R!CallStep
<1>2. ASSUME NEW j \in Jobs, NEW retry \in BOOLEAN, FailureReport(j, retry) PROVE R!Next
  <2>1. R!FailNode(route[j])
    BY <1>2, HandleFailureFails DEF FailureReport, CallInv
  <2>2. R!ReportFailure(j, retry)
    BY <1>2, <2>1 DEF FailureReport, R!ReportFailure
  <2> QED
    BY <2>2 DEF R!Next, R!CallStep
<1>3. ASSUME NEW j \in Jobs, FailureReportRaised(j) PROVE R!Next
  <2>1. R!Leave(route[j])
    BY <1>3, HandleFailureFails DEF FailureReportRaised, HandleFailure, CallInv
  <2>2. R!ReportFailureRaised(j)
    BY <1>3, <2>1 DEF FailureReportRaised, R!ReportFailureRaised
  <2> QED
    BY <2>2 DEF R!Next, R!CallStep
<1>4. CASE Probes
  <2>1. PoolStep /\ UNCHANGED R!routerVars
    BY <1>4 DEF Probes, PoolStep, callVars, R!routerVars, R!table, R!callers
  <2>2. CASE UNCHANGED <<status, owed>>
    BY <2>1, <2>2 DEF R!vars, R!roles, Primaries, Reserves, WithStatus
  <2>3. CASE \E n \in Nodes : ~Handled(n) /\ Failover(n)
    BY <2>1, <2>3, FailoverLeaves, SameRoles DEF R!Next, R!HealthStep
  <2>4. CASE \E n \in Nodes : status[n] = "respawning" /\ HandleRecovery(n)
    BY <2>1, <2>4, RecoveryReturns, SameRoles DEF R!Next, R!HealthStep
  <2> QED
    BY <2>1, <2>2, <2>3, <2>4, PoolStepRoles
<1>5. ASSUME NEW away \in SUBSET R!Holding, CallersLeave(away) PROVE R!Next
  BY <1>5 DEF CallersLeave, R!Next
<1>6. ASSUME NEW cut \in SUBSET R!Holding, ActorRestart(cut) PROVE R!Next
  BY <1>6, RestartStartsAgain, SameRoles DEF ActorRestart, R!RouterRestart, R!Next
<1>7. CASE UNCHANGED systemVars
  BY <1>7 DEF systemVars, poolVars, pool, callVars, R!vars, R!roles, R!routerVars, R!table,
              R!callers, Primaries, Reserves, WithStatus
<1> QED
  BY <1>1, <1>2, <1>3, <1>4, <1>5, <1>6, <1>7 DEF SystemNext

\* The pool comes and goes as Router takes it to: what is proved of Router holds of the
\* calls on the pool there is.
THEOREM SystemUsesRouter == SystemSpec => KeepsRouter
<1>1. SystemInit => R!Init
  BY RotationInit, SameRoles DEF SystemInit, R!Init
<1>2. SystemInit => PoolTypeOK /\ CallInv
  BY InitTypeOK, CallInvInit DEF SystemInit
<1>3. PoolTypeOK /\ CallInv /\ [SystemNext]_systemVars => (PoolTypeOK /\ CallInv)'
  BY SystemStepOfPool, TypeStep, CallInvStep
<1> QED
  BY <1>1, <1>2, <1>3, SystemStepOfRouter, PTL DEF SystemSpec, KeepsRouter, R!Spec

\* No job is dispatched to a node that is being restarted or has missed its probes: the
\* standings a pick reads are those of the moment, through failovers of its own report
\* and of others.
THEOREM DispatchesLive == SystemSpec => DispatchesToLiving
<1>1. ASSUME CallInv, [SystemNext]_systemVars, NEW j \in Jobs, R!Dispatched(j)
      PROVE  inflight'[j] \in InService'
  <2>1. \A k \in Jobs : sends[k] \in Nat
    BY <1>1 DEF CallInv
  <2>2. sends'[j] # sends[j]
    BY <1>1, <2>1 DEF R!Dispatched
  <2> QED
    BY <1>1, <2>2, CallCalls, FailureReportCalls, OtherCalls DEF SystemNext
<1>2. ASSUME CallInv, InServiceBelowThreshold', OneStartPerOutage', [SystemNext]_systemVars,
             NEW j \in Jobs, R!Dispatched(j)
      PROVE  /\ inflight'[j] \in InService'
             /\ failures'[inflight'[j]] < Threshold
             /\ owed'[inflight'[j]] = 0
  <2>1. inflight'[j] \in InService'
    BY <1>1, <1>2
  <2>2. inflight'[j] \in Nodes /\ status'[inflight'[j]] # "respawning"
    BY <2>1 DEF InService, Primaries, Reserves, WithStatus
  <2> QED
    BY <1>2, <2>1, <2>2 DEF InServiceBelowThreshold, OneStartPerOutage
<1>3. CallInv /\ InServiceBelowThreshold' /\ OneStartPerOutage' /\ [SystemNext]_systemVars =>
         [\A j \in Jobs : R!Dispatched(j) =>
             /\ inflight'[j] \in InService'
             /\ failures'[inflight'[j]] < Threshold
             /\ owed'[inflight'[j]] = 0]_systemVars
  BY <1>2
<1>4. SystemSpec => []InServiceBelowThreshold /\ []OneStartPerOutage
  BY SystemUsesPool, BelowThreshold, OneStart, PTL
<1> QED
  BY <1>3, <1>4, CallInvInit, CallInvStep, PTL DEF SystemSpec, DispatchesToLiving

-----------------------------------------------------------------------------
(* What RouterProofs proves of Router, said of the actor whole.  The theorems come with *)
(* an instance of Router of their own, whose definitions are those of R; the history of *)
(* RouterTurns plays no part in them.                                                   *)

RP == INSTANCE RouterProofs
        WITH primaries <- Primaries, reserves <- Reserves,
             base <- {}, turn <- {}, before <- [j \in Jobs |-> {}]

LEMMA SameRouter == R!Spec => RP!Spec
BY PTL
   DEF R!vars, RP!vars, R!roles, RP!roles, R!routerVars, RP!routerVars, R!table, RP!table,
       R!callers, RP!callers, R!InService, RP!InService, R!Active, RP!Active, R!Preferred,
       RP!Preferred, R!Ahead, RP!Ahead, R!Cardinality, RP!Cardinality, R!Picked, RP!Picked,
       R!Spec, RP!Spec, R!Init, RP!Init, R!RolesInit, RP!RolesInit, R!RouterInit,
       RP!RouterInit, R!Next, RP!Next, R!CallStep, RP!CallStep, R!HealthStep, RP!HealthStep,
       R!Route, RP!Route, R!ReportSuccess, RP!ReportSuccess, R!ReportFailure,
       RP!ReportFailure, R!ReportFailureRaised, RP!ReportFailureRaised, R!Poll, RP!Poll,
       R!TimeOut, RP!TimeOut, R!Vanish, RP!Vanish, R!RouterRestart, RP!RouterRestart,
       R!Forget, RP!Forget, R!StartAgain, RP!StartAgain, R!Holding, RP!Holding, R!ReportCut,
       RP!ReportCut, R!AfterFailure, RP!AfterFailure, R!MayRetry, RP!MayRetry, R!FailNode,
       RP!FailNode, R!Leave, RP!Leave, R!Return, RP!Return, R!Assign, RP!Assign,
       R!TopRanked, RP!TopRanked, R!Observed, RP!Observed, R!Acquire, RP!Acquire, R!Enqueue,
       RP!Enqueue, R!QueueFull, RP!QueueFull, R!Dispatch, RP!Dispatch, R!Settled,
       RP!Settled, R!Cleared, RP!Cleared, R!NextPointer, RP!NextPointer, R!AtHead,
       RP!AtHead, R!LeaveQueue, RP!LeaveQueue, R!RemoveFirst, RP!RemoveFirst, R!RemoveAt,
       RP!RemoveAt, R!SelectInSeq, RP!SelectInSeq, R!Min, RP!Min

LEMMA SameProperties ==
    /\ []RP!QueueHoldsWaiters /\ []RP!InflightAccounted /\ []RP!HeadCanGo
          => []R!QueueHoldsWaiters /\ []R!InflightAccounted /\ []R!HeadCanGo
    /\ RP!RoutesToFitNode => R!RoutesToFitNode
    /\ RP!RetryLeavesFailedNode => R!RetryLeavesFailedNode
BY PTL
   DEF R!vars, RP!vars, R!roles, RP!roles, R!routerVars, RP!routerVars, R!table, RP!table,
       R!callers, RP!callers, R!InService, RP!InService, R!Active, RP!Active, R!Preferred,
       RP!Preferred, R!Ahead, RP!Ahead, R!Cardinality, RP!Cardinality, R!Picked, RP!Picked,
       R!QueueHoldsWaiters, RP!QueueHoldsWaiters, R!ToSet, RP!ToSet, R!IsInjective,
       RP!IsInjective, R!InflightAccounted, RP!InflightAccounted, R!HeadCanGo, RP!HeadCanGo,
       R!RoutesToFitNode, RP!RoutesToFitNode, R!RetryLeavesFailedNode,
       RP!RetryLeavesFailedNode, R!Dispatched, RP!Dispatched

\* The assumptions of RouterProofs are those made here.
LEMMA Assumed ==
    /\ RP!IsFiniteSet(Nodes)
    /\ /\ Priority \in [Nodes -> Nat]
       /\ \A m, n \in Nodes : Priority[m] = Priority[n] => m = n
    /\ PrimaryCount \in Nat \ {0}
    /\ /\ NoNode \notin Nodes
       /\ QueueMax \in Nat
       /\ Queueing \in BOOLEAN
       /\ SlaOn \in BOOLEAN
       /\ MaxSends \in Nat \ {0}
BY NodesAssumption, PriorityAssumption, CountAssumption, SystemAssumption
   DEF IsFiniteSet, RP!IsFiniteSet

\* What is said of the calls under any failovers Rotation allows holds of them on the pool
\* there is, its probes and starts: the queue holds its waiters, the table is accounted
\* for, the head of the queue can be served, and routes are to fit nodes and leave the one
\* that failed.
THEOREM SystemKeepsCalls ==
    SystemSpec => /\ []R!QueueHoldsWaiters /\ []R!InflightAccounted /\ []R!HeadCanGo
                  /\ R!RoutesToFitNode /\ R!RetryLeavesFailedNode
<1>1. RP!Spec => []RP!QueueHoldsWaiters
  BY RP!QueueIsWaiters, Assumed
<1>2. RP!Spec => []RP!InflightAccounted
  BY RP!InflightIsAccounted, Assumed
<1>3. RP!Spec => []RP!HeadCanGo
  BY RP!HeadReady, Assumed
<1>4. RP!Spec => RP!RoutesToFitNode
  BY RP!RoutesFit, Assumed
<1>5. RP!Spec => RP!RetryLeavesFailedNode
  BY RP!RetryLeaves, Assumed
<1> QED
  BY <1>1, <1>2, <1>3, <1>4, <1>5, SameRouter, SameProperties, SystemUsesRouter, PTL
     DEF KeepsRouter

=============================================================================
