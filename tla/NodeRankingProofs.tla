-------------------------- MODULE NodeRankingProofs --------------------------
(***************************************************************************)
(* Facts about the selections of NodeRanking, for every set of nodes.       *)
(***************************************************************************)
EXTENDS NodeRanking, FiniteSetTheorems, TLAPS

\* Every subset of the nodes is finite, and so is what stands ahead of a node.
LEMMA FiniteNodes ==
    ASSUME NEW S \in SUBSET Nodes
    PROVE  IsFiniteSet(S) /\ Cardinality(S) \in Nat
BY NodesAssumption, FS_Subset, FS_CardinalityType

\* Two nodes have different numbers of nodes ahead of them: a position of the
\* sorted list belongs to one node.
LEMMA PositionsDiffer ==
    ASSUME NEW S \in SUBSET Nodes, NEW m \in S, NEW n \in S, m # n
    PROVE  Cardinality(Ahead(S, m)) # Cardinality(Ahead(S, n))
<1>1. ASSUME NEW a \in S, NEW b \in S, Priority[a] < Priority[b]
      PROVE  Cardinality(Ahead(S, a)) < Cardinality(Ahead(S, b))
  <2>1. Ahead(S, a) \in SUBSET Ahead(S, b)
    BY <1>1, PriorityAssumption DEF Ahead
  <2>2. a \in Ahead(S, b) /\ a \notin Ahead(S, a)
    BY <1>1, PriorityAssumption DEF Ahead
  <2>3. Ahead(S, a) \in SUBSET Nodes /\ Ahead(S, b) \in SUBSET Nodes
    BY DEF Ahead
  <2>4. /\ IsFiniteSet(Ahead(S, b))
        /\ Cardinality(Ahead(S, a)) \in Nat
        /\ Cardinality(Ahead(S, b)) \in Nat
    BY <2>3, FiniteNodes
  <2>5. /\ Cardinality(Ahead(S, a)) <= Cardinality(Ahead(S, b))
        /\ Cardinality(Ahead(S, b)) = Cardinality(Ahead(S, a))
               => Ahead(S, b) = Ahead(S, a)
    BY <2>1, <2>4, FS_Subset
  <2>6. QED
    BY <2>2, <2>4, <2>5
<1>2. Ahead(S, m) \in SUBSET Nodes /\ Ahead(S, n) \in SUBSET Nodes
  BY DEF Ahead
<1>3. Cardinality(Ahead(S, m)) \in Nat /\ Cardinality(Ahead(S, n)) \in Nat
  BY <1>2, FiniteNodes
<1>4. Priority[m] < Priority[n] \/ Priority[n] < Priority[m]
  BY PriorityAssumption
<1>5. QED
  BY <1>1, <1>3, <1>4

\* reconcile_primaries and _build_nodes name at most primary_count primaries.
LEMMA TopRankedBounded ==
    ASSUME NEW S \in SUBSET Nodes
    PROVE  /\ TopRanked(S) \in SUBSET S
           /\ Cardinality(TopRanked(S)) <= PrimaryCount
<1> DEFINE T == TopRanked(S)
           seats == 0..(PrimaryCount - 1)
           seat == [n \in T |-> Cardinality(Ahead(S, n))]
<1>1. T \in SUBSET S
  BY DEF TopRanked
<1>2. IsFiniteSet(T) /\ Cardinality(T) \in Nat
  BY <1>1, FiniteNodes
<1>3. seat \in [T -> seats]
  <2>1. SUFFICES ASSUME NEW n \in T
                 PROVE  Cardinality(Ahead(S, n)) \in seats
    OBVIOUS
  <2>2. Ahead(S, n) \in SUBSET Nodes
    BY DEF Ahead
  <2>3. Cardinality(Ahead(S, n)) \in Nat
    BY <2>2, FiniteNodes
  <2>4. QED
    BY <2>3, CountAssumption DEF TopRanked
<1>4. \A m, n \in T : m # n => seat[m] # seat[n]
  BY <1>1, PositionsDiffer
<1>5. IsFiniteSet(seats) /\ Cardinality(seats) = PrimaryCount
  <2>1. 0 \in Int /\ PrimaryCount - 1 \in Int /\ ~(0 > PrimaryCount - 1)
    BY CountAssumption
  <2>2. Cardinality(seats) = (PrimaryCount - 1) - 0 + 1
    BY <2>1, FS_Interval
  <2>3. QED
    BY <2>1, <2>2, FS_Interval, CountAssumption
<1>6. ~ Cardinality(seats) < Cardinality(T)
  <2>1. SUFFICES ASSUME Cardinality(seats) < Cardinality(T) PROVE FALSE
    OBVIOUS
  <2> HIDE DEF T, seats, seat
  <2>2. \E m, n \in T : m # n /\ seat[m] = seat[n]
    BY <2>1, <1>2, <1>3, <1>5, FS_PigeonHole
  <2>3. QED
    BY <2>2, <1>4
<1>7. QED
  BY <1>1, <1>2, <1>5, <1>6, CountAssumption

\* Of the nodes of a set at most one is the best.
LEMMA BestIsOne ==
    ASSUME NEW S \in SUBSET Nodes
    PROVE  /\ BestOf(S) \in SUBSET S
           /\ \A m, n \in BestOf(S) : m = n
           /\ IsFiniteSet(BestOf(S))
           /\ Cardinality(BestOf(S)) \in {0, 1}
<1>1. BestOf(S) \in SUBSET S
  BY DEF BestOf
<1>2. \A m, n \in BestOf(S) : m = n
  <2>1. SUFFICES ASSUME NEW m \in BestOf(S), NEW n \in BestOf(S) PROVE m = n
    OBVIOUS
  <2>2. ~(Priority[m] < Priority[n]) /\ ~(Priority[n] < Priority[m])
    BY <1>1 DEF BestOf, Ahead
  <2>3. QED
    BY <1>1, <2>2, PriorityAssumption
<1>3. IsFiniteSet(BestOf(S))
  BY <1>1, FiniteNodes
<1>4. BestOf(S) = {} \/ \E m \in BestOf(S) : BestOf(S) = {m}
  BY <1>2
<1>5. Cardinality(BestOf(S)) \in {0, 1}
  BY <1>4, FS_EmptySet, FS_Singleton
<1>6. QED
  BY <1>1, <1>2, <1>3, <1>5

\* A node of a set has a position in its sorted list.
LEMMA PositionInList ==
    ASSUME NEW S \in SUBSET Nodes, NEW n \in S
    PROVE  Cardinality(Ahead(S, n)) \in 0..(Cardinality(S) - 1)
<1>1. IsFiniteSet(S) /\ Cardinality(S) \in Nat
  BY FiniteNodes
<1>2. Ahead(S, n) \in SUBSET S /\ n \notin Ahead(S, n)
  BY PriorityAssumption DEF Ahead
<1>3. IsFiniteSet(Ahead(S, n)) /\ Cardinality(Ahead(S, n)) \in Nat
  BY <1>2, FiniteNodes
<1>4. /\ Cardinality(Ahead(S, n)) <= Cardinality(S)
      /\ Cardinality(S) = Cardinality(Ahead(S, n)) => S = Ahead(S, n)
  BY <1>1, <1>2, FS_Subset
<1> QED
  BY <1>1, <1>2, <1>3, <1>4

\* The list sorted by priority has a node at every position.
LEMMA PositionTaken ==
    ASSUME NEW S \in SUBSET Nodes, NEW k \in 0..(Cardinality(S) - 1)
    PROVE  \E n \in S : Cardinality(Ahead(S, n)) = k
<1> DEFINE positions == 0..(Cardinality(S) - 1)
           place == [n \in S |-> Cardinality(Ahead(S, n))]
<1>1. IsFiniteSet(S) /\ Cardinality(S) \in Nat
  BY FiniteNodes
<1>2. place \in [S -> positions]
  BY PositionInList
<1>3. IsFiniteSet(positions) /\ Cardinality(positions) = Cardinality(S)
  <2>1. 0 \in Int /\ Cardinality(S) - 1 \in Int /\ ~(0 > Cardinality(S) - 1)
    BY <1>1
  <2>2. /\ IsFiniteSet(positions)
        /\ Cardinality(positions) = IF 0 > Cardinality(S) - 1 THEN 0
                                    ELSE (Cardinality(S) - 1) - 0 + 1
    BY <2>1, FS_Interval
  <2> HIDE DEF positions
  <2>3. QED
    BY <1>1, <2>1, <2>2
<1>4. place \in Injection(S, positions)
  BY <1>2, PositionsDiffer DEF Injection, IsInjective
<1> HIDE DEF place, positions
<1>5. place \in Surjection(S, positions)
  BY <1>1, <1>3, <1>4, FS_Injection
<1>6. \E n \in S : place[n] = k
  BY <1>5 DEF Surjection, positions
<1>7. QED
  BY <1>6 DEF place

\* A set with a node in it has a best one.
LEMMA BestExists ==
    ASSUME NEW S \in SUBSET Nodes, S # {}
    PROVE  BestOf(S) # {}
<1>1. IsFiniteSet(S) /\ Cardinality(S) \in Nat /\ Cardinality(S) # 0
  BY FiniteNodes, FS_EmptySet
<1>2. PICK n \in S : Cardinality(Ahead(S, n)) = 0
  BY <1>1, PositionTaken
<1>3. IsFiniteSet(Ahead(S, n))
  BY FiniteNodes DEF Ahead
<1>4. QED
  BY <1>2, <1>3, FS_EmptySet DEF BestOf

=============================================================================
