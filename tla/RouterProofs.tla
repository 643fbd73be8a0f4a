---------------------------- MODULE RouterProofs ----------------------------
(***************************************************************************)
(* Proofs about Router and the history RouterTurns keeps of it, for any     *)
(* nodes, any callers, a queue of any length and any number of tries.       *)
(***************************************************************************)
EXTENDS RouterTurns, NodeRankingProofs, SequenceTheorems

-----------------------------------------------------------------------------
(* Sequences without repetition: what joining and leaving a queue does. *)

LEMMA Appended ==
    ASSUME NEW S, NEW s \in Seq(S), NEW e \in S, IsInjective(s), e \notin ToSet(s)
    PROVE  /\ Append(s, e) \in Seq(S)
           /\ Len(Append(s, e)) = Len(s) + 1
           /\ ToSet(Append(s, e)) = ToSet(s) \cup {e}
           /\ IsInjective(Append(s, e))
<1> DEFINE t == Append(s, e)
<1>1. /\ t \in Seq(S) /\ Len(t) = Len(s) + 1
      /\ DOMAIN t = 1..(Len(s) + 1) /\ DOMAIN s = 1..Len(s)
      /\ \A i \in 1..Len(s) : t[i] = s[i]
      /\ t[Len(s) + 1] = e
      /\ Len(s) \in Nat
  OBVIOUS
<1>2. \A i \in 1..Len(s) : s[i] # e
  BY <1>1 DEF ToSet
<1> HIDE DEF t
<1>3. ToSet(t) = ToSet(s) \cup {e}
  <2>1. ASSUME NEW i \in DOMAIN t PROVE t[i] \in ToSet(s) \cup {e}
    <3>1. CASE i \in 1..Len(s)
      BY <1>1, <3>1 DEF ToSet
    <3>2. CASE i = Len(s) + 1
      BY <1>1, <3>2
    <3> QED
      BY <1>1, <3>1, <3>2
  <2>2. ASSUME NEW i \in DOMAIN s PROVE s[i] \in ToSet(t)
    BY <1>1 DEF ToSet
  <2>3. e \in ToSet(t)
    <3>1. Len(s) + 1 \in DOMAIN t
      BY <1>1
    <3> QED
      BY <1>1, <3>1 DEF ToSet
  <2> QED
    BY <2>1, <2>2, <2>3 DEF ToSet
<1>4. IsInjective(t)
  <2>1. SUFFICES ASSUME NEW a \in DOMAIN t, NEW b \in DOMAIN t, t[a] = t[b]
                 PROVE  a = b
    BY DEF IsInjective
  <2>2. CASE a \in 1..Len(s) /\ b \in 1..Len(s)
    BY <1>1, <2>1, <2>2 DEF IsInjective
  <2>3. CASE a = Len(s) + 1 \/ b = Len(s) + 1
    BY <1>1, <1>2, <2>1, <2>3
  <2> QED
    BY <1>1, <2>2, <2>3
<1> QED
  BY <1>1, <1>3, <1>4 DEF t

\* RemoveFirst takes out the one occurrence there is.
LEMMA RemovedAt ==
    ASSUME NEW S, NEW s \in Seq(S), IsInjective(s), NEW i \in 1..Len(s)
    PROVE  RemoveFirst(s, s[i]) = SubSeq(s, 1, i - 1) \o SubSeq(s, i + 1, Len(s))
<1>1. {k \in 1..Len(s) : s[k] = s[i]} = {i}
  BY DEF IsInjective
<1>2. Min({i}) = i
  BY DEF Min
<1>3. SelectInSeq(s, LAMBDA v : v = s[i]) = i
  BY <1>1, <1>2 DEF SelectInSeq
<1> QED
  BY <1>3 DEF RemoveFirst, RemoveAt

\* Those behind the one taken out move up one place.
LEMMA RemovedPlaces ==
    ASSUME NEW S, NEW s \in Seq(S), IsInjective(s), NEW i \in 1..Len(s)
    PROVE  /\ RemoveFirst(s, s[i]) \in Seq(S)
           /\ Len(RemoveFirst(s, s[i])) = Len(s) - 1
           /\ DOMAIN RemoveFirst(s, s[i]) = 1..(Len(s) - 1)
           /\ \A k \in 1..(Len(s) - 1) :
                 RemoveFirst(s, s[i])[k] = s[IF k < i THEN k ELSE k + 1]
<1> DEFINE t == SubSeq(s, 1, i - 1) \o SubSeq(s, i + 1, Len(s))
<1>2. RemoveFirst(s, s[i]) = t
  BY RemovedAt
<1> DEFINE u == SubSeq(s, 1, i - 1)
           v == SubSeq(s, i + 1, Len(s))
<1>3. /\ u \in Seq(S) /\ Len(u) = i - 1 /\ \A k \in 1..(i - 1) : u[k] = s[k]
      /\ v \in Seq(S) /\ Len(v) = Len(s) - i
      /\ \A k \in 1..(Len(s) - i) : v[k] = s[i + k]
      /\ Len(s) \in Nat /\ DOMAIN s = 1..Len(s)
  OBVIOUS
<1> HIDE DEF u, v
<1>4. /\ t \in Seq(S) /\ Len(t) = Len(s) - 1 /\ DOMAIN t = 1..(Len(s) - 1)
      /\ \A k \in 1..(Len(s) - 1) : t[k] = IF k < i THEN u[k] ELSE v[k - (i - 1)]
  <2>1. t = u \o v
    BY DEF u, v
  <2> HIDE DEF t
  <2>2. /\ t \in Seq(S) /\ Len(t) = Len(u) + Len(v)
        /\ \A k \in 1..(Len(u) + Len(v)) :
              t[k] = IF k <= Len(u) THEN u[k] ELSE v[k - Len(u)]
    BY <1>3, <2>1, ConcatProperties
  <2>3. Len(u) + Len(v) = Len(s) - 1 /\ \A k \in Nat : k <= Len(u) <=> k < i
    BY <1>3
  <2>4. DOMAIN t = 1..Len(t)
    BY <2>2
  <2>5. ASSUME NEW k \in 1..(Len(s) - 1)
        PROVE  t[k] = IF k < i THEN u[k] ELSE v[k - (i - 1)]
    <3>1. k \in 1..(Len(u) + Len(v)) /\ (k <= Len(u) <=> k < i) /\ Len(u) = i - 1
      BY <1>3, <2>3
    <3> QED
      BY <2>2, <3>1
  <2> QED
    BY <2>2, <2>3, <2>4, <2>5
<1>5. \A k \in 1..(Len(s) - 1) : t[k] = s[IF k < i THEN k ELSE k + 1]
  <2> HIDE DEF t
  <2>1. ASSUME NEW k \in 1..(Len(s) - 1), k < i PROVE t[k] = s[k]
    BY <1>3, <1>4, <2>1
  <2>2. ASSUME NEW k \in 1..(Len(s) - 1), ~(k < i) PROVE t[k] = s[k + 1]
    <3>1. k - (i - 1) \in 1..(Len(s) - i) /\ i + (k - (i - 1)) = k + 1
      BY <1>3, <2>2
    <3> QED
      BY <1>3, <1>4, <2>2, <3>1
  <2> QED
    BY <2>1, <2>2
<1> QED
  BY <1>2, <1>4, <1>5

LEMMA Removed ==
    ASSUME NEW S, NEW s \in Seq(S), NEW e \in ToSet(s), IsInjective(s)
    PROVE  /\ RemoveFirst(s, e) \in Seq(S)
           /\ Len(RemoveFirst(s, e)) = Len(s) - 1
           /\ ToSet(RemoveFirst(s, e)) = ToSet(s) \ {e}
           /\ IsInjective(RemoveFirst(s, e))
<1>1. PICK i \in 1..Len(s) : s[i] = e
  BY DEF ToSet
<1> DEFINE t == RemoveFirst(s, e)
<1>3. Len(s) \in Nat /\ DOMAIN s = 1..Len(s)
  OBVIOUS
<1>4. t \in Seq(S) /\ Len(t) = Len(s) - 1 /\ DOMAIN t = 1..(Len(s) - 1)
  BY <1>1, RemovedPlaces
<1>5. \A k \in 1..(Len(s) - 1) : t[k] = s[IF k < i THEN k ELSE k + 1]
  BY <1>1, RemovedPlaces
<1> HIDE DEF t
<1>6. ASSUME NEW k \in 1..(Len(s) - 1)
      PROVE  t[k] \in ToSet(s) /\ t[k] # e
  <2>1. (IF k < i THEN k ELSE k + 1) \in DOMAIN s
    BY <1>3
  <2>2. (IF k < i THEN k ELSE k + 1) # i
    BY <1>3
  <2> QED
    BY <1>1, <1>3, <1>5, <2>1, <2>2 DEF ToSet, IsInjective
<1>7. ASSUME NEW m \in 1..Len(s), s[m] # e PROVE s[m] \in ToSet(t)
  <2>1. m # i
    BY <1>1, <1>7
  <2>2. CASE m < i
    <3>1. m \in 1..(Len(s) - 1) /\ t[m] = s[m]
      BY <1>3, <1>5, <2>2
    <3> QED
      BY <1>4, <3>1 DEF ToSet
  <2>3. CASE m > i
    <3>1. m - 1 \in 1..(Len(s) - 1) /\ t[m - 1] = s[m]
      BY <1>3, <1>5, <2>3
    <3> QED
      BY <1>4, <3>1 DEF ToSet
  <2> QED
    BY <2>1, <2>2, <2>3
<1>8. ToSet(t) = ToSet(s) \ {e}
  <2>1. \A x \in ToSet(t) : \E k \in 1..(Len(s) - 1) : x = t[k]
    BY <1>4 DEF ToSet
  <2>2. \A x \in ToSet(s) : \E m \in 1..Len(s) : x = s[m]
    BY <1>3 DEF ToSet
  <2> QED
    BY <1>6, <1>7, <2>1, <2>2
<1>9. IsInjective(t)
  <2>1. SUFFICES ASSUME NEW a \in 1..(Len(s) - 1), NEW b \in 1..(Len(s) - 1), t[a] = t[b]
                 PROVE  a = b
    BY <1>4 DEF IsInjective
  <2> DEFINE orig(k) == IF k < i THEN k ELSE k + 1
  <2>2. orig(a) \in DOMAIN s /\ orig(b) \in DOMAIN s
    BY <1>3
  <2>3. s[orig(a)] = s[orig(b)]
    BY <1>5, <2>1
  <2>4. orig(a) = orig(b)
    BY <2>2, <2>3 DEF IsInjective
  <2> QED
    BY <2>4
<1> QED
  BY <1>4, <1>8, <1>9 DEF t

-----------------------------------------------------------------------------
(* Types.  A waiter still has a send left, which bounds the sends of a caller, and
   one with a request under way has been given a node to send it to. *)

RolesOK == primaries \in SUBSET Nodes /\ reserves \in SUBSET Nodes

CallersOK ==
    \A j \in Jobs : /\ caller[j] = "new" => sends[j] = 0
                    /\ caller[j] = "waiting" => sends[j] < MaxSends
                    /\ caller[j] = "holding" => route[j] \in Nodes

TypeInv == RolesOK /\ RouterTypeOK /\ CallersOK

LEMMA PreferredNodes ==
    ASSUME RolesOK
    PROVE  Preferred \in SUBSET Nodes
BY DEF RolesOK, Preferred, Active

LEMMA RolesKept == RolesOK /\ [RolesNext]_roles => RolesOK'
BY DEF RolesOK, RolesNext, Leave, Return, StartAgain, Assign, TopRanked, roles

\* What a dispatch does, typed.
LEMMA DispatchTyped ==
    ASSUME TypeInv, NEW j \in Jobs, NEW S \in SUBSET Nodes, Dispatch(j, S),
           sends[j] < MaxSends
    PROVE  /\ pointer' \in Nat
           /\ inflight' \in [Jobs -> Nodes \cup {NoNode}]
           /\ attempts' \in [Jobs -> Nat]
           /\ caller' \in [Jobs -> CallerStates]
           /\ route' \in [Jobs -> Nodes \cup {NoNode}]
           /\ sends' \in [Jobs -> 0..MaxSends]
<1> USE DEF TypeInv, RouterTypeOK, Dispatch
<1>1. pointer' \in Nat
  <2>1. PICK n \in S : Picked(S, n)
    OBVIOUS
  <2>2. IsFiniteSet(S) /\ Cardinality(S) \in Nat
    BY FiniteNodes
  <2>3. Cardinality(S) # 0
    BY <2>1, <2>2, FS_EmptySet
  <2>4. pointer' = (pointer + 1) % Cardinality(S)
    BY DEF NextPointer
  <2> QED
    BY <2>2, <2>3, <2>4
<1>2. sends' \in [Jobs -> 0..MaxSends]
  BY RouterAssumption
<1> QED
  BY <1>1, <1>2 DEF CallerStates

LEMMA SettledTyped ==
    ASSUME TypeInv, NEW j \in Jobs, NEW outcome \in CallerStates, Settled(j, outcome)
    PROVE  /\ pointer' \in Nat
           /\ inflight' \in [Jobs -> Nodes \cup {NoNode}]
           /\ attempts' \in [Jobs -> Nat]
           /\ caller' \in [Jobs -> CallerStates]
           /\ route' \in [Jobs -> Nodes \cup {NoNode}]
           /\ sends' \in [Jobs -> 0..MaxSends]
BY DEF TypeInv, RouterTypeOK, Settled, Cleared

\* Asking for a node keeps the types, whatever comes of it.
LEMMA AcquireTyped ==
    ASSUME TypeInv, NEW j \in Jobs, NEW S \in SUBSET Nodes, Acquire(j, S),
           sends[j] < MaxSends
    PROVE  /\ pointer' \in Nat
           /\ inflight' \in [Jobs -> Nodes \cup {NoNode}]
           /\ attempts' \in [Jobs -> Nat]
           /\ queue' \in Seq(Jobs)
           /\ caller' \in [Jobs -> CallerStates]
           /\ route' \in [Jobs -> Nodes \cup {NoNode}]
           /\ sends' \in [Jobs -> 0..MaxSends]
           /\ CallersOK'
<1> USE DEF TypeInv
<1>1. CASE Dispatch(j, S) /\ UNCHANGED queue
  <2>1. CallersOK'
    BY <1>1 DEF CallersOK, Dispatch, RouterTypeOK
  <2> QED
    BY <1>1, <2>1, DispatchTyped DEF RouterTypeOK
<1>2. CASE Settled(j, "rejected") /\ UNCHANGED queue
  <2>1. CallersOK'
    BY <1>2 DEF CallersOK, Settled, RouterTypeOK
  <2> QED
    BY <1>2, <2>1, SettledTyped DEF RouterTypeOK, CallerStates
<1>3. CASE /\ queue' = Append(queue, j)
           /\ caller' = [caller EXCEPT ![j] = "waiting"]
           /\ UNCHANGED <<pointer, table, route, sends>>
  <2>1. CallersOK'
    BY <1>3 DEF CallersOK, RouterTypeOK
  <2> QED
    BY <1>3, <2>1 DEF RouterTypeOK, table, CallerStates
<1> QED
  BY <1>1, <1>2, <1>3 DEF Acquire, Enqueue

\* Leaving the queue keeps its type; that takes that the leaver is in it, once.
LEMMA LeftTyped ==
    ASSUME TypeInv, QueueHoldsWaiters, NEW j \in Jobs, caller[j] = "waiting", LeaveQueue(j)
    PROVE  /\ queue' \in Seq(Jobs)
           /\ Len(queue') = Len(queue) - 1
           /\ ToSet(queue') = ToSet(queue) \ {j}
           /\ IsInjective(queue')
<1>1. queue \in Seq(Jobs) /\ j \in ToSet(queue) /\ IsInjective(queue)
  BY DEF TypeInv, RouterTypeOK, QueueHoldsWaiters
<1> QED
  BY <1>1, Removed DEF LeaveQueue

LEMMA TypeInit == Init => TypeInv
<1> SUFFICES ASSUME Init PROVE TypeInv
  OBVIOUS
<1> USE DEF Init, RolesInit, RouterInit
<1>1. RolesOK
  BY DEF RolesOK, TopRanked
<1>2. RouterTypeOK
  BY RouterAssumption DEF RouterTypeOK, CallerStates
<1>3. CallersOK
  BY DEF CallersOK
<1> QED
  BY <1>1, <1>2, <1>3 DEF TypeInv

LEMMA TypeStep == TypeInv /\ QueueHoldsWaiters /\ [Next]_vars => TypeInv'
<1> SUFFICES ASSUME TypeInv, QueueHoldsWaiters, [Next]_vars PROVE TypeInv'
  OBVIOUS
<1>0. RolesOK' /\ Preferred \in SUBSET Nodes /\ (Preferred \in SUBSET Nodes)'
  <2>1. [RolesNext]_roles
    BY DEF Next, CallStep, HealthStep, Route, ReportSuccess, ReportFailure, FailNode,
           ReportFailureRaised, Vanish, Poll, TimeOut, RouterRestart, RolesNext, vars,
           TypeInv, RouterTypeOK, RolesOK, Leave, InService
  <2>2. RolesOK'
    BY <2>1, RolesKept DEF TypeInv
  <2> QED
    BY <2>2, PreferredNodes, PTL DEF TypeInv
<1> USE DEF TypeInv
<1>1. ASSUME NEW j \in Jobs, Route(j) PROVE TypeInv'
  <2>1. sends[j] < MaxSends
    BY <1>1, RouterAssumption DEF Route, CallersOK
  <2> QED
    BY <1>0, <1>1, <2>1, AcquireTyped DEF Route, RouterTypeOK
<1>2. ASSUME NEW j \in Jobs, ReportSuccess(j) PROVE TypeInv'
  <2>1. Settled(j, "served") /\ UNCHANGED queue
    BY <1>2 DEF ReportSuccess
  <2>2. slow' \in SUBSET Nodes
    <3>1. route[j] \in Nodes
      BY <1>2 DEF ReportSuccess, CallersOK
    <3> QED
      BY <1>2, <3>1 DEF ReportSuccess, Observed, RouterTypeOK
  <2>3. CallersOK'
    BY <2>1 DEF CallersOK, Settled, RouterTypeOK
  <2> QED
    BY <1>0, <2>1, <2>2, <2>3, SettledTyped DEF RouterTypeOK, CallerStates
<1>3. ASSUME NEW j \in Jobs, NEW retry \in BOOLEAN, ReportFailure(j, retry) PROVE TypeInv'
  <2>1. CASE retry
    <3>1. sends[j] < MaxSends /\ Acquire(j, Preferred') /\ UNCHANGED slow
      BY <1>3, <2>1 DEF ReportFailure, AfterFailure, MayRetry
    <3> QED
      BY <1>0, <3>1, AcquireTyped DEF RouterTypeOK
  <2>2. CASE ~retry
    <3>1. Settled(j, "gaveup") /\ UNCHANGED <<queue, slow>>
      BY <1>3, <2>2 DEF ReportFailure, AfterFailure
    <3>2. CallersOK'
      BY <3>1 DEF CallersOK, Settled, RouterTypeOK
    <3> QED
      BY <1>0, <3>1, <3>2, SettledTyped DEF RouterTypeOK, CallerStates
  <2> QED
    BY <2>1, <2>2
<1>4. ASSUME NEW j \in Jobs, ReportFailureRaised(j) PROVE TypeInv'
  BY <1>0, <1>4
     DEF ReportFailureRaised, ReportCut, RouterTypeOK, CallersOK, CallerStates, table
<1>5. ASSUME NEW j \in Jobs, Poll(j) PROVE TypeInv'
  <2>1. sends[j] < MaxSends /\ Dispatch(j, Preferred)
    BY <1>5 DEF Poll, CallersOK
  <2>2. CallersOK'
    BY <1>0, <2>1 DEF CallersOK, Dispatch, RouterTypeOK
  <2>3. queue' \in Seq(Jobs)
    BY <1>5, LeftTyped DEF Poll
  <2> QED
    BY <1>0, <1>5, <2>1, <2>2, <2>3, DispatchTyped DEF Poll, RouterTypeOK
<1>6. ASSUME NEW j \in Jobs, TimeOut(j) PROVE TypeInv'
  <2>1. Settled(j, "rejected") /\ UNCHANGED slow
    BY <1>6 DEF TimeOut
  <2>2. CallersOK'
    BY <2>1 DEF CallersOK, Settled, RouterTypeOK
  <2>3. queue' \in Seq(Jobs)
    BY <1>6, LeftTyped DEF TimeOut
  <2> QED
    BY <1>0, <2>1, <2>2, <2>3, SettledTyped DEF RouterTypeOK, CallerStates
<1>7. ASSUME HealthStep \/ UNCHANGED vars PROVE TypeInv'
  BY <1>0, <1>7 DEF HealthStep, routerVars, vars, table, callers, RouterTypeOK, CallersOK
<1>8. ASSUME NEW away \in SUBSET Holding, Vanish(away) PROVE TypeInv'
  BY <1>0, <1>8 DEF Vanish, RouterTypeOK, CallersOK, CallerStates, table
<1>9. ASSUME NEW cut \in SUBSET Holding, RouterRestart(cut) PROVE TypeInv'
  BY <1>0, <1>9 DEF RouterRestart, Forget, RouterTypeOK, CallersOK, CallerStates
<1> QED
  BY <1>1, <1>2, <1>3, <1>4, <1>5, <1>6, <1>7, <1>8, <1>9 DEF Next, CallStep

\* What asking for a node does to the asker, and to nobody else.
LEMMA AcquireOutcome ==
    ASSUME TypeInv, NEW j \in Jobs, NEW S, Acquire(j, S)
    PROVE  /\ \/ caller'[j] = "holding" /\ sends'[j] = sends[j] + 1
              \/ caller'[j] \in {"waiting", "rejected"} /\ sends'[j] = sends[j]
           /\ \A k \in Jobs : k # j => UNCHANGED <<caller[k], sends[k]>>
<1> USE DEF TypeInv, RouterTypeOK
<1>1. CASE Dispatch(j, S)
  BY <1>1 DEF Dispatch
<1>2. CASE Settled(j, "rejected")
  BY <1>2 DEF Settled
<1>3. CASE caller' = [caller EXCEPT ![j] = "waiting"] /\ UNCHANGED sends
  BY <1>3
<1> QED
  BY <1>1, <1>2, <1>3 DEF Acquire, Enqueue

-----------------------------------------------------------------------------
(* The admission queue. *)

\* A step that leaves the queue alone and turns no caller into a waiter or away from
\* waiting keeps the queue what it is.
LEMMA QueueUntouched ==
    ASSUME QueueHoldsWaiters, UNCHANGED queue,
           \A k \in Jobs : caller'[k] = "waiting" <=> caller[k] = "waiting"
    PROVE  QueueHoldsWaiters'
BY DEF QueueHoldsWaiters, ToSet, IsInjective

LEMMA QueueAfterAcquire ==
    ASSUME TypeInv, QueueHoldsWaiters, NEW j \in Jobs, NEW S, caller[j] # "waiting",
           Acquire(j, S)
    PROVE  QueueHoldsWaiters'
<1> USE DEF TypeInv, RouterTypeOK
<1>1. CASE Dispatch(j, S) /\ UNCHANGED queue
  BY <1>1, QueueUntouched DEF Dispatch
<1>2. CASE Settled(j, "rejected") /\ UNCHANGED queue
  BY <1>2, QueueUntouched DEF Settled
<1>3. CASE /\ ~QueueFull
           /\ queue' = Append(queue, j)
           /\ caller' = [caller EXCEPT ![j] = "waiting"]
  <2>1. j \notin ToSet(queue) /\ IsInjective(queue)
    BY DEF QueueHoldsWaiters
  <2>2. /\ ToSet(queue') = ToSet(queue) \cup {j}
        /\ IsInjective(queue')
        /\ Len(queue') = Len(queue) + 1
    BY <1>3, <2>1, Appended
  <2>3. Len(queue') <= QueueMax
    BY <1>3, <2>2, RouterAssumption DEF QueueFull
  <2> QED
    BY <1>3, <2>2, <2>3 DEF QueueHoldsWaiters
<1> QED
  BY <1>1, <1>2, <1>3 DEF Acquire, Enqueue

LEMMA QueueInit == Init => QueueHoldsWaiters
<1> SUFFICES ASSUME Init PROVE QueueHoldsWaiters
  OBVIOUS
<1>1. queue = <<>> /\ \A j \in Jobs : caller[j] = "new"
  BY DEF Init, RouterInit
<1> QED
  BY <1>1, RouterAssumption DEF QueueHoldsWaiters, ToSet, IsInjective

LEMMA QueueStep == TypeInv /\ QueueHoldsWaiters /\ [Next]_vars => QueueHoldsWaiters'
<1> SUFFICES ASSUME TypeInv, QueueHoldsWaiters, [Next]_vars PROVE QueueHoldsWaiters'
  OBVIOUS
<1>0. caller \in [Jobs -> CallerStates] /\ queue \in Seq(Jobs)
  BY DEF TypeInv, RouterTypeOK
<1>1. ASSUME NEW j \in Jobs, Route(j) PROVE QueueHoldsWaiters'
  <2>1. caller[j] # "waiting" /\ Acquire(j, Preferred)
    BY <1>1 DEF Route
  <2> QED
    BY <2>1, QueueAfterAcquire
<1>2. ASSUME NEW j \in Jobs, ReportSuccess(j) PROVE QueueHoldsWaiters'
  BY <1>0, <1>2, QueueUntouched DEF ReportSuccess, Settled
<1>3. ASSUME NEW j \in Jobs, NEW retry \in BOOLEAN, ReportFailure(j, retry)
      PROVE  QueueHoldsWaiters'
  <2>1. CASE retry
    <3>1. caller[j] # "waiting" /\ Acquire(j, Preferred')
      BY <1>3, <2>1 DEF ReportFailure, AfterFailure
    <3> QED
      BY <3>1, QueueAfterAcquire
  <2>2. CASE ~retry
    BY <1>0, <1>3, <2>2, QueueUntouched DEF ReportFailure, AfterFailure, Settled
  <2> QED
    BY <2>1, <2>2
<1>4. ASSUME NEW j \in Jobs, ReportFailureRaised(j) PROVE QueueHoldsWaiters'
  BY <1>0, <1>4, QueueUntouched DEF ReportFailureRaised, ReportCut
<1>5. ASSUME NEW j \in Jobs, Poll(j) \/ TimeOut(j) PROVE QueueHoldsWaiters'
  <2>1. caller[j] = "waiting" /\ LeaveQueue(j)
    BY <1>5 DEF Poll, TimeOut
  <2>2. /\ ToSet(queue') = ToSet(queue) \ {j}
        /\ IsInjective(queue')
        /\ Len(queue') = Len(queue) - 1
    BY <2>1, LeftTyped
  <2>3. \E out \in {"holding", "rejected"} : caller' = [caller EXCEPT ![j] = out]
    BY <1>5 DEF Poll, TimeOut, Dispatch, Settled
  <2>4. Len(queue') <= QueueMax
    BY <1>0, <2>2, RouterAssumption DEF QueueHoldsWaiters
  <2> QED
    BY <1>0, <2>1, <2>2, <2>3, <2>4 DEF QueueHoldsWaiters
<1>6. ASSUME HealthStep \/ UNCHANGED vars PROVE QueueHoldsWaiters'
  BY <1>6, QueueUntouched DEF HealthStep, routerVars, vars, callers
<1>7. ASSUME NEW cut \in SUBSET Holding, RouterRestart(cut) PROVE QueueHoldsWaiters'
  <2>1. queue' = <<>> /\ \A k \in Jobs : caller'[k] # "waiting"
    BY <1>0, <1>7 DEF RouterRestart, Forget
  <2> QED
    BY <2>1, RouterAssumption DEF QueueHoldsWaiters, ToSet, IsInjective
<1>8. ASSUME NEW away \in SUBSET Holding, Vanish(away) PROVE QueueHoldsWaiters'
  <2>1. UNCHANGED queue /\ \A k \in Jobs : caller'[k] = "waiting" <=> caller[k] = "waiting"
    BY <1>0, <1>8 DEF Vanish, Holding
  <2> QED
    BY <2>1, QueueUntouched
<1> QED
  BY <1>1, <1>2, <1>3, <1>4, <1>5, <1>6, <1>7, <1>8 DEF Next, CallStep

\* The router keeps the types of its tables, and a caller never sends more than it may.
THEOREM RouterTyping == Spec => []RouterTypeOK
<1>1. Init => TypeInv /\ QueueHoldsWaiters
  BY TypeInit, QueueInit
<1>2. TypeInv /\ QueueHoldsWaiters /\ [Next]_vars => (TypeInv /\ QueueHoldsWaiters)'
  BY TypeStep, QueueStep
<1>3. TypeInv => RouterTypeOK
  BY DEF TypeInv
<1> QED
  BY <1>1, <1>2, <1>3, PTL DEF Spec

\* _wait_in_queue, for any number of waiters and in whatever way each wait ends: the
\* queue holds those who wait and nobody else, each once, within queue_max.
THEOREM QueueIsWaiters == Spec => []QueueHoldsWaiters
<1>1. Init => TypeInv /\ QueueHoldsWaiters
  BY TypeInit, QueueInit
<1>2. TypeInv /\ QueueHoldsWaiters /\ [Next]_vars => (TypeInv /\ QueueHoldsWaiters)'
  BY TypeStep, QueueStep
<1> QED
  BY <1>1, <1>2, PTL DEF Spec

-----------------------------------------------------------------------------
(* The in-flight table. *)

LEMMA AccountAfterDispatch ==
    ASSUME TypeInv, InflightAccounted, NEW j \in Jobs, NEW S \in SUBSET Nodes,
           Dispatch(j, S)
    PROVE  InflightAccounted'
<1> USE DEF TypeInv, RouterTypeOK, Dispatch
<1>1. PICK n \in S : /\ inflight' = [inflight EXCEPT ![j] = n]
                     /\ route' = [route EXCEPT ![j] = n]
  OBVIOUS
<1>2. n # NoNode
  BY RouterAssumption
<1>3. ASSUME NEW k \in Jobs, k # j
      PROVE  UNCHANGED <<inflight[k], attempts[k], route[k], caller[k], sends[k]>>
  BY <1>1, <1>3
<1>4. /\ inflight'[j] = n /\ route'[j] = n /\ caller'[j] = "holding"
      /\ attempts'[j] = attempts[j] + 1 /\ sends'[j] = sends[j] + 1
      /\ attempts[j] \in Nat /\ sends[j] \in Nat
  BY <1>1
<1> QED
  BY <1>2, <1>3, <1>4 DEF InflightAccounted

LEMMA AccountAfterSettled ==
    ASSUME TypeInv, InflightAccounted, NEW j \in Jobs, NEW outcome, Settled(j, outcome)
    PROVE  InflightAccounted'
<1> USE DEF TypeInv, RouterTypeOK, Settled, Cleared
<1>1. ASSUME NEW k \in Jobs, k # j
      PROVE  UNCHANGED <<inflight[k], attempts[k], route[k], caller[k], sends[k]>>
  BY <1>1
<1>2. inflight'[j] = NoNode /\ attempts'[j] = 0 /\ sends'[j] \in Nat
  OBVIOUS
<1> QED
  BY <1>1, <1>2 DEF InflightAccounted

LEMMA AccountAfterAcquire ==
    ASSUME TypeInv, InflightAccounted, NEW j \in Jobs, NEW S \in SUBSET Nodes,
           Acquire(j, S)
    PROVE  InflightAccounted'
<1>1. CASE Dispatch(j, S)
  BY <1>1, AccountAfterDispatch
<1>2. CASE Settled(j, "rejected")
  BY <1>2, AccountAfterSettled
<1>3. CASE /\ caller' = [caller EXCEPT ![j] = "waiting"]
           /\ UNCHANGED <<pointer, table, route, sends>>
  BY <1>3 DEF InflightAccounted, TypeInv, RouterTypeOK, table
<1> QED
  BY <1>1, <1>2, <1>3 DEF Acquire, Enqueue

LEMMA AccountStep ==
    TypeInv /\ InflightAccounted /\ [Next]_vars /\ RolesOK' => InflightAccounted'
<1> SUFFICES ASSUME TypeInv, InflightAccounted, [Next]_vars, RolesOK' PROVE InflightAccounted'
  OBVIOUS
<1>0. Preferred \in SUBSET Nodes /\ (Preferred \in SUBSET Nodes)'
  BY PreferredNodes, PTL DEF TypeInv
<1>1. ASSUME NEW j \in Jobs, Route(j) PROVE InflightAccounted'
  BY <1>0, <1>1, AccountAfterAcquire DEF Route
<1>2. ASSUME NEW j \in Jobs, ReportSuccess(j) PROVE InflightAccounted'
  BY <1>2, AccountAfterSettled DEF ReportSuccess
<1>3. ASSUME NEW j \in Jobs, NEW retry \in BOOLEAN, ReportFailure(j, retry)
      PROVE  InflightAccounted'
  <2>1. CASE Acquire(j, Preferred')
    BY <1>0, <2>1, AccountAfterAcquire
  <2>2. CASE Settled(j, "gaveup")
    BY <2>2, AccountAfterSettled
  <2> QED
    BY <1>3, <2>1, <2>2 DEF ReportFailure, AfterFailure
<1>4. ASSUME NEW j \in Jobs, ReportFailureRaised(j) PROVE InflightAccounted'
  BY <1>4 DEF ReportFailureRaised, ReportCut, InflightAccounted, TypeInv, RouterTypeOK, table
<1>5. ASSUME NEW j \in Jobs, Poll(j) PROVE InflightAccounted'
  BY <1>0, <1>5, AccountAfterDispatch DEF Poll
<1>6. ASSUME NEW j \in Jobs, TimeOut(j) PROVE InflightAccounted'
  BY <1>6, AccountAfterSettled DEF TimeOut
<1>7. ASSUME HealthStep \/ UNCHANGED vars PROVE InflightAccounted'
  BY <1>7 DEF HealthStep, routerVars, vars, table, callers, InflightAccounted
<1>8. ASSUME NEW cut \in SUBSET Holding, RouterRestart(cut) PROVE InflightAccounted'
  <2>1. \A k \in Jobs : inflight'[k] = NoNode /\ attempts'[k] = 0 /\ sends'[k] \in Nat
    BY <1>8 DEF RouterRestart, Forget, TypeInv, RouterTypeOK
  <2> QED
    BY <2>1 DEF InflightAccounted
<1>9. ASSUME NEW away \in SUBSET Holding, Vanish(away) PROVE InflightAccounted'
  BY <1>9 DEF Vanish, Holding, InflightAccounted, TypeInv, RouterTypeOK, table
<1> QED
  BY <1>1, <1>2, <1>3, <1>4, <1>5, <1>6, <1>7, <1>8, <1>9 DEF Next, CallStep

\* The in-flight table and the count of attempts never fall out of step with each other
\* or with what the callers were told, for any callers and any number of tries.
THEOREM InflightIsAccounted == Spec => []InflightAccounted
<1> DEFINE Inv == TypeInv /\ QueueHoldsWaiters /\ InflightAccounted
<1>1. Init => Inv
  <2>1. Init => InflightAccounted
    BY RouterAssumption DEF Init, RouterInit, InflightAccounted
  <2> QED
    BY <2>1, TypeInit, QueueInit
<1>2. Inv /\ [Next]_vars => Inv'
  <2>1. Inv /\ [Next]_vars => TypeInv' /\ QueueHoldsWaiters'
    BY TypeStep, QueueStep
  <2>2. TypeInv' => RolesOK'
    BY DEF TypeInv
  <2> QED
    BY <2>1, <2>2, AccountStep
<1> QED
  BY <1>1, <1>2, PTL DEF Spec

-----------------------------------------------------------------------------
(* The choice of a node. *)

\* A job whose count of sends grows has been dispatched: as a call, as a retry or as the
\* waiter at the head.  The nodes to choose from are those of the state it leads to.
LEMMA DispatchedBy ==
    ASSUME TypeInv, QueueHoldsWaiters, [Next]_vars, NEW j \in Jobs, Dispatched(j)
    PROVE  /\ Dispatch(j, Preferred')
           /\ UNCHANGED slow
           /\ Preferred' \in SUBSET Nodes
           /\ caller[j] = "waiting" => Head(queue) = j
           /\ caller[j] = "holding" => FailNode(route[j])
<1> USE DEF Dispatched
<1>0. sends \in [Jobs -> Nat]
  BY RouterAssumption DEF TypeInv, RouterTypeOK
<1>1. Preferred' \in SUBSET Nodes
  <2>1. RolesOK'
    BY TypeStep DEF TypeInv
  <2> QED
    BY <2>1 DEF RolesOK, Preferred, Active
<1>2. ASSUME NEW k \in Jobs, NEW S, Dispatch(k, S) PROVE k = j
  BY <1>0, <1>2 DEF Dispatch
<1>3. ASSUME NEW k \in Jobs, NEW S, Acquire(k, S) PROVE k = j /\ Dispatch(k, S)
  BY <1>0, <1>2, <1>3 DEF Acquire, Enqueue, Settled
<1>4. ASSUME UNCHANGED <<roles, slow>> PROVE Preferred' = Preferred
  BY <1>4 DEF Preferred, Active, roles
<1>5. ASSUME NEW k \in Jobs, Route(k)
      PROVE  k = j /\ Dispatch(j, Preferred') /\ UNCHANGED slow /\ caller[j] = "new"
  BY <1>3, <1>4, <1>5 DEF Route
<1>6. ASSUME NEW k \in Jobs, NEW retry \in BOOLEAN, ReportFailure(k, retry)
      PROVE  /\ k = j /\ Dispatch(j, Preferred') /\ UNCHANGED slow
             /\ caller[j] = "holding" /\ FailNode(route[j])
  <2>1. retry
    BY <1>0, <1>6 DEF ReportFailure, AfterFailure, Settled
  <2> QED
    BY <1>3, <1>6, <2>1 DEF ReportFailure, AfterFailure
<1>7. ASSUME NEW k \in Jobs, Poll(k)
      PROVE  /\ k = j /\ Dispatch(j, Preferred') /\ UNCHANGED slow
             /\ caller[j] = "waiting" /\ Head(queue) = j
  BY <1>2, <1>4, <1>7 DEF Poll, AtHead
<1>8. \/ \E k \in Jobs : Route(k) \/ Poll(k) \/ \E retry \in BOOLEAN : ReportFailure(k, retry)
  <2>1. sends' # sends
    BY <1>0
  <2> QED
    BY <2>1 DEF Next, CallStep, ReportSuccess, ReportFailureRaised, ReportCut, Vanish, TimeOut,
                Settled, HealthStep, RouterRestart, Forget, vars, routerVars, callers
<1> QED
  BY <1>1, <1>5, <1>6, <1>7, <1>8

\* Where a dispatch sends a job, and where it leaves the pointer.
LEMMA DispatchedTo ==
    ASSUME TypeInv, QueueHoldsWaiters, [Next]_vars, NEW j \in Jobs, Dispatched(j)
    PROVE  /\ inflight'[j] \in Preferred'
           /\ Picked(Preferred', inflight'[j])
           /\ pointer' = (pointer + 1) % Cardinality(Preferred')
<1>1. Dispatch(j, Preferred')
  BY DispatchedBy
<1> QED
  BY <1>1 DEF Dispatch, NextPointer, TypeInv, RouterTypeOK

\* A retry sees the failover its own report has made; no dispatch goes to a node out of
\* service, or over the SLA while an active one is within it.
THEOREM RoutesFit == Spec => RoutesToFitNode
<1>1. ASSUME TypeInv, QueueHoldsWaiters, [Next]_vars, NEW j \in Jobs, Dispatched(j)
      PROVE  /\ inflight'[j] \in Active'
             /\ inflight'[j] \in slow => Active' \subseteq slow
  <2>1. inflight'[j] \in Preferred' /\ slow' = slow
    BY <1>1, DispatchedBy, DispatchedTo
  <2> QED
    BY <2>1 DEF Preferred
<1>2. TypeInv /\ QueueHoldsWaiters /\ [Next]_vars =>
         [\A j \in Jobs : Dispatched(j) =>
            /\ inflight'[j] \in Active'
            /\ inflight'[j] \in slow => Active' \subseteq slow]_vars
  BY <1>1
<1>3. Init => TypeInv /\ QueueHoldsWaiters
  BY TypeInit, QueueInit
<1>4. TypeInv /\ QueueHoldsWaiters /\ [Next]_vars => (TypeInv /\ QueueHoldsWaiters)'
  BY TypeStep, QueueStep
<1> QED
  BY <1>2, <1>3, <1>4, PTL DEF Spec, RoutesToFitNode

\* The node whose failure was just reported is out of service when its caller is routed
\* again, promotions and nodes already out included.
THEOREM RetryLeaves == Spec => RetryLeavesFailedNode
<1>1. ASSUME TypeInv, QueueHoldsWaiters, [Next]_vars, NEW j \in Jobs,
             caller[j] = "holding", Dispatched(j)
      PROVE  inflight'[j] # route[j]
  <2>1. FailNode(route[j]) /\ inflight'[j] \in Preferred'
    BY <1>1, DispatchedBy, DispatchedTo
  <2>2. inflight'[j] \in primaries' \cup reserves'
    BY <2>1 DEF Preferred, Active
  <2>3. route[j] \notin primaries' \cup reserves'
    BY <2>1 DEF FailNode, InService, Leave, roles
  <2> QED
    BY <2>2, <2>3
<1>2. TypeInv /\ QueueHoldsWaiters /\ [Next]_vars =>
         [\A j \in Jobs : caller[j] = "holding" /\ Dispatched(j)
            => inflight'[j] # route[j]]_vars
  BY <1>1
<1>3. Init => TypeInv /\ QueueHoldsWaiters
  BY TypeInit, QueueInit
<1>4. TypeInv /\ QueueHoldsWaiters /\ [Next]_vars => (TypeInv /\ QueueHoldsWaiters)'
  BY TypeStep, QueueStep
<1> QED
  BY <1>2, <1>3, <1>4, PTL DEF Spec, RetryLeavesFailedNode

-----------------------------------------------------------------------------
(* The waiter at the head. *)

\* The pointer, taken modulo the number of nodes to choose from, is a place in their list,
\* whatever the number was when it was last moved.
LEMMA PickExists ==
    ASSUME NEW S \in SUBSET Nodes, S # {}, pointer \in Nat
    PROVE  \E n \in S : Picked(S, n)
<1>1. IsFiniteSet(S) /\ Cardinality(S) \in Nat /\ Cardinality(S) # 0
  BY FiniteNodes, FS_EmptySet
<1>2. pointer % Cardinality(S) \in 0..(Cardinality(S) - 1)
  BY <1>1
<1> QED
  BY <1>2, PositionTaken DEF Picked

\* No waiter holds up the others: when a node is in service what the poll of the head asks
\* for is there, for any nodes and any queue.
THEOREM HeadReady == Spec => []HeadCanGo
<1>1. TypeInv /\ QueueHoldsWaiters => HeadCanGo
  <2> SUFFICES ASSUME TypeInv, QueueHoldsWaiters, queue # <<>>, InService # {}
               PROVE  /\ caller[Head(queue)] = "waiting"
                      /\ \E n \in Preferred : Picked(Preferred, n)
    BY DEF HeadCanGo
  <2>1. queue \in Seq(Jobs) /\ 1 \in DOMAIN queue /\ Head(queue) = queue[1]
    BY DEF TypeInv, RouterTypeOK
  <2>2. Head(queue) \in ToSet(queue)
    BY <2>1 DEF ToSet
  <2>3. Preferred \in SUBSET Nodes /\ Preferred # {}
    BY PreferredNodes DEF TypeInv, Preferred, Active, InService
  <2> QED
    BY <2>2, <2>3, PickExists DEF QueueHoldsWaiters, TypeInv, RouterTypeOK
<1>2. Init => TypeInv /\ QueueHoldsWaiters
  BY TypeInit, QueueInit
<1>3. TypeInv /\ QueueHoldsWaiters /\ [Next]_vars => (TypeInv /\ QueueHoldsWaiters)'
  BY TypeStep, QueueStep
<1> QED
  BY <1>1, <1>2, <1>3, PTL DEF Spec

-----------------------------------------------------------------------------
(* The turns of the nodes: RouterTurns is Router with a history. *)

\* The history is read by no action: it is one of a behaviour of Router.
LEMMA TurnsStepOfRouter == [TurnsNext]_<<vars, history>> => [Next]_vars
BY DEF TurnsNext, Serving, Next

THEOREM TurnsKeepRouter == TurnsSpec => Spec
BY TurnsStepOfRouter, PTL DEF TurnsSpec, TurnsInit, Spec

\* The place after the last is the first.
LEMMA NextPlace ==
    ASSUME NEW p \in Nat, NEW c \in Nat, c > 0
    PROVE  /\ p % c \in 0..(c - 1)
           /\ p < c => p % c = p
           /\ (p + 1) % c = IF p % c = c - 1 THEN 0 ELSE (p % c) + 1
<1> DEFINE q == p \div c
           r == p % c
           q2 == (p + 1) \div c
           r2 == (p + 1) % c
           k == q - q2
<1>1. q \in Int /\ r \in 0..(c - 1) /\ p = c * q + r
  OBVIOUS
<1>2. q2 \in Int /\ r2 \in 0..(c - 1) /\ p + 1 = c * q2 + r2
  OBVIOUS
<1>3. p < c => p % c = p
  OBVIOUS
<1>4. k \in Int /\ c * k = r2 - r - 1
  <2> HIDE DEF q, r, q2, r2
  <2>1. c * (q - q2) = c * q - c * q2
    BY <1>1, <1>2
  <2> QED
    BY <1>1, <1>2, <2>1
<1> HIDE DEF q, r, q2, r2, k
<1>5. k < 1
  <2>1. SUFFICES ASSUME k >= 1 PROVE FALSE
    BY <1>4
  <2>2. c * k >= c
    BY <1>4, <2>1
  <2> QED
    BY <1>1, <1>2, <1>4, <2>2
<1>6. k > -2
  <2>1. SUFFICES ASSUME k <= -2 PROVE FALSE
    BY <1>4
  <2>2. c * k <= c * (-2)
    BY <1>4, <2>1
  <2> QED
    BY <1>1, <1>2, <1>4, <2>2
<1>7. k = 0 \/ k = -1
  BY <1>4, <1>5, <1>6
<1>8. r2 = IF r = c - 1 THEN 0 ELSE r + 1
  BY <1>1, <1>2, <1>4, <1>7
<1> QED
  BY <1>1, <1>3, <1>8 DEF r, r2

\* The place of a node in the list, and the nodes of a list of which the last k picks
\* have been, when the pointer stands at p: those in the k places before it, cyclically.
Rank(S, n) == Cardinality(Ahead(S, n))

LastPicks(S, p, k) ==
    {n \in S : \/ Rank(S, n) \in (p - k)..(p - 1)
               \/ Rank(S, n) >= p + Cardinality(S) - k}

\* As long as a round is under way the pointer counts on its list, and the nodes that
\* have had their turn are those of its last picks, fewer than there are nodes.
TurnInv ==
    /\ base \in SUBSET Nodes
    /\ base # {} =>
         /\ pointer < Cardinality(base)
         /\ \E k \in 1..(Cardinality(base) - 1) : turn = LastPicks(base, pointer, k)

\* A pick gives the node at the pointer its turn, in a round of its own or in the one
\* under way: there the node has not had it yet.
LEMMA TurnTaken ==
    ASSUME TypeInv, QueueHoldsWaiters, TurnInv, [Next]_vars, NEW j \in Jobs, Dispatched(j)
    PROVE  /\ Preferred' = base => inflight'[j] \notin turn
           /\ TakesTurn(j) => TurnInv'
<1> DEFINE S == Preferred'
           n == inflight'[j]
           c == Cardinality(S)
<1>1. S \in SUBSET Nodes /\ n \in S
  BY DispatchedBy, DispatchedTo
<1>2. pointer \in Nat /\ c \in Nat /\ c > 0
  <2>1. IsFiniteSet(S) /\ c \in Nat
    BY <1>1, FiniteNodes
  <2>2. c # 0
    BY <1>1, <2>1, FS_EmptySet
  <2> QED
    BY <2>1, <2>2 DEF TypeInv, RouterTypeOK
<1>3. Rank(S, n) = pointer % c /\ pointer' = (pointer + 1) % c
  BY DispatchedTo DEF Picked, Rank
<1>4. /\ pointer % c \in 0..(c - 1)
      /\ pointer < c => pointer % c = pointer
      /\ pointer' = IF pointer % c = c - 1 THEN 0 ELSE (pointer % c) + 1
  BY <1>2, <1>3, NextPlace
<1>5. \A m \in S : Rank(S, m) \in 0..(c - 1)
  BY <1>1, PositionInList DEF Rank
<1>6. \A m \in S : Rank(S, m) = Rank(S, n) <=> m = n
  BY <1>1, PositionsDiffer DEF Rank
<1> HIDE DEF S, n, c
<1>7. ASSUME S = base
      PROVE  \E k \in 1..(c - 1) :
                /\ pointer < c /\ turn = LastPicks(S, pointer, k) /\ n \notin turn
                /\ turn \cup {n} = LastPicks(S, pointer', k + 1)
  <2>1. PICK k \in 1..(c - 1) : pointer < c /\ turn = LastPicks(S, pointer, k)
    BY <1>1, <1>7 DEF TurnInv, c
  <2>2. Rank(S, n) = pointer /\ pointer' = IF pointer = c - 1 THEN 0 ELSE pointer + 1
    BY <1>3, <1>4, <2>1
  <2>3. n \notin turn
    BY <1>2, <2>1, <2>2 DEF LastPicks, c
  <2>4. ASSUME NEW m \in S
        PROVE  m \in turn \cup {n} <=> m \in LastPicks(S, pointer', k + 1)
    <3>1. m \in turn \cup {n} <=> \/ Rank(S, m) \in (pointer - k)..(pointer - 1)
                                  \/ Rank(S, m) >= pointer + c - k
                                  \/ Rank(S, m) = pointer
      BY <1>6, <2>1, <2>2 DEF LastPicks, c
    <3>2. m \in LastPicks(S, pointer', k + 1)
             <=> \/ Rank(S, m) \in (pointer' - (k + 1))..(pointer' - 1)
                 \/ Rank(S, m) >= pointer' + c - (k + 1)
      BY DEF LastPicks, c
    <3>3. Rank(S, m) \in 0..(c - 1)
      BY <1>5
    <3>4. CASE pointer = c - 1
      BY <1>2, <2>1, <2>2, <3>1, <3>2, <3>3, <3>4
    <3>5. CASE pointer # c - 1
      BY <1>2, <2>1, <2>2, <3>1, <3>2, <3>3, <3>5
    <3> QED
      BY <3>4, <3>5
  <2>5. turn \cup {n} \subseteq S /\ LastPicks(S, pointer', k + 1) \subseteq S
    BY <1>1, <2>1 DEF LastPicks
  <2> QED
    BY <2>1, <2>3, <2>4, <2>5
<1>8. {n} = LastPicks(S, pointer', 1)
  <2>1. ASSUME NEW m \in S PROVE m = n <=> m \in LastPicks(S, pointer', 1)
    <3>1. m \in LastPicks(S, pointer', 1)
             <=> \/ Rank(S, m) \in (pointer' - 1)..(pointer' - 1)
                 \/ Rank(S, m) >= pointer' + c - 1
      BY DEF LastPicks, c
    <3>2. Rank(S, m) \in 0..(c - 1) /\ (m = n <=> Rank(S, m) = pointer % c)
      BY <1>3, <1>5, <1>6
    <3> QED
      BY <1>2, <1>4, <3>1, <3>2
  <2> QED
    BY <1>1, <2>1 DEF LastPicks
<1>9. ASSUME TakesTurn(j) PROVE TurnInv'
  <2> DEFINE served == (IF S = base THEN turn ELSE {}) \cup {n}
  <2>1. IF served = S THEN base' = {} /\ turn' = {} ELSE base' = S /\ turn' = served
    BY <1>9 DEF TakesTurn, NoRound, S, n
  <2>2. CASE served = S
    BY <2>1, <2>2 DEF TurnInv
  <2>3. CASE served # S
    <3>1. \E k \in 1..c : served = LastPicks(S, pointer', k)
      BY <1>2, <1>7, <1>8
    <3>2. PICK k \in 1..c : served = LastPicks(S, pointer', k)
      BY <3>1
    <3>3. pointer' \in 0..(c - 1)
      BY <1>2, <1>4
    <3>4. k # c
      <4>1. SUFFICES ASSUME k = c PROVE FALSE
        OBVIOUS
      <4>2. ASSUME NEW m \in S PROVE m \in LastPicks(S, pointer', c)
        <5>1. m \in LastPicks(S, pointer', c)
                 <=> \/ Rank(S, m) \in (pointer' - c)..(pointer' - 1)
                     \/ Rank(S, m) >= pointer' + c - c
          BY DEF LastPicks, c
        <5>2. Rank(S, m) \in 0..(c - 1)
          BY <1>5
        <5> QED
          BY <1>2, <3>3, <5>1, <5>2
      <4>3. LastPicks(S, pointer', c) = S
        BY <4>2 DEF LastPicks
      <4> QED
        BY <2>3, <3>2, <4>1, <4>3
    <3>5. base' = S /\ turn' = LastPicks(base', pointer', k) /\ k \in 1..(c - 1)
      BY <1>2, <2>1, <2>3, <3>2, <3>4
    <3>6. Cardinality(base') = c /\ pointer' < Cardinality(base')
      BY <1>2, <3>3, <3>5 DEF c
    <3> QED
      BY <1>1, <3>5, <3>6 DEF TurnInv, LastPicks, Rank
  <2> QED
    BY <2>2, <2>3
<1> QED
  BY <1>7, <1>9 DEF S, n

\* Nothing but a dispatch and a new incarnation moves the pointer.
LEMMA PointerStays ==
    ASSUME TypeInv, Serving, sends' = sends
    PROVE  pointer' = pointer
<1>0. sends \in [Jobs -> Nat]
  BY RouterAssumption DEF TypeInv, RouterTypeOK
<1>1. ASSUME NEW j \in Jobs, NEW S, Dispatch(j, S) PROVE FALSE
  BY <1>0, <1>1 DEF Dispatch
<1>2. ASSUME NEW j \in Jobs, NEW S, Acquire(j, S) PROVE pointer' = pointer
  BY <1>1, <1>2 DEF Acquire, Enqueue, Settled
<1>3. ASSUME NEW j \in Jobs, Route(j) PROVE pointer' = pointer
  BY <1>2, <1>3 DEF Route
<1>4. ASSUME NEW j \in Jobs, NEW retry \in BOOLEAN, ReportFailure(j, retry)
      PROVE  pointer' = pointer
  BY <1>2, <1>4 DEF ReportFailure, AfterFailure, Settled
<1>5. ASSUME NEW j \in Jobs, Poll(j) PROVE pointer' = pointer
  BY <1>1, <1>5 DEF Poll
<1> QED
  BY <1>3, <1>4, <1>5
     DEF Serving, CallStep, ReportSuccess, ReportFailureRaised, ReportCut, TimeOut, Settled,
         HealthStep, routerVars, Vanish

LEMMA TurnStep ==
    TypeInv /\ QueueHoldsWaiters /\ TurnInv /\ [TurnsNext]_<<vars, history>> => TurnInv'
<1> SUFFICES ASSUME TypeInv, QueueHoldsWaiters, TurnInv, [TurnsNext]_<<vars, history>>
             PROVE  TurnInv'
  OBVIOUS
<1>1. ASSUME pointer' = pointer, UNCHANGED <<base, turn>> PROVE TurnInv'
  BY <1>1 DEF TurnInv, LastPicks, Rank
<1>2. CASE Serving /\ TurnsKept
  <2>1. ASSUME NEW j \in Jobs, Dispatched(j), TakesTurn(j) PROVE TurnInv'
    BY <2>1, TurnTaken, TurnsStepOfRouter
  <2>2. CASE sends' = sends /\ UNCHANGED <<base, turn>>
    BY <1>1, <1>2, <2>2, PointerStays
  <2> QED
    BY <1>2, <2>1, <2>2 DEF TurnsKept
<1>3. CASE NoRound
  BY <1>3 DEF NoRound, TurnInv
<1>4. CASE UNCHANGED <<vars, history>>
  BY <1>1, <1>4 DEF vars, routerVars, history
<1> QED
  BY <1>2, <1>3, <1>4 DEF TurnsNext

\* RouterState.pick, for any nodes and any course of failovers, returns, waits and retries:
\* while it finds the same list, no node has two turns in a round.
THEOREM TurnsAreTaken == TurnsSpec => EachInTurn
<1> DEFINE Inv == TypeInv /\ QueueHoldsWaiters /\ TurnInv
<1>1. TurnsInit => Inv
  BY TypeInit, QueueInit DEF TurnsInit, HistoryInit, TurnInv
<1>2. Inv /\ [TurnsNext]_<<vars, history>> => Inv'
  BY TypeStep, QueueStep, TurnStep, TurnsStepOfRouter
<1>3. Inv /\ [TurnsNext]_<<vars, history>> =>
         [\A j \in Jobs : Dispatched(j) /\ Preferred' = base
            => inflight'[j] \notin turn]_<<vars, history>>
  BY TurnTaken, TurnsStepOfRouter
<1> QED
  BY <1>1, <1>2, <1>3, PTL DEF TurnsSpec, EachInTurn

-----------------------------------------------------------------------------
(* The order of the queue. *)

\* A step leaves the queue alone, lets one more join at the end, takes one out, or
\* empties it.
LEMMA QueueMoves ==
    ASSUME TypeInv, QueueHoldsWaiters, [Next]_vars
    PROVE  \/ queue' = queue
           \/ \E j \in Jobs \ Waiting : queue' = Append(queue, j)
           \/ \E j \in Waiting : queue' = RemoveFirst(queue, j)
           \/ queue' = <<>>
<1>1. ASSUME NEW j \in Jobs, NEW S, caller[j] # "waiting", Acquire(j, S)
      PROVE  queue' = queue \/ \E k \in Jobs \ Waiting : queue' = Append(queue, k)
  BY <1>1 DEF Acquire, Enqueue, Waiting
<1>2. ASSUME NEW j \in Jobs, Route(j)
      PROVE  queue' = queue \/ \E k \in Jobs \ Waiting : queue' = Append(queue, k)
  BY <1>1, <1>2 DEF Route
<1>3. ASSUME NEW j \in Jobs, NEW retry \in BOOLEAN, ReportFailure(j, retry)
      PROVE  queue' = queue \/ \E k \in Jobs \ Waiting : queue' = Append(queue, k)
  BY <1>1, <1>3 DEF ReportFailure, AfterFailure
<1>4. ASSUME NEW j \in Jobs, Poll(j) \/ TimeOut(j)
      PROVE  \E k \in Waiting : queue' = RemoveFirst(queue, k)
  BY <1>4 DEF Poll, TimeOut, LeaveQueue, Waiting
<1>5. ASSUME NEW cut, RouterRestart(cut) PROVE queue' = <<>>
  BY <1>5 DEF RouterRestart, Forget
<1>6. ASSUME NEW j \in Jobs, ReportSuccess(j) \/ ReportFailureRaised(j)
      PROVE  queue' = queue
  BY <1>6 DEF ReportSuccess, ReportFailureRaised, ReportCut
<1>7. ASSUME NEW away, Vanish(away) PROVE queue' = queue
  BY <1>7 DEF Vanish
<1>8. CASE HealthStep \/ UNCHANGED vars
  BY <1>8 DEF HealthStep, vars, routerVars
<1> QED
  BY <1>2, <1>3, <1>4, <1>5, <1>6, <1>7, <1>8 DEF Next, CallStep

\* Whoever came before a waiter and still waits has a place before it in the queue.
OrderInv ==
    \A k \in 1..Len(queue) :
        \A x \in before[queue[k]] : \E i \in 1..(k - 1) : queue[i] = x

LEMMA OrderStep ==
    ASSUME TypeInv, QueueHoldsWaiters, OrderInv, [Next]_vars, QueueSeen
    PROVE  OrderInv'
<1>1. /\ queue \in Seq(Jobs) /\ IsInjective(queue) /\ Len(queue) \in Nat
      /\ DOMAIN queue = 1..Len(queue)
      /\ \A k \in 1..Len(queue) : queue[k] \in Jobs
  BY DEF TypeInv, RouterTypeOK, QueueHoldsWaiters
<1>2. Waiting = ToSet(queue) /\ Waiting' = ToSet(queue')
  BY QueueStep DEF QueueHoldsWaiters, Waiting
<1>3. \A k \in 1..Len(queue) : queue[k] \in Waiting
  BY <1>1, <1>2 DEF ToSet
<1>4. ASSUME NEW k \in 1..Len(queue)
      PROVE  before'[queue[k]] \subseteq before[queue[k]] \cap Waiting'
  BY <1>1, <1>3 DEF QueueSeen
<1>5. CASE queue' = queue
  BY <1>4, <1>5 DEF OrderInv
<1>6. ASSUME NEW j \in Jobs \ Waiting, queue' = Append(queue, j) PROVE OrderInv'
  <2>1. /\ Len(queue') = Len(queue) + 1
        /\ \A k \in 1..Len(queue) : queue'[k] = queue[k]
        /\ queue'[Len(queue) + 1] = j
    BY <1>1, <1>6
  <2>2. before'[j] \subseteq Waiting
    BY DEF QueueSeen
  <2>3. SUFFICES ASSUME NEW k \in 1..(Len(queue) + 1), NEW x \in before'[queue'[k]]
                 PROVE  \E i \in 1..(k - 1) : queue'[i] = x
    BY <2>1 DEF OrderInv
  <2>4. CASE k \in 1..Len(queue)
    <3>1. x \in before[queue[k]]
      BY <1>4, <2>1, <2>3, <2>4
    <3>2. PICK i \in 1..(k - 1) : queue[i] = x
      BY <2>4, <3>1 DEF OrderInv
    <3> QED
      BY <1>1, <2>1, <2>4, <3>2
  <2>5. CASE k = Len(queue) + 1
    <3>1. x \in ToSet(queue)
      BY <1>2, <2>1, <2>2, <2>3, <2>5
    <3>2. PICK i \in 1..Len(queue) : queue[i] = x
      BY <1>1, <3>1 DEF ToSet
    <3> QED
      BY <1>1, <2>1, <2>5, <3>2
  <2> QED
    BY <1>1, <2>4, <2>5
<1>7. ASSUME NEW j \in Waiting, queue' = RemoveFirst(queue, j) PROVE OrderInv'
  <2>1. PICK p \in 1..Len(queue) : queue[p] = j
    BY <1>1, <1>2 DEF ToSet
  <2> DEFINE old(k) == IF k < p THEN k ELSE k + 1
  <2>2. /\ Len(queue') = Len(queue) - 1
        /\ \A k \in 1..(Len(queue) - 1) : queue'[k] = queue[old(k)]
    BY <1>1, <1>7, <2>1, RemovedPlaces
  <2>3. j \notin Waiting'
    BY <1>1, <1>2, <1>7, Removed
  <2>4. SUFFICES ASSUME NEW k \in 1..(Len(queue) - 1), NEW x \in before'[queue'[k]]
                 PROVE  \E i \in 1..(k - 1) : queue'[i] = x
    BY <2>2 DEF OrderInv
  <2>5. old(k) \in 1..Len(queue)
    BY <1>1
  <2>6. x \in before[queue[old(k)]] /\ x # j
    BY <1>4, <2>2, <2>3, <2>4, <2>5
  <2>7. PICK i \in 1..(old(k) - 1) : queue[i] = x
    BY <2>5, <2>6 DEF OrderInv
  <2>8. i # p
    BY <2>1, <2>6, <2>7
  <2>9. CASE i < p
    <3>1. i \in 1..(k - 1) /\ i \in 1..(Len(queue) - 1) /\ old(i) = i
      BY <1>1, <2>7, <2>9
    <3> QED
      BY <2>2, <2>7, <3>1
  <2>10. CASE i > p
    <3>1. i - 1 \in 1..(k - 1) /\ i - 1 \in 1..(Len(queue) - 1) /\ old(i - 1) = i
      BY <1>1, <2>1, <2>7, <2>10
    <3> QED
      BY <2>2, <2>7, <3>1
  <2> QED
    BY <2>7, <2>8, <2>9, <2>10
<1>8. CASE queue' = <<>>
  BY <1>8 DEF OrderInv
<1> QED
  BY <1>5, <1>6, <1>7, <1>8, QueueMoves

\* The admission queue is first come, first served, for any number of waiters and in
\* whatever way those before each have ended their wait.
THEOREM FirstCome == TurnsSpec => FirstComeFirstServed
<1> DEFINE Inv == TypeInv /\ QueueHoldsWaiters /\ OrderInv
<1>1. TurnsInit => Inv
  <2>1. Init => OrderInv
    BY DEF Init, RouterInit, OrderInv
  <2> QED
    BY <2>1, TypeInit, QueueInit DEF TurnsInit
<1>2. Inv /\ [TurnsNext]_<<vars, history>> => Inv'
  <2>1. Inv /\ TurnsNext => OrderInv'
    BY OrderStep, TurnsStepOfRouter DEF TurnsNext
  <2>2. Inv /\ UNCHANGED <<vars, history>> => OrderInv'
    BY DEF OrderInv, vars, routerVars, history
  <2> QED
    BY <2>1, <2>2, TypeStep, QueueStep, TurnsStepOfRouter
<1>3. ASSUME Inv, [TurnsNext]_<<vars, history>>, NEW j \in Jobs,
             caller[j] = "waiting", Dispatched(j)
      PROVE  before[j] = {}
  <2>1. Head(queue) = j /\ j \in ToSet(queue) /\ queue \in Seq(Jobs)
    BY <1>3, DispatchedBy, TurnsStepOfRouter DEF QueueHoldsWaiters, TypeInv, RouterTypeOK
  <2>2. 1 \in 1..Len(queue) /\ queue[1] = j
    BY <2>1 DEF ToSet
  <2> QED
    BY <1>3, <2>2 DEF OrderInv
<1>4. Inv /\ [TurnsNext]_<<vars, history>> =>
         [\A j \in Jobs : caller[j] = "waiting" /\ Dispatched(j)
            => before[j] = {}]_<<vars, history>>
  BY <1>3
<1> QED
  BY <1>1, <1>2, <1>4, PTL DEF TurnsSpec, FirstComeFirstServed

=============================================================================
