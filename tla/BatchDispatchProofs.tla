------------------------ MODULE BatchDispatchProofs ------------------------
(***************************************************************************)
(* Proofs about BatchDispatch, for any input, any number of threads and any *)
(* number of attempts.                                                      *)
(***************************************************************************)
EXTENDS BatchDispatch, RouterProofs

-----------------------------------------------------------------------------
(* The driver is a caller of the router like any other. *)

\* Every step of the driver is a step of Router or leaves the router alone.
LEMMA BatchStepOfRouter == [BatchNext]_batchVars => [Next]_vars
<1> SUFFICES ASSUME [BatchNext]_batchVars PROVE [Next]_vars
  OBVIOUS
<1>1. ASSUME NEW j \in Jobs, TakeItem(j) PROVE Next
  BY <1>1 DEF TakeItem, Next, CallStep
<1>2. ASSUME NEW j \in Jobs, PostStatic(j) \/ RequestEnds(j) PROVE UNCHANGED vars
  BY <1>2 DEF PostStatic, RequestEnds
<1>3. ASSUME NEW j \in Jobs, ReportAnswer(j) PROVE Next
  BY <1>3 DEF ReportAnswer, Next, CallStep
<1>4. ASSUME NEW j \in Jobs, ReportFailed(j) PROVE Next
  <2>1. (AttemptsLeft(j) > 0) \in BOOLEAN
    OBVIOUS
  <2> QED
    BY <1>4, <2>1 DEF ReportFailed, Next, CallStep
<1>5. ASSUME NEW j \in Jobs, ReportFailedRaised(j) PROVE Next
  BY <1>5 DEF ReportFailedRaised, Next, CallStep
<1>6. ASSUME NEW j \in Jobs, WaitEnds(j) \/ WaitTimesOut(j) PROVE Next
  BY <1>6 DEF WaitEnds, WaitTimesOut, Next, CallStep
<1>7. ASSUME RouterDies PROVE Next
  BY <1>7 DEF RouterDies, Next, Holding
<1>8. CASE Abort \/ Write \/ UNCHANGED batchVars
  BY <1>8 DEF Abort, Write, batchVars
<1>9. CASE HealthStep
  BY <1>9 DEF Next
<1> QED
  BY <1>1, <1>2, <1>3, <1>4, <1>5, <1>6, <1>7, <1>8, <1>9 DEF BatchNext, Work

\* What is proved of Router holds of it while a batch is sent through it.
THEOREM BatchUsesRouter == BatchSpec => Spec
<1>1. BatchInit => Init
  BY DEF BatchInit
<1> QED
  BY <1>1, BatchStepOfRouter, PTL DEF BatchSpec, Spec

-----------------------------------------------------------------------------
(* The thread of an item and what the router knows of it as a caller. *)

Sending == {"calling", "answered", "failed"}

\* Attempts left and sends made add up while the item is on its way, and when it is over
\* its caller is done with the router.
ItemInv(j) ==
    /\ phase[j] = "pending" => /\ caller[j] = "new"
                               /\ left[j] = MaxSends
                               /\ result[j] = "none"
    /\ phase[j] \in Sending => /\ caller[j] \in {"holding", "waiting"}
                               /\ caller[j] = "waiting" => phase[j] = "calling"
                               /\ left[j] > 0
                               /\ result[j] = "none"
    /\ caller[j] \in {"holding", "waiting"} => phase[j] \in Sending
    /\ caller[j] = "holding" => sends[j] = MaxSends - left[j] + 1
    /\ caller[j] = "waiting" => sends[j] = MaxSends - left[j]
    /\ phase[j] = "raised" => /\ caller[j] \in {"rejected", "lost"}
                              /\ result[j] = "none"
    /\ phase[j] = "done" => /\ caller[j] \in {"served", "rejected", "gaveup", "lost", "new"}
                            /\ result[j] # "none"
                            /\ result[j] = "error" =>
                                  \/ sends[j] = MaxSends
                                  \/ caller[j] \in {"rejected", "lost", "new"}

BatchInv ==
    /\ TypeInv /\ QueueHoldsWaiters /\ InflightAccounted
    /\ BatchTypeOK
    /\ \A j \in Jobs : ItemInv(j)

LEMMA BatchInvInit == BatchInit => BatchInv
<1> SUFFICES ASSUME BatchInit PROVE BatchInv
  OBVIOUS
<1>1. TypeInv /\ QueueHoldsWaiters
  BY TypeInit, QueueInit DEF BatchInit
<1>2. InflightAccounted
  BY RouterAssumption DEF BatchInit, Init, RouterInit, InflightAccounted
<1>3. BatchTypeOK
  BY RouterAssumption DEF BatchInit, BatchTypeOK, Phases
<1>4. \A j \in Jobs : ItemInv(j)
  BY DEF BatchInit, Init, RouterInit, ItemInv, Sending
<1> QED
  BY <1>1, <1>2, <1>3, <1>4 DEF BatchInv

LEMMA ItemUntouched ==
    ASSUME NEW j \in Jobs, ItemInv(j),
           UNCHANGED <<phase[j], left[j], result[j], caller[j], sends[j]>>
    PROVE  ItemInv(j)'
BY DEF ItemInv

LEMMA BatchTypeStep == BatchInv /\ [BatchNext]_batchVars => BatchTypeOK'
<1> SUFFICES ASSUME BatchInv, [BatchNext]_batchVars PROVE BatchTypeOK'
  OBVIOUS
<1>0. BatchTypeOK /\ \A j \in Jobs : ItemInv(j)
  BY DEF BatchInv
<1> USE DEF BatchTypeOK, Phases
<1>1. ASSUME NEW j \in Jobs, TakeItem(j) \/ RequestEnds(j) \/ ReportAnswer(j) \/ PostStatic(j)
      PROVE  BatchTypeOK'
  BY <1>0, <1>1 DEF TakeItem, RequestEnds, ReportAnswer, PostStatic, Goes, Returns
<1>2. ASSUME NEW j \in Jobs, ReportFailed(j) \/ ReportFailedRaised(j) PROVE BatchTypeOK'
  <2>1. left[j] \in 0..MaxSends /\ left[j] > 0
    BY <1>0, <1>2 DEF ReportFailed, ReportFailedRaised, ItemInv, Sending
  <2>2. left' = [left EXCEPT ![j] = left[j] - 1] /\ left[j] - 1 \in 0..MaxSends
    BY <1>2, <2>1, RouterAssumption DEF ReportFailed, ReportFailedRaised, AttemptsLeft
  <2>3. (Goes(j, "calling") \/ Returns(j, "error")) /\ UNCHANGED batch
    BY <1>2 DEF ReportFailed, ReportFailedRaised
  <2> QED
    BY <1>0, <2>2, <2>3 DEF Goes, Returns
<1>3. ASSUME NEW j \in Jobs, WaitEnds(j) \/ WaitTimesOut(j) PROVE BatchTypeOK'
  BY <1>0, <1>3 DEF WaitEnds, WaitTimesOut, Goes, Returns, driver
<1>4. CASE RouterDies
  <2>1. /\ \A j \in Jobs : phase'[j] \in {phase[j], "failed", "raised", "done"}
        /\ \A j \in Jobs : result'[j] \in {result[j], "error"}
        /\ \A j \in Jobs : \/ left'[j] = left[j]
                           \/ phase[j] = "failed" /\ left'[j] = left[j] - 1
        /\ phase' = [j \in Jobs |-> phase'[j]]
        /\ result' = [j \in Jobs |-> result'[j]]
        /\ left' = [j \in Jobs |-> left'[j]]
        /\ UNCHANGED batch
    BY <1>4 DEF RouterDies, AfterLostReport, AttemptsLeft
  <2>2. ASSUME NEW j \in Jobs, phase[j] = "failed" PROVE left[j] - 1 \in 0..MaxSends
    <3>1. left[j] \in 0..MaxSends /\ left[j] > 0
      BY <1>0, <2>2 DEF ItemInv, Sending
    <3> QED
      BY <3>1, RouterAssumption
  <2>3. left' \in [Jobs -> 0..MaxSends]
    BY <1>0, <2>1, <2>2
  <2>4. phase' \in [Jobs -> Phases] /\ result' \in [Jobs -> {"none", "response", "error"}]
    BY <1>0, <2>1
  <2> QED
    BY <1>0, <2>1, <2>3, <2>4
<1>5. CASE Abort \/ Write \/ UNCHANGED driver \/ UNCHANGED batchVars
  BY <1>0, <1>5 DEF Abort, Write, driver, batchVars
<1> QED
  BY <1>1, <1>2, <1>3, <1>4, <1>5 DEF BatchNext, Work

LEMMA ItemStep == BatchInv /\ [BatchNext]_batchVars => \A j \in Jobs : ItemInv(j)'
<1> SUFFICES ASSUME BatchInv, [BatchNext]_batchVars, NEW k \in Jobs PROVE ItemInv(k)'
  OBVIOUS
<1>0. /\ TypeInv /\ CallersOK /\ ItemInv(k)
      /\ caller \in [Jobs -> CallerStates]
      /\ sends \in [Jobs -> 0..MaxSends]
      /\ phase \in [Jobs -> Phases]
      /\ left \in [Jobs -> 0..MaxSends]
      /\ result \in [Jobs -> {"none", "response", "error"}]
      /\ MaxSends \in Nat
  BY RouterAssumption DEF BatchInv, TypeInv, RouterTypeOK, BatchTypeOK
<1>00. left[k] \in Int /\ sends[k] \in Int
  BY <1>0
<1> USE DEF Sending
<1>1. ASSUME NEW j \in Jobs, TakeItem(j) PROVE ItemInv(k)'
  <2>1. /\ phase[j] = "pending" /\ caller[j] = "new" /\ UNCHANGED left
        /\ Acquire(j, Preferred)
        /\ phase' = [phase EXCEPT ![j] =
                        IF caller'[j] = "rejected" THEN "raised" ELSE "calling"]
        /\ UNCHANGED result
    BY <1>1 DEF TakeItem, Route, Goes
  <2>2. CASE k = j
    <3>1. sends[k] = 0
      BY <1>0, <2>1, <2>2 DEF CallersOK
    <3>2. MaxSends > 0
      BY RouterAssumption
    <3> QED
      BY <1>0, <1>00, <2>1, <2>2, <3>1, <3>2, AcquireOutcome DEF ItemInv
  <2>3. CASE k # j
    BY <1>0, <2>1, <2>3, AcquireOutcome, ItemUntouched
  <2> QED
    BY <2>2, <2>3
<1>2. ASSUME NEW j \in Jobs, PostStatic(j) PROVE ItemInv(k)'
  <2>1. /\ phase[j] = "pending" /\ UNCHANGED <<caller, sends, left>>
        /\ \E e \in {"response", "error"} : Returns(j, e)
    BY <1>2 DEF PostStatic, vars, routerVars, callers
  <2> QED
    BY <1>0, <2>1 DEF Returns, ItemInv
<1>3. ASSUME NEW j \in Jobs, RequestEnds(j) PROVE ItemInv(k)'
  BY <1>0, <1>3 DEF RequestEnds, Goes, ItemInv, vars, routerVars, callers
<1>4. ASSUME NEW j \in Jobs, ReportAnswer(j) PROVE ItemInv(k)'
  BY <1>0, <1>4 DEF ReportAnswer, ReportSuccess, Settled, Returns, ItemInv
<1>5. ASSUME NEW j \in Jobs, ReportFailed(j) PROVE ItemInv(k)'
  <2>1. /\ phase[j] = "failed" /\ caller[j] = "holding"
        /\ left' = [left EXCEPT ![j] = left[j] - 1]
        /\ IF caller'[j] \in {"holding", "waiting"} THEN Goes(j, "calling")
                                                   ELSE Returns(j, "error")
    BY <1>5 DEF ReportFailed, ReportFailure, AfterFailure, AttemptsLeft
  <2>2. CASE k # j
    <3>1. UNCHANGED <<phase[k], left[k], result[k]>>
      BY <1>0, <2>1, <2>2 DEF Goes, Returns
    <3>2. UNCHANGED <<caller[k], sends[k]>>
      <4>1. CASE Acquire(j, Preferred')
        BY <1>0, <2>2, <4>1, AcquireOutcome
      <4>2. CASE Settled(j, "gaveup")
        BY <1>0, <2>2, <4>2 DEF Settled
      <4> QED
        BY <1>5, <4>1, <4>2 DEF ReportFailed, ReportFailure, AfterFailure
    <3> QED
      BY <1>0, <3>1, <3>2, ItemUntouched
  <2>3. CASE k = j
    <3>1. left[j] > 0 /\ sends[j] = MaxSends - left[j] + 1 /\ result[j] = "none"
      BY <1>0, <2>1, <2>3 DEF ItemInv
    <3>2. CASE AttemptsLeft(j) > 0
      <4>1. Acquire(j, Preferred') /\ left[j] - 1 > 0
        BY <1>5, <3>2 DEF ReportFailed, ReportFailure, AfterFailure, AttemptsLeft
      <4>2. \/ caller'[j] = "holding" /\ sends'[j] = sends[j] + 1
            \/ caller'[j] \in {"waiting", "rejected"} /\ sends'[j] = sends[j]
        BY <1>0, <4>1, AcquireOutcome
      <4>3. left'[j] = left[j] - 1
        BY <1>0, <2>1
      <4>4. CASE caller'[j] \in {"holding", "waiting"}
        <5>1. phase'[j] = "calling" /\ result'[j] = "none"
          BY <1>0, <2>1, <3>1, <4>4 DEF Goes
        <5> QED
          BY <1>0, <1>00, <2>3, <3>1, <4>1, <4>2, <4>3, <4>4, <5>1 DEF ItemInv
      <4>5. CASE caller'[j] = "rejected"
        <5>1. phase'[j] = "done" /\ result'[j] = "error"
          BY <1>0, <2>1, <4>5 DEF Returns
        <5> QED
          BY <2>3, <4>5, <5>1 DEF ItemInv
      <4> QED
        BY <4>2, <4>4, <4>5
    <3>3. CASE ~(AttemptsLeft(j) > 0)
      <4>1. caller' = [caller EXCEPT ![j] = "gaveup"] /\ UNCHANGED sends
        BY <1>5, <3>3 DEF ReportFailed, ReportFailure, AfterFailure, Settled
      <4>2. sends[j] = MaxSends
        BY <1>00, <1>0, <2>3, <3>1, <3>3 DEF AttemptsLeft
      <4>3. phase'[j] = "done" /\ result'[j] = "error"
        BY <1>0, <2>1, <4>1 DEF Returns
      <4> QED
        BY <1>0, <2>3, <4>1, <4>2, <4>3 DEF ItemInv
    <3> QED
      BY <3>2, <3>3
  <2> QED
    BY <2>2, <2>3
<1>6. ASSUME NEW j \in Jobs, ReportFailedRaised(j) PROVE ItemInv(k)'
  <2>1. /\ left' = [left EXCEPT ![j] = left[j] - 1]
        /\ caller' = [caller EXCEPT ![j] = "lost"] /\ UNCHANGED sends
        /\ Returns(j, "error")
    BY <1>6 DEF ReportFailedRaised, ReportFailureRaised, ReportCut, AttemptsLeft
  <2> QED
    BY <1>0, <2>1 DEF Returns, ItemInv
<1>7. ASSUME NEW j \in Jobs, WaitEnds(j) PROVE ItemInv(k)'
  <2>1. /\ caller[j] = "waiting" /\ caller' = [caller EXCEPT ![j] = "holding"]
        /\ sends' = [sends EXCEPT ![j] = sends[j] + 1]
        /\ UNCHANGED <<phase, left, result>>
    BY <1>7 DEF WaitEnds, Poll, Dispatch, driver
  <2> QED
    BY <1>0, <1>00, <2>1 DEF ItemInv
<1>8. ASSUME NEW j \in Jobs, WaitTimesOut(j) PROVE ItemInv(k)'
  <2>1. /\ caller[j] = "waiting" /\ caller' = [caller EXCEPT ![j] = "rejected"]
        /\ UNCHANGED <<sends, left>>
        /\ Goes(j, "raised") \/ Returns(j, "error")
    BY <1>8 DEF WaitTimesOut, TimeOut, Settled
  <2> QED
    BY <1>0, <2>1 DEF Goes, Returns, ItemInv
<1>9. CASE RouterDies
  <2>1. PICK cut \in SUBSET {j \in Holding : phase[j] \in {"calling", "failed"}},
             unreported \in SUBSET {j \in Jobs : phase[j] = "answered"} :
          LET ended == cut \cup {j \in Jobs : caller[j] = "waiting"}
          IN  /\ RouterRestart(cut)
              /\ phase' = [j \in Jobs |->
                              IF j \in unreported THEN AfterLostReport(j)
                              ELSE IF j \notin ended THEN phase[j]
                              ELSE IF FirstCall(j) THEN "raised" ELSE "done"]
              /\ result' = [j \in Jobs |->
                              IF j \in ended /\ ~FirstCall(j) THEN "error"
                                                              ELSE result[j]]
              /\ left' = [j \in Jobs |->
                              IF j \in ended /\ phase[j] = "failed"
                              THEN AttemptsLeft(j) ELSE left[j]]
              /\ UNCHANGED batch
    BY <1>9 DEF RouterDies
  <2>2. /\ caller'[k] = IF caller[k] = "waiting" \/ k \in cut THEN "lost" ELSE caller[k]
        /\ sends'[k] = sends[k]
    BY <2>1 DEF RouterRestart, Forget
  <2>3. CASE k \in cut \/ caller[k] = "waiting"
    <3>1. k \notin unreported /\ caller'[k] = "lost"
      BY <1>0, <2>1, <2>2, <2>3 DEF ItemInv
    <3>2. phase'[k] = IF FirstCall(k) THEN "raised" ELSE "done"
      BY <2>1, <2>3, <3>1
    <3>3. result'[k] = IF FirstCall(k) THEN result[k] ELSE "error"
      BY <2>1, <2>3
    <3> QED
      BY <1>0, <3>1, <3>2, <3>3 DEF ItemInv, FirstCall
  <2>4. CASE k \notin cut /\ caller[k] # "waiting"
    <3>1. UNCHANGED <<result[k], left[k], caller[k], sends[k]>>
      BY <2>1, <2>2, <2>4
    <3>2. CASE k \in unreported
      <4>1. phase[k] = "answered" /\ phase'[k] = "failed"
        BY <2>1, <3>2 DEF AfterLostReport
      <4> QED
        BY <1>0, <3>1, <4>1 DEF ItemInv
    <3>3. CASE k \notin unreported
      <4>1. UNCHANGED phase[k]
        BY <2>1, <2>4, <3>3
      <4> QED
        BY <1>0, <3>1, <4>1, ItemUntouched
    <3> QED
      BY <3>2, <3>3
  <2> QED
    BY <2>3, <2>4
<1>10. CASE Abort \/ Write \/ (HealthStep /\ UNCHANGED driver) \/ UNCHANGED batchVars
  BY <1>0, <1>10, ItemUntouched
     DEF Abort, Write, HealthStep, driver, batchVars, vars, routerVars, callers
<1> QED
  BY <1>1, <1>2, <1>3, <1>4, <1>5, <1>6, <1>7, <1>8, <1>9, <1>10 DEF BatchNext, Work

LEMMA BatchInvStep == BatchInv /\ [BatchNext]_batchVars => BatchInv'
<1> SUFFICES ASSUME BatchInv, [BatchNext]_batchVars PROVE BatchInv'
  OBVIOUS
<1>1. [Next]_vars
  BY BatchStepOfRouter
<1>2. TypeInv' /\ QueueHoldsWaiters'
  BY <1>1, TypeStep, QueueStep DEF BatchInv
<1>3. InflightAccounted'
  BY <1>1, <1>2, AccountStep DEF BatchInv, TypeInv
<1>4. BatchTypeOK' /\ \A j \in Jobs : ItemInv(j)'
  BY BatchTypeStep, ItemStep
<1> QED
  BY <1>2, <1>3, <1>4 DEF BatchInv

-----------------------------------------------------------------------------
(* The theorems. *)

\* An attempt is never counted below zero: dispatch_batch_item runs no item whose
\* attempts are spent.
THEOREM BatchTyping == BatchSpec => []BatchTypeOK
<1>1. BatchInv => BatchTypeOK
  BY DEF BatchInv
<1> QED
  BY <1>1, BatchInvInit, BatchInvStep, PTL DEF BatchSpec

\* An item that is over left an entry unless it raised, in whatever order threads end,
\* calls fail and the router restarts.
THEOREM DoneEntered == BatchSpec => []DoneHasEntry
<1>1. BatchInv => DoneHasEntry
  <2> SUFFICES ASSUME BatchInv, NEW j \in Jobs
               PROVE  phase[j] = "done" <=> result[j] # "none"
    BY DEF DoneHasEntry
  <2>1. ItemInv(j) /\ phase[j] \in Phases
    BY DEF BatchInv, BatchTypeOK
  <2> QED
    BY <2>1 DEF ItemInv, Phases, Sending
<1> QED
  BY <1>1, BatchInvInit, BatchInvStep, PTL DEF BatchSpec

\* The two counts of attempts, the driver's and the router's, agree for any number of
\* attempts.
THEOREM AttemptsCounted == BatchSpec => []AttemptsAreSends
<1>1. BatchInv => AttemptsAreSends
  BY DEF BatchInv, ItemInv, AttemptsAreSends
<1> QED
  BY <1>1, BatchInvInit, BatchInvStep, PTL DEF BatchSpec

\* No item is given up early for any number of attempts, threads and crashes.
THEOREM ErrorsEarned == BatchSpec => []ErrorsAreEarned
<1>1. BatchInv => ErrorsAreEarned
  <2> SUFFICES ASSUME BatchInv, NEW j \in Jobs, result[j] = "error"
               PROVE  sends[j] = MaxSends \/ caller[j] \in {"rejected", "lost", "new"}
    BY DEF ErrorsAreEarned
  <2>1. ItemInv(j) /\ phase[j] \in Phases
    BY DEF BatchInv, BatchTypeOK
  <2> QED
    BY <2>1 DEF ItemInv, Phases, Sending
<1> QED
  BY <1>1, BatchInvInit, BatchInvStep, PTL DEF BatchSpec

\* What stays in the in-flight table for an item that is over is the work of a report
\* that raised, and of nothing else.
THEOREM FinishedLeave == BatchSpec => []FinishedItemsLeave
<1>1. BatchInv => FinishedItemsLeave
  <2> SUFFICES ASSUME BatchInv, NEW j \in Jobs,
                      phase[j] \in {"done", "raised"}, inflight[j] # NoNode
               PROVE  caller[j] = "lost"
    BY DEF FinishedItemsLeave
  <2>1. ItemInv(j) /\ caller[j] \in {"holding", "waiting", "lost", "gone"}
    BY DEF BatchInv, InflightAccounted
  <2> QED
    BY <2>1 DEF ItemInv
<1> QED
  BY <1>1, BatchInvInit, BatchInvStep, PTL DEF BatchSpec

-----------------------------------------------------------------------------
(* BatchDispatch implements BatchResults. *)

Fate(j) == IF phase[j] = "raised" THEN "raised"
           ELSE IF result[j] = "none" THEN "open" ELSE result[j]

\* An item is open until its thread is over, and the result it then has is its fate.
LEMMA FateOf ==
    ASSUME BatchTypeOK, NEW j \in Jobs, ItemInv(j)
    PROVE  /\ Fate(j) \in {"open", "raised", "response", "error"}
           /\ Fate(j) = "open" <=> phase[j] \notin {"done", "raised"}
           /\ Fate(j) \in {"response", "error"} <=> phase[j] = "done"
           /\ Fate(j) = "raised" <=> phase[j] = "raised"
BY DEF Fate, BatchTypeOK, ItemInv, Phases, Sending

\* An item that is over stays as it is.
LEMMA OverStays ==
    ASSUME BatchInv, [BatchNext]_batchVars, NEW k \in Jobs, phase[k] \in {"done", "raised"}
    PROVE  UNCHANGED <<phase[k], result[k]>>
<1>0. /\ ItemInv(k) /\ BatchTypeOK /\ caller[k] \notin {"holding", "waiting"}
  BY DEF BatchInv, ItemInv, Sending
<1> USE DEF BatchTypeOK
<1>1. ASSUME NEW j \in Jobs, \/ TakeItem(j) \/ PostStatic(j) \/ RequestEnds(j)
                             \/ ReportAnswer(j) \/ ReportFailed(j) \/ ReportFailedRaised(j)
      PROVE  UNCHANGED <<phase[k], result[k]>>
  <2>1. j # k
    BY <1>1 DEF TakeItem, PostStatic, RequestEnds, ReportAnswer, ReportFailed,
                ReportFailedRaised
  <2> QED
    BY <1>0, <1>1, <2>1 DEF TakeItem, PostStatic, RequestEnds, ReportAnswer, ReportFailed,
                            ReportFailedRaised, Goes, Returns
<1>2. ASSUME NEW j \in Jobs, WaitTimesOut(j) PROVE UNCHANGED <<phase[k], result[k]>>
  <2>1. j # k
    BY <1>0, <1>2 DEF WaitTimesOut, TimeOut
  <2> QED
    BY <1>0, <1>2, <2>1 DEF WaitTimesOut, Goes, Returns
<1>3. CASE RouterDies
  BY <1>0, <1>3 DEF RouterDies, Holding
<1>4. CASE Abort \/ Write \/ UNCHANGED driver \/ UNCHANGED batchVars
  BY <1>4 DEF Abort, Write, driver, batchVars
<1> QED
  BY <1>1, <1>2, <1>3, <1>4 DEF BatchNext, Work, WaitEnds

LEMMA PromiseInit == BatchInit => Promise!ResultsInit
BY DEF BatchInit, Promise!ResultsInit

\* Every step of the driver is a step of BatchResults or changes nothing there.
LEMMA PromiseStep ==
    ASSUME BatchInv, BatchInv', [BatchNext]_batchVars
    PROVE  [Promise!ResultsNext]_(Promise!results)
<1>0. /\ BatchTypeOK /\ BatchTypeOK'
      /\ \A j \in Jobs : ItemInv(j) /\ ItemInv(j)'
  BY DEF BatchInv
<1>1. CASE Write
  <2>1. \A j \in Jobs : Fate(j) \in {"response", "error"}
    BY <1>0, <1>1, FateOf DEF Write
  <2> QED
    BY <1>1, <2>1 DEF Write, Fate, Promise!ResultsNext, Promise!WriteAll, Promise!Results
<1>2. CASE Abort
  <2>1. PICK k \in Jobs : /\ phase[k] = "raised"
                          /\ \A j \in Jobs : Place(j) < Place(k) => phase[j] = "done"
    BY <1>2 DEF Abort
  <2>2. /\ Fate(k) = "raised"
        /\ \A j \in Jobs : Place(j) < Place(k) => Fate(j) \in {"response", "error"}
    BY <1>0, <2>1, FateOf
  <2> QED
    BY <1>2, <2>2 DEF Abort, Fate, Promise!ResultsNext, Promise!LoseAll, Promise!Results
<1>3. CASE UNCHANGED batch
  <2>1. \A j \in Jobs : Fate(j)' \in {"open", "raised", "response", "error"}
    BY <1>0 DEF Fate, BatchTypeOK
  <2>2. \A j \in Jobs : Fate(j) # "open" => Fate(j)' = Fate(j)
    BY <1>0, FateOf, OverStays DEF Fate
  <2> QED
    BY <1>3, <2>1, <2>2 DEF Fate, Promise!ResultsNext, Promise!Decide, Promise!Results
<1>4. Write \/ Abort \/ UNCHANGED batch
  BY DEF BatchNext, Work, TakeItem, PostStatic, RequestEnds, ReportAnswer, ReportFailed,
         ReportFailedRaised, WaitEnds, WaitTimesOut, RouterDies, driver, batchVars
<1> QED
  BY <1>1, <1>2, <1>3, <1>4

\* The output of a batch holds the one result each of its items came to, for any input,
\* threads and attempts, whatever dies on the way; or there is none, and an item raised.
THEOREM ImplementsResults == BatchSpec => KeepsResults
<1>1. BatchInv /\ BatchInv' /\ [BatchNext]_batchVars
         => [Promise!ResultsNext]_(Promise!results)
  BY PromiseStep
<1> QED
  BY <1>1, PromiseInit, BatchInvInit, BatchInvStep, PTL
     DEF BatchSpec, KeepsResults, Promise!ResultsSpec

-----------------------------------------------------------------------------
(* Somebody can always move. *)

\* Without a router no item is ever under way or raises.
StaticInv == batch = "static" => \A j \in Jobs : phase[j] \in {"pending", "done"}

LEMMA StaticStep == BatchInv /\ StaticInv /\ [BatchNext]_batchVars => StaticInv'
<1> SUFFICES ASSUME BatchInv, StaticInv, [BatchNext]_batchVars,
                    batch' = "static", NEW k \in Jobs
             PROVE  phase'[k] \in {"pending", "done"}
  BY DEF StaticInv
<1>1. batch = "static"
  BY DEF BatchNext, TakeItem, PostStatic, Work, RequestEnds, ReportAnswer, ReportFailed,
         ReportFailedRaised, WaitEnds, WaitTimesOut, Abort, Write, RouterDies, driver, batchVars
<1>2. /\ \A j \in Jobs : phase[j] \in {"pending", "done"} /\ caller[j] # "waiting"
      /\ phase \in [Jobs -> Phases]
  BY <1>1 DEF StaticInv, BatchInv, BatchTypeOK, ItemInv, Sending
<1>3. ASSUME NEW j \in Jobs, TakeItem(j) \/ PostStatic(j)
      PROVE  phase'[k] \in {"pending", "done"}
  BY <1>1, <1>2, <1>3 DEF TakeItem, PostStatic, Returns
<1>4. ASSUME NEW j \in Jobs, Work(j) PROVE phase'[k] \in {"pending", "done"}
  BY <1>2, <1>4 DEF Work, RequestEnds, ReportAnswer, ReportFailed, ReportFailedRaised,
                    WaitEnds, WaitTimesOut, TimeOut, driver
<1>5. CASE RouterDies
  <2>1. PICK cut \in SUBSET {j \in Holding : phase[j] \in {"calling", "failed"}},
             unreported \in SUBSET {j \in Jobs : phase[j] = "answered"} :
          phase' = [j \in Jobs |->
                      IF j \in unreported THEN AfterLostReport(j)
                      ELSE IF j \notin cut \cup {i \in Jobs : caller[i] = "waiting"}
                           THEN phase[j]
                      ELSE IF FirstCall(j) THEN "raised" ELSE "done"]
    BY <1>5 DEF RouterDies
  <2>2. k \notin cut /\ k \notin unreported
    BY <1>2, <2>1
  <2> QED
    BY <1>2, <2>1, <2>2
<1>6. CASE Abort \/ Write \/ UNCHANGED driver \/ UNCHANGED batchVars
  BY <1>2, <1>6 DEF Abort, Write, driver, batchVars
<1> QED
  BY <1>3, <1>4, <1>5, <1>6 DEF BatchNext

\* A set of numbers has a least one: the ranges up to its members are finite sets, and
\* inclusion is well-founded on those.
LEMMA LeastOf ==
    ASSUME NEW S \in SUBSET Nat, S # {}
    PROVE  \E n \in S : \A m \in S : n <= m
<1> DEFINE ranges == {0..n : n \in S}
<1>1. \A n \in Nat : 0..n \in FiniteSubsetsOf(Nat)
  <2> SUFFICES ASSUME NEW n \in Nat PROVE 0..n \in FiniteSubsetsOf(Nat)
    OBVIOUS
  <2>1. IsFiniteSet(0..n)
    BY FS_Interval
  <2> QED
    BY <2>1 DEF FiniteSubsetsOf
<1>2. ranges \subseteq FiniteSubsetsOf(Nat) /\ ranges # {}
  BY <1>1
<1>3. PICK r \in ranges : \A q \in ranges : <<q, r>> \notin StrictSubsetOrdering(Nat)
  <2> HIDE DEF ranges
  <2> QED
    BY <1>2, FS_StrictSubsetOrderingWellFounded, WFMin
<1>4. PICK n \in S : r = 0..n
  BY <1>3
<1>5. ASSUME NEW m \in S, m < n PROVE FALSE
  <2>1. <<0..m, r>> \in StrictSubsetOrdering(Nat)
    <3>1. 0..m \in SUBSET Nat /\ r \in SUBSET Nat
      BY <1>4
    <3>2. 0..m \subseteq r /\ n \in r /\ n \notin 0..m
      BY <1>4, <1>5
    <3> QED
      BY <3>1, <3>2 DEF StrictSubsetOrdering
  <2> QED
    BY <1>3, <2>1
<1> QED
  BY <1>5

LEMMA PlaceTyped == \A j \in Jobs : Place(j) \in Nat
<1> SUFFICES ASSUME NEW j \in Jobs PROVE Place(j) \in Nat
  OBVIOUS
<1>1. \E i \in DOMAIN Items : Items[i] = j
  BY BatchAssumption DEF ToSet
<1>2. DOMAIN Items \in SUBSET Nat
  BY BatchAssumption
<1> QED
  BY <1>1, <1>2 DEF Place

\* Of some items, one comes first in the input.
LEMMA FirstOf ==
    ASSUME NEW some \in SUBSET Jobs, some # {}
    PROVE  \E k \in some : \A j \in some : Place(k) <= Place(j)
<1>1. \A j \in Jobs : Place(j) \in Nat
  BY PlaceTyped
<1> DEFINE places == {Place(j) : j \in some}
<1>2. places \in SUBSET Nat /\ places # {}
  BY <1>1
<1>3. PICK n \in places : \A m \in places : n <= m
  <2> HIDE DEF places
  <2> QED
    BY <1>2, LeastOf
<1> QED
  BY <1>3

LEMMA DriverMoves == BatchInv /\ StaticInv => DriverCanMove
<1> SUFFICES ASSUME BatchInv, StaticInv PROVE DriverCanMove
  OBVIOUS
<1>1. \A j \in Jobs : ItemInv(j) /\ phase[j] \in Phases
  BY DEF BatchInv, BatchTypeOK
<1>2. \A j \in Busy : caller[j] = "holding" \/ (phase[j] = "calling" /\ caller[j] = "waiting")
  BY <1>1 DEF Busy, ItemInv, Sending
<1>3. \A j \in Jobs : phase[j] = "pending" => caller[j] = "new"
  BY <1>1 DEF ItemInv
<1>4. ASSUME batch \in {"running", "static"}, Busy = {},
             \A j \in Jobs : phase[j] # "pending",
             NEW i \in Jobs, phase[i] # "done"
      PROVE  /\ batch = "running"
             /\ \E k \in Jobs : /\ phase[k] = "raised"
                                /\ \A j \in Jobs : Place(j) < Place(k) => phase[j] = "done"
  <2> DEFINE raised == {j \in Jobs : phase[j] = "raised"}
  <2>1. \A j \in Jobs : phase[j] \in {"done", "raised"}
    BY <1>1, <1>4 DEF Busy, Phases
  <2>2. PICK k \in raised : \A j \in raised : Place(k) <= Place(j)
    <3>1. i \in raised
      BY <1>4, <2>1
    <3> HIDE DEF raised
    <3>2. raised \in SUBSET Jobs
      BY DEF raised
    <3> QED
      BY <3>1, <3>2, FirstOf
  <2>3. ASSUME NEW j \in Jobs, Place(j) < Place(k) PROVE phase[j] = "done"
    <3>1. j \notin raised
      BY <2>2, <2>3, PlaceTyped
    <3> QED
      BY <2>1, <3>1
  <2>4. batch = "running"
    BY <1>4, <2>2 DEF StaticInv
  <2> QED
    BY <2>2, <2>3, <2>4
<1> QED
  BY <1>2, <1>3, <1>4 DEF DriverCanMove

\* For any input and any number of threads and attempts, and whatever has died: there is
\* a thread at work that can go on, an item that a free one can take, or an end to come to.
THEOREM DriverDoesMove == BatchSpec => []DriverCanMove
<1>1. BatchInit => StaticInv
  BY DEF BatchInit, StaticInv
<1> QED
  BY <1>1, StaticStep, DriverMoves, BatchInvInit, BatchInvStep, PTL DEF BatchSpec

-----------------------------------------------------------------------------
(* Progress: the measure behind BatchEnds. *)

Position(j) == <<phase[j], caller[j], left[j], result[j]>>

\* An item on its way is over after a bounded number of moves, and not before the last.
LEMMA DistanceOf ==
    ASSUME BatchInv, NEW j \in Jobs
    PROVE  /\ Distance(j) \in 0..(4 * MaxSends + 1)
           /\ Distance(j) = 0 <=> phase[j] \in {"done", "raised"}
<1>1. /\ left[j] \in 0..MaxSends /\ MaxSends \in Nat /\ phase[j] \in Phases
      /\ phase[j] \in Sending => left[j] > 0
  BY RouterAssumption DEF BatchInv, BatchTypeOK, ItemInv
<1>2. MovesMade(j) \in 0..3
  BY DEF MovesMade
<1> QED
  BY <1>1, <1>2 DEF Distance, Phases, Sending

\* The moves there are.
LEMMA Nearer ==
    ASSUME BatchInv, BatchInv', NEW j \in Jobs,
           \/ phase[j] \notin {"done", "raised"} /\ phase'[j] \in {"done", "raised"}
           \/ /\ phase[j] = "pending" /\ phase'[j] = "calling"
              /\ left'[j] = left[j]
           \/ /\ phase[j] = "calling" /\ caller[j] = "waiting"
              /\ phase'[j] = "calling" /\ caller'[j] # "waiting" /\ left'[j] = left[j]
           \/ /\ phase[j] = "calling" /\ caller[j] # "waiting"
              /\ phase'[j] \in {"answered", "failed"} /\ left'[j] = left[j]
           \/ /\ phase[j] = "answered" /\ phase'[j] = "failed"
              /\ left'[j] = left[j]
           \/ /\ phase[j] = "failed" /\ phase'[j] = "calling"
              /\ left'[j] = left[j] - 1
    PROVE  Distance(j)' < Distance(j)
<1>1. /\ left[j] \in 0..MaxSends /\ left'[j] \in 0..MaxSends /\ MaxSends \in Nat
      /\ ItemInv(j) /\ ItemInv(j)'
  BY RouterAssumption DEF BatchInv, BatchTypeOK
<1>2. CASE phase'[j] \in {"done", "raised"}
  <2>1. Distance(j)' = 0
    BY <1>2 DEF Distance
  <2>2. Distance(j) \in Nat /\ (Distance(j) = 0 <=> phase[j] \in {"done", "raised"})
    BY DistanceOf
  <2> QED
    BY <1>2, <2>1, <2>2
<1>3. CASE phase'[j] \notin {"done", "raised"}
  <2>1. /\ phase[j] \in Sending /\ caller[j] = "waiting" => phase[j] = "calling"
        /\ phase'[j] \in Sending /\ caller'[j] = "waiting" => phase'[j] = "calling"
        /\ phase[j] = "pending" => left[j] = MaxSends
    BY <1>1 DEF ItemInv
  <2> QED
    BY <1>1, <1>3, <2>1 DEF Distance, MovesMade, Sending
<1> QED
  BY <1>2, <1>3

LEMMA AdvanceStep ==
    ASSUME BatchInv, BatchInv', [BatchNext]_batchVars, NEW k \in Jobs
    PROVE  UNCHANGED Position(k) \/ Distance(k)' < Distance(k)
<1>0. /\ TypeInv /\ BatchTypeOK /\ ItemInv(k) /\ ItemInv(k)'
      /\ caller \in [Jobs -> CallerStates]
  BY DEF BatchInv, TypeInv, RouterTypeOK
<1> USE DEF BatchTypeOK
<1>1. ASSUME NEW j \in Jobs, TakeItem(j)
      PROVE  UNCHANGED Position(k) \/ Distance(k)' < Distance(k)
  <2>1. /\ phase[j] = "pending" /\ caller[j] = "new" /\ UNCHANGED <<left, result>>
        /\ Acquire(j, Preferred)
        /\ \E ph \in {"raised", "calling"} : phase' = [phase EXCEPT ![j] = ph]
    BY <1>1 DEF TakeItem, Route, Goes
  <2>2. CASE k = j
    BY <1>0, <2>1, <2>2, Nearer
  <2>3. CASE k # j
    BY <1>0, <2>1, <2>3, AcquireOutcome DEF Position
  <2> QED
    BY <2>2, <2>3
<1>2. ASSUME NEW j \in Jobs, PostStatic(j)
      PROVE  UNCHANGED Position(k) \/ Distance(k)' < Distance(k)
  <2>1. /\ phase[j] = "pending" /\ UNCHANGED <<caller, left>>
        /\ \E e \in {"response", "error"} : Returns(j, e)
    BY <1>2 DEF PostStatic, vars, routerVars, callers
  <2>2. CASE k = j
    BY <1>0, <2>1, <2>2, Nearer DEF Returns
  <2>3. CASE k # j
    BY <1>0, <2>1, <2>3 DEF Returns, Position
  <2> QED
    BY <2>2, <2>3
<1>3. ASSUME NEW j \in Jobs, RequestEnds(j)
      PROVE  UNCHANGED Position(k) \/ Distance(k)' < Distance(k)
  <2>1. /\ phase[j] = "calling" /\ caller[j] = "holding"
        /\ UNCHANGED <<caller, left, result>>
        /\ \E ph \in {"answered", "failed"} : phase' = [phase EXCEPT ![j] = ph]
    BY <1>3 DEF RequestEnds, Goes, vars, routerVars, callers
  <2>2. CASE k = j
    BY <1>0, <2>1, <2>2, Nearer
  <2>3. CASE k # j
    BY <1>0, <2>1, <2>3 DEF Position
  <2> QED
    BY <2>2, <2>3
<1>4. ASSUME NEW j \in Jobs, ReportAnswer(j) \/ ReportFailedRaised(j) \/ WaitTimesOut(j)
      PROVE  UNCHANGED Position(k) \/ Distance(k)' < Distance(k)
  <2>1. /\ phase[j] \in {"answered", "failed"} \/ caller[j] = "waiting"
        /\ \E ph \in {"done", "raised"} : phase' = [phase EXCEPT ![j] = ph]
        /\ \A i \in Jobs \ {j} : UNCHANGED <<caller[i], left[i], result[i]>>
    BY <1>0, <1>4 DEF ReportAnswer, ReportSuccess, ReportFailedRaised, ReportFailureRaised,
                      ReportCut, WaitTimesOut, TimeOut, Settled, Goes, Returns
  <2>2. CASE k = j
    <3>1. phase[j] \notin {"done", "raised"}
      BY <1>0, <2>1, <2>2 DEF ItemInv, Sending
    <3> QED
      BY <1>0, <2>1, <2>2, <3>1, Nearer
  <2>3. CASE k # j
    BY <1>0, <2>1, <2>3 DEF Position
  <2> QED
    BY <2>2, <2>3
<1>5. ASSUME NEW j \in Jobs, ReportFailed(j)
      PROVE  UNCHANGED Position(k) \/ Distance(k)' < Distance(k)
  <2>1. /\ phase[j] = "failed"
        /\ left' = [left EXCEPT ![j] = left[j] - 1]
        /\ Goes(j, "calling") \/ Returns(j, "error")
    BY <1>5 DEF ReportFailed, AttemptsLeft
  <2>2. CASE k = j
    BY <1>0, <2>1, <2>2, Nearer DEF Goes, Returns
  <2>3. CASE k # j
    <3>1. UNCHANGED <<phase[k], left[k], result[k]>>
      BY <1>0, <2>1, <2>3 DEF Goes, Returns
    <3>2. UNCHANGED caller[k]
      <4>1. CASE Acquire(j, Preferred')
        BY <1>0, <2>3, <4>1, AcquireOutcome
      <4>2. CASE Settled(j, "gaveup")
        BY <1>0, <2>3, <4>2 DEF Settled
      <4> QED
        BY <1>5, <4>1, <4>2 DEF ReportFailed, ReportFailure, AfterFailure
    <3> QED
      BY <3>1, <3>2 DEF Position
  <2> QED
    BY <2>2, <2>3
<1>6. ASSUME NEW j \in Jobs, WaitEnds(j)
      PROVE  UNCHANGED Position(k) \/ Distance(k)' < Distance(k)
  <2>1. /\ caller[j] = "waiting" /\ caller' = [caller EXCEPT ![j] = "holding"]
        /\ UNCHANGED <<phase, left, result>>
    BY <1>6 DEF WaitEnds, Poll, Dispatch, driver
  <2>2. CASE k = j
    <3>1. phase[j] = "calling"
      BY <1>0, <2>1, <2>2 DEF ItemInv, Sending
    <3> QED
      BY <1>0, <2>1, <2>2, <3>1, Nearer
  <2>3. CASE k # j
    BY <1>0, <2>1, <2>3 DEF Position
  <2> QED
    BY <2>2, <2>3
<1>7. CASE RouterDies
  <2>1. PICK cut \in SUBSET {j \in Holding : phase[j] \in {"calling", "failed"}},
             unreported \in SUBSET {j \in Jobs : phase[j] = "answered"} :
          LET ended == cut \cup {j \in Jobs : caller[j] = "waiting"}
          IN  /\ RouterRestart(cut)
              /\ phase' = [j \in Jobs |->
                              IF j \in unreported THEN AfterLostReport(j)
                              ELSE IF j \notin ended THEN phase[j]
                              ELSE IF FirstCall(j) THEN "raised" ELSE "done"]
              /\ result' = [j \in Jobs |->
                              IF j \in ended /\ ~FirstCall(j) THEN "error"
                                                              ELSE result[j]]
              /\ left' = [j \in Jobs |->
                              IF j \in ended /\ phase[j] = "failed"
                              THEN AttemptsLeft(j) ELSE left[j]]
              /\ UNCHANGED batch
    BY <1>7 DEF RouterDies
  <2>2. caller'[k] = IF caller[k] = "waiting" \/ k \in cut THEN "lost" ELSE caller[k]
    BY <2>1 DEF RouterRestart, Forget
  <2>3. CASE k \in cut \/ caller[k] = "waiting"
    <3>1. phase[k] \in {"calling", "failed"}
      BY <1>0, <2>1, <2>3 DEF ItemInv, Sending
    <3>2. phase'[k] \in {"raised", "done"}
      BY <2>1, <2>3, <3>1
    <3> QED
      BY <3>1, <3>2, Nearer
  <2>4. CASE k \notin cut /\ caller[k] # "waiting"
    <3>1. UNCHANGED <<result[k], left[k], caller[k]>>
      BY <2>1, <2>2, <2>4
    <3>2. CASE k \in unreported
      <4>1. phase[k] = "answered" /\ phase'[k] = "failed"
        BY <2>1, <3>2 DEF AfterLostReport
      <4> QED
        BY <3>1, <4>1, Nearer
    <3>3. CASE k \notin unreported
      BY <2>1, <2>4, <3>1, <3>3 DEF Position
    <3> QED
      BY <3>2, <3>3
  <2> QED
    BY <2>3, <2>4
<1>8. CASE Abort \/ Write \/ (HealthStep /\ UNCHANGED driver) \/ UNCHANGED batchVars
  BY <1>8 DEF Abort, Write, HealthStep, driver, batchVars, vars, routerVars, callers, Position
<1> QED
  BY <1>1, <1>2, <1>3, <1>4, <1>5, <1>6, <1>7, <1>8 DEF BatchNext, Work

\* What keeps a batch from going round in circles, for any number of items, threads and
\* attempts: every move of an item, those a crash of the router makes included, takes it
\* nearer to its end, which is at most 4 * MaxSends + 1 moves away.
THEOREM ItemsDoAdvance == BatchSpec => ItemsAdvance
<1>1. BatchInv /\ BatchInv' /\ [BatchNext]_batchVars =>
         [\A j \in Jobs : \/ UNCHANGED <<phase[j], caller[j], left[j], result[j]>>
                          \/ Distance(j)' < Distance(j)]_batchVars
  BY AdvanceStep DEF Position
<1> QED
  BY <1>1, BatchInvInit, BatchInvStep, PTL DEF BatchSpec, ItemsAdvance

=============================================================================
