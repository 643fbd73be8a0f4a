--------------------------- MODULE GatewayProofs ---------------------------
(***************************************************************************)
(* Proofs about Gateway, for any requests, any number of tries, and with    *)
(* the demo fallback or without.                                            *)
(***************************************************************************)
EXTENDS Gateway, RouterProofs

-----------------------------------------------------------------------------
(* The router under the gateway. *)

RouterInv == TypeInv /\ QueueHoldsWaiters /\ InflightAccounted

\* A step of the gateway is one of Router or leaves the router alone: for all the requests
\* of a gateway that dies, too, the router sees its callers go away and nothing else.
LEMMA GatewayStepOfRouter == [GatewayNext]_gatewayVars => [Next]_vars
<1> SUFFICES ASSUME [GatewayNext]_gatewayVars PROVE [Next]_vars
  OBVIOUS
<1>1. ASSUME NEW j \in Jobs, GoDemo(j) \/ PostPlain(j) \/ Rest(j) \/ PostStream(j)
      PROVE  UNCHANGED vars
  BY <1>1 DEF GoDemo, PostPlain, Rest, PostStream
<1>2. ASSUME NEW away, Vanish(away) PROVE Next
  BY <1>2 DEF Next, Vanish
<1>3. ASSUME NEW j \in Jobs, Ask(j) \/ WaitOver(j) \/ Orphaned(j) PROVE Next
  BY <1>2, <1>3 DEF Ask, WaitOver, Orphaned, Next, CallStep
<1>4. ASSUME NEW j \in Jobs, ReportAnswer(j) \/ ReportFailed(j) \/ ClientLeaves(j)
      PROVE  [Next]_vars
  <2>1. FALSE \in BOOLEAN
    OBVIOUS
  <2> QED
    BY <1>2, <1>4, <2>1 DEF ReportAnswer, ReportFailed, ClientLeaves, Next, CallStep
<1>5. ASSUME RouterDies PROVE Next
  <2>1. PICK cut \in SUBSET Holding, unreported \in SUBSET Holding :
          RouterRestart(cut \cup unreported)
    BY <1>5 DEF RouterDies
  <2>2. cut \cup unreported \in SUBSET Holding
    OBVIOUS
  <2> QED
    BY <2>1, <2>2 DEF Next
<1>6. CASE GatewayDies
  BY <1>2, <1>6 DEF GatewayDies
<1>7. CASE HealthStep
  BY <1>7 DEF Next
<1>8. CASE UNCHANGED gatewayVars
  BY <1>8 DEF gatewayVars
<1> QED
  BY <1>1, <1>3, <1>4, <1>5, <1>6, <1>7, <1>8 DEF GatewayNext, Serve

LEMMA RouterInvStep == RouterInv /\ [GatewayNext]_gatewayVars => RouterInv'
<1> SUFFICES ASSUME RouterInv, [GatewayNext]_gatewayVars PROVE RouterInv'
  OBVIOUS
<1>1. [Next]_vars
  BY GatewayStepOfRouter
<1>2. TypeInv' /\ QueueHoldsWaiters'
  BY <1>1, TypeStep, QueueStep DEF RouterInv
<1>3. InflightAccounted'
  BY <1>1, <1>2, AccountStep DEF RouterInv, TypeInv
<1> QED
  BY <1>2, <1>3 DEF RouterInv

\* The gateway is one of the callers Router is about: whatever is proved of Router holds
\* of the router that serves a gateway, with clients that leave, a gateway that dies with
\* all its requests and a router that dies under it.
THEOREM GatewayUsesRouter == GatewaySpec => Spec
<1>1. GatewayInit => Init
  BY DEF GatewayInit
<1> QED
  BY <1>1, GatewayStepOfRouter, PTL DEF GatewaySpec, Spec

-----------------------------------------------------------------------------
(* A request in the gateway and what the router knows of it as a caller. *)

OnItsWay == {"sending", "resting", "answered", "failed"}

\* A caller that holds a route is a routed request on its way, or nobody, and a routed
\* request on its way holds one; one that waits
\* has never been sent; one that has not been asked for is new to the router.  A request
\* has tries left while it is sent, and a plain one that has failed has none.
RequestInv(j) ==
    /\ caller[j] = "holding" => \/ j \in routed /\ phase[j] \in OnItsWay
                                \/ phase[j] = "left"
    /\ j \in routed /\ phase[j] \in OnItsWay => caller[j] = "holding"
    /\ caller[j] \in {"new", "waiting"} => j \notin routed
    /\ caller[j] = "waiting" => sends[j] = 0 /\ phase[j] \in {"asking", "left"}
    /\ phase[j] = "asking" => caller[j] = "waiting"
    /\ phase[j] \in {"new", "demo", "demoFailed"} => caller[j] = "new"
    /\ phase[j] = "sending" => caller[j] # "new"
    /\ phase[j] \in {"new", "asking"} => tries[j] = 0
    /\ phase[j] \in {"demo", "sending", "resting"} => tries[j] < Tries
    /\ j \notin Streams /\ phase[j] = "failed" => tries[j] = Tries

GatewayInv ==
    /\ RouterInv
    /\ GatewayTypeOK
    /\ \A j \in Jobs : RequestInv(j)

LEMMA GatewayInvInit == GatewayInit => GatewayInv
<1> SUFFICES ASSUME GatewayInit PROVE GatewayInv
  OBVIOUS
<1>1. RouterInv
  BY TypeInit, QueueInit, RouterAssumption
     DEF GatewayInit, RouterInv, Init, RouterInit, InflightAccounted
<1>2. GatewayTypeOK
  BY GatewayAssumption DEF GatewayInit, GatewayTypeOK, Phases
<1>3. \A j \in Jobs : RequestInv(j)
  BY GatewayAssumption DEF GatewayInit, Init, RouterInit, RequestInv
<1> QED
  BY <1>1, <1>2, <1>3 DEF GatewayInv

LEMMA RequestUntouched ==
    ASSUME NEW j \in Jobs, RequestInv(j),
           UNCHANGED <<phase[j], tries[j], caller[j], sends[j]>>,
           j \in routed <=> j \in routed'
    PROVE  RequestInv(j)'
BY DEF RequestInv

\* What a post does, whatever it posts.
LEMMA PostTyped ==
    ASSUME GatewayInv, NEW j \in Jobs, PostPlain(j)
    PROVE  /\ j \notin Streams /\ phase[j] \in {"demo", "sending"}
           /\ UNCHANGED <<routed, caller, sends>>
           /\ \E ph \in Phases : phase' = [phase EXCEPT ![j] = ph]
           /\ tries' \in [Jobs -> 0..Tries]
           /\ \A k \in Jobs : k # j => UNCHANGED tries[k]
           /\ \/ phase'[j] = "answered"
              \/ phase'[j] = "resting" /\ tries'[j] < Tries
              \/ phase'[j] = "demoFailed" /\ phase[j] = "demo"
              \/ phase'[j] = "failed" /\ phase[j] = "sending" /\ tries'[j] = Tries
<1>0. /\ phase \in [Jobs -> Phases] /\ tries \in [Jobs -> 0..Tries] /\ Tries \in Nat
      /\ RequestInv(j)
  BY GatewayAssumption DEF GatewayInv, GatewayTypeOK
<1>1. /\ j \notin Streams /\ phase[j] \in {"demo", "sending"}
      /\ UNCHANGED <<routed, caller, sends>>
  BY DEF PostPlain, vars, routerVars, callers
<1>2. tries[j] < Tries
  BY <1>0, <1>1 DEF RequestInv
<1>3. CASE Goes(j, "answered") /\ UNCHANGED tries
  BY <1>0, <1>1, <1>3 DEF Goes, Phases
<1>4. CASE /\ tries' = [tries EXCEPT ![j] = AfterFailedTry(j)]
           /\ Goes(j, IF ~LastTry(j) THEN "resting"
                      ELSE IF phase[j] = "demo" THEN "demoFailed" ELSE "failed")
  <2>1. tries[j] + 1 \in 0..Tries /\ tries' = [tries EXCEPT ![j] = tries[j] + 1]
    BY <1>0, <1>2, <1>4 DEF AfterFailedTry
  <2>2. CASE LastTry(j)
    BY <1>0, <1>1, <1>4, <2>1, <2>2 DEF Goes, LastTry, AfterFailedTry, Phases
  <2>3. CASE ~LastTry(j)
    BY <1>0, <1>1, <1>4, <2>1, <2>3 DEF Goes, LastTry, AfterFailedTry, Phases
  <2> QED
    BY <2>2, <2>3
<1> QED
  BY <1>1, <1>3, <1>4 DEF PostPlain

LEMMA GatewayTypeStep == GatewayInv /\ [GatewayNext]_gatewayVars => GatewayTypeOK'
<1> SUFFICES ASSUME GatewayInv, [GatewayNext]_gatewayVars PROVE GatewayTypeOK'
  OBVIOUS
<1>0. GatewayTypeOK /\ Tries \in Nat
  BY GatewayAssumption DEF GatewayInv
<1> USE DEF GatewayTypeOK, Phases
<1>1. ASSUME NEW j \in Jobs, PostPlain(j) PROVE GatewayTypeOK'
  BY <1>0, <1>1, PostTyped
<1>2. ASSUME NEW j \in Jobs, Ask(j) \/ WaitOver(j) PROVE GatewayTypeOK'
  <2>1. /\ \E ph \in Phases : Goes(j, ph)
        /\ routed' = routed \/ routed' = routed \cup {j}
    BY <1>2 DEF Ask, WaitOver, Asked, Fallback
  <2>2. tries' = tries \/ tries' = [tries EXCEPT ![j] = 0]
    BY <1>2 DEF Ask, WaitOver
  <2> QED
    BY <1>0, <2>1, <2>2 DEF Goes
<1>3. ASSUME NEW j \in Jobs, \/ GoDemo(j) \/ Rest(j) \/ PostStream(j) \/ ReportAnswer(j)
                             \/ ReportFailed(j) \/ ClientLeaves(j)
      PROVE  GatewayTypeOK'
  <2>1. (\E ph \in Phases : Goes(j, ph)) /\ UNCHANGED <<routed, tries>>
    BY <1>3 DEF GoDemo, Rest, PostStream, ReportAnswer, ReportFailed, ClientLeaves
  <2> QED
    BY <1>0, <2>1 DEF Goes
<1>4. CASE GatewayDies
  BY <1>0, <1>4 DEF GatewayDies
<1>5. CASE RouterDies
  <2>1. /\ routed' \subseteq routed /\ UNCHANGED tries
        /\ \A j \in Jobs : phase'[j] \in {phase[j], "sending", "error", "done"}
        /\ phase' = [j \in Jobs |-> phase'[j]]
    BY <1>5 DEF RouterDies
  <2> QED
    BY <1>0, <2>1
<1>6. CASE UNCHANGED gateway \/ UNCHANGED gatewayVars
  BY <1>0, <1>6 DEF gateway, gatewayVars
<1> QED
  BY <1>1, <1>2, <1>3, <1>4, <1>5, <1>6 DEF GatewayNext, Serve, Orphaned

LEMMA RequestStep == GatewayInv /\ [GatewayNext]_gatewayVars => \A j \in Jobs : RequestInv(j)'
<1> SUFFICES ASSUME GatewayInv, [GatewayNext]_gatewayVars, NEW k \in Jobs
             PROVE  RequestInv(k)'
  OBVIOUS
<1>0. /\ TypeInv /\ CallersOK /\ RequestInv(k)
      /\ caller \in [Jobs -> CallerStates]
      /\ sends \in [Jobs -> 0..MaxSends]
      /\ phase \in [Jobs -> Phases]
      /\ routed \in SUBSET Jobs
      /\ tries \in [Jobs -> 0..Tries]
      /\ Tries \in Nat \ {0}
  BY GatewayAssumption
     DEF GatewayInv, RouterInv, TypeInv, RouterTypeOK, GatewayTypeOK
<1> USE DEF OnItsWay
<1>1. ASSUME NEW j \in Jobs, GoDemo(j) \/ Rest(j) \/ PostStream(j) PROVE RequestInv(k)'
  <2>1. UNCHANGED <<routed, tries, caller, sends>>
    BY <1>1 DEF GoDemo, Rest, PostStream, vars, routerVars, callers
  <2>2. RequestInv(j)
    BY DEF GatewayInv
  <2>3. CASE k # j
    BY <1>0, <1>1, <2>1, <2>3, RequestUntouched DEF GoDemo, Rest, PostStream, Goes
  <2>4. CASE k = j
    BY <1>0, <1>1, <2>1, <2>4 DEF GoDemo, Rest, PostStream, Goes, RequestInv
  <2> QED
    BY <2>3, <2>4
<1>2. ASSUME NEW j \in Jobs, Ask(j) PROVE RequestInv(k)'
  <2>1. /\ caller[j] = "new" /\ Acquire(j, Preferred) /\ Asked(j)
        /\ tries' = [tries EXCEPT ![j] = 0]
    BY <1>2 DEF Ask, Route
  <2>2. /\ \/ caller'[j] = "holding" /\ sends'[j] = sends[j] + 1
           \/ caller'[j] \in {"waiting", "rejected"} /\ sends'[j] = sends[j]
        /\ \A m \in Jobs : m # j => UNCHANGED <<caller[m], sends[m]>>
    BY <1>0, <2>1, AcquireOutcome
  <2>3. CASE k = j
    <3>1. sends[k] = 0
      BY <1>0, <2>1, <2>3 DEF CallersOK
    <3> QED
      BY <1>0, <2>1, <2>2, <2>3, <3>1 DEF Asked, Fallback, Goes, RequestInv
  <2>4. CASE k # j
    <3>1. UNCHANGED <<phase[k], tries[k]>> /\ (k \in routed <=> k \in routed')
      BY <1>0, <2>1, <2>4 DEF Asked, Fallback, Goes
    <3> QED
      BY <1>0, <2>2, <2>4, <3>1, RequestUntouched
  <2> QED
    BY <2>3, <2>4
<1>3. ASSUME NEW j \in Jobs, WaitOver(j) PROVE RequestInv(k)'
  <2>1. /\ phase[j] = "asking" /\ Asked(j) /\ UNCHANGED tries
        /\ \E st \in {"holding", "rejected"} : caller' = [caller EXCEPT ![j] = st]
        /\ \A m \in Jobs : m # j => UNCHANGED sends[m]
    BY <1>0, <1>3 DEF WaitOver, Poll, TimeOut, Dispatch, Settled
  <2>2. CASE k = j
    BY <1>0, <2>1, <2>2 DEF Asked, Fallback, Goes, RequestInv
  <2>3. CASE k # j
    <3>1. UNCHANGED <<phase[k], tries[k], caller[k]>> /\ (k \in routed <=> k \in routed')
      BY <1>0, <2>1, <2>3 DEF Asked, Fallback, Goes
    <3> QED
      BY <1>0, <2>1, <2>3, <3>1, RequestUntouched
  <2> QED
    BY <2>2, <2>3
<1>4. ASSUME NEW j \in Jobs, PostPlain(j) PROVE RequestInv(k)'
  <2>1. /\ j \notin Streams /\ phase[j] \in {"demo", "sending"}
        /\ UNCHANGED <<routed, caller, sends>>
        /\ \E ph \in Phases : phase' = [phase EXCEPT ![j] = ph]
        /\ \A m \in Jobs : m # j => UNCHANGED tries[m]
        /\ \/ phase'[j] = "answered"
           \/ phase'[j] = "resting" /\ tries'[j] < Tries
           \/ phase'[j] = "demoFailed" /\ phase[j] = "demo"
           \/ phase'[j] = "failed" /\ phase[j] = "sending" /\ tries'[j] = Tries
    BY <1>4, PostTyped
  <2>2. CASE k = j
    BY <1>0, <2>1, <2>2 DEF RequestInv
  <2>3. CASE k # j
    BY <1>0, <2>1, <2>3, RequestUntouched
  <2> QED
    BY <2>2, <2>3
<1>5. ASSUME NEW j \in Jobs, ReportAnswer(j) \/ ReportFailed(j) \/ ClientLeaves(j)
      PROVE  RequestInv(k)'
  <2>1. /\ \E ph \in {"done", "error", "left"} :
              phase' = [phase EXCEPT ![j] = ph]
        /\ UNCHANGED <<routed, tries, sends>>
    BY <1>5 DEF ReportAnswer, ReportFailed, ClientLeaves, Goes, ReportSuccess, ReportFailure,
                AfterFailure, ReportCut, ReportFailureRaised, Vanish, Settled, vars, routerVars, callers
  <2>2. \/ UNCHANGED caller /\ (phase'[j] = "left" \/ j \notin routed)
        \/ \E st \in {"served", "gaveup", "lost", "gone"} : caller' = [caller EXCEPT ![j] = st]
    <3>1. ASSUME ReportAnswer(j) \/ ReportFailed(j)
          PROVE  \/ UNCHANGED caller /\ j \notin routed
                 \/ \E st \in {"served", "gaveup", "lost"} :
                       caller' = [caller EXCEPT ![j] = st]
      BY <3>1 DEF ReportAnswer, ReportFailed, ReportSuccess, ReportFailure, AfterFailure,
                  ReportFailureRaised, ReportCut, Settled, vars, routerVars, callers, Blames
    <3>2. ASSUME ClientLeaves(j)
          PROVE  \/ UNCHANGED caller /\ phase'[j] = "left"
                 \/ caller' = [caller EXCEPT ![j] = "gone"]
      BY <1>0, <3>2 DEF ClientLeaves, Goes, Vanish, vars, routerVars, callers
    <3> QED
      BY <1>5, <3>1, <3>2
  <2>3. CASE k # j
    BY <1>0, <2>1, <2>2, <2>3, RequestUntouched
  <2>4. CASE k = j /\ UNCHANGED caller
    <3>1. phase[j] \in {"answered", "failed"} \/ phase'[j] = "left"
      BY <1>0, <1>5 DEF ReportAnswer, ReportFailed, ClientLeaves, Goes
    <3> QED
      BY <1>0, <2>1, <2>2, <2>4, <3>1 DEF RequestInv, CallerStates
  <2>5. CASE k = j /\ \E st \in {"served", "gaveup", "lost", "gone"} :
                         caller' = [caller EXCEPT ![j] = st]
    BY <1>0, <2>1, <2>5 DEF RequestInv
  <2> QED
    BY <2>2, <2>3, <2>4, <2>5
<1>6. ASSUME NEW j \in Jobs, Orphaned(j) PROVE RequestInv(k)'
  <2>1. /\ phase[j] = "left" /\ UNCHANGED <<phase, routed, tries>>
        /\ \E st \in {"holding", "rejected", "gone"} : caller' = [caller EXCEPT ![j] = st]
        /\ \A m \in Jobs : m # j => UNCHANGED sends[m]
    <3>1. ASSUME Poll(j) \/ TimeOut(j)
          PROVE  /\ \E st \in {"holding", "rejected"} : caller' = [caller EXCEPT ![j] = st]
                 /\ \A m \in Jobs : m # j => UNCHANGED sends[m]
      BY <1>0, <3>1 DEF Poll, TimeOut, Dispatch, Settled
    <3>2. ASSUME Vanish({j}) PROVE caller' = [caller EXCEPT ![j] = "gone"] /\ UNCHANGED sends
      BY <1>0, <3>2 DEF Vanish
    <3> QED
      BY <1>6, <3>1, <3>2 DEF Orphaned, gateway
  <2>2. CASE k # j
    BY <1>0, <2>1, <2>2, RequestUntouched
  <2>3. CASE k = j
    BY <1>0, <2>1, <2>3 DEF RequestInv
  <2> QED
    BY <2>2, <2>3
<1>7. CASE GatewayDies
  <2>1. /\ phase'[k] = IF phase[k] \in Over THEN phase[k] ELSE "left"
        /\ caller'[k] = IF k \in Holding THEN "gone" ELSE caller[k]
        /\ UNCHANGED <<sends, routed, tries>>
    BY <1>7 DEF GatewayDies, Vanish
  <2> QED
    BY <1>0, <2>1 DEF RequestInv, Over, Holding
<1>8. CASE RouterDies
  <2>1. PICK cut \in SUBSET {j \in Holding : phase[j] = "sending" /\ tries[j] = 0},
             unreported \in SUBSET {j \in Holding : phase[j] \in {"answered", "failed"}} :
          LET asking == {j \in Jobs : phase[j] = "asking"} \cup cut
          IN  /\ RouterRestart(cut \cup unreported)
              /\ routed' = routed \ asking
              /\ \E found \in SUBSET asking :
                    phase' = [j \in Jobs |->
                        IF j \in asking THEN IF j \in found THEN "sending" ELSE "error"
                        ELSE IF j \in unreported
                             THEN IF phase[j] = "answered" THEN "done" ELSE "error"
                        ELSE phase[j]]
              /\ UNCHANGED tries
    BY <1>8 DEF RouterDies
  <2>2. /\ caller'[k] = IF caller[k] = "waiting" \/ k \in cut \cup unreported
                        THEN "lost" ELSE caller[k]
        /\ UNCHANGED <<sends, tries>>
    BY <2>1 DEF RouterRestart, Forget
  <2>3. CASE phase[k] = "asking" \/ k \in cut
    <3>1. caller'[k] = "lost" /\ tries'[k] = 0 /\ k \notin routed'
      BY <1>0, <2>1, <2>2, <2>3 DEF RequestInv
    <3>2. phase'[k] \in {"sending", "error"}
      BY <2>1, <2>3
    <3> QED
      BY <1>0, <3>1, <3>2 DEF RequestInv
  <2>4. CASE phase[k] # "asking" /\ k \notin cut /\ k \in unreported
    <3>1. caller'[k] = "lost" /\ phase'[k] \in {"done", "error"}
      BY <2>1, <2>2, <2>4
    <3> QED
      BY <3>1 DEF RequestInv
  <2>5. CASE phase[k] # "asking" /\ k \notin cut /\ k \notin unreported
    <3>1. phase'[k] = phase[k] /\ (k \in routed <=> k \in routed')
      BY <2>1, <2>5
    <3> QED
      BY <1>0, <2>2, <2>5, <3>1 DEF RequestInv
  <2> QED
    BY <2>3, <2>4, <2>5
<1>9. CASE (HealthStep /\ UNCHANGED gateway) \/ UNCHANGED gatewayVars
  BY <1>0, <1>9, RequestUntouched
     DEF HealthStep, gateway, gatewayVars, vars, routerVars, callers
<1> QED
  BY <1>1, <1>2, <1>3, <1>4, <1>5, <1>6, <1>7, <1>8, <1>9 DEF GatewayNext, Serve

LEMMA GatewayInvStep == GatewayInv /\ [GatewayNext]_gatewayVars => GatewayInv'
<1> SUFFICES ASSUME GatewayInv, [GatewayNext]_gatewayVars PROVE GatewayInv'
  OBVIOUS
<1>1. RouterInv'
  BY RouterInvStep DEF GatewayInv
<1>2. GatewayTypeOK' /\ \A j \in Jobs : RequestInv(j)'
  BY GatewayTypeStep, RequestStep
<1> QED
  BY <1>1, <1>2 DEF GatewayInv

-----------------------------------------------------------------------------
(* The theorems. *)

\* No request is posted to one address more often than it may be.
THEOREM GatewayTyping == GatewaySpec => []GatewayTypeOK
<1>1. GatewayInv => GatewayTypeOK
  BY DEF GatewayInv
<1> QED
  BY <1>1, GatewayInvInit, GatewayInvStep, PTL DEF GatewaySpec

\* An entry of the in-flight table is a routed request on its way, or one whose report
\* was lost with a crash, a client or the gateway.
THEOREM InflightLive == GatewaySpec => []InflightAreLive
<1>1. GatewayInv => InflightAreLive
  <2> SUFFICES ASSUME GatewayInv, NEW j \in Jobs, inflight[j] # NoNode
               PROVE  \/ /\ j \in routed
                         /\ phase[j] \in {"sending", "resting", "answered", "failed"}
                      \/ caller[j] \in {"lost", "gone"}
                      \/ phase[j] = "left"
    BY DEF InflightAreLive
  <2>1. /\ caller[j] \in {"holding", "waiting", "lost", "gone"}
        /\ attempts[j] > 0 /\ attempts[j] <= sends[j]
    BY DEF GatewayInv, RouterInv, InflightAccounted
  <2>2. attempts[j] \in Nat /\ sends[j] \in Nat
    BY RouterAssumption DEF GatewayInv, RouterInv, TypeInv, RouterTypeOK
  <2>3. RequestInv(j)
    BY DEF GatewayInv
  <2> QED
    BY <2>1, <2>2, <2>3 DEF RequestInv, OnItsWay
<1> QED
  BY <1>1, GatewayInvInit, GatewayInvStep, PTL DEF GatewaySpec

\* A node is blamed by a plain request only after the last of its tries there, for any
\* number of tries.
THEOREM BlamedAfterTries == GatewaySpec => BlameAfterTries
<1>1. GatewayInv /\ [GatewayNext]_gatewayVars =>
         [\A j \in Jobs \ Streams :
            caller[j] = "holding" /\ caller'[j] \in {"gaveup", "lost"} /\ phase[j] = "failed"
               => tries[j] = Tries]_gatewayVars
  BY DEF GatewayInv, RequestInv
<1> QED
  BY <1>1, GatewayInvInit, GatewayInvStep, PTL DEF GatewaySpec, BlameAfterTries

\* What a step of a request asks of the router is there, whatever has died in between, for
\* any requests, with the demo fallback or without.
THEOREM RequestsMove == GatewaySpec => []RequestsCanMove
<1>1. GatewayInv => RequestsCanMove
  BY DEF GatewayInv, RequestInv, RequestsCanMove, OnItsWay
<1> QED
  BY <1>1, GatewayInvInit, GatewayInvStep, PTL DEF GatewaySpec

-----------------------------------------------------------------------------
(* Every request moves towards its end. *)

Ended == {"done", "error", "left"}

At(j) == <<phase[j], tries[j]>>

LEMMA DistanceOf ==
    ASSUME GatewayInv, NEW j \in Jobs
    PROVE  /\ Distance(j) \in 0..(4 * Tries + 3)
           /\ Distance(j) = 0 <=> phase[j] \in Ended
<1>1. /\ tries[j] \in 0..Tries /\ Tries \in Nat \ {0} /\ phase[j] \in Phases
      /\ phase[j] \in {"demo", "sending", "resting"} => tries[j] < Tries
  BY GatewayAssumption DEF GatewayInv, GatewayTypeOK, RequestInv
<1>2. /\ TriesLeft(j) \in 0..(2 * Tries)
      /\ phase[j] \in {"demo", "sending", "resting"} => TriesLeft(j) > 0
  BY <1>1 DEF TriesLeft
<1> QED
  BY <1>1, <1>2 DEF Distance, Phases, Over, Ended

\* The moves there are.
LEMMA Nearer ==
    ASSUME GatewayInv, GatewayInv', NEW j \in Jobs,
           \/ phase[j] \notin Ended /\ phase'[j] \in Ended
           \/ phase[j] = "new" /\ phase'[j] = "demo" /\ UNCHANGED tries[j]
           \/ phase[j] \in {"new", "demoFailed"} /\ phase'[j] \in {"asking", "sending"}
           \/ /\ phase[j] \in {"demo", "sending"}
              /\ phase'[j] \in {"answered", "failed"}
           \/ phase[j] = "demo" /\ phase'[j] = "demoFailed"
           \/ /\ phase[j] \in {"demo", "sending"} /\ phase'[j] = "resting"
              /\ tries'[j] = tries[j] + 1 /\ UNCHANGED caller[j]
              /\ j \in routed' <=> j \in routed
           \/ /\ phase[j] = "resting" /\ UNCHANGED <<tries[j], caller[j]>>
              /\ phase'[j] = IF caller[j] = "new" THEN "demo" ELSE "sending"
              /\ j \in routed' <=> j \in routed
           \/ phase[j] = "asking" /\ phase'[j] = "sending" /\ UNCHANGED tries[j]
           \/ /\ phase[j] = "sending" /\ phase'[j] = "sending" /\ UNCHANGED tries[j]
              /\ j \in routed /\ j \notin routed'
    PROVE  Distance(j)' < Distance(j)
<1>1. /\ tries[j] \in 0..Tries /\ tries'[j] \in 0..Tries /\ Tries \in Nat \ {0}
      /\ RequestInv(j) /\ RequestInv(j)'
  BY GatewayAssumption DEF GatewayInv, GatewayTypeOK
<1>2. CASE phase'[j] \in Ended
  <2>1. Distance(j)' = 0
    BY <1>2 DEF Distance, Over, Ended
  <2>2. phase[j] \notin Ended
    BY <1>1, <1>2 DEF Ended, RequestInv
  <2> QED
    BY <2>1, <2>2, DistanceOf
<1>3. CASE phase'[j] \notin Ended
  <2> DEFINE Known(i) == IF i \in routed THEN 1 ELSE 0
  <2>1. /\ phase[j] = "new" => Distance(j) = 4 * Tries + 3
        /\ phase[j] = "demoFailed" => Distance(j) = 2 * Tries + 3
        /\ phase[j] = "asking" => Distance(j) = 2 * Tries + 2
        /\ phase[j] = "demo" => Distance(j) = 4 * Tries + 2 - 2 * tries[j]
        /\ phase[j] = "sending" => Distance(j) = 2 * Tries - 2 * tries[j] + Known(j)
        /\ phase[j] = "resting" => Distance(j) = 2 * Tries - 2 * tries[j] + 1
               + (IF caller[j] = "new" THEN 2 * Tries + 2 ELSE Known(j))
    BY <1>1 DEF Distance, TriesLeft, RequestInv, Over
  <2>2. /\ phase'[j] \in {"answered", "failed"} => Distance(j)' = 1
        /\ phase'[j] = "demoFailed" => Distance(j)' = 2 * Tries + 3
        /\ phase'[j] = "asking" => Distance(j)' = 2 * Tries + 2
        /\ phase'[j] = "demo" => Distance(j)' = 4 * Tries + 2 - 2 * tries'[j]
        /\ phase'[j] = "sending" => Distance(j)' = 2 * Tries - 2 * tries'[j] + Known(j)'
        /\ phase'[j] = "resting" => Distance(j)' = 2 * Tries - 2 * tries'[j] + 1
               + (IF caller'[j] = "new" THEN 2 * Tries + 2 ELSE Known(j)')
    BY <1>1 DEF Distance, TriesLeft, RequestInv, Over
  <2>3. Known(j) \in 0..1 /\ Known(j)' \in 0..1
    OBVIOUS
  <2>4. /\ phase[j] = "new" => tries[j] = 0
        /\ phase[j] = "demo" => caller[j] = "new"
        /\ phase[j] = "sending" => caller[j] # "new"
        /\ phase[j] \in {"demo", "sending"} => tries[j] < Tries
    BY <1>1 DEF RequestInv
  <2>5. CASE /\ phase[j] = "sending" /\ phase'[j] = "sending" /\ UNCHANGED tries[j]
             /\ j \in routed /\ j \notin routed'
    BY <1>1, <2>1, <2>2, <2>5
  <2>6. CASE /\ phase[j] \in {"demo", "sending"} /\ phase'[j] = "resting"
             /\ tries'[j] = tries[j] + 1 /\ UNCHANGED caller[j]
             /\ j \in routed' <=> j \in routed
    BY <1>1, <2>1, <2>2, <2>3, <2>4, <2>6
  <2>7. CASE /\ phase[j] = "resting" /\ UNCHANGED <<tries[j], caller[j]>>
             /\ phase'[j] = IF caller[j] = "new" THEN "demo" ELSE "sending"
             /\ j \in routed' <=> j \in routed
    BY <1>1, <2>1, <2>2, <2>3, <2>7
  <2>8. CASE phase[j] \in {"new", "demoFailed"} /\ phase'[j] \in {"asking", "sending"}
    <3> HIDE DEF Known
    <3> QED
      BY <1>1, <2>1, <2>2, <2>3, <2>8
  <2>9. CASE \/ phase[j] = "asking" /\ phase'[j] = "sending" /\ UNCHANGED tries[j]
             \/ phase[j] = "new" /\ phase'[j] = "demo" /\ UNCHANGED tries[j]
             \/ phase[j] = "demo" /\ phase'[j] = "demoFailed"
             \/ phase[j] \in {"demo", "sending"} /\ phase'[j] \in {"answered", "failed"}
    BY <1>1, <2>1, <2>2, <2>3, <2>4, <2>9
  <2> QED
    BY <1>3, <2>5, <2>6, <2>7, <2>8, <2>9
<1> QED
  BY <1>2, <1>3

LEMMA RequestAdvances ==
    ASSUME GatewayInv, GatewayInv', [GatewayNext]_gatewayVars, NEW k \in Jobs
    PROVE  \/ UNCHANGED At(k) /\ (k \in routed' <=> k \in routed)
           \/ Distance(k)' < Distance(k)
<1> DEFINE Stays == UNCHANGED At(k) /\ (k \in routed' <=> k \in routed)
<1>0. /\ TypeInv /\ RequestInv(k)
      /\ caller \in [Jobs -> CallerStates]
      /\ phase \in [Jobs -> Phases]
      /\ routed \in SUBSET Jobs
      /\ tries \in [Jobs -> 0..Tries]
      /\ Tries \in Nat \ {0}
  BY GatewayAssumption DEF GatewayInv, RouterInv, TypeInv, RouterTypeOK, GatewayTypeOK
<1>1. ASSUME NEW j \in Jobs, \/ GoDemo(j) \/ Rest(j) \/ PostStream(j) \/ ReportAnswer(j)
                             \/ ReportFailed(j) \/ ClientLeaves(j)
      PROVE  Stays \/ Distance(k)' < Distance(k)
  <2>1. /\ UNCHANGED <<routed, tries>>
        /\ \E ph \in Phases : phase' = [phase EXCEPT ![j] = ph]
    BY <1>1 DEF GoDemo, Rest, PostStream, ReportAnswer, ReportFailed, ClientLeaves, Goes, Phases
  <2>2. CASE k # j
    BY <1>0, <2>1, <2>2 DEF At
  <2>3. CASE k = j
    <3>1. \/ phase[k] \notin Ended /\ phase'[k] \in Ended
          \/ phase[k] = "new" /\ phase'[k] = "demo"
          \/ phase[k] \in {"demo", "sending"} /\ phase'[k] \in {"answered", "failed"}
          \/ /\ phase[k] = "resting" /\ UNCHANGED caller
             /\ phase'[k] = IF caller[k] = "new" THEN "demo" ELSE "sending"
      BY <1>0, <1>1, <2>3 DEF GoDemo, Rest, PostStream, ReportAnswer, ReportFailed,
                              ClientLeaves, Goes, Ended, vars, routerVars, callers
    <3> QED
      BY <2>1, <3>1, Nearer
  <2> QED
    BY <2>2, <2>3
<1>2. ASSUME NEW j \in Jobs, Ask(j) PROVE Stays \/ Distance(k)' < Distance(k)
  <2>1. /\ phase[j] \in {"new", "demoFailed"} /\ Asked(j)
        /\ tries' = [tries EXCEPT ![j] = 0]
    BY <1>2 DEF Ask
  <2>2. CASE k # j
    BY <1>0, <2>1, <2>2 DEF Asked, Fallback, Goes, At
  <2>3. CASE k = j
    <3>1. phase'[k] \in {"asking", "sending"} \cup Ended
      BY <1>0, <2>1, <2>3 DEF Asked, Fallback, Goes, Ended
    <3> QED
      BY <2>1, <2>3, <3>1, Nearer DEF Ended
  <2> QED
    BY <2>2, <2>3
<1>3. ASSUME NEW j \in Jobs, WaitOver(j) PROVE Stays \/ Distance(k)' < Distance(k)
  <2>1. /\ phase[j] = "asking" /\ Asked(j) /\ UNCHANGED tries
        /\ \E st \in {"holding", "rejected"} : caller' = [caller EXCEPT ![j] = st]
    BY <1>3 DEF WaitOver, Poll, TimeOut, Dispatch, Settled
  <2>2. CASE k # j
    BY <1>0, <2>1, <2>2 DEF Asked, Fallback, Goes, At
  <2>3. CASE k = j
    <3>1. phase'[k] \in {"sending"} \cup Ended
      BY <1>0, <2>1, <2>3 DEF Asked, Fallback, Goes, Ended
    <3> QED
      BY <2>1, <2>3, <3>1, Nearer DEF Ended
  <2> QED
    BY <2>2, <2>3
<1>4. ASSUME NEW j \in Jobs, PostPlain(j) PROVE Stays \/ Distance(k)' < Distance(k)
  <2>1. /\ phase[j] \in {"demo", "sending"}
        /\ UNCHANGED <<routed, caller>>
        /\ \E ph \in Phases : phase' = [phase EXCEPT ![j] = ph]
        /\ \A m \in Jobs : m # j => UNCHANGED tries[m]
        /\ \/ phase'[j] = "answered"
           \/ phase'[j] = "resting"
           \/ phase'[j] = "demoFailed" /\ phase[j] = "demo"
           \/ phase'[j] = "failed"
    BY <1>4, PostTyped
  <2>2. phase'[j] = "resting" => tries'[j] = tries[j] + 1
    BY <1>0, <1>4, <2>1 DEF PostPlain, Goes, AfterFailedTry
  <2>3. CASE k # j
    BY <1>0, <2>1, <2>3 DEF At
  <2>4. CASE k = j
    BY <2>1, <2>2, <2>4, Nearer
  <2> QED
    BY <2>3, <2>4
<1>5. CASE GatewayDies
  <2>1. /\ phase'[k] = IF phase[k] \in Over THEN phase[k] ELSE "left"
        /\ UNCHANGED <<routed, tries>>
    BY <1>5 DEF GatewayDies
  <2>2. CASE phase[k] \in Over
    BY <2>1, <2>2 DEF At
  <2>3. CASE phase[k] \notin Over
    BY <2>1, <2>3, Nearer DEF Over, Ended
  <2> QED
    BY <2>2, <2>3
<1>6. CASE RouterDies
  <2>1. PICK cut \in SUBSET {j \in Holding : phase[j] = "sending" /\ tries[j] = 0},
             unreported \in SUBSET {j \in Holding : phase[j] \in {"answered", "failed"}} :
          LET asking == {j \in Jobs : phase[j] = "asking"} \cup cut
          IN  /\ RouterRestart(cut \cup unreported)
              /\ routed' = routed \ asking
              /\ \E found \in SUBSET asking :
                    phase' = [j \in Jobs |->
                        IF j \in asking THEN IF j \in found THEN "sending" ELSE "error"
                        ELSE IF j \in unreported
                             THEN IF phase[j] = "answered" THEN "done" ELSE "error"
                        ELSE phase[j]]
              /\ UNCHANGED tries
    BY <1>6 DEF RouterDies
  <2>2. CASE phase[k] = "asking" \/ k \in cut
    <3>1. /\ phase[k] = "asking" \/ (phase[k] = "sending" /\ k \notin routed')
          /\ phase'[k] \in {"sending", "error"}
      BY <2>1, <2>2
    <3>2. CASE phase'[k] = "error"
      BY <3>1, <3>2, Nearer DEF Ended
    <3>3. CASE phase'[k] = "sending" /\ phase[k] = "asking"
      BY <2>1, <3>3, Nearer
    <3>4. CASE phase'[k] = "sending" /\ phase[k] = "sending"
      BY <2>1, <3>1, <3>4, Nearer DEF At
    <3> QED
      BY <3>1, <3>2, <3>3, <3>4
  <2>3. CASE phase[k] # "asking" /\ k \notin cut /\ k \in unreported
    <3>1. phase[k] \in {"answered", "failed"} /\ phase'[k] \in {"done", "error"}
      BY <2>1, <2>3
    <3> QED
      BY <3>1, Nearer DEF Ended
  <2>4. CASE phase[k] # "asking" /\ k \notin cut /\ k \notin unreported
    BY <2>1, <2>4 DEF At
  <2> QED
    BY <2>2, <2>3, <2>4
<1>7. CASE UNCHANGED gateway \/ UNCHANGED gatewayVars
  BY <1>7 DEF gateway, gatewayVars, At
<1> QED
  BY <1>1, <1>2, <1>3, <1>4, <1>5, <1>6, <1>7 DEF GatewayNext, Serve, Orphaned

\* What keeps a request from being served for ever, for any number of tries: every move
\* takes it nearer to its end, which is at most 4 * Tries + 3 moves away.  With the
\* fairness of Serve it is why RequestsEnd holds.
THEOREM RequestsDoAdvance == GatewaySpec => RequestsAdvance
<1>1. GatewayInv /\ GatewayInv' /\ [GatewayNext]_gatewayVars =>
         [\A j \in Jobs :
             \/ UNCHANGED <<phase[j], tries[j]>> /\ (j \in routed' <=> j \in routed)
             \/ Distance(j)' < Distance(j)]_gatewayVars
  BY RequestAdvances DEF At
<1> QED
  BY <1>1, GatewayInvInit, GatewayInvStep, PTL DEF GatewaySpec, RequestsAdvance

=============================================================================
