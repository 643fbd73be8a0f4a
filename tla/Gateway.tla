------------------------------ MODULE Gateway ------------------------------
(***************************************************************************)
(* The chat completions of the gateway (chat_completions in src/app.py) as   *)
(* callers of Router: a request is routed, sent, and its outcome reported;  *)
(* when the router gives no route it is sent to a running replica, or to    *)
(* the default address, unreported.  The jobs of Router are the requests.   *)
(*                                                                         *)
(* The gateway never asks the router for a retry: it tries the one address  *)
(* it was given several times and reports the failure last.                 *)
(***************************************************************************)
EXTENDS Router

CONSTANTS
    Streams,    \* the requests that ask for a stream
    Tries,      \* how often a plain request is sent to one address
    Demo        \* DEMO_FALLBACK=1

ASSUME GatewayAssumption ==
    /\ Streams \subseteq Jobs
    /\ Tries \in Nat \ {0}
    /\ Demo \in BOOLEAN

VARIABLES
    phase,      \* where the request stands in the gateway
    routed,     \* the requests with a report_id
    tries       \* the sends to the present address that have failed

gateway == <<phase, routed, tries>>
gatewayVars == <<vars, gateway>>

Phases ==
    { "new",        \* not received yet
      "demo",       \* being sent by the demo fallback
      "demoFailed", \* the demo fallback has raised
      "asking",     \* waits for the router
      "sending",    \* being sent to its address
      "resting",    \* sleeps between two sends
      "answered",   \* has an answer, to be reported if it was routed
      "failed",     \* has an exception, to be reported if it was routed
      "done",       \* the client has its answer
      "error",      \* the client has an error
      "left" }      \* the client has gone, or the gateway has died

GatewayInit ==
    /\ Init
    /\ phase = [j \in Jobs |-> "new"]
    /\ routed = {}
    /\ tries = [j \in Jobs |-> 0]

Goes(j, ph) == phase' = [phase EXCEPT ![j] = ph]

-----------------------------------------------------------------------------
(* Finding an address. *)

\* The demo fallback sends the request past the router when a DGX replica is missing
\* and the Radeon answers.
GoDemo(j) ==
    /\ Demo
    /\ phase[j] = "new"
    /\ Goes(j, "demo")
    /\ UNCHANGED <<vars, routed, tries>>

\* Mutant of Fallback: a request the router refuses waits on.
FallbackWaits(j) == Goes(j, "asking")

\* The address found by the except clause; looking for it may itself raise.
Fallback(j) == Goes(j, "sending") \/ Goes(j, "error")

\* Where a request goes when its call of the router returns (its caller is holding or
\* waiting) or raises.
Asked(j) ==
    CASE caller'[j] = "waiting" -> Goes(j, "asking") /\ UNCHANGED routed
      [] caller'[j] = "holding" -> Goes(j, "sending") /\ routed' = routed \cup {j}
      [] OTHER -> Fallback(j) /\ UNCHANGED routed

\* The request comes in, or its demo fallback has raised and is logged.
Ask(j) ==
    /\ phase[j] \in {"new", "demoFailed"}
    /\ tries' = [tries EXCEPT ![j] = 0]
    /\ Route(j)
    /\ Asked(j)

WaitOver(j) ==
    /\ phase[j] = "asking"
    /\ Poll(j) \/ TimeOut(j)
    /\ Asked(j)
    /\ UNCHANGED tries

-----------------------------------------------------------------------------
(* Sending. *)

\* Mutant of AfterFailedTry: the attempts are not counted.
AfterFailedTryUncounted(j) == tries[j]

AfterFailedTry(j) == tries[j] + 1

\* Mutant of LastTry: the first failure is reported.
LastTryFirst(j) == TRUE

LastTry(j) == AfterFailedTry(j) = Tries

\* One post of a plain request: an answer, or an exception, which is raised only after
\* the last try.  The demo fallback reports nothing.
PostPlain(j) ==
    /\ j \notin Streams
    /\ phase[j] \in {"demo", "sending"}
    /\ \/ Goes(j, "answered") /\ UNCHANGED tries
       \/ /\ tries' = [tries EXCEPT ![j] = AfterFailedTry(j)]
          /\ Goes(j, IF ~LastTry(j) THEN "resting"
                     ELSE IF phase[j] = "demo" THEN "demoFailed" ELSE "failed")
    /\ UNCHANGED <<vars, routed>>

\* The two seconds are over.  In the demo fallback the router has not been asked yet.
Rest(j) ==
    /\ phase[j] = "resting"
    /\ Goes(j, IF caller[j] = "new" THEN "demo" ELSE "sending")
    /\ UNCHANGED <<vars, routed, tries>>

\* A stream ends, whatever the status of the upstream answer was, or breaks off.  Its
\* exceptions come after the handler has returned: the demo fallback does not see them.
PostStream(j) ==
    /\ j \in Streams
    /\ phase[j] \in {"demo", "sending"}
    /\ Goes(j, "answered") \/ Goes(j, "failed")
    /\ UNCHANGED <<vars, routed, tries>>

-----------------------------------------------------------------------------
(* Reporting.  What the report raises is logged and dropped. *)

ReportAnswer(j) ==
    /\ phase[j] = "answered"
    /\ IF j \in routed THEN ReportSuccess(j) ELSE UNCHANGED vars
    /\ Goes(j, "done")
    /\ UNCHANGED <<routed, tries>>

\* Mutant of Blames: a failure is reported only if the request was a stream.
BlamesStreams(j) == j \in routed \cap Streams

Blames(j) == j \in routed

ReportFailed(j) ==
    /\ phase[j] = "failed"
    /\ IF Blames(j) THEN ReportFailure(j, FALSE) \/ ReportFailureRaised(j)
                    ELSE UNCHANGED vars
    /\ Goes(j, "error")
    /\ UNCHANGED <<routed, tries>>

-----------------------------------------------------------------------------
(* Clients that leave, and deaths. *)

\* A client goes away and Ray Serve cancels its handler: the cancellation is no
\* Exception, nothing is reported, and a wait in the router goes on without a caller.
ClientLeaves(j) ==
    /\ phase[j] \in {"demo", "asking", "sending", "resting"}
    /\ Goes(j, "left")
    /\ IF j \in routed THEN Vanish({j}) ELSE UNCHANGED vars
    /\ UNCHANGED <<routed, tries>>

Over == {"new", "done", "error", "left"}

\* The replica of the gateway dies with its requests; those waiting in the router keep
\* their places there.
GatewayDies ==
    /\ phase' = [j \in Jobs |-> IF phase[j] \in Over THEN phase[j] ELSE "left"]
    /\ Vanish(Holding)
    /\ UNCHANGED <<routed, tries>>

\* What becomes of a waiter whose caller has died.
Orphaned(j) ==
    /\ phase[j] = "left"
    /\ Poll(j) \/ TimeOut(j) \/ Vanish({j})
    /\ UNCHANGED gateway

\* The router dies: the calls for a route raise (cut: their reply was on its way), and
\* so do the reports that were under way (unreported).
RouterDies ==
    \E cut \in SUBSET {j \in Holding : phase[j] = "sending" /\ tries[j] = 0},
       unreported \in SUBSET {j \in Holding : phase[j] \in {"answered", "failed"}} :
        LET asking == {j \in Jobs : phase[j] = "asking"} \cup cut
        IN  /\ RouterRestart(cut \cup unreported)
            /\ routed' = routed \ asking
            /\ \E found \in SUBSET asking :
                  phase' = [j \in Jobs |->
                      IF j \in asking THEN IF j \in found THEN "sending" ELSE "error"
                      ELSE IF j \in unreported
                           THEN IF phase[j] = "answered" THEN "done" ELSE "error"
                      ELSE phase[j]]
            /\ UNCHANGED tries

-----------------------------------------------------------------------------

Serve(j) ==
    \/ Ask(j) \/ WaitOver(j)
    \/ PostPlain(j) \/ Rest(j) \/ PostStream(j)
    \/ ReportAnswer(j) \/ ReportFailed(j)

GatewayNext ==
    \/ \E j \in Jobs : GoDemo(j) \/ Serve(j) \/ ClientLeaves(j) \/ Orphaned(j)
    \/ GatewayDies
    \/ RouterDies
    \/ HealthStep /\ UNCHANGED gateway

\* The gateway's loop runs, and every post, wait and call has a time limit.
GatewayFairness == \A j \in Jobs : WF_gatewayVars(Serve(j))

GatewaySpec == GatewayInit /\ [][GatewayNext]_gatewayVars /\ GatewayFairness

-----------------------------------------------------------------------------
(* Properties. *)

GatewayTypeOK ==
    /\ phase \in [Jobs -> Phases]
    /\ routed \in SUBSET Jobs
    /\ tries \in [Jobs -> 0..Tries]

\* What the router has in flight is a routed request under way, or one whose report was
\* cut short by a crash or a failing start, or whose client or gateway has gone: one sent
\* past the router, or over and reported, is not in the table.
InflightAreLive ==
    \A j \in Jobs : inflight[j] # NoNode =>
        \/ j \in routed /\ phase[j] \in {"sending", "resting", "answered", "failed"}
        \/ caller[j] \in {"lost", "gone"}
        \/ phase[j] = "left"

\* A node is failed over on the report of a plain request only after that request has
\* failed on it as often as it is tried.
BlameAfterTries ==
    [][\A j \in Jobs \ Streams :
          caller[j] = "holding" /\ caller'[j] \in {"gaveup", "lost"} /\ phase[j] = "failed"
             => tries[j] = Tries]_gatewayVars

\* Every request ends, in an answer, an error or the loss of its client, whatever the
\* nodes and the router do.
RequestsEnd == \A j \in Jobs : phase[j] # "new" ~> phase[j] \in Over \ {"new"}

\* No request is stuck between the gateway and a router that dies, refuses or forgets:
\* one that is about to ask is new to the router, one that waits for it has its place
\* there, and one with an outcome to report still holds the route it is about.
RequestsCanMove ==
    \A j \in Jobs :
        /\ phase[j] = "demoFailed" => caller[j] = "new"
        /\ phase[j] = "asking" => caller[j] = "waiting"
        /\ phase[j] \in {"answered", "failed"} /\ j \in routed => caller[j] = "holding"

\* The moves a request has left at most: a send and a rest for each try at its address, one
\* more if the router knows of it, two for the way to that address, and as many again for
\* the demo fallback.
TriesLeft(j) == 2 * (Tries - tries[j])

Distance(j) ==
    IF phase[j] \in Over \ {"new"} THEN 0
    ELSE IF phase[j] \in {"answered", "failed"} THEN 1
    ELSE IF phase[j] \in {"sending", "resting"} /\ caller[j] # "new"
         THEN TriesLeft(j) + (IF phase[j] = "resting" THEN 1 ELSE 0)
                           + (IF j \in routed THEN 1 ELSE 0)
    ELSE 2 * Tries + 2
         + (IF phase[j] = "asking" THEN 0
            ELSE IF phase[j] = "demoFailed" THEN 1
            ELSE IF phase[j] = "demo" THEN TriesLeft(j)
            ELSE IF phase[j] = "resting" THEN TriesLeft(j) + 1
            ELSE 2 * Tries + 1)

\* A request that moves comes nearer to its end: the fallbacks, the tries, a router that
\* dies under it at whatever point, send none round again.
RequestsAdvance ==
    [][\A j \in Jobs :
          \/ UNCHANGED <<phase[j], tries[j]>> /\ (j \in routed' <=> j \in routed)
          \/ Distance(j)' < Distance(j)]_gatewayVars

=============================================================================
