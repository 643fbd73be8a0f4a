----------------------------- MODULE RouterTurns -----------------------------
(***************************************************************************)
(* What many calls of the router add up to: whose turn it was, and who came *)
(* first.  Neither is a matter of one state or of one step, so the module   *)
(* keeps a history beside the variables of Router.  Its actions are those   *)
(* of Router, and read nothing of the history.                              *)
(***************************************************************************)
EXTENDS Router

VARIABLES
    base,       \* the list a round is under way over, {} when none is
    turn,       \* the nodes of base that have had their turn in it
    before      \* the callers each waiter found waiting and that wait still

history == <<base, turn, before>>

Waiting == {j \in Jobs : caller[j] = "waiting"}

HistoryInit ==
    /\ base = {}
    /\ turn = {}
    /\ before = [j \in Jobs |-> {}]

-----------------------------------------------------------------------------

NoRound == base' = {} /\ turn' = {}

\* RouterState.pick: the node that j is given has had its turn.  A pick from another list
\* starts a round of its own, and the last node of the list ends the round.
TakesTurn(j) ==
    LET served == (IF Preferred' = base THEN turn ELSE {}) \cup {inflight'[j]}
    IN  IF served = Preferred'
        THEN NoRound
        ELSE base' = Preferred' /\ turn' = served

\* Each step dispatches one job at most.
TurnsKept ==
    \/ \E j \in Jobs : Dispatched(j) /\ TakesTurn(j)
    \/ sends' = sends /\ UNCHANGED <<base, turn>>

\* One that joins the queue finds others in it, and one that leaves it is ahead of nobody.
QueueSeen ==
    before' = [j \in Jobs |->
                 IF j \notin Waiting' THEN {}
                 ELSE IF j \in Waiting THEN before[j] \cap Waiting'
                 ELSE Waiting]

-----------------------------------------------------------------------------

Serving ==
    \/ CallStep
    \/ HealthStep
    \/ \E away \in SUBSET Holding : Vanish(away)

TurnsInit == Init /\ HistoryInit

TurnsNext ==
    \/ Serving /\ TurnsKept /\ QueueSeen
    \/ /\ \E cut \in SUBSET Holding : RouterRestart(cut)
       /\ NoRound         \* __init__ starts the rotation over
       /\ QueueSeen

TurnsSpec == TurnsInit /\ [][TurnsNext]_<<vars, history>>

-----------------------------------------------------------------------------
(* Properties. *)

\* RouterState.pick shares out the requests evenly: whatever goes on between two picks
\* (failovers and returns, nodes that slow down and recover, waits, retries, crashes of
\* callers), no node of the list gets a second request of a round before each other has
\* had its first, for as long as every pick finds the list the one before it found.  A
\* pick that finds another list, or a new incarnation, starts a round of its own: there
\* the pointer is applied to a list it was not counted on, and the node of the last
\* request may be the node of the next.
EachInTurn ==
    [][\A j \in Jobs : Dispatched(j) /\ Preferred' = base
          => inflight'[j] \notin turn]_<<vars, history>>

\* Among those that wait, first come is first served: when a waiter is given a node,
\* everyone it found in the queue has left it, be it with a node, past its deadline, or
\* with the router.  (A call that finds an active node is served without a look at the
\* queue: newcomers do overtake waiters.)
FirstComeFirstServed ==
    [][\A j \in Jobs : caller[j] = "waiting" /\ Dispatched(j)
          => before[j] = {}]_<<vars, history>>

=============================================================================
