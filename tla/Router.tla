------------------------------- MODULE Router -------------------------------
(***************************************************************************)
(* The failover router as its callers see it (src/router.py): the choice of *)
(* a node, the in-flight table, the admission queue, and the reports of     *)
(* success and failure.  Its nodes come and go as Rotation says, which is   *)
(* what RouterPool implements.                                              *)
(*                                                                         *)
(* A job is one request of a caller: a chat completion of the gateway or an *)
(* item of a batch.  Its caller asks for a route, sends the request to the  *)
(* node it is given, and reports the outcome; a failed request may be sent  *)
(* again, to the node the report answers with.  Callers are left general:   *)
(* whether a request succeeds and whether its caller tries again or goes    *)
(* away is free.                                                            *)
(*                                                                         *)
(* A reply reaches its caller in the step that computes it; nothing else    *)
(* can tell when it arrives.  The one coroutine that suspends is the wait   *)
(* in the admission queue.                                                  *)
(***************************************************************************)
EXTENDS Rotation, SequencesExt

CONSTANTS
    Jobs,       \* the requests
    NoNode,     \* no node
    QueueMax,   \* RouterConfig.queue_max
    Queueing,   \* queue_timeout_s > 0
    SlaOn,      \* sla_p95_ms > 0
    MaxSends    \* bound: how often a caller sends a request

ASSUME RouterAssumption ==
    /\ NoNode \notin Nodes
    /\ QueueMax \in Nat
    /\ Queueing \in BOOLEAN
    /\ SlaOn \in BOOLEAN
    /\ MaxSends \in Nat \ {0}

VARIABLES
    pointer,    \* RouterState.pointer
    slow,       \* the nodes whose observed p95 exceeds the SLA target
    inflight,   \* RouterState.inflight
    attempts,   \* RouterState.attempts
    queue,      \* RouterState.queue
    caller,     \* where the caller of each job stands
    route,      \* the node the caller was last routed to
    sends       \* how often the caller has sent the request

table == <<inflight, attempts>>
callers == <<caller, route, sends>>
routerVars == <<pointer, slow, table, queue, callers>>
vars == <<roles, routerVars>>

CallerStates ==
    { "new",        \* has not asked for a route yet
      "waiting",    \* in the admission queue
      "holding",    \* has a route, its request is under way
      "served",     \* has reported success
      "rejected",   \* was refused: queue full, or timed out in it
      "gaveup",     \* has reported a failure it does not retry
      "lost",       \* got an exception: start() raised, or the router died
      "gone" }      \* went away without a report

RouterInit ==
    /\ pointer = 0
    /\ slow = {}
    /\ inflight = [j \in Jobs |-> NoNode]
    /\ attempts = [j \in Jobs |-> 0]
    /\ queue = <<>>
    /\ caller = [j \in Jobs |-> "new"]
    /\ route = [j \in Jobs |-> NoNode]
    /\ sends = [j \in Jobs |-> 0]

Init == RolesInit /\ RouterInit

-----------------------------------------------------------------------------
(* RouterState.pick and register_dispatch. *)

InService == primaries \cup reserves

\* RouterState.active: the primaries, or the reserves when there are none.
Active == IF primaries # {} THEN primaries ELSE reserves

\* Mutant of Preferred: latency is not looked at.
PreferredAny == Active

\* The active nodes within the SLA, or all of them when none is.
Preferred == IF Active \ slow # {} THEN Active \ slow ELSE Active

\* preferred[pointer % len(preferred)] in the order of priority.
Picked(S, n) == Cardinality(Ahead(S, n)) = pointer % Cardinality(S)

\* Mutant of NextPointer: the turn is not passed on.
NextPointerStuck(S) == pointer

NextPointer(S) == (pointer + 1) % Cardinality(S)

\* Route j to a node of the preferred nodes S.
Dispatch(j, S) ==
    /\ \E n \in S :
          /\ Picked(S, n)
          /\ inflight' = [inflight EXCEPT ![j] = n]
          /\ route' = [route EXCEPT ![j] = n]
    /\ pointer' = NextPointer(S)
    /\ attempts' = [attempts EXCEPT ![j] = @ + 1]
    /\ sends' = [sends EXCEPT ![j] = @ + 1]
    /\ caller' = [caller EXCEPT ![j] = "holding"]

\* Mutant of Cleared: clear_job forgets one of the two tables.
ClearedHalf(j) ==
    /\ UNCHANGED inflight
    /\ attempts' = [attempts EXCEPT ![j] = 0]

\* RouterState.clear_job
Cleared(j) ==
    /\ inflight' = [inflight EXCEPT ![j] = NoNode]
    /\ attempts' = [attempts EXCEPT ![j] = 0]

\* The caller of j is done with the router.
Settled(j, outcome) ==
    /\ Cleared(j)
    /\ caller' = [caller EXCEPT ![j] = outcome]
    /\ UNCHANGED <<pointer, route, sends>>

-----------------------------------------------------------------------------
(* _acquire_node and _wait_in_queue. *)

QueueFull == ~Queueing \/ Len(queue) >= QueueMax

\* A refused retry clears the job; a refused first call has nothing to clear.
Enqueue(j) ==
    IF QueueFull
    THEN Settled(j, "rejected") /\ UNCHANGED queue
    ELSE /\ queue' = Append(queue, j)
         /\ caller' = [caller EXCEPT ![j] = "waiting"]
         /\ UNCHANGED <<pointer, table, route, sends>>

\* A call tries to pick a node before it looks at the queue, so it may be served
\* while others wait.
Acquire(j, S) ==
    IF S # {} THEN Dispatch(j, S) /\ UNCHANGED queue ELSE Enqueue(j)

\* Mutants of LeaveQueue: the finally clause is lost; it takes off whoever is first.
LeaveQueueNot(j) == UNCHANGED queue
LeaveQueueHead(j) == queue' = Tail(queue)

LeaveQueue(j) == queue' = RemoveFirst(queue, j)

\* Mutant of AtHead: any waiter is served.
AtHeadAny(j) == TRUE

AtHead(j) == Head(queue) = j

\* A waiter wakes from its sleep, finds itself at the head and picks a node.
Poll(j) ==
    /\ caller[j] = "waiting"
    /\ AtHead(j)
    /\ Dispatch(j, Preferred)
    /\ LeaveQueue(j)
    /\ UNCHANGED <<roles, slow>>

\* A waiter wakes past its deadline.  The deadline is looked at before the pool.
TimeOut(j) ==
    /\ caller[j] = "waiting"
    /\ Settled(j, "rejected")
    /\ LeaveQueue(j)
    /\ UNCHANGED <<roles, slow>>

-----------------------------------------------------------------------------
(* The calls: route, report_success, report_failure. *)

Route(j) ==
    /\ caller[j] = "new"
    /\ Acquire(j, Preferred)
    /\ UNCHANGED <<roles, slow>>

\* The latency reported for a node may move its p95 across the target either way.
Observed(n) ==
    IF SlaOn THEN slow' \in {slow, slow \cup {n}, slow \ {n}} ELSE slow' = slow

ReportSuccess(j) ==
    /\ caller[j] = "holding"
    /\ Observed(route[j])
    /\ Settled(j, "served")
    /\ UNCHANGED <<roles, queue>>

\* Mutant of FailNode: the failover is left to the probes.
FailNodeNot(n) == UNCHANGED roles

\* _handle_failure: a node that is out already is left alone.
FailNode(n) == IF n \in InService THEN Leave(n) ELSE UNCHANGED roles

\* Mutant of MayRetry: the caller never runs out of attempts.
MayRetryForever(j) == TRUE

MayRetry(j) == sends[j] < MaxSends

\* After the failover a caller that asks for a retry is given a node, or waits for one;
\* the others are done.
AfterFailure(j, retry) ==
    /\ UNCHANGED slow
    /\ IF retry THEN MayRetry(j) /\ Acquire(j, Preferred')
                ELSE Settled(j, "gaveup") /\ UNCHANGED queue

\* The node is failed over whatever its count of failed probes.
ReportFailure(j, retry) ==
    /\ caller[j] = "holding"
    /\ FailNode(route[j])
    /\ AfterFailure(j, retry)

\* The exception of a start() ends report_failure before the job is routed again or
\* cleared.
ReportCut(j) ==
    /\ caller' = [caller EXCEPT ![j] = "lost"]
    /\ UNCHANGED <<pointer, slow, table, queue, route, sends>>

\* start() raised in the failover.
ReportFailureRaised(j) ==
    /\ caller[j] = "holding"
    /\ Leave(route[j])
    /\ ReportCut(j)

Holding == {j \in Jobs : caller[j] = "holding"}

\* Callers go away with their requests under way: a client that closes a stream, a batch
\* driver or a gateway that dies with all it has sent.  One that goes away while it waits
\* is one that goes away as soon as it is routed: the router cannot tell.
Vanish(away) ==
    /\ away \subseteq Holding
    /\ caller' = [j \in Jobs |-> IF j \in away THEN "gone" ELSE caller[j]]
    /\ UNCHANGED <<roles, pointer, slow, table, queue, route, sends>>

\* __init__ in the place of what the router knew.  The calls it was serving end in an
\* exception: those of the waiters, and those of the jobs in cut, whose route is lost on
\* its way back.  The other callers that hold a route will report to the new incarnation.
Forget(cut) ==
    /\ pointer' = 0
    /\ slow' = {}
    /\ inflight' = [j \in Jobs |-> NoNode]
    /\ attempts' = [j \in Jobs |-> 0]
    /\ queue' = <<>>
    /\ caller' = [j \in Jobs |-> IF caller[j] = "waiting" \/ j \in cut
                                 THEN "lost" ELSE caller[j]]
    /\ UNCHANGED <<route, sends>>

\* The actor dies and Ray restarts it (max_restarts=-1).
RouterRestart(cut) == StartAgain /\ Forget(cut)

-----------------------------------------------------------------------------

CallStep ==
    \E j \in Jobs :
        \/ Route(j) \/ ReportSuccess(j)
        \/ \E retry \in BOOLEAN : ReportFailure(j, retry)
        \/ ReportFailureRaised(j) \/ Poll(j) \/ TimeOut(j)

\* The probes take nodes out and bring them back.
HealthStep ==
    /\ \E n \in Nodes : Leave(n) \/ Return(n)
    /\ UNCHANGED routerVars

Next ==
    \/ CallStep
    \/ HealthStep
    \/ \E away \in SUBSET Holding : Vanish(away)
    \/ \E cut \in SUBSET Holding : RouterRestart(cut)

Spec == Init /\ [][Next]_vars

-----------------------------------------------------------------------------
(* Properties. *)

RouterTypeOK ==
    /\ pointer \in Nat
    /\ slow \in SUBSET Nodes
    /\ inflight \in [Jobs -> Nodes \cup {NoNode}]
    /\ attempts \in [Jobs -> Nat]
    /\ queue \in Seq(Jobs)
    /\ caller \in [Jobs -> CallerStates]
    /\ route \in [Jobs -> Nodes \cup {NoNode}]
    /\ sends \in [Jobs -> 0..MaxSends]

\* Whatever ends a wait (a node, the deadline, a crash) takes exactly that job off
\* the queue: the queue holds the waiters, each once, and no more than queue_max.
QueueHoldsWaiters ==
    /\ ToSet(queue) = {j \in Jobs : caller[j] = "waiting"}
    /\ IsInjective(queue)
    /\ Len(queue) <= QueueMax

\* The in-flight table names only jobs some caller has not settled, and the node it
\* names is the one that caller was sent to.  Jobs "lost" and "gone" stay in it.
InflightAccounted ==
    \A j \in Jobs :
        /\ inflight[j] # NoNode => /\ inflight[j] = route[j]
                                   /\ caller[j] \in {"holding", "waiting", "lost", "gone"}
        /\ inflight[j] # NoNode <=> attempts[j] > 0
        /\ attempts[j] <= sends[j]

\* A job is dispatched by a step.
Dispatched(j) == sends'[j] = sends[j] + 1

\* Every dispatch goes to a node that is in service after the step and within the
\* SLA if any active one is: a retry sees the failover its own report has made.
RoutesToFitNode ==
    [][\A j \in Jobs : Dispatched(j) =>
          /\ inflight'[j] \in Active'
          /\ inflight'[j] \in slow => Active' \subseteq slow]_vars

\* The retry that answers a failure report never goes to the node just reported.
RetryLeavesFailedNode ==
    [][\A j \in Jobs : caller[j] = "holding" /\ Dispatched(j)
          => inflight'[j] # route[j]]_vars

\* No waiter holds up the others: whatever has ended the waits before, as soon as a node
\* is in service what Poll asks for is there for the head of the queue: it waits, and
\* wherever the pointer stands after nodes have come and gone, there is a node at its
\* place in the list.
HeadCanGo ==
    queue # <<>> /\ InService # {} =>
        /\ caller[Head(queue)] = "waiting"
        /\ \E n \in Preferred : Picked(Preferred, n)

=============================================================================
