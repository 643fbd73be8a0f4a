--------------------------- MODULE BatchDispatch ---------------------------
(***************************************************************************)
(* A batch of chat completions sent through the failover router: the worker *)
(* threads of _run_routed_chat_completion (src/batch_job.py), each running  *)
(* dispatch_batch_item (src/router_dispatch.py), against Router.  The jobs  *)
(* of Router are the items of the batch.  A driver that finds no router     *)
(* posts them to one address instead (_run_chat_completion).                *)
(*                                                                         *)
(* The driver is a process of its own: it calls the router actor and blocks *)
(* for the answer, so a crash of the actor reaches it as an exception.      *)
(***************************************************************************)
EXTENDS Router

CONSTANTS
    Items,      \* the jobs in the order of the input file, a sequence
    Workers     \* BATCH_CONCURRENCY

ASSUME BatchAssumption ==
    /\ Items \in Seq(Jobs)
    /\ ToSet(Items) = Jobs
    /\ IsInjective(Items)
    /\ Workers \in Nat \ {0}

VARIABLES
    phase,      \* what the thread of each item does
    left,       \* attempts of dispatch_batch_item
    result,     \* the item's entry in the results: "none" while there is none
    batch       \* the driver: "running" with the router, "static" without, or how it ended

driver == <<phase, left, result, batch>>
batchVars == <<vars, driver>>

Phases ==
    { "pending",    \* not taken by a thread yet
      "calling",    \* in a call of the router, or in the request it leads to
      "answered",   \* the node answered: success is about to be reported
      "failed",     \* the request, or the report of its success, raised
      "done",       \* dispatch_batch_item returned
      "raised" }    \* dispatch_batch_item raised

BatchInit ==
    /\ Init
    /\ phase = [j \in Jobs |-> "pending"]
    /\ left = [j \in Jobs |-> MaxSends]
    /\ result = [j \in Jobs |-> "none"]
    /\ batch \in {"running", "static"}   \* _router_adapter finds a router, or does not

\* The place of an item in the input.
Place(j) == CHOOSE i \in DOMAIN Items : Items[i] = j

Busy == {j \in Jobs : phase[j] \in {"calling", "answered", "failed"}}

-----------------------------------------------------------------------------
(* dispatch_batch_item. *)

\* The thread of j moves on to ph.
Goes(j, ph) == phase' = [phase EXCEPT ![j] = ph] /\ UNCHANGED result

\* dispatch_batch_item returns an entry of the results.
Returns(j, entry) ==
    /\ phase' = [phase EXCEPT ![j] = "done"]
    /\ result' = [result EXCEPT ![j] = entry]

\* A thread takes the next item and asks for its route, outside any try: a router
\* that refuses ends the item with an exception.
TakeItem(j) ==
    /\ batch = "running"
    /\ phase[j] = "pending"
    /\ \A k \in Jobs : phase[k] = "pending" => Place(j) <= Place(k)
    /\ Cardinality(Busy) < Workers
    /\ Route(j)
    /\ Goes(j, IF caller'[j] = "rejected" THEN "raised" ELSE "calling")
    /\ UNCHANGED <<left, batch>>

\* request_fn ends: the node answers, or the request raises or times out.
RequestEnds(j) ==
    /\ phase[j] = "calling"
    /\ caller[j] = "holding"
    /\ Goes(j, "answered") \/ Goes(j, "failed")
    /\ UNCHANGED <<vars, left, batch>>

ReportAnswer(j) ==
    /\ phase[j] = "answered"
    /\ ReportSuccess(j)
    /\ Returns(j, "response")
    /\ UNCHANGED <<left, batch>>

\* Mutants of AttemptsLeft: not counted; the last one not used.
AttemptsLeftUncounted(j) == left[j]
AttemptsLeftShort(j) == IF left[j] > 1 THEN left[j] - 2 ELSE 0

AttemptsLeft(j) == left[j] - 1

\* A failure is reported and a retry asked for while attempts are left.
ReportFailed(j) ==
    /\ phase[j] = "failed"
    /\ left' = [left EXCEPT ![j] = AttemptsLeft(j)]
    /\ ReportFailure(j, AttemptsLeft(j) > 0)
    /\ IF caller'[j] \in {"holding", "waiting"} THEN Goes(j, "calling")
                                               ELSE Returns(j, "error")
    /\ UNCHANGED batch

\* The report raises in the router: the item ends with that error.
ReportFailedRaised(j) ==
    /\ phase[j] = "failed"
    /\ left' = [left EXCEPT ![j] = AttemptsLeft(j)]
    /\ ReportFailureRaised(j)
    /\ Returns(j, "error")
    /\ UNCHANGED batch

\* The wait of the item's call in the admission queue ends with a node.
WaitEnds(j) == Poll(j) /\ UNCHANGED driver

\* An exception ends a call of the router that was to give the item a node: the
\* first one ends the item with that exception, a retry with an error entry.
FirstCall(j) == phase[j] = "calling" /\ left[j] = MaxSends

WaitTimesOut(j) ==
    /\ TimeOut(j)
    /\ IF FirstCall(j) THEN Goes(j, "raised") ELSE Returns(j, "error")
    /\ UNCHANGED <<left, batch>>

\* Mutants of AfterLostReport: a report of success that raises is let go; its item is
\* given back to the pool.
AfterLostReportDone(j) == "done"
AfterLostReportAgain(j) == "pending"

\* The report of a success is inside the try: when it raises, the answer in hand is
\* dropped and the item is treated as one whose request failed.
AfterLostReport(j) == "failed"

\* The router dies.  Calls of the driver that are under way raise: those in cut
\* were to bring a node, those in unreported to take the report of a success.
RouterDies ==
    \E cut \in SUBSET {j \in Holding : phase[j] \in {"calling", "failed"}},
       unreported \in SUBSET {j \in Jobs : phase[j] = "answered"} :
        LET ended == cut \cup {j \in Jobs : caller[j] = "waiting"}
        IN  /\ RouterRestart(cut)
            /\ phase' = [j \in Jobs |->
                            IF j \in unreported THEN AfterLostReport(j)
                            ELSE IF j \notin ended THEN phase[j]
                            ELSE IF FirstCall(j) THEN "raised" ELSE "done"]
            /\ result' = [j \in Jobs |->
                            IF j \in ended /\ ~FirstCall(j) THEN "error"
                                                            ELSE result[j]]
            /\ left' = [j \in Jobs |->
                            IF j \in ended /\ phase[j] = "failed"
                            THEN AttemptsLeft(j) ELSE left[j]]
            /\ UNCHANGED batch

-----------------------------------------------------------------------------
(* The driver: list(pool.map(run_item, ...)), then the output file. *)

\* The results are collected in order.  An item that raised ends the collection,
\* cancels the items not yet taken and ends the driver without an output.
Abort ==
    /\ batch = "running"
    /\ \E k \in Jobs : /\ phase[k] = "raised"
                       /\ \A j \in Jobs : Place(j) < Place(k) => phase[j] = "done"
    /\ batch' = "aborted"
    /\ UNCHANGED <<vars, phase, left, result>>

Write ==
    /\ batch \in {"running", "static"}
    /\ \A j \in Jobs : phase[j] = "done"
    /\ batch' = "written"
    /\ UNCHANGED <<vars, phase, left, result>>

\* Without a router the items are posted to INFER_URL one after the other, each once;
\* one that raises becomes an error entry (BatchDispatcher.run).
PostStatic(j) ==
    /\ batch = "static"
    /\ phase[j] = "pending"
    /\ \A k \in Jobs : phase[k] = "pending" => Place(j) <= Place(k)
    /\ \E entry \in {"response", "error"} : Returns(j, entry)
    /\ UNCHANGED <<vars, left, batch>>

-----------------------------------------------------------------------------

Work(j) ==
    \/ RequestEnds(j) \/ ReportAnswer(j) \/ ReportFailed(j)
    \/ ReportFailedRaised(j) \/ WaitEnds(j) \/ WaitTimesOut(j)

BatchNext ==
    \/ \E j \in Jobs : TakeItem(j) \/ PostStatic(j) \/ Work(j)
    \/ Abort
    \/ Write
    \/ RouterDies
    \/ HealthStep /\ UNCHANGED driver

\* The threads run, requests and waits have time limits, calls return or raise.
BatchFairness ==
    /\ WF_batchVars(\E j \in Jobs : TakeItem(j) \/ PostStatic(j))
    /\ \A j \in Jobs : WF_batchVars(Work(j))
    /\ WF_batchVars(Abort \/ Write)

BatchSpec == BatchInit /\ [][BatchNext]_batchVars /\ BatchFairness

-----------------------------------------------------------------------------
(* Properties. *)

BatchTypeOK ==
    /\ phase \in [Jobs -> Phases]
    /\ left \in [Jobs -> 0..MaxSends]
    /\ result \in [Jobs -> {"none", "response", "error"}]
    /\ batch \in {"running", "static", "written", "aborted"}

\* Whatever an item goes through, its thread is done exactly when it has left an
\* entry: Write finds one for every item.
DoneHasEntry == \A j \in Jobs : phase[j] = "done" <=> result[j] # "none"

\* The batch keeps the promise of BatchResults: no crash, retry or late report decides an
\* item twice, takes its result back or leaves it out of the output.
Promise == INSTANCE BatchResults WITH
    fate   <- [j \in Jobs |-> IF phase[j] = "raised" THEN "raised"
                              ELSE IF result[j] = "none" THEN "open" ELSE result[j]],
    output <- IF batch \in {"running", "static"} THEN "open" ELSE batch

KeepsResults == Promise!ResultsSpec

\* The caller's own count and the router's agree on how often an item was sent: the
\* attempts spent are the sends, crashes and waits notwithstanding.
AttemptsAreSends ==
    \A j \in Jobs :
        /\ phase[j] \in {"calling", "answered", "failed"} /\ caller[j] = "holding"
               => sends[j] = MaxSends - left[j] + 1
        /\ caller[j] = "waiting" => sends[j] = MaxSends - left[j]

\* An item ends in an error only when it has been sent as often as allowed, or when
\* the router itself refused or failed its call, or never knew of it.
ErrorsAreEarned ==
    \A j \in Jobs :
        result[j] = "error" => \/ sends[j] = MaxSends
                               \/ caller[j] \in {"rejected", "lost", "new"}

\* What the batch leaves behind in the router: an item that is over is in flight no
\* more, unless the router raised on its last report.
FinishedItemsLeave ==
    \A j \in Jobs : phase[j] \in {"done", "raised"} /\ inflight[j] # NoNode
                       => caller[j] = "lost"

\* The moves an item has left at most.  An attempt is four: a place in the queue, a route,
\* a request, a report.
MovesMade(j) ==
    IF caller[j] = "waiting" THEN 0
    ELSE IF phase[j] = "calling" THEN 1
    ELSE IF phase[j] = "answered" THEN 2 ELSE 3

Distance(j) ==
    IF phase[j] = "pending" THEN 4 * MaxSends + 1
    ELSE IF phase[j] \in {"done", "raised"} THEN 0
    ELSE 4 * left[j] - MovesMade(j)

\* An item that moves comes nearer to its end: neither a retry nor a crash of the router,
\* at whatever point it comes, sends it round again.
ItemsAdvance ==
    [][\A j \in Jobs : \/ UNCHANGED <<phase[j], caller[j], left[j], result[j]>>
                       \/ Distance(j)' < Distance(j)]_batchVars

\* Nobody waits on everybody: the thread of an item always has the route it works with or
\* its place in the queue, an item not taken is new to the router, and when no thread is
\* at work one can be, or the driver finds all results, or the exception that ends it.
DriverCanMove ==
    /\ \A j \in Busy :
          caller[j] = "holding" \/ (phase[j] = "calling" /\ caller[j] = "waiting")
    /\ \A j \in Jobs : phase[j] = "pending" => caller[j] = "new"
    /\ batch \in {"running", "static"} /\ Busy = {}
          => \/ \E j \in Jobs : phase[j] = "pending"
             \/ \A j \in Jobs : phase[j] = "done"
             \/ /\ batch = "running"
                /\ \E k \in Jobs : /\ phase[k] = "raised"
                                   /\ \A j \in Jobs : Place(j) < Place(k) => phase[j] = "done"

\* Whatever the nodes and the router do, the driver comes to its end.
BatchEnds == <>(batch \in {"written", "aborted"})

\* Each item is routed independently ("Each item is routed independently, retried/
\* rerouted on failure", _run_routed_chat_completion): while no call of the router
\* raises for a reason of its own, one that is refused a route does not keep the
\* others from their results.
ItemsIndependent ==
    batch \in {"written", "aborted"} /\ (\A j \in Jobs : caller[j] # "lost")
        => \A j \in Jobs : result[j] = "none" => caller[j] = "rejected"

=============================================================================
