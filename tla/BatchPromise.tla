---------------------------- MODULE BatchPromise ----------------------------
(***************************************************************************)
(* What the client of a gateway batch is promised (get_batch in src/app.py), *)
(* without polls, tables, restarts or uploads.  The batch comes to one end,  *)
(* or to an output that nobody can read; its client hears of that end, and   *)
(* of no other, once or not at all.                                          *)
(***************************************************************************)

CONSTANTS Batches

VARIABLES
    outcome,    \* of each batch: "open", its end, or "unreadable"
    heard       \* by each client: "nothing", or an end

promises == <<outcome, heard>>

Ends == {"completed", "failed", "cancelled"}

PromiseInit ==
    /\ outcome = [b \in Batches |-> "open"]
    /\ heard = [b \in Batches |-> "nothing"]

Settle(b) ==
    /\ outcome[b] = "open"
    /\ \E end \in Ends \cup {"unreadable"} : outcome' = [outcome EXCEPT ![b] = end]
    /\ UNCHANGED heard

Tell(b) ==
    /\ outcome[b] \in Ends
    /\ heard[b] = "nothing"
    /\ heard' = [heard EXCEPT ![b] = outcome[b]]
    /\ UNCHANGED outcome

PromiseNext == \E b \in Batches : Settle(b) \/ Tell(b)

PromiseSpec == PromiseInit /\ [][PromiseNext]_promises

=============================================================================
