---------------------------- MODULE BatchResults ----------------------------
(***************************************************************************)
(* What a batch promises the reader of its output (src/batch_job.py),       *)
(* without router, threads or attempts.  The fate of each item is decided   *)
(* once and for good; several may be decided at a stroke.  The output is    *)
(* written whole or not at all: with a result of every item, or, when the   *)
(* collection comes upon an item that raised after the results of all the   *)
(* items ahead of it, never.                                                *)
(***************************************************************************)
EXTENDS Naturals

CONSTANTS
    Jobs,       \* the items
    Place(_)    \* the place of an item in the input

VARIABLES
    fate,       \* of each item: "open", its result, or "raised"
    output      \* "open", "written" or "aborted"

results == <<fate, output>>

Results == {"response", "error"}

ResultsInit ==
    /\ fate = [j \in Jobs |-> "open"]
    /\ output = "open"

\* Items come to their ends; those on their way do so even when the output is lost.
Decide ==
    /\ fate' \in [Jobs -> {"open", "raised"} \cup Results]
    /\ \A j \in Jobs : fate[j] # "open" => fate'[j] = fate[j]
    /\ UNCHANGED output

WriteAll ==
    /\ output = "open"
    /\ \A j \in Jobs : fate[j] \in Results
    /\ output' = "written"
    /\ UNCHANGED fate

LoseAll ==
    /\ output = "open"
    /\ \E k \in Jobs : /\ fate[k] = "raised"
                       /\ \A j \in Jobs : Place(j) < Place(k) => fate[j] \in Results
    /\ output' = "aborted"
    /\ UNCHANGED fate

ResultsNext == Decide \/ WriteAll \/ LoseAll

ResultsSpec == ResultsInit /\ [][ResultsNext]_results

=============================================================================
