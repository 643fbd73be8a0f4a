---------------------------- MODULE MCBatchJobs ----------------------------
(* BatchJobs: two batches of two items; nothing tells the batches apart. *)
EXTENDS BatchJobs, TLC

CONSTANTS b1, b2

MCBatches == {b1, b2}
MCSymmetry == Permutations(MCBatches)

=============================================================================
