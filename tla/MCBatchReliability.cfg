SPECIFICATION JobsSpec

CONSTANTS
    b1 = b1
    b2 = b2
    Batches <- MCBatches
    ItemCount = 2
    MaxPolls = 2

INVARIANT CompletedCountsReliable
CHECK_DEADLOCK FALSE
