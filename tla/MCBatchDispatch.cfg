SPECIFICATION BatchSpec

CONSTANTS
    dgx = dgx
    radeon = radeon
    j1 = j1
    j2 = j2
    j3 = j3
    Nodes <- MCNodes
    Priority <- MCPriority
    PrimaryCount = 1
    Jobs <- MCJobs
    Items <- MCItems
    NoNode = NoNode
    QueueMax = 1
    Queueing = TRUE
    SlaOn = FALSE
    MaxSends = 2
    Workers = 2

INVARIANT AttemptsAreSends
INVARIANT ErrorsAreEarned
INVARIANT FinishedItemsLeave
INVARIANT DriverCanMove
PROPERTY KeepsResults
PROPERTY BatchEnds
