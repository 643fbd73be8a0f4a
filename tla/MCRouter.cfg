SPECIFICATION MCSpec

CONSTANTS
    dgx = dgx
    radeon = radeon
    standby = standby
    j1 = j1
    j2 = j2
    j3 = j3
    Nodes <- MCNodes
    Priority <- MCPriority
    PrimaryCount = 2
    Jobs <- MCJobs
    NoNode = NoNode
    QueueMax = 2
    Queueing = TRUE
    SlaOn = TRUE
    MaxSends = 2

INVARIANT RouterTypeOK
INVARIANT QueueHoldsWaiters
INVARIANT InflightAccounted
INVARIANT HeadCanGo
PROPERTY RoutesToFitNode
PROPERTY RetryLeavesFailedNode
PROPERTY EachInTurn
PROPERTY FirstComeFirstServed
SYMMETRY JobSymmetry
CHECK_DEADLOCK FALSE
