SPECIFICATION SystemSpec

CONSTANTS
    dgx = dgx
    radeon = radeon
    j1 = j1
    j2 = j2
    Nodes <- MCNodes
    Priority <- MCPriority
    Standby = {}
    PrimaryCount = 1
    Threshold = 1
    StartOutcomes = {"started", "raised"}
    Jobs <- MCJobs
    NoNode = NoNode
    QueueMax = 1
    Queueing = TRUE
    SlaOn = FALSE
    MaxSends = 2

PROPERTY DispatchesToLiving
PROPERTY KeepsRouter
SYMMETRY JobSymmetry
