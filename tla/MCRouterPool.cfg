SPECIFICATION PoolSpec

CONSTANTS
    dgx = dgx
    radeon = radeon
    standby = standby
    Nodes <- MCNodes
    Priority <- MCPriority
    Standby <- MCStandby
    PrimaryCount = 2
    Threshold = 2
    StartOutcomes = {"started", "raised"}

INVARIANT AtMostPrimaryCount
INVARIANT OneStartPerOutage
INVARIANT InServiceBelowThreshold
PROPERTY FailoverKeepsCapacity
PROPERTY MissesAddUp
PROPERTY KeepsRotation
PROPERTY HealthyNodeReturns
PROPERTY DeadNodeLeaves
