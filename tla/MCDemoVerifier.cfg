SPECIFICATION DemoSpec

CONSTANTS
    dgx = dgx
    radeon = radeon
    Nodes <- MCNodes
    Priority <- MCPriority
    Standby = {}
    PrimaryCount = 1
    Threshold = 1
    StartOutcomes = {"started", "raised"}

PROPERTY RecoveryPassTells
