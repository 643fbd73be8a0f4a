SPECIFICATION GatewaySpec

CONSTANTS
    dgx = dgx
    radeon = radeon
    plain = plain
    stream = stream
    Nodes <- MCNodes
    Priority <- MCPriority
    PrimaryCount = 1
    Jobs <- MCJobs
    Streams <- MCStreams
    NoNode = NoNode
    QueueMax = 1
    Queueing = TRUE
    SlaOn = FALSE
    MaxSends = 1
    Tries = 2
    Demo = TRUE

INVARIANT InflightAreLive
INVARIANT RequestsCanMove
PROPERTY BlameAfterTries
PROPERTY RequestsEnd
