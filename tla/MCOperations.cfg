SPECIFICATION MCSpec

CONSTANTS
    dgx = dgx
    radeon = radeon
    Workers <- MCWorkers
    HeadNode = head
    Expected <- MCExpected
    Target = radeon
    NewConfig <- MCNewConfig
    MaxChecks = 2

INVARIANT OneRespawnPerOutage
INVARIANT PassNeedsOutage
INVARIANT StatusMatchesReplica
PROPERTY PassTestsNewCode
PROPERTY CommandEnds
