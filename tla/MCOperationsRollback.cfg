SPECIFICATION OpSpec

CONSTANTS
    dgx = dgx
    radeon = radeon
    Workers <- MCWorkers
    HeadNode = head
    Expected <- MCExpected
    Target = radeon
    NewConfig <- MCNewConfig
    MaxChecks = 2

INVARIANT RollbackRestoresCode
