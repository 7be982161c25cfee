SPECIFICATION Spec
CONSTANTS
    init = init
    web = web
    db = db
    Jobs <- InitJob
    NoApp = NoApp
    NoObject = NoObject
    MaxGen = 2
    MaxFaults = 1
    Containers <- WebDb
    Events <- CreateUpdateDelete
    DependsOn <- InitAfterDb
INVARIANTS DestroyJobsRan ReadyIsCurrent CreateRanOnce
PROPERTIES GatedByDependencies
CHECK_DEADLOCK FALSE
