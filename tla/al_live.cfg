SPECIFICATION FairSpec
CONSTANTS
    init = init
    web = web
    db = db
    Jobs <- InitJob
    NoApp = NoApp
    NoObject = NoObject
    MaxGen = 2
    MaxFaults = 1
    Containers <- WebOnly
    Events <- Every
    DependsOn <- WebAfterInit
PROPERTIES Settles DeletionCompletes StopsAnyway
CHECK_DEADLOCK FALSE
