SPECIFICATION FairSpec
CONSTANTS
    web = web
    db = db
    cache = cache
    Apps <- ThreeApps
    Parent <- Nested
    NoParent = NoParent
    Finalized <- WebDb
    MaxRuns = 2
    MaxLate = 1
    MaxFaults = 1
INVARIANTS KnownAppsFirst
PROPERTIES ParentsFirst ProjectGoes
CHECK_DEADLOCK FALSE
