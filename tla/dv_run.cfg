SPECIFICATION FairSpec
CONSTANTS
    Clients = {c1}
    None = None
    MaxGen = 2
    MaxBuilds = 1
    MaxApps = 1
    MaxFaults = 1
INVARIANTS TypeOK
PROPERTIES RunsWhatIsWanted SessionsEnd
CHECK_DEADLOCK FALSE
