SPECIFICATION FairSpec
CONSTANTS
    hub = hub
    lcl = lcl
    Apps = {a1}
    Registered = {hub}
    Published <- HubRefs
    Pattern = Pattern
    NoTag = NoTag
    NoRef = NoRef
    NoView = NoView
    Tags = {1, 2}
    Matching = {1, 2}
    MaxDigest = 2
    MaxEdits = 2
    MaxPushes = 1
    MaxFaults = 1
    StartRemote <- NoneOrFirst
    StartLocal <- Empty
    Repos = {hub}
    Built = {}
    Denied = {}
    Specs <- AutoOrNotify
    MayUntag = FALSE
PROPERTIES Converges Informs
CHECK_DEADLOCK FALSE
