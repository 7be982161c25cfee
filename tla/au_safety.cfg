SPECIFICATION Spec
CONSTANTS
    hub = hub
    lcl = lcl
    Apps = {a1}
    Registered = {hub}
    Published <- HubRefs
    Pattern = Pattern
    NoTag = NoTag
    NoRef = NoRef
    NoView = NoView
    Tags = {1, 2}
    Matching = {1, 2}
    MaxDigest = 2
    MaxEdits = 2
    MaxPushes = 1
    MaxFaults = 1
    StartRemote <- FirstOrBoth
    StartLocal <- LclFirst
    Repos = {hub, lcl}
    Built <- LclRefs
    Denied <- LclSecond
    Specs <- EveryMode
    MayUntag = TRUE
INVARIANTS DaemonAwake OnlyAllowedImages
PROPERTIES PullsWhatIsStored AnnouncesForStored NotifyNeedsConsent NoDowngrade
CHECK_DEADLOCK FALSE
