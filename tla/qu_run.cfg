SPECIFICATION FairSpec
CONSTANTS
    Demands <- WithUnparsable
    Unparsable <- JustThree
    None = None
    MaxEdits = 2
    MaxFaults = 2
INVARIANTS NothingBeforeGrant
PROPERTIES SettlesGranted RefusalIsShown
