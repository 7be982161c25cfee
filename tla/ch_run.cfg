SPECIFICATION FairSpec
CONSTANTS
    Streams = {1, 3}
    NeedsInit = TRUE
    MaxFrames = 3
    MaxBytes = 2
    MaxCloses = 1
INVARIANTS NothingLost EndsWithEverything
PROPERTIES BytesAreRead
CHECK_DEADLOCK FALSE
