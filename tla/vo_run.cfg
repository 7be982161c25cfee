SPECIFICATION FairSpec
CONSTANTS
    a = a
    b = b
    None = None
    Apps = {a, b}
    BoundTo <- BtoA
    MaxLives <- TwiceOnce
    MaxVolumes = 3
    MaxRemovals = 1
PROPERTIES NamedVolumesStay NotTakenAway VolumesSettle
CHECK_DEADLOCK FALSE
