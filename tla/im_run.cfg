SPECIFICATION Spec
CONSTANTS
    i1 = i1
    i2 = i2
    RepoOnly = RepoOnly
    None = None
    ImageList <- TwoImages
    SortedNames <- ThreeNames
    Clients = {c1}
    Apps = {a1}
    AppImages <- Follows
    Nested <- SecondInFirst
    Retries = 2
    MayPull = TRUE
INVARIANTS TypeOK RepoOnlyIsAlone
PROPERTIES ImplementsCatalog
CHECK_DEADLOCK FALSE
