SPECIFICATION FairSpec
CONSTANTS
    tok = tok
    gnd = gnd
    tpl = tpl
    bnd = bnd
    None = None
    Ordered <- Four
    Kind <- Kinds
    Parts <- Everything
    MaxUid = 2
    MaxGen = 2
    MaxTrouble = 1
INVARIANTS TypeOK
PROPERTIES RandomValueKept SecretsSettle
CHECK_DEADLOCK FALSE
