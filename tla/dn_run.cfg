SPECIFICATION FairSpec
CONSTANTS
    None = None
    MaxDomains = 3
    MaxTrouble = 2
INVARIANTS TypeOK
PROPERTIES DomainKept RecordSettles CertificateSettles
CHECK_DEADLOCK FALSE
