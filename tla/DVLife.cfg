SPECIFICATION FairSpec
CONSTANTS
    MaxStarts = 2
    Leases <- LeasesDef
    Wrap = 3
    MaxPort = 2
    k1 = k1
    Keys = {k1}
    Hash <- HashDef
    FilterInterval = 2
    None = None
INVARIANTS
    AnnouncedInLease
    LocationServed
PROPERTIES
    AnswerSpacing
    StoppedFadesAway
    CallsReturn
CHECK_DEADLOCK FALSE
