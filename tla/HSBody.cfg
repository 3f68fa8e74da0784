SPECIFICATION FairSpec
CONSTANTS
    c1 = c1
    c2 = c2
    Conns = {c1, c2}
    Requests <- RequestsDef
    Offers <- OffersDef
    MaxTries = 2
    None = None
PROPERTY BodyReadTires
CHECK_DEADLOCK FALSE
