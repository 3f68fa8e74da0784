SPECIFICATION FairSpec
CONSTANTS
    c1 = c1
    c2 = c2
    Conns = {c1, c2}
    Requests <- RequestsDef
    Offers <- OffersDef
    MaxTries = 2
    None = None
INVARIANTS
    AnsweredInOrder
    OwnBase
    WholeBody
    ListExact
PROPERTIES
    ConnectionsEnd
    StopReturns
CHECK_DEADLOCK FALSE
