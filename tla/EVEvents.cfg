SPECIFICATION FairSpec
CONSTANTS
    Cps = {c1}
    Setters = {t1}
    Workers = {w1}
    Handlers = {h1, h2}
    MaxSid = 2
    MaxValue = 2
    MaxCounter = 3
    Builds <- AllBuilds
    None = None
INVARIANTS
    SeqAgreement
    UnsubscribedIsQuiet
PROPERTIES
    GapOnlyAtWrap
    ListenerInOrder
    Converges
    NotifierReturns
    ControlPointFree
CHECK_DEADLOCK FALSE
