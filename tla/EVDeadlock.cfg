SPECIFICATION FairSpec
CONSTANTS
    Cps = {c1}
    Setters = {t1}
    Workers = {w1}
    Handlers = {h1}
    MaxSid = 2
    MaxValue = 1
    MaxCounter = 3
    Builds <- CrossingBuild
    None = None
PROPERTIES
    CallsReturn
CHECK_DEADLOCK FALSE
