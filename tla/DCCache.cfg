SPECIFICATION FairSpec
CONSTANTS
    clock = clock
    lamp = lamp
    timer = timer
    light = light
    d1 = d1
    e1 = e1
    e2 = e2
    e3 = e3
    Nothing = Nothing
    Devices = {clock, lamp}
    Tree <- TreeDef
    Searches <- SearchesDef
    FirstPort = 1
    MaxPort = 2
    MaxStarts = 3
    MaxCached = 3
    MaxDepth = 2
INVARIANTS
    AnswersMatch
    CacheIsExact
    AnnouncedReached
PROPERTIES
    GoneFades
    StayingFound
CHECK_DEADLOCK FALSE
