SPECIFICATION FairSpec
CONSTANTS
    c1 = c1
    c2 = c2
    h1 = h1
    h2 = h2
    h3 = h3
    Callers = {c1, c2}
    Service = Service
    Users = {c1, c2, Service}
    Hosts = {h1, h2, h3}
    DeviceHost = h1
    EventHost = h2
    Conns = {1, 2, 3, 4}
    Size = 2
    Period = 1
    App = App
    Setter = Setter
    Scenarios <- ScenariosDef
    None = None
INVARIANTS
    TypeOK
    HandlesOwned
    SafeDelete
    OwnResult
    ToldCurrent
PROPERTIES
    NoLeak
    PoolSpec
    CallsReturn
CHECK_DEADLOCK FALSE
