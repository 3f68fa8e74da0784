CONSTANTS
    Exp = Exp
    App = App
    None = None
    u1 = u1
    u2 = u2
    l1 = l1
    l2 = l2
    l3 = l3
    l4 = l4
    Ssdp = {s1, s2}
    Udns = {u1, u2}
    Locs = {l1}
    Ages = {0, 1}
    Ifcs = {i1}
    Objs = {o1, o2}
    SubTime = 1
    MaxTime = 2
    AppOps = {"use", "subscribe"}
    Listening = {TRUE, FALSE}
    Packets <- OnceForTheOther
    Byebyes = {u1}
    Carries <- OneName
    MaxStrays = 2
    Curl = TRUE
SPECIFICATION Spec
INVARIANTS
    LockDiscipline
    UniqueUdn
PROPERTIES
    LockedCacheIsStable
SYMMETRY Alike
CHECK_DEADLOCK FALSE
