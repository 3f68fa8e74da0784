CONSTANTS
    Exp = Exp
    App = App
    None = None
    u1 = u1
    u2 = u2
    l1 = l1
    l2 = l2
    l3 = l3
    l4 = l4
    Ssdp = {s1}
    Udns = {u1, u2}
    Locs = {l1, l2, l3, l4}
    Ages = {1}
    Ifcs = {i1, i2}
    Objs = {o1, o2}
    SubTime = 1
    MaxTime = 2
    AppOps = {"stop", "ipchanged"}
    Listening = {TRUE}
    Packets <- OwnLocations
    Byebyes = {u1, u2}
    Carries <- OwnNames
    MaxStrays = 2
    Curl = TRUE
SPECIFICATION Spec
INVARIANTS
    ListIntact
    LockedPointersLive
    StoppedHoldsFew
SYMMETRY MovingAlike
CHECK_DEADLOCK FALSE
