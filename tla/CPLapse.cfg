CONSTANTS
    Exp = Exp
    App = App
    None = None
    u1 = u1
    u2 = u2
    l1 = l1
    l2 = l2
    l3 = l3
    l4 = l4
    Ssdp = {s1}
    Udns = {u1}
    Locs = {l1}
    Ages = {1}
    Ifcs = {i1}
    Objs = {o1}
    SubTime = 1
    MaxTime = 3
    AppOps = {}
    Listening = {TRUE}
    Packets <- EveryPacket
    Byebyes = {}
    Carries <- OneName
    MaxStrays = 1
    Curl = TRUE
SPECIFICATION FairSpec
PROPERTY LapsedRemoved
CHECK_DEADLOCK FALSE
