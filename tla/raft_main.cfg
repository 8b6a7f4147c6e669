SPECIFICATION RSpec
CONSTANTS
    Sessions = {a1}
    a1 = a1
    b1 = b1
    b2 = b2
    c1 = c1
    NoSession = NoSession
    Tasks = {t1}
    t1 = t1
    t2 = t2
    t3 = t3
    Nodes = {n1, n2}
    n1 = n1
    n2 = n2
    Ids = {i1}
    i1 = i1
    i2 = i2
    NoId = NoId
    Home <- MCHome
    Id <- MCId
    NodeOf <- MCNodeOf
    Does <- DoesClose
    MayFail = FALSE
    MayCrash = FALSE
    MaxSends <- OneSend
    MaxBus = 1
    Capacity = 1
    MaxUp = 0
    MaxDown = 0
    MayShutdown = FALSE
    Ops = {}
INVARIANTS
    SubHasMain
CHECK_DEADLOCK FALSE
