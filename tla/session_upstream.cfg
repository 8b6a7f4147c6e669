SPECIFICATION Spec
CONSTANTS
    Sessions = {s1}
    NoSession = NoSession
    Tasks = {t1, t2, t3}
    Capacity = 2
    MaxUp = 3
    MaxDown = 3
    MayShutdown = TRUE
    Ops = {"upstream", "stop", "downstream", "bypass_downstream"}
SYMMETRY Symmetry
CONSTRAINT OneDirection
INVARIANTS
    TypeOK
    OneRelay
    EndsKept
    DeliveredInOrder
    NothingElseLost
PROPERTIES
    UpIsPipe
CHECK_DEADLOCK FALSE
