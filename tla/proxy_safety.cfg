SPECIFICATION HSpec
CONSTANTS
    Sessions = {s1}
    NoSession = NoSession
    Tasks = {t1, t2, t3}
    Capacity = 1
    MaxUp = 3
    MaxDown = 1
    MayShutdown = FALSE
    Ops = {"guard_close", "upstream", "downstream", "bypass_downstream"}
    SseTasks = {t1, t2, t3}
    MessageTasks = {t1, t2, t3}
    Answers = {"Allow", "Deny", "Unauthorized"}
SYMMETRY Symmetry
INVARIANTS
    HTypeOK
    OneStreamPerSession
    EndpointIsUsable
    StreamHadBackend
    OnlySseEndsCancel
    HolderIsAlive
    
CHECK_DEADLOCK FALSE
