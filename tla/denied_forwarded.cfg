SPECIFICATION HSpec
CONSTANTS
    Sessions = {s1}
    NoSession = NoSession
    Tasks = {t1, t2}
    Capacity = 1
    MaxUp = 2
    MaxDown = 2
    MayShutdown = FALSE
    Ops = {"guard_close", "upstream", "downstream", "bypass_downstream"}
    SseTasks = {t1, t2}
    MessageTasks = {t1, t2}
    Answers = {"Allow", "Deny", "Unauthorized"}
SYMMETRY Symmetry
INVARIANTS
    DeniedNotForwarded
CHECK_DEADLOCK FALSE
