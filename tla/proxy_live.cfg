SPECIFICATION HFairSpec
CONSTANTS
    Sessions = {s1}
    NoSession = NoSession
    Tasks = {t1, t2, t3}
    Capacity = 1
    MaxUp = 3
    MaxDown = 0
    MayShutdown = FALSE
    Ops = {"guard_close", "upstream", "downstream", "bypass_downstream"}
    SseTasks = {t1, t2}
    MessageTasks = {t2, t3}
    Answers = {"Allow"}
PROPERTIES
    RequestAnswered
    StreamEndFreesSession
CHECK_DEADLOCK FALSE
