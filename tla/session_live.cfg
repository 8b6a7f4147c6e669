SPECIFICATION FairSpec
CONSTANTS
    Sessions = {s1}
    NoSession = NoSession
    Tasks = {t1, t2}
    Capacity = 1
    MaxUp = 1
    MaxDown = 0
    MayShutdown = FALSE
    Ops = {"guard_close", "upstream", "stop", "close"}
INVARIANTS
    LiveSessionIsRegistered
    CleanupIsFinal
PROPERTIES
    ClosedSessionGoes
    StoppedRelayEnds
CHECK_DEADLOCK FALSE
