SPECIFICATION Spec
CONSTANTS
    x = x
    y = y
    z = z
    k1 = k1
    k2 = k2
    k3 = k3
    kidA = kidA
    kidB = kidB
    NoKid = NoKid
    NoValue = NoValue
    EmptyKey = EmptyKey
    Configs <- MCConfigs
    Requests <- MCRequests
INVARIANTS
    AllRulesHold
CHECK_DEADLOCK FALSE
