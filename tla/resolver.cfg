SPECIFICATION FairSpec
CONSTANTS
    a = a
    b = b
    c = c
    v6 = v6
    Addresses <- MCAddresses
    Answers <- MCAnswers
    Unusable = {v6}
    CounterSize = 4
    MaxPicks = 9
INVARIANTS
    TypeOK
    RoundRobin
PROPERTIES
    Converges
CHECK_DEADLOCK FALSE
