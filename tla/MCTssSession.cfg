CONSTANTS
    Clients = {c1, c2}
    v1 = v1
    v2 = v2
    PcrValues = {v1, v2}
    Pcrs <- OnlyPcr14
    Counted <- OnlyPcr14
    KeyPolicy <- PolicyOn14
    MaxSessions = 2
    NoPolicy = NoPolicy
    Fresh = Fresh
    Spoiled = Spoiled
SPECIFICATION FairSpec
INVARIANTS TypeOK NothingOrphaned BusEncrypted SessionSurvivesCalls
PROPERTIES CallsReturn RefusedOnlyIfTainted TaintedForGood GateSpec
