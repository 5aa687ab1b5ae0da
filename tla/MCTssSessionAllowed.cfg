CONSTANTS
    Clients = {c1}
    v1 = v1
    v2 = v2
    PcrValues = {v1, v2}
    Pcrs <- OnlyPcr14
    Counted <- OnlyPcr14
    KeyPolicy <- PolicyOn14
    MaxSessions = 1
    NoPolicy = NoPolicy
    Fresh = Fresh
    Spoiled = Spoiled
SPECIFICATION Spec
PROPERTIES MatchingPcrIsAllowed
