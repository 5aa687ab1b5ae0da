CONSTANTS
    s1 = s1
    s2 = s2
    h1 = h1
    alice = alice
    Scripts = {s1}
    Handles = {h1}
    Locked <- NoPcrs
    Debug <- DebugPcrs
    Identities = {alice}
    MaxKeys = 2
    MaxExtends = 1
    ReadCanFail = FALSE
    None = None
    Empty = Empty
SPECIFICATION Spec
INVARIANTS CompletedRunOpens
