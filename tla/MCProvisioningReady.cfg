CONSTANTS
    s1 = s1
    s2 = s2
    h1 = h1
    alice = alice
    Scripts = {s1}
    Handles = {h1}
    Locked <- LockedPcrs
    Debug <- NoPcrs
    Identities = {alice}
    MaxKeys = 1
    MaxExtends = 2
    ReadCanFail = FALSE
    None = None
    Empty = Empty
SPECIFICATION Spec
INVARIANTS ReadyMeansMatching
