CONSTANTS
    s1 = s1
    s2 = s2
    h1 = h1
    alice = alice
    Scripts = {s1, s2}
    Handles = {h1}
    Locked <- LockedPcrs
    Debug <- NoPcrs
    Identities = {alice}
    MaxKeys = 2
    MaxExtends = 2
    ReadCanFail = TRUE
    None = None
    Empty = Empty
SPECIFICATION Spec
INVARIANTS TypeOK CompletedRunConsistent PolicyReproducible
PROPERTIES KeyKept BootRestores WorkingSetKept
SYMMETRY Administrators
