CONSTANTS
    s1 = s1
    v1 = v1
    h1 = h1
    h2 = h2
    alice = alice
    Scripts = {s1}
    Vaults = {v1}
    Handles = {h1, h2}
    Locked <- NoPcrs
    Debug <- DebugPcrs
    Identities = {alice}
    MaxKeys = 2
    MaxExtends = 1
    ReadCanFail = FALSE
    None = None
    Empty = Empty
SPECIFICATION LifecycleSpec
INVARIANTS LifecycleTypeOK CompletedRunServes
PROPERTIES ProtectedForLiveKey WorkingVaultKept BootRestores
SYMMETRY SameHandles
