CONSTANTS
    MaxEntries = 2
SPECIFICATION Spec
INVARIANTS TypeOK EverythingFreed
PROPERTIES LoopEndsUnlessStoreStuck
CHECK_DEADLOCK FALSE
