CONSTANTS
    t1 = t1
    t2 = t2
    p1 = p1
    p2 = p2
    Threads = {t1, t2}
    Pages = {p1, p2}
    LockCanFail = TRUE
    MaxHeld = 1
    NoPage = NoPage
SPECIFICATION Spec
INVARIANTS TypeOK CallsCleanUp PassphraseGoneBeforeUse NeverZeroes
PROPERTIES LockLostOnlyToNeighbour
