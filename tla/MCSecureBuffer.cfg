CONSTANTS
    b1 = b1
    b2 = b2
    b3 = b3
    p1 = p1
    p2 = p2
    Objects = {o1, o2, o3}
    Blocks = {b1, b2, b3}
    Pages = {p1, p2}
    PagesOf <- SharedPages
    MaxSize = 2
    Null = Null
SPECIFICATION Spec
INVARIANTS TypeOK OwnedOnce SecretHasOwner LockedUnlessDisturbed
PROPERTIES CustodySpec
SYMMETRY Symmetry
