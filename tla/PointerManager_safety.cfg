SPECIFICATION Spec
CONSTANTS
    o1 = o1
    o2 = o2
    o3 = o3
    Objects = {o1, o2, o3}
    Addrs = {a1, a2}
    Threads = {t1, t2}
    Types = {"Call", "Session"}
    TypesOf <- MCTypesOf
    None = None
SYMMETRY Symmetry
INVARIANTS
    HeldObjectLives
    RegisteredObjectLives
    NothingLeaks
PROPERTY
    UnregisteredStaysGone
