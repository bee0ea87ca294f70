SPECIFICATION Spec
CONSTANTS
    t1 = t1
    t2 = t2
    a = a
    b = b
    u = u
    Tasks = {t1, t2}
    Contents = {a, b}
    Readers = {u}
    MaxAppends <- MCAppends
    MaxDamage = 1
    NoCount = NoCount
CHECK_DEADLOCK FALSE
INVARIANTS
    IntactChainVerifies
    AcceptedIsGenuine
    CountAnchorsChain
