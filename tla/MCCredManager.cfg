CONSTANTS
    k1 = k1
    k2 = k2
    u = u
    d = d
    c1 = c1
    c2 = c2
    Chats = {k1, k2}
    Usages = {u}
    Listings = {}
    Conns = {c1, c2}
    MaxRetryAttempts = 1
    Faults = {"reply", "read", "write", "crash"}
    MaxIssued = 2
SYMMETRY Symmetry
SPECIFICATION Spec
INVARIANTS
    TypeOK
    OneLeader
PROPERTIES
    NeverBack
