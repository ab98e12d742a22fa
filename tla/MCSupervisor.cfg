SPECIFICATION Spec
CONSTANTS
    p1 = p1
    p2 = p2
    p3 = p3
    d1 = d1
    d2 = d2
    Kinds <- Three
    Procs = {p1, p2, p3}
    Dogs = {d1, d2}
    None = None
INVARIANTS
    TypeOK
    Managed
    OneWatchdog
PROPERTIES
    NeverReplaced
    StaysUp
