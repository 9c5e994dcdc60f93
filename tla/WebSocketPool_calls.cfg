SPECIFICATION Spec
CONSTANTS
    None = None
    Main = Main
    Tasks = {t1, t2}
    t1 = t1
    t2 = t2
    Keys = {k1, k2}
    k1 = k1
    k2 = k2
    MaxConns = 2
    MaxItems = 3
    Shared = FALSE
    Interruptible = {"closing", "dialing", "waiting", "release", "releasing"}
SYMMETRY Symmetry
INVARIANTS TypeOK Exclusive Owned ContextMatches
