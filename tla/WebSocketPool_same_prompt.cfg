SPECIFICATION Spec
CONSTANTS
    None = None
    Main = Main
    Tasks = {t1, t2}
    t1 = t1
    t2 = t2
    Keys = {k1}
    k1 = k1
    MaxConns = 2
    MaxItems = 3
    Shared = TRUE
    Interruptible = {}
SYMMETRY Symmetry
INVARIANT ContextMatches
