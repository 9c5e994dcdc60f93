SPECIFICATION Spec
CONSTANTS
    None = None
    Main = Main
    Tasks = {t1, t2, t3}
    t1 = t1
    t2 = t2
    t3 = t3
    Keys = {k1, k2}
    k1 = k1
    k2 = k2
    Stacked = {k1}
    Scopes = {"shared", "request", "connection"}
    MaxInstances = 4
    MaxVersion = 2
    Drained = TRUE
    Interruptible = {"refresh", "connect", "instantiate", "building", "dispose"}
SYMMETRY Symmetry
INVARIANTS TypeOK LeaseSafe LeaseCurrent ShutDownOnce
