SPECIFICATION FairSpec
CONSTANTS
    None = None
    Tasks = {t1, t2}
    Ids = {s1}
    t1 = t1
    t2 = t2
    s1 = s1
    MaxRecords = 3
    Interruptible = {"lookup", "create", "get", "begin", "delete", "shut", "closeAll", "makeInstance", "undo", "op", "save", "dispose", "drain"}
    Failing = {"instance", "agent", "load", "save", "dispose"}
    Window = 1
    Rivals = TRUE
INVARIANTS Accounted ClosedForGood
PROPERTIES ContentKept CloseCompletes
