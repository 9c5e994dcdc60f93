SPECIFICATION Spec
CONSTANTS
    None = None
    Tasks = {t1, t2, t3}
    Ids = {s1, s2}
    t1 = t1
    t2 = t2
    t3 = t3
    s1 = s1
    s2 = s2
    MaxRecords = 2
    Interruptible = {"begin", "delete", "op", "save", "dispose", "disposeAll"}
    Failing = {"dispose"}
    Window = 1
    Rivals = FALSE
SYMMETRY Symmetry
INVARIANTS TypeOK OneOperation OperationSafe DisposedOnce
