SPECIFICATION Spec
CONSTANTS
    None = None
    Tasks = {t1, t2}
    Ids = {s1}
    t1 = t1
    t2 = t2
    s1 = s1
    MaxRecords = 2
    Interruptible = {"load"}
    Failing = {}
    Window = 0
    Rivals = FALSE
SYMMETRY Symmetry
INVARIANTS ClosedForGood
