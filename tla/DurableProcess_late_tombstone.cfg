SPECIFICATION Spec
CONSTANTS
    None = None
    Procs = {p1}
    Clients = {c1, c2}
    p1 = p1
    c1 = c1
    c2 = c2
    MaxActive = 1
    MaxTerminal = 1
    Uses = {"get"}
    MayLag = {}
    Faults = {}
SYMMETRY Symmetry
PROPERTIES ExitKept
