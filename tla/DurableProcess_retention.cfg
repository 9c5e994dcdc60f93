SPECIFICATION Spec
CONSTANTS
    None = None
    Procs = {p1, p2}
    Clients = {c1}
    p1 = p1
    p2 = p2
    c1 = c1
    MaxActive = 2
    MaxTerminal = 1
    Uses = {"discover", "get", "stop"}
    MayLag = {"running", "stopping"}
    Faults = {"supervisor", "drain"}
SYMMETRY Symmetry
PROPERTIES ActiveNotPruned TerminalStays
