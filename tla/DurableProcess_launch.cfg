SPECIFICATION FairSpec
CONSTANTS
    None = None
    Procs = {p1}
    Clients = {c1, c2}
    p1 = p1
    c1 = c1
    c2 = c2
    MaxActive = 1
    MaxTerminal = 0
    Uses = {"discover", "get", "stop", "relaunch"}
    MayLag = {"starting", "running"}
    Faults = {"client", "spawn", "signal"}
INVARIANTS TypeOK LaunchedOnce
PROPERTIES StopHonoured AbandonedSettles
