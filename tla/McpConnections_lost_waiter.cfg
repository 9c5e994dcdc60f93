SPECIFICATION Spec
CONSTANTS
    None = None
    Tasks = {t1, t2}
    Servers = {s1}
    Configs = {c1, c2}
    t1 = t1
    t2 = t2
    s1 = s1
    c1 = c1
    c2 = c2
    Registered = c1
    OAuthConfigs = {c1}
    MaxConns = 2
    Given = {None, c2}
    Triggers = {FALSE}
    Budgeted = {}
    Interruptible = {}
INVARIANT WaitersReleased
