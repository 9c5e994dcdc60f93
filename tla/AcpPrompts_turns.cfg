SPECIFICATION FairSpec
CONSTANTS
    None = None
    Loader = Loader
    Main = Main
    Tasks = {t1, t2}
    t1 = t1
    t2 = t2
    Sessions = {s1, s2}
    s1 = s1
    s2 = s2
    MaxInstances = 4
    Queued = FALSE
    Interruptible = {"prepare", "turn", "reload", "create", "unmark"}
INVARIANTS TypeOK CancelFinds TurnLive InstancesKept
PROPERTY PromptsEnd
