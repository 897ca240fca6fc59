CONSTANTS
    Part = {"queue", "controller"}
    e1 = e1
    e2 = e2
    NoKey = NoKey
    Engine = {e1, e2}
    QueueRun = {1, 2}
    QueryLimit = 2
    QueueFaults = 1
    LastRevision = 2
    WatchedBranch = "main"
    EmitEnabled = TRUE
    ControllerFaults = 2
SPECIFICATION LiveSpec
INVARIANT EnginesSound
PROPERTIES
    QueueImplementsStore
    EnginesLive
CHECK_DEADLOCK FALSE
