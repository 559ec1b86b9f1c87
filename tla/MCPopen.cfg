SPECIFICATION FairSpec
CONSTANTS
    MaxFd = 5
    PIPE_BUF = 1
    MaxStages = 3
    MaxProcs = 3
    MaxStreams = 2
    MaxOpen = 2
    Items = 2
    Modes = {"r", "w", "spawn"}
    Closed = {{}}
    Failures = {}
CHECK_DEADLOCK FALSE
INVARIANTS
    Wired
    ParentHolds
    Reaped
    Delivered
PROPERTY
    CallsReturn
