SPECIFICATION Spec
CONSTANTS
    MaxFd = 6
    PIPE_BUF = 1
    MaxStages = 2
    MaxProcs = 3
    MaxStreams = 2
    MaxOpen = 2
    Items = 1
    Modes = {"r", "w", "invalid", "spawn"}
    Closed = {{}, {0}}
    Failures = {"pipe", "fork", "dup2", "exec", "raise", "EINTR"}
CHECK_DEADLOCK FALSE
INVARIANTS
    Wired
