SPECIFICATION FairSpec
CONSTANTS
    Sigs = {s1, s2}
    SIGKILL = SIGKILL
    Funcs = {f1}
    SIGNAL_QUEUE_MAX = 2
    Resets = {FALSE}
    Outcomes = {"ok"}
    NoSig = NoSig
    nil = nil
INVARIANTS
    NoneLost
    MaskRestored
PROPERTIES
    ImplementsQueue
    QueuedIsHandled
