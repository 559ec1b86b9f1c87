SPECIFICATION Spec
CONSTANTS
    Sigs = {s1, s2}
    SIGKILL = SIGKILL
    Funcs = {f1}
    SIGNAL_QUEUE_MAX = 2
    Resets = {TRUE, FALSE}
    Outcomes = {"ok", "error", "error_nil"}
    NoSig = NoSig
    nil = nil
SYMMETRY Symmetry
INVARIANTS
    TypeOK
    NeverDeferred
    WritesInBounds
    QueueHooked
    HandlerKnown
