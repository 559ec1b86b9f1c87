SPECIFICATION Spec
CONSTANTS
    Fds = {0, 1}
    Flags = {"IN", "HUP"}
    StaticSize = 1
    EINTR = 4
    nil = nil
INVARIANTS
    FlagsReported
    ListFits
PROPERTY
    ReturnCounts
