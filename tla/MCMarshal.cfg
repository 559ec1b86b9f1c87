SPECIFICATION Spec
CONSTANTS
    ShortBits = 2
    IntBits = 3
    LongBits = 4
    SpeedBits = 2
    MaxEdits = 1
    Structs <- MCStructs
    Edits <- MCEdits
    Locks <- MCLocks
    bad = bad
    nil = nil
INVARIANTS
    RoundTrip
    SetExact
    LockKept
