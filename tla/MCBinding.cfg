SPECIFICATION Spec
CONSTANTS
    Fns <- AllCalls
    Errnos = {1, 22}
    Codes <- MCCodes
    EINVAL = 22
    IntMax = 3
    BufLen = 3
    nil = nil
CHECK_DEADLOCK FALSE
INVARIANTS
    NothingHeld
    FailureReported
    SuccessReported
    RaiseHasNoEffect
    WriteSlice
