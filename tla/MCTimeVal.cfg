SPECIFICATION Spec
CONSTANTS
    MILLION = 3
    MaxSec = 2
    MaxCalls = 4
    nil = nil
CHECK_DEADLOCK FALSE
INVARIANTS
    ChainExact
    SubRestores
    CompareExact
