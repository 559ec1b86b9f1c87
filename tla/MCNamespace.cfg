SPECIFICATION Spec
CONSTANTS
    Platforms <- MCPlatforms
CHECK_DEADLOCK FALSE
INVARIANTS
    NoClash
    LegacyCalled
