SPECIFICATION Spec
CONSTANTS
    ModeStrs <- MCModeStrs
    FileModes <- MCFileModes
    nil = nil
INVARIANTS
    
    QueryKeepsMask
PROPERTY
    ChmodKeepsOthers
