SPECIFICATION Spec
CONSTANTS
    Iters = {i1, i2}
    Streams = {s1, s2, s3}
    DirLen = 2
    DbLen = 2
    Errnos = {5}
    Loops = {g1, g2}
    Letters = {"a", "b", "c", "d"}
    Argvs <- MCArgvs
    nil = nil
CONSTRAINT OnePart
SYMMETRY Symmetry
CHECK_DEADLOCK FALSE
INVARIANTS
    StreamsOwned
    FilesInOrder
    LoopWhole
    OwnOptions
