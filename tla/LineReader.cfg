SPECIFICATION FairSpec
CONSTANTS
    Fds = {"stdout"}
    MaxOut = 5
    MaxErr = 0
    ReadSize = 3
    Caps = {0, 1, 3}
INVARIANTS
    LinesInOrder
    LinesWhole
    RetentionBounded
    WaitsWithoutLine
PROPERTY LinesArrive
