SPECIFICATION FairSpec
CONSTANTS
    Kin = {k1}
    Fds = {"stdout", "stderr"}
    MaxOut = 3
    MaxErr = 1
    ReadSize = 2
    MaxLens = {1}
INVARIANTS
    KeepsFirstOrLast
    EndsAtEofOnly
    OutputComplete
    ReleasedOnResult
PROPERTIES
    ExitIsSeen
    Returns
