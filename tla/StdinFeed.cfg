SPECIFICATION FairSpec
CONSTANTS
    MaxData = 12
    PipeCap = 5
    AtomicSizes = {2, 4}
    BufSize = 3
INVARIANTS
    SentIsPrefix
    CountIsExact
    RawTrueMeansSent
    FalseMeansShort
    LossIsBounded
PROPERTY Finishes
