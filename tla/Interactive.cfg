SPECIFICATION FairSpec
CONSTANTS
    Kin = {k1}
    Nice = 2
INVARIANTS
    ReleasedOnClose
    KillsBeforeReaping
    WaitersAreWatched
PROPERTIES
    KilledLast
    Closes
