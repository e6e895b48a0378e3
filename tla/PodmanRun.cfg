SPECIFICATION FairSpec
INVARIANTS
    ContainerStopped
    RmMissesNothing
PROPERTIES
    CancelHonoured
    NothingStartsLate
    Returns
