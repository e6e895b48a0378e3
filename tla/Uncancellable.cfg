SPECIFICATION FairShieldSpec
CONSTANT WorkSteps = 4
INVARIANTS
    RunsToCompletion
    TellsCancellation
    AbsorbedHidesNothing
PROPERTIES
    RefinesWait
    Finishes
