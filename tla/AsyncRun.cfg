SPECIFICATION Spec
CONSTANTS
    Kin = {k1, k2}
    WaitForSwallows = TRUE
SYMMETRY Symmetry
INVARIANTS
    TypeOK
    ReleasedOnReturn
    KillsBeforeReaping
    KillIsNotAnExitCode
