SPECIFICATION Spec
CONSTANTS
    Kin = {k1}
    WaitForSwallows = FALSE
INVARIANT NeverSignalsStranger
