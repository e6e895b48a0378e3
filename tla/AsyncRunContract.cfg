SPECIFICATION FairSpec
CONSTANTS
    Kin = {k1}
    WaitForSwallows = FALSE
PROPERTIES
    RefinesContract
    RefinesWait
    Returns
    GroupDies
