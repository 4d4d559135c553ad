CONSTANTS
    PassValues <- MCPassMode
    NeedPassValues = {TRUE, FALSE}
    PassOkValues = {TRUE, FALSE}
    VerboseValues = {TRUE, FALSE}
    Sessions = {"ansible", "augment"}
SPECIFICATION Spec
CHECK_DEADLOCK FALSE
INVARIANTS
    TypeOK
    SuccessMeansCommandRan
PROPERTIES
    Termination
