CONSTANTS
    Writers = {w1, w2}
    Values = {v1, v2, v3, v4}
    Nothing = Nothing
    SyncsDirectory = TRUE
    MaxFaults = 2
    MaxCrashes = 2
SYMMETRY FileSymmetry
SPECIFICATION Spec
INVARIANT FileIsWhole
INVARIANT DurableOnceAnswered
PROPERTY IsRegister
