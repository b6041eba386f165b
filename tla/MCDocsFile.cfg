CONSTANTS
    Writers = {w1}
    Values = {v1, v2, v3, v4}
    Nothing = Nothing
    MaxFaults = 1
    MaxCrashes = 2
SYMMETRY RecoverySymmetry
SPECIFICATION Spec
INVARIANTS FileIsWhole DocumentsAreRecorded
PROPERTY IsRegister
