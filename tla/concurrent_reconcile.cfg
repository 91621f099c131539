CONSTANTS
    Procs = {p1, p2}
    Names = {s1}
    Keys <- MCKeys
    Values <- MCValues
    DataMaps <- MCDataMaps
    MaxRev = 3
    MaxFaults = 1
SPECIFICATION Spec
INVARIANTS TypeOK SnapshotIsCurrent
PROPERTIES OtherKeysUntouched AtomicPatch
CHECK_DEADLOCK FALSE
