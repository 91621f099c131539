CONSTANTS
    TreeProcs = {t1, t2, t3}
    Forced = {t3}
    MaxCMEdits = 2
    MaxFaults = 1
SPECIFICATION TreeSpec
INVARIANTS TreeTypeOK RecordedTreeExists
PROPERTIES RecordedTreeIsKept TreeJobsFinish
CHECK_DEADLOCK FALSE
