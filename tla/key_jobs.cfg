CONSTANTS
    Procs = {p1, p2}
    Names = {"main", "pub"}
    MaxFaults = 1
    Runs = 3
SPECIFICATION Spec
INVARIANTS JobTypeOK MaterialNeverTorn FinishedJobMatches
PROPERTIES ChainIsKept JobsFinish
CHECK_DEADLOCK FALSE
