CONSTANTS
    TreeProcs = {t1}
    Forced = {}
    MaxCMEdits = 0
    MaxFaults = 1
    Procs = {p1, p2}
    Names <- MCNames
    FulcioKeys <- MCFulcioKeys
    Chains <- MCTwoChains
    MaxRuns = 0
    LegacyRoots = {"r0"}
SPECIFICATION Spec
INVARIANTS RootFilesPresent KeyPairMatches
SYMMETRY MCSymmetry
CHECK_DEADLOCK FALSE
