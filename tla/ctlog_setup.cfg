CONSTANTS
    TreeProcs = {t1}
    Forced = {}
    MaxCMEdits = 1
    MaxFaults = 2
    Procs = {p1}
    Names <- MCNames
    FulcioKeys <- MCFulcioKeys
    Chains <- MCChains
    MaxRuns = 3
    LegacyRoots <- MCLegacyRoots
SPECIFICATION Spec
INVARIANTS CTTypeOK RootFilesPresent LogIDIsTree ConfigKeyMatches PublishedKeyMatches FetchedRootIsTrusted
PROPERTIES KeysOnceSet RootsNeverLost SetupFinishes
CHECK_DEADLOCK FALSE
