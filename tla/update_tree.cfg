CONSTANTS
    Updaters = {u1, u2}
    TreeIDs = {0, 1, 2}
    TreeStates = {"", "FROZEN", "ACTIVE"}
    TreeTypes = {"", "LOG", "log"}
    MaxLate = 1
SPECIFICATION UpdateSpec
INVARIANTS SuccessIsLasting
PROPERTIES OnlyWhatWasAsked UpdatesEnd
CHECK_DEADLOCK FALSE
