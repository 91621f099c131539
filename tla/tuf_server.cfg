CONSTANTS
    Procs = {p1}
    Servers = {p1}
    Names = {"tuf-root", "tuf-keys"}
    Files <- MCFiles
    Targets = {"rekor.pub", "trusted_root.json"}
    Hash <- MCHash
    Modes = {"init", "init-and-serve", "init-no-overwrite"}
    MaxGen = 8
    MaxFaults = 3
SPECIFICATION Spec
INVARIANTS TufTypeOK ServedIsComplete ServedIsPublished
PROPERTIES EventuallyServing
CHECK_DEADLOCK FALSE
