CONSTANTS
    Procs = {j1, s1}
    Makers = {j1}
    Servers = {s1}
    Names = {"fulcio-pub-key", "ctlog-public-key", "rekor-pub-key", "tsa-cert-chain", "tuf-secrets", "tuf-root", "tuf-keys"}
    Files <- MCFiles
    Targets = {"trusted_root.json"}
    Hash <- MCHash
    Modes = {"init-and-serve"}
    MaxGen = 5
    MaxFaults = 2
    MaxSetups = 2
SPECIFICATION StackSpec
INVARIANTS TargetsAreKeysInUse RootIsServed
PROPERTIES SetupCompletes
CHECK_DEADLOCK FALSE
