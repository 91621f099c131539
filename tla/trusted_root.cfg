CONSTANTS
    Directories <- MCDirectories
SPECIFICATION RootSpec
INVARIANTS TrustedRootMatches MadeOfValidFiles
CHECK_DEADLOCK FALSE
