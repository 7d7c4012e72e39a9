SPECIFICATION FairSpec
CONSTANTS
    Files <- MCFiles
    Builds <- MCBuilds
    Inputs = {1, 2, 3}
    DeriveInputs = {1, 2}
    MaxFaults = 3
INVARIANTS NothingTwice
PROPERTIES WiredTogether PeripheryMatches Completes
CHECK_DEADLOCK FALSE
