SPECIFICATION FairSpec
CONSTANTS
    Scripts <- MCScripts
    MaxLag = 1
    MaxFaults = 2
INVARIANTS NothingOverAGap RecordedStays
PROPERTIES KeepsLayout Completes
CHECK_DEADLOCK FALSE
