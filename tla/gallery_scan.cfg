SPECIFICATION ServicesSpec
CONSTANTS
    Services = {"gallery"}
    MaxPending = 2
    Reorder = 2
    MaxTime = 4
    MaxArrivals = 5
    Symbols <- MCSymbols
    InputStacks <- MCStacks
    InputLabels <- MCLabels
    ValueTypes <- MCValueTypes
    MaxSamples = 2
    Payloads = 2
    MaxAttempts = 5
    MaxDelay = 4
    RetryAfters <- MCDelays
    MaxForks = 2
    ImportStacks = {a, b}
    MaxOpen = 2
    MaxDistinct = 1
    Times <- MCTimes
    MaxRecords = 6
    Viewers = {v1, v2}
    MaxConnections = 2
    MaxJobs = 1
    MaxEntries = 3
    MaxProfiles = 1
    JobIds = {j1, j2}
    Kept = 1
    MaxShown = 3
INVARIANTS
    ListsNewestProfiles
CHECK_DEADLOCK FALSE
