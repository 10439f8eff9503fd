SPECIFICATION FairSpec
CONSTANTS
    MaxWindows = 4
    MaxSyms = 1
    KeepWindows = 1
    ExportCap = 1
    Otlp = TRUE
    Derived = TRUE
    Plans <- AllPlans
INVARIANTS
    TypeOK
    PendingAccounting
    SymbolizerMatchesWindow
    FailedLeavesNothing
    RetentionExact
    SuccessMeansWritten
    NoPendingAtEnd
PROPERTIES
    ImplementsLedger
    EveryWindowDecided
