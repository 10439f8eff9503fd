SPECIFICATION FairSpec
CONSTANTS
    MaxWindows = 2
    MaxSyms = 0
    KeepWindows = 1
    ExportCap = 1
    Otlp = TRUE
    Derived = FALSE
    Plans <- Faultless
INVARIANTS
    ExpiredWindowGone
