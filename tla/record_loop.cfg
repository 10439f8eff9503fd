\* A recording ends, and the system with it.
CHECK_DEADLOCK FALSE
SPECIFICATION FairSpec
CONSTANTS
    Pids = {1, 2}
    Images = {1, 2}
    Program = 2
    MaxBirths = 2
    MaxChanges = 1
    Setups <- AllSetups
    WindowTicks = 3
    ReconcileTicks = 2
INVARIANTS TypeOK SampledOne FullWindowsSymbolized ExitFinalizes
PROPERTIES StopEnds RestartFollowed
