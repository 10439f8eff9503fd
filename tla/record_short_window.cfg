CHECK_DEADLOCK FALSE
SPECIFICATION Spec
CONSTANTS
    Pids = {1}
    Images = {1, 2}
    Program = 2
    MaxBirths = 1
    MaxChanges = 1
    Setups <- NoLifecycleEvents
    WindowTicks = 1
    ReconcileTicks = 2
INVARIANT ExecNoticed
