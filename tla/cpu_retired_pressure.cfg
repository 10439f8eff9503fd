SPECIFICATION MCSpec
CONSTANTS
    p1 = p1
    p2 = p2
    t1 = t1
    t2 = t2
    t3 = t3
    k1 = k1
    k2 = k2
    Kinds = {TRUE}
    Processes <- TwoProcesses
    Tids <- ThreeThreads
    Owner <- TwoOfOne
    Main = p1
    Keys <- TwoKeys
    RingCap = 1
    MaxPending = 1
    MaxStacks = 1
    HeapCounts <- FewHeapCounts
    MaxGens = 2
    MaxSamples = 3
    MaxWindows = 2
INVARIANTS
    PressureReported
