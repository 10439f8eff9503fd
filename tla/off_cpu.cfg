SPECIFICATION Spec
CONSTANTS
    t1 = t1
    t2 = t2
    s1 = s1
    s2 = s2
    Tids <- TwoThreads
    Stacks <- OneStack
    RingCap = 2
    QueueCap = 1
    MaxStacks = 1
    MaxTime = 1
    MaxEvents = 4
    MaxMoves = 1
    MaxWindows = 1
SYMMETRY Symmetry
INVARIANTS
    TypeOK
    IntervalsConserved
    LossesReported
    TimeAttributed
    NoGhosts
