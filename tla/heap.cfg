SPECIFICATION MCFairSpec
CONSTANTS
    t1 = t1
    t2 = t2
    p1 = p1
    p2 = p2
    s1 = s1
    s2 = s2
    NoPointer = NoPointer
    Scenarios = {"calls", "threads", "stacks", "state"}
    Threads <- TwoThreads
    Callers <- OneThread
    Pointers <- TwoPointers
    Frames <- AllFrames
    Calls <- AllCalls
    MaxTokens = 2
    RingCap = 4
    QueueCap = 2
    StackCap = 1
    LiveCap = 1
    Addresses <- TwoPointers
    Stacks = {s1, s2}
    Sizes = {3}
    Weights = {1, 2}
    MaxStacks = 1
    MaxU64 = 5
    MaxI64 = 4
    MaxAllocs = 2
INVARIANTS
    Typed
    ExactWhenNothingLost
    EvictionsReported
    TotalsExact
PROPERTIES
    ThreadsFreedExpire
    SnapshotAccounted
