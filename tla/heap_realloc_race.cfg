SPECIFICATION MCSpec
CONSTANTS
    t1 = t1
    t2 = t2
    p1 = p1
    p2 = p2
    s1 = s1
    s2 = s2
    NoPointer = NoPointer
    Scenarios = {"calls"}
    Threads <- TwoThreads
    Callers <- TwoThreads
    Pointers <- TwoPointers
    Frames <- Usable
    Calls <- AllCalls
    MaxTokens = 2
    RingCap = 9
    QueueCap = 9
    StackCap = 9
    LiveCap = 2
    Addresses <- TwoPointers
    Stacks = {s1, s2}
    Sizes = {3}
    Weights = {1, 2}
    MaxStacks = 1
    MaxU64 = 5
    MaxI64 = 4
    MaxAllocs = 2
INVARIANTS
    ExactWhenNothingLost
