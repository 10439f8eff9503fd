------------------------------- MODULE MCHeap -------------------------------
(* Instances of HeapPipeline and of HeapState for model checking.  A run   *)
(* starts in one of Scenarios: "calls", with the constants of the run,     *)
(* where only the threads of Callers make calls, "threads", all of them    *)
(* allocate and free with room for everything, "stacks", all of them       *)
(* allocate and their stacks fill the collector's, or "state", what the    *)
(* collector makes of the events.                                          *)
EXTENDS HeapPipeline, HeapState

CONSTANTS t1, t2, p1, p2, s1, s2, Scenarios, Callers
OneThread   == {t1}
TwoThreads  == {t1, t2}
TwoPointers == {p1, p2}
Usable      == {"stack"}
AllFrames   == {"stack", "broken"}
Malloc      == {"malloc"}
MallocFree  == {"malloc", "free"}
AllCalls    == {"malloc", "nested", "realloc", "shrink", "free"}

ASSUME CallersAssumption == Callers \subseteq Threads

VARIABLE scenario

Two == INSTANCE HeapPipeline WITH
    Calls <- MallocFree, MaxTokens <- 2, RingCap <- 9, QueueCap <- 9, LiveCap <- 2, StackCap <- 2, Frames <- Usable

Crowded == INSTANCE HeapPipeline WITH
    Calls <- Malloc, MaxTokens <- 2, RingCap <- 9, QueueCap <- 9, LiveCap <- 2, StackCap <- 1, Frames <- Usable

InCalls   == scenario = "calls"
InThreads == scenario = "threads"
InStacks  == scenario = "stacks"
InState   == scenario = "state"

MCInit ==
    /\ scenario \in Scenarios
    /\ Init /\ StateInit
MCNext ==
    \/ InCalls /\ (Collector \/ \E t \in Callers : Thread(t)) /\ UNCHANGED <<scenario, stateVars>>
    \/ InThreads /\ Two!Next /\ UNCHANGED <<scenario, stateVars>>
    \/ InStacks /\ Crowded!Next /\ UNCHANGED <<scenario, stateVars>>
    \/ InState /\ StateNext /\ UNCHANGED <<scenario, vars>>
MCSpec == MCInit /\ [][MCNext]_<<vars, scenario, stateVars>>

(* HeapPipeline's fairness, for the two threads.                           *)
MCFairSpec ==
    /\ MCSpec
    /\ \A t \in Threads : WF_vars(InThreads /\ Two!Calling(t))
    /\ WF_vars(InThreads /\ Two!Consume)
    /\ SF_vars(InThreads /\ Two!Drained /\ cpc' = "stats")
    /\ WF_vars(InThreads /\ (ReadStats \/ Two!Reconcile \/ Report))

(* The buffers of heap.bpf.c and of the collector keep within their        *)
(* capacities in every call of one thread; the maps and the snapshots of   *)
(* HeapState hold values that fit an i64.                                  *)
Typed == (InCalls => TypeOK) /\ StateTyped

(* What two threads free leaves the collector's live map, as long as       *)
(* nothing is lost (HeapPipeline!FreedExpire).                             *)
ThreadsFreedExpire ==
    \A p \in Pointers :
        (InThreads /\ live[p] # NoToken /\ sampled[p] = NoToken)
            ~> (live[p] = NoToken \/ sampled[p] # NoToken)
=============================================================================
