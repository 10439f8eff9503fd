----------------------------- MODULE HeapPipeline -----------------------------
(***************************************************************************)
(* Heap sampling, from the allocator of the target to the in-use profile:  *)
(*                                                                         *)
(*   target threads --uprobes--> live_samples (LRU map), events (ring)     *)
(*   ring --callback--> queue (bounded) --> HeapCollector --> snapshot     *)
(*                                                                         *)
(* The BPF programs of src/bpf/heap.bpf.c run on the target's threads and  *)
(* interleave with each other and with the collector of                    *)
(* src/src/platform/linux/heap.rs at every access to a shared map.  A      *)
(* sampled allocation is known by its token; sizes, weights and frames are *)
(* HeapState's subject.  An event is lost when the ring is full (counted   *)
(* by the kernel) or when the queue is (counted by the collector).         *)
(*                                                                         *)
(* The pending map holds one call per thread and does not fill up here.  A *)
(* call that nests is one whose inner call returns the pointer of the      *)
(* outer one.                                                              *)
(* Deleting a key and reading the keys of live_samples are single steps.   *)
(***************************************************************************)
EXTENDS Naturals, Sequences, SequencesExt

CONSTANTS
    Threads, Pointers, NoPointer,
    MaxTokens, \* bound: allocations that are sampled
    RingCap,   \* capacity of the events ring, in events
    QueueCap,  \* EVENT_QUEUE_CAPACITY
    LiveCap,   \* LIVE_SAMPLE_CAPACITY
    StackCap,  \* how many stacks apply_raw_event lets wait (65,536)
    Frames,    \* what a stack is worth: "stack", or "broken" for one without usable frames
    Calls      \* the calls the target makes: "malloc", "nested", "realloc", "shrink", "free"

ASSUME PipelineAssumption ==
    /\ IsFiniteSet(Pointers) /\ NoPointer \notin Pointers
    /\ {MaxTokens, RingCap, QueueCap, LiveCap, StackCap} \subseteq Nat \ {0}
    /\ Frames \subseteq {"stack", "broken"}
    /\ Calls \subseteq {"malloc", "nested", "realloc", "shrink", "free"}

VARIABLES
    owned,       \* target: pointers the program may free or reallocate
    available,   \* target: pointers the allocator may return
    sampled,     \* target: the token of the sampled allocation at a pointer
    tpc,         \* thread: where it is
    call,        \* thread: the call it is in, with its pending_allocation
    nextToken,   \* next_token
    liveSamples, \* live_samples: the token tracked at a pointer
    liveCount,   \* live_count
    ring,        \* the events ring
    drops, evictions, \* STAT_RINGBUF_DROPS and STAT_MAP_EVICTIONS
    evicted,     \* history: the evictions from live_samples
    cpc,         \* collector: where it is
    queue,       \* collector: receiver
    stacks,      \* collector: the tokens of pending_stacks
    live,        \* collector: the token in HeapState's live map
    failures,    \* collector: local_stack_failures, over all windows
    previous,    \* collector: previous_stats, drops plus evictions
    queueDrops   \* collector: userspace_drops, over all windows

targetVars    == <<owned, available, sampled>>
threadVars    == <<tpc, call, nextToken>>
kernelVars    == <<liveSamples, liveCount, ring, drops, evictions, evicted>>
collectorVars == <<cpc, queue, stacks, live, failures, previous, queueDrops>>
vars == <<targetVars, threadVars, kernelVars, collectorVars>>

Tokens  == 1..MaxTokens
NoToken == 0
Event(kind, token, p) == [kind |-> kind, token |-> token, ptr |-> p]
Call(kind, token, p, tracked) ==
    [kind |-> kind, token |-> token, old |-> p, tracked |-> tracked, ptr |-> NoPointer]
NoCall == Call("none", NoToken, NoPointer, FALSE)

Init ==
    /\ owned = {} /\ available = Pointers /\ sampled = [p \in Pointers |-> NoToken]
    /\ tpc = [t \in Threads |-> "run"] /\ call = [t \in Threads |-> NoCall] /\ nextToken = 0
    /\ liveSamples = [p \in Pointers |-> NoToken] /\ liveCount = 0
    /\ ring = <<>> /\ drops = 0 /\ evictions = 0 /\ evicted = 0
    /\ cpc = "drain" /\ queue = <<>> /\ stacks = {} /\ live = [p \in Pointers |-> NoToken]
    /\ failures = 0 /\ previous = 0 /\ queueDrops = 0

Goto(t, label) == tpc' = [tpc EXCEPT ![t] = label]
Keys(map) == {p \in Pointers : map[p] # NoToken}

(* bpf_ringbuf_reserve and _submit: a full ring loses the event.  (Mutant:  *)
(* the ring takes one too many.)                                           *)
RoomForOneMore == Len(ring) <= RingCap
RingHasRoom    == Len(ring) < RingCap
Emit(event) ==
    IF RingHasRoom
    THEN ring' = Append(ring, event) /\ UNCHANGED drops
    ELSE drops' = drops + 1 /\ UNCHANGED ring

(* old_tracked, looked up on entry.                                        *)
OldTracked(old)   == old \in Keys(liveSamples)

(* begin_allocation: decide whether to sample; a sampled call gets a token *)
(* and emits its stack, in which the collector may find nothing usable.    *)
Unsampled(t, kind, old) ==
    /\ call' = [call EXCEPT ![t] = Call(kind, NoToken, old, OldTracked(old))]
    /\ UNCHANGED <<nextToken, ring, drops>>
Sampled(t, kind, old) ==
    /\ nextToken < MaxTokens
    /\ nextToken' = nextToken + 1
    /\ \E stack \in Frames : Emit(Event(stack, nextToken', NoPointer))
    /\ call' = [call EXCEPT ![t] = Call(kind, nextToken', old, OldTracked(old))]
Begin(t, kind, old) ==
    Unsampled(t, kind, old) \/ (kind # "shrink" /\ Sampled(t, kind, old))

MallocEnter(t) ==
    /\ "malloc" \in Calls
    /\ tpc[t] = "run"
    /\ Begin(t, "malloc", NoPointer)
    /\ Goto(t, "allocate")
    /\ UNCHANGED <<targetVars, liveSamples, liveCount, evictions, evicted, collectorVars>>

(* The malloc in a calloc or an aligned_alloc: only if it is sampled does  *)
(* it take the place of the outer call in pending.  The first to return    *)
(* takes what is pending, so that the outer return finds nothing.          *)
NestedEnter(t) ==
    /\ "nested" \in Calls
    /\ tpc[t] = "allocate"
    /\ call[t].kind = "malloc"
    /\ Sampled(t, "malloc", NoPointer)
    /\ UNCHANGED <<targetVars, tpc, liveSamples, liveCount, evictions, evicted, collectorVars>>

(* realloc, and realloc to zero bytes ("shrink"), which is never sampled.  *)
ReallocEnter(t) ==
    /\ tpc[t] = "run"
    /\ \E kind \in {"realloc", "shrink"} \cap Calls, old \in owned :
          /\ Begin(t, kind, old)
          /\ owned' = owned \ {old}
    /\ Goto(t, "allocate")
    /\ UNCHANGED <<available, sampled, liveSamples, liveCount, evictions, evicted, collectorVars>>

(* The allocator itself: any free pointer, or failure.  From here on the   *)
(* old pointer can be returned to another thread.                          *)
Allocate(t) ==
    /\ tpc[t] = "allocate"
    /\ LET c == call[t]
           released == {c.old} \ {NoPointer}
       IN  \/ UNCHANGED <<available, sampled, call>> /\ c.kind # "shrink"
           \/ /\ c.kind = "shrink"
              /\ available' = available \cup released
              /\ sampled' = [sampled EXCEPT ![c.old] = NoToken]
              /\ UNCHANGED call
           \/ /\ c.kind # "shrink"
              /\ \E p \in available \cup released :
                   /\ available' = (available \cup released) \ {p}
                   /\ sampled' = [q \in Pointers |->
                        CASE q = p -> c.token [] q \in released \ {p} -> NoToken [] OTHER -> sampled[q]]
                   /\ call' = [call EXCEPT ![t].ptr = p]
    /\ Goto(t, "return")
    /\ UNCHANGED <<owned, nextToken, kernelVars, collectorVars>>

(* realloc has given up the old pointer: it succeeded.                     *)
Moved(c) == c.kind = "shrink" \/ (c.kind = "realloc" /\ c.ptr # NoPointer)

(* The probe is done and the program has its pointer.                      *)
Deliver(t) ==
    /\ owned' = owned \cup ((IF Moved(call[t]) THEN {call[t].ptr} ELSE {call[t].ptr, call[t].old}) \ {NoPointer})
    /\ call' = [call EXCEPT ![t] = NoCall]
    /\ Goto(t, "run")

(* realloc_succeeded.  (Mutant: the check is forgotten.)                   *)
AssumeSuccess(c)    == TRUE
ReallocSucceeded(c) == c.ptr # NoPointer \/ c.kind = "shrink"

Tracks(c) == c.token # NoToken /\ c.ptr # NoPointer

(* finish_allocation: announce that the old pointer of a realloc is free ...*)
Return(t) ==
    /\ tpc[t] = "return"
    /\ IF call[t].tracked /\ ReallocSucceeded(call[t]) /\ call[t].old \in Keys(liveSamples)
       THEN /\ Emit(Event("free", liveSamples[call[t].old], call[t].old))
            /\ Goto(t, "untrack")
            /\ UNCHANGED <<owned, call>>
       ELSE /\ IF Tracks(call[t]) THEN Goto(t, "track") /\ UNCHANGED <<owned, call>> ELSE Deliver(t)
            /\ UNCHANGED <<ring, drops>>
    /\ UNCHANGED <<available, sampled, nextToken, liveSamples, liveCount, evictions, evicted, collectorVars>>

(* (Mutant: only the count is changed.)                                    *)
Uncount(p) == liveCount' = (IF liveCount > 0 THEN liveCount - 1 ELSE liveCount) /\ UNCHANGED liveSamples
Delete(p) ==
    /\ liveSamples' = [liveSamples EXCEPT ![p] = NoToken]
    /\ liveCount' = (IF p \in Keys(liveSamples) /\ liveCount > 0 THEN liveCount - 1 ELSE liveCount)

(* ... stop tracking it ...                                                *)
Untrack(t) ==
    /\ tpc[t] = "untrack"
    /\ Delete(call[t].old)
    /\ IF Tracks(call[t]) THEN Goto(t, "track") /\ UNCHANGED <<owned, call>> ELSE Deliver(t)
    /\ UNCHANGED <<available, sampled, nextToken, ring, drops, evictions, evicted, collectorVars>>

(* ... track the new one, which evicts another from a full map ...         *)
Track(t) ==
    /\ tpc[t] = "track"
    /\ LET p == call[t].ptr
           others == Keys(liveSamples) \ {p}
       IN  \E victims \in {{}} \cup {{q} : q \in others} :
              /\ victims = {} <=> p \in Keys(liveSamples) \/ Cardinality(others) < LiveCap
              /\ evicted' = evicted + Cardinality(victims)
              /\ liveSamples' = [q \in Pointers |->
                    CASE q = p -> call[t].token [] q \in victims -> NoToken [] OTHER -> liveSamples[q]]
    /\ Goto(t, "announce")
    /\ UNCHANGED <<targetVars, call, nextToken, liveCount, ring, drops, evictions, collectorVars>>

(* (Mutant of Announce's count: one eviction is not noticed.)              *)
BeyondCap == liveCount > LiveCap
AtCap     == liveCount >= LiveCap

(* ... and announce it.                                                    *)
Announce(t) ==
    /\ tpc[t] = "announce"
    /\ IF AtCap
       THEN evictions' = evictions + 1 /\ UNCHANGED liveCount
       ELSE liveCount' = liveCount + 1 /\ UNCHANGED evictions
    /\ Emit(Event("alloc", call[t].token, call[t].ptr))
    /\ Deliver(t)
    /\ UNCHANGED <<available, sampled, nextToken, liveSamples, evicted, collectorVars>>

(* free_allocation runs before the allocator gets the pointer back.        *)
FreeEnter(t) ==
    /\ "free" \in Calls
    /\ tpc[t] = "run"
    /\ \E p \in owned :
         /\ owned' = owned \ {p}
         /\ call' = [call EXCEPT ![t] = Call("free", NoToken, p, FALSE)]
         /\ IF p \in Keys(liveSamples)
            THEN Emit(Event("free", liveSamples[p], p)) /\ Goto(t, "forget")
            ELSE Goto(t, "release") /\ UNCHANGED <<ring, drops>>
    /\ UNCHANGED <<available, sampled, nextToken, liveSamples, liveCount, evictions, evicted, collectorVars>>

Forget(t) ==
    /\ tpc[t] = "forget"
    /\ Delete(call[t].old)
    /\ Goto(t, "release")
    /\ UNCHANGED <<targetVars, call, nextToken, ring, drops, evictions, evicted, collectorVars>>

Release(t) ==
    /\ tpc[t] = "release"
    /\ available' = available \cup {call[t].old}
    /\ sampled' = [sampled EXCEPT ![call[t].old] = NoToken]
    /\ call' = [call EXCEPT ![t] = NoCall]
    /\ Goto(t, "run")
    /\ UNCHANGED <<owned, nextToken, kernelVars, collectorVars>>

Thread(t) ==
    \/ MallocEnter(t) \/ NestedEnter(t) \/ ReallocEnter(t) \/ FreeEnter(t) \/ Allocate(t)
    \/ Return(t) \/ Untrack(t) \/ Track(t) \/ Announce(t) \/ Forget(t) \/ Release(t)

-----------------------------------------------------------------------------
(* The collector                                                           *)

(* ring.consume: the callback moves each event to the queue, or loses it.  *)
Consume ==
    /\ cpc = "drain"
    /\ ring # <<>>
    /\ ring' = Tail(ring)
    /\ IF Len(queue) < QueueCap
       THEN queue' = Append(queue, Head(ring)) /\ UNCHANGED queueDrops
       ELSE queueDrops' = queueDrops + 1 /\ UNCHANGED queue
    /\ UNCHANGED <<targetVars, threadVars, liveSamples, liveCount, drops, evictions, evicted, cpc, stacks, live, failures, previous>>

(* Too many stacks wait for allocations that failed or were overwritten:   *)
(* the older half goes.  (Mutant: nothing goes.)                           *)
KeepAll(all) == all
Newer(all)   == {n \in all : Cardinality({m \in all : m < n}) >= Cardinality(all) \div 2}

(* apply_raw_event.  A stack without usable frames is a failure, and so is *)
(* an allocation whose stack is missing, and each stack that is let go.    *)
ApplyStack(known, token) ==
    LET all  == known.stacks \cup {token}
        kept == IF Cardinality(all) > StackCap THEN Newer(all) ELSE all
    IN  [known EXCEPT !.stacks = kept, !.failures = @ + Cardinality(all \ kept)]
ApplyEvent(known, e) ==
    CASE e.kind = "stack"  -> ApplyStack(known, e.token)
      [] e.kind = "broken" -> [known EXCEPT !.failures = @ + 1]
      [] e.kind = "alloc" /\ e.token \in known.stacks ->
            [known EXCEPT !.stacks = @ \ {e.token}, !.live[e.ptr] = e.token]
      [] e.kind = "alloc" /\ e.token \notin known.stacks -> [known EXCEPT !.failures = @ + 1]
      [] e.kind = "free"   -> [known EXCEPT !.live[e.ptr] = NoToken]

Known == [stacks |-> stacks, live |-> live, failures |-> failures]
(* (Mutant: the last one waits for more.)                                  *)
ApplyButLast(events) ==
    FoldLeft(ApplyEvent, Known, SubSeq(events, 1, Len(events) - 1))
ApplyAll(events) == FoldLeft(ApplyEvent, Known, events)

(* The end of drain: the ring was seen empty, the queue is applied.  Then  *)
(* the next poll drains again, or the window ends.                         *)
Drained ==
    /\ cpc = "drain"
    /\ ring = <<>>
    /\ \E known \in {ApplyAll(queue)} :
         stacks' = known.stacks /\ live' = known.live /\ failures' = known.failures
    /\ queue' = <<>>
    /\ cpc' \in {"drain", "stats"}
    /\ UNCHANGED <<targetVars, threadVars, kernelVars, previous, queueDrops>>

(* snapshot_window: the losses since the last window decide whether the    *)
(* live pointers are reconciled with the kernel's.                         *)
ReadStats ==
    /\ cpc = "stats"
    /\ previous' = drops + evictions
    /\ cpc' = (IF drops + evictions # previous THEN "reconcile" ELSE "report")
    /\ UNCHANGED <<targetVars, threadVars, kernelVars, queue, stacks, live, failures, queueDrops>>

(* live_kernel_pointers and retain_live_pointers                           *)
Reconcile ==
    /\ cpc = "reconcile"
    /\ live' = [p \in Pointers |-> IF p \in Keys(liveSamples) THEN live[p] ELSE NoToken]
    /\ cpc' = "report"
    /\ UNCHANGED <<targetVars, threadVars, kernelVars, queue, stacks, failures, previous, queueDrops>>

(* snapshot_window_with_drops: the in-use values are those of live.        *)
Report ==
    /\ cpc = "report"
    /\ cpc' = "drain"
    /\ UNCHANGED <<targetVars, threadVars, kernelVars, queue, stacks, live, failures, previous, queueDrops>>

Collector == Consume \/ Drained \/ ReadStats \/ Reconcile \/ Report

Next == Collector \/ \E t \in Threads : Thread(t)

Spec == Init /\ [][Next]_vars

(* The collector keeps polling and its windows end; a call of the target   *)
(* returns once it has begun, but nothing makes the target call again.     *)
Calling(t) ==
    \/ Allocate(t) \/ Return(t) \/ Untrack(t) \/ Track(t)
    \/ Announce(t) \/ Forget(t) \/ Release(t)
FairSpec ==
    /\ Spec
    /\ \A t \in Threads : WF_vars(Calling(t))
    /\ WF_vars(Consume)
    /\ SF_vars(Drained /\ cpc' = "stats")
    /\ WF_vars(ReadStats \/ Reconcile \/ Report)

-----------------------------------------------------------------------------
Labels == {"run", "allocate", "return", "untrack", "track", "announce", "forget", "release"}
Events == [kind : {"stack", "broken", "alloc", "free"}, token : Tokens, ptr : Pointers \cup {NoPointer}]
CallRecords == [kind : {"none", "malloc", "realloc", "shrink", "free"}, token : Tokens \cup {NoToken},
                old : Pointers \cup {NoPointer}, tracked : BOOLEAN, ptr : Pointers \cup {NoPointer}]
Tracked == [Pointers -> Tokens \cup {NoToken}]

(* Every variable holds a value of its kind; the ring, the queue and the   *)
(* stacks that wait keep within their limits, however many calls fail or   *)
(* nest.                                                                   *)
TypeOK ==
    /\ owned \subseteq Pointers /\ available \subseteq Pointers \ owned
    /\ sampled \in Tracked
    /\ tpc \in [Threads -> Labels] /\ call \in [Threads -> CallRecords] /\ nextToken \in 0..MaxTokens
    /\ liveSamples \in Tracked /\ liveCount \in 0..LiveCap
    /\ ring \in Seq(Events) /\ Len(ring) <= RingCap
    /\ drops \in Nat /\ evictions \in Nat /\ evicted \in Nat
    /\ cpc \in {"drain", "stats", "reconcile", "report"}
    /\ queue \in Seq(Events) /\ Len(queue) <= QueueCap
    /\ stacks \subseteq Tokens /\ Cardinality(stacks) <= StackCap /\ live \in Tracked
    /\ failures \in Nat
    /\ previous \in Nat /\ queueDrops \in Nat

(* The pointers some thread is allocating, moving or freeing.              *)
InFlight == {call[t].ptr : t \in Threads} \cup {call[t].old : t \in Threads}
NothingLost ==
    /\ drops = 0 /\ evictions = 0 /\ queueDrops = 0
    /\ \A t \in Threads : tpc[t] = "announce" => ~AtCap

(* While nothing is lost, the collector, once it has applied the events on *)
(* their way, knows exactly the sampled allocations that are live, and so  *)
(* does the kernel map: no free is missed, none is charged to a later      *)
(* allocation at the same address.  An allocation is missing only if a     *)
(* stack failure is reported (README.md, lines 287-288).                   *)
ExactWhenNothingLost ==
    LET told == ApplyAll(queue \o ring) IN
    NothingLost =>
        \A p \in Pointers \ InFlight :
            /\ liveSamples[p] = sampled[p]
            /\ told.live[p] = sampled[p] \/ (told.live[p] = NoToken /\ told.failures > 0)

(* Every eviction is counted once the probe that caused it has run.        *)
(* README.md, lines 287-288.                                               *)
EvictionsReported == (\A t \in Threads : tpc[t] # "announce") => evictions >= evicted

(* In use is what is still allocated: a sampled allocation that was freed  *)
(* leaves the collector's live map, if not at the next snapshot then at a  *)
(* later one.  README.md, lines 307-308.                                   *)
FreedExpire ==
    \A p \in Pointers :
        (live[p] # NoToken /\ sampled[p] = NoToken) ~> (live[p] = NoToken \/ sampled[p] # NoToken)
=============================================================================
