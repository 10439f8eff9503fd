------------------------------ MODULE HeapState ------------------------------
(***************************************************************************)
(* HeapState of src/src/heap/state.rs: what the heap collector knows of    *)
(* the sampled allocations.  Every window reports, per stack, what was     *)
(* allocated in the window and what is in use at its end; at most          *)
(* MaxStacks stacks are reported and the rest is counted as dropped.       *)
(*                                                                         *)
(* The code keeps three maps.  Here each is a total function: no entry is  *)
(* None in live and Zero in the two maps of totals, whose entries always   *)
(* hold a positive number of objects.  Several names have a prefix that    *)
(* tells them from those of HeapPipeline, beside which TLC runs this.      *)
(***************************************************************************)
EXTENDS Naturals, FiniteSetsExt

CONSTANTS
    Addresses, \* addresses the allocator returns
    Stacks,    \* call stacks
    Sizes,     \* sizes of an allocation, as the program asked for them
    Weights,   \* powers of two: how many allocations a sample stands for
    MaxStacks, \* --max-stacks
    MaxU64, MaxI64, \* the largest values of u64 and i64
    MaxAllocs  \* bound: allocations applied between two snapshots

ASSUME HeapAssumption ==
    /\ IsFiniteSet(Addresses) /\ IsFiniteSet(Stacks)
    /\ Sizes \subseteq Nat \ {0} /\ Weights \subseteq Nat \ {0}
    /\ {MaxStacks, MaxU64, MaxI64, MaxAllocs} \subseteq Nat \ {0}
    /\ MaxI64 < MaxU64

VARIABLES
    liveAllocations,   \* live: the sampled allocations not freed yet
    windowAllocations, \* totals of this window, per stack
    liveTotals,        \* totals in use, per stack
    aggregationDrops,  \* this window's allocations left out
    snapshot,          \* the last snapshot
    observed,          \* history: totals of every allocation applied in this window
    applied            \* history: how many those are (bounded by MaxAllocs)

stateVars == <<liveAllocations, windowAllocations, liveTotals, aggregationDrops, snapshot, observed, applied>>

None == [stack |-> "none", objects |-> 0, space |-> 0]
Zero == [objects |-> 0, space |-> 0]

AtMost(n, m) == IF n <= m THEN n ELSE m
Minus(n, m)  == IF n >= m THEN n - m ELSE 0

(* The totals in use are u128 and cannot overflow; i64 additions saturate. *)
Plus(t, u)   == [objects |-> t.objects + u.objects, space |-> t.space + u.space]
AddI64(t, u) == [objects |-> AtMost(t.objects + u.objects, MaxI64),
                 space   |-> AtMost(t.space + u.space, MaxI64)]
ToI64(t)     == AddI64(t, Zero)

StateInit ==
    /\ liveAllocations = [p \in Addresses |-> None]
    /\ windowAllocations = [s \in Stacks |-> Zero] /\ liveTotals = [s \in Stacks |-> Zero]
    /\ aggregationDrops = Zero
    /\ snapshot = [alloc |-> windowAllocations, inuse |-> liveTotals,
                   allocDrops |-> Zero, inuseDrops |-> Zero]
    /\ observed = Zero /\ applied = 0

Listed(t) == {s \in Stacks : t[s] # Zero}

(* remove_live_totals *)
Without(t, a) ==
    IF a = None THEN t
    ELSE [t EXCEPT ![a.stack] = [objects |-> Minus(@.objects, a.objects),
                                 space   |-> Minus(@.space, a.space)]]

(* The allocation an insertion at p replaces.  (Mutant: it stays in the    *)
(* totals.)                                                                *)
Forgotten(p) == None
Replaced(p)  == liveAllocations[p]

(* Whether this window still has room for stack s.                         *)
HasRoom(s) == s \in Listed(windowAllocations) \/ Cardinality(Listed(windowAllocations)) < MaxStacks

(* allocate: count the allocation in the window (or as dropped), then make *)
(* it the live one of its pointer.                                         *)
ApplyAllocate ==
    /\ applied < MaxAllocs
    /\ \E p \in Addresses, s \in Stacks, size \in Sizes, weight \in Weights :
         LET a == [stack |-> s, objects |-> weight, space |-> AtMost(size * weight, MaxU64)]
         IN  /\ IF HasRoom(s)
                THEN /\ windowAllocations' = [windowAllocations EXCEPT ![s] = AddI64(@, ToI64(a))]
                     /\ UNCHANGED aggregationDrops
                ELSE /\ aggregationDrops' = AddI64(aggregationDrops, ToI64(a))
                     /\ UNCHANGED windowAllocations
             /\ liveAllocations' = [liveAllocations EXCEPT ![p] = a]
             /\ liveTotals' = [Without(liveTotals, Replaced(p)) EXCEPT ![s] = Plus(@, a)]
             /\ observed' = Plus(observed, a)
    /\ applied' = applied + 1
    /\ UNCHANGED snapshot

(* apply of a free; a pointer that is not live is ignored.                 *)
ApplyFree ==
    /\ \E p \in Addresses :
         /\ liveTotals' = Without(liveTotals, liveAllocations[p])
         /\ liveAllocations' = [liveAllocations EXCEPT ![p] = None]
    /\ UNCHANGED <<windowAllocations, aggregationDrops, snapshot, observed, applied>>

Objects(t)  == [x \in DOMAIN t |-> t[x].objects]
Space(t)    == [x \in DOMAIN t |-> t[x].space]
SumOf(t, S) == [objects |-> MapThenSumSet(LAMBDA x : Objects(t)[x], S),
                space   |-> MapThenSumSet(LAMBDA x : Space(t)[x], S)]

InUse(l, s) == SumOf(l, {p \in Addresses : l[p].stack = s})

(* rebuild_live_totals *)
Rebuilt(l) == [s \in Stacks |-> InUse(l, s)]

(* retain_live_pointers: forget what the kernel no longer tracks.          *)
RetainLivePointers ==
    /\ \E tracked \in SUBSET Addresses :
         liveAllocations' =
            [p \in Addresses |-> IF p \in tracked THEN liveAllocations[p] ELSE None]
    /\ liveTotals' = Rebuilt(liveAllocations')
    /\ UNCHANGED <<windowAllocations, aggregationDrops, snapshot, observed, applied>>

(* clear_live: the target executed a new image.                            *)
ClearLive ==
    /\ liveAllocations' = [p \in Addresses |-> None]
    /\ liveTotals' = [s \in Stacks |-> Zero]
    /\ UNCHANGED <<windowAllocations, aggregationDrops, snapshot, observed, applied>>

(* The in-use values that fit beside the window's stacks are those of any  *)
(* Admitted set: the code visits a hash map.  (Mutant: room for one more.) *)
OneMore  == Minus(MaxStacks + 1, Cardinality(Listed(windowAllocations)))
Room     == Minus(MaxStacks, Cardinality(Listed(windowAllocations)))
Waiting  == Listed(liveTotals) \ Listed(windowAllocations)
Admitted == {S \in SUBSET Waiting : Cardinality(S) = AtMost(Cardinality(Waiting), Room)}

(* snapshot_window_with_drops: report the window and start the next one.   *)
SnapshotWindow ==
    /\ \E admitted \in Admitted :
         LET shown == admitted \cup Listed(windowAllocations) IN
         snapshot' =
            [alloc      |-> windowAllocations,
             inuse      |-> [s \in Stacks |-> IF s \in shown THEN ToI64(liveTotals[s]) ELSE Zero],
             allocDrops |-> aggregationDrops,
             inuseDrops |-> ToI64(SumOf([s \in Stacks |-> ToI64(liveTotals[s])], Stacks \ shown))]
    /\ windowAllocations' = [s \in Stacks |-> Zero]
    /\ aggregationDrops' = Zero
    /\ observed' = Zero
    /\ applied' = 0
    /\ UNCHANGED <<liveAllocations, liveTotals>>

StateNext == ApplyAllocate \/ ApplyFree \/ RetainLivePointers \/ ClearLive \/ SnapshotWindow

StateSpec == StateInit /\ [][StateNext]_stateVars

-----------------------------------------------------------------------------
Totals  == [objects : Nat, space : Nat]
Entries == [objects : 0..MaxI64, space : 0..MaxI64]

(* Every map holds values of its kind; what is reported fits an i64.       *)
StateTyped ==
    /\ liveAllocations \in [Addresses -> [stack : Stacks, objects : Nat \ {0}, space : 1..MaxU64] \cup {None}]
    /\ windowAllocations \in [Stacks -> Entries]
    /\ liveTotals \in [Stacks -> Totals]
    /\ aggregationDrops \in Entries
    /\ snapshot \in [alloc : [Stacks -> Entries], inuse : [Stacks -> Entries],
                     allocDrops : Entries, inuseDrops : Entries]
    /\ observed \in Totals
    /\ applied \in 0..MaxAllocs

(* live_totals, updated event by event, is what a recount of the live      *)
(* allocations gives, whatever pointers are reused, freed twice, never     *)
(* freed or dropped by a reconciliation.                                   *)
TotalsMatchLive == \A s \in Stacks : liveTotals[s] = InUse(liveAllocations, s)

(* Nothing is lost between a window's stacks and its drop counters: as     *)
(* long as no counter saturates, both add up to what was observed.         *)
WindowAccounted ==
    observed.objects <= MaxI64 /\ observed.space <= MaxI64 =>
        Plus(SumOf(windowAllocations, Stacks), aggregationDrops) = observed

(* HeapState's totals are exact: those of live memory equal a recount of   *)
(* the live allocations, those of a window equal what was observed in it.  *)
TotalsExact == TotalsMatchLive /\ WindowAccounted

(* A snapshot reports at most MaxStacks stacks; what it leaves out of the  *)
(* allocations and of the memory in use is in its drop counters, and the   *)
(* memory in use is carried into the next window.                          *)
SnapshotAccounted ==
    [][SnapshotWindow =>
        LET used == SumOf(liveTotals, Stacks) IN
        /\ Cardinality(Listed(snapshot'.alloc) \cup Listed(snapshot'.inuse)) <= MaxStacks
        /\ observed.objects <= MaxI64 /\ observed.space <= MaxI64 =>
              Plus(SumOf(snapshot'.alloc, Stacks), snapshot'.allocDrops) = observed
        /\ used.objects <= MaxI64 /\ used.space <= MaxI64 =>
              Plus(SumOf(snapshot'.inuse, Stacks), snapshot'.inuseDrops) = used
        /\ SumOf(liveTotals', Stacks) = used]_stateVars
=============================================================================
