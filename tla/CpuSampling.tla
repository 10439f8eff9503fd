------------------------------ MODULE CpuSampling ------------------------------
(***************************************************************************)
(* CPU sampling of a recording: the perf event and ring of every thread    *)
(* (src/src/platform/linux/perf.rs), the collectors of the processes, the  *)
(* window they fill and its end (src/src/platform/linux/record.rs).        *)
(*                                                                         *)
(*   thread --sample--> ring --drain--> sorter --ready--> window           *)
(*                                                                         *)
(* Threads start, run and exit while the recorder looks at /proc now and   *)
(* then; a thread that is gone leaves a ring, and in a cgroup a process    *)
(* that is gone leaves a whole collector, to be drained once more.  What   *)
(* the sorter keeps waiting is any set within its limit, and what it       *)
(* forces out is bounded by the excess: EventSorter is the detailed one.   *)
(* The start and end of the target, and so windows that end early, and     *)
(* failures of system calls are left out.                                  *)
(***************************************************************************)
EXTENDS Naturals, FiniteSetsExt

CONSTANTS
    Processes, Tids,
    Owner,      \* the process of each thread id
    Main,       \* --pid: the only process that is sampled without a cgroup
    Keys,       \* attributed stacks: stack, process and thread
    RingCap,    \* capacity of a perf ring, in samples
    MaxPending, \* capacity of a sorter
    MaxStacks,  \* --max-stacks
    HeapCounts, \* bound: what a window may count of the stacks of the heap
    MaxGens,    \* bound: how often a thread id is used
    MaxSamples, \* bound: samples
    MaxWindows  \* bound: windows are numbered from 1 to it, again and again

NoHeap == [usable |-> 0, all |-> 0]

ASSUME SamplingAssumption ==
    /\ IsFiniteSet(Processes) /\ IsFiniteSet(Tids) /\ IsFiniteSet(Keys)
    /\ Owner \in [Tids -> Processes]
    /\ Main \in Processes
    /\ NoHeap \in HeapCounts /\ HeapCounts \subseteq [usable : Nat, all : Nat]
    /\ {RingCap, MaxPending, MaxStacks, MaxGens, MaxSamples, MaxWindows} \subseteq Nat \ {0}

VARIABLES
    cgroup,     \* CpuCollector::Cgroup: processes come and go
    long,       \* --window is longer than RECONCILE_INTERVAL and a poll
    gen,        \* threads: how often the id was used
    alive,      \* threads: the ids in use
    events,     \* events of the PerfCollectors: the ring of a thread id
    leftover,   \* retired_events of the PerfCollector of a process
    collecting, \* the processes that have a collector
    waiting,    \* the samples in the sorter of a process
    forced,     \* forced_flushes of that sorter
    retired,    \* the collectors of processes that left the cgroup
    seen,       \* the thread ids last read from /proc
    pc,         \* where the recorder is
    mode,       \* selected_mode, of --unwind auto
    cur,        \* the number of the current window
    win,        \* the CpuWindow
    looked,     \* the threads were read in the current window
    heap,       \* stacks in the HeapWindowDiagnostics of the window that ended
    taken,      \* history: samples taken
    counted,    \* history: samples in the counters of closed windows
    unrecorded, \* history: losses that a closed ring never came to record
    discarded,  \* history: samples and losses dropped with the FP collectors
    flushes,    \* history: forced flushes
    reported,   \* history: forced flushes in the diagnostics
    stacks,     \* history: stacks that threads put into rings in the window
    evidence    \* history: those of the window that last ended in FP mode

threadVars    == <<cgroup, long, gen, alive>>
collectorVars == <<events, leftover, collecting, waiting, forced, retired>>
recorderVars  == <<seen, pc, mode, cur, win, looked, heap>>
historyVars   == <<taken, counted, unrecorded, discarded, flushes, reported, stacks, evidence>>
vars == <<threadVars, collectorVars, recorderVars, historyVars>>

Bad    == "bad"  \* no valid stack
NoRing == [tid |-> "none", gen |-> 0, samples |-> {}, lost |-> 0, missed |-> 0]
Empty(t) == [tid |-> t, gen |-> gen[t], samples |-> {}, lost |-> 0, missed |-> 0]
NoStacks  == [valid |-> 0, bad |-> 0]
NewWindow == [usable |-> 0, rejected |-> 0, omitted |-> 0, lost |-> 0, keys |-> {}]

Init ==
    /\ cgroup \in BOOLEAN /\ long \in BOOLEAN
    /\ gen = [t \in Tids |-> 0] /\ alive = {}
    /\ events = [t \in Tids |-> NoRing] /\ leftover = [p \in Processes |-> {}]
    /\ collecting = {} /\ waiting = [p \in Processes |-> {}] /\ forced = [p \in Processes |-> 0]
    /\ retired = {} /\ seen = {} /\ pc = "start" /\ mode = "fp" /\ cur = 1 /\ win = NewWindow
    /\ looked = FALSE /\ heap = NoHeap
    /\ taken = 0 /\ counted = 0 /\ unrecorded = 0 /\ discarded = 0 /\ flushes = 0 /\ reported = 0
    /\ stacks = NoStacks /\ evidence = [valid |-> 0, bad |-> 0, omitted |-> 0, heap |-> NoHeap]

AtMost(n, m) == IF n <= m THEN n ELSE m
Minus(n, m)  == IF n >= m THEN n - m ELSE 0
Threads(p)   == {t \in Tids : Owner[t] = p}
Open(p)      == {t \in Threads(p) : events[t] # NoRing}
Held(rings)  == UNION {r.samples : r \in rings}
Total(f, S)  == MapThenSumSet(LAMBDA x : f[x], S)

-----------------------------------------------------------------------------
(* Threads and the kernel                                                  *)

Spawn(t) ==
    /\ t \notin alive
    /\ gen[t] < MaxGens
    /\ alive' = alive \cup {t}
    /\ gen' = [gen EXCEPT ![t] = @ + 1]
    /\ UNCHANGED <<cgroup, long, collectorVars, recorderVars, historyVars>>

Exit(t) ==
    /\ t \in alive
    /\ alive' = alive \ {t}
    /\ UNCHANGED <<cgroup, long, gen, collectorVars, recorderVars, historyVars>>

(* A sample of a thread, if the event of its id is its own.  A full ring   *)
(* misses it, and the loss is recorded with the next one that fits.        *)
Sample(t) ==
    /\ t \in alive
    /\ events[t] # NoRing
    /\ events[t].gen = gen[t]
    /\ taken < MaxSamples
    /\ taken' = taken + 1
    /\ IF Cardinality(events[t].samples) < RingCap
       THEN \E key \in Keys \cup {Bad} :
              /\ events' = [events EXCEPT ![t].samples = @ \cup {[number |-> taken + 1, window |-> cur, key |-> key]},
                                          ![t].lost = @ + events[t].missed,
                                          ![t].missed = 0]
              /\ stacks' = IF key = Bad THEN [stacks EXCEPT !.bad = @ + 1] ELSE [stacks EXCEPT !.valid = @ + 1]
       ELSE /\ events' = [events EXCEPT ![t].missed = @ + 1]
            /\ UNCHANGED stacks
    /\ UNCHANGED <<threadVars, leftover, collecting, waiting, forced, retired, recorderVars,
                   counted, unrecorded, discarded, flushes, reported, evidence>>

-----------------------------------------------------------------------------
(* Reconciliation                                                          *)

(* read_threads or CgroupThreadSnapshot::read: when collectors start, after *)
(* a lifecycle event and RECONCILE_INTERVAL after the window's start, where *)
(* the clock starts anew (record.rs:146).                                  *)
ReadThreads ==
    /\ pc \in {"start", "loop"}
    /\ seen' = alive
    /\ looked' = (pc = "loop")
    /\ pc' = "reconcile"
    /\ UNCHANGED <<threadVars, collectorVars, mode, cur, win, heap, historyVars>>

(* The processes that are sampled when these threads exist.                *)
Present(threads) == IF cgroup THEN {Owner[t] : t \in threads} ELSE {Main}

(* reconcile_thread_ids of a collector: rings whose id has gone are left   *)
(* over; an id without a ring gets one unless its thread has gone.  A new  *)
(* collector reads the threads of its process itself.  (Mutants: the       *)
(* rings whose id has gone are dropped; only new collectors open rings.)   *)
Gone(p) == {t \in Open(p) : t \notin seen}
DropLeftover(p) == leftover[p]
KeepLeftover(p) == leftover[p] \cup {events[t] : t \in Gone(p)}
OpenedAtStart(t) == t \in alive /\ Owner[t] \notin collecting
Opened(t) == /\ t \in alive
             /\ Owner[t] \in collecting => t \in seen

(* reconcile_with_args: the collectors of exited processes are retired.    *)
Reconcile ==
    /\ pc = "reconcile"
    /\ LET exited == collecting \ Present(seen)
           now    == Present(seen) \ {p \in Present(seen) \ collecting : cgroup /\ Threads(p) \cap alive = {}}
       IN  /\ collecting' = now
           /\ retired' = retired \cup
                {[process |-> p, rings |-> {events[t] : t \in Open(p)} \cup leftover[p],
                  waiting |-> waiting[p], forced |-> forced[p]] : p \in exited}
           /\ events' = [t \in Tids |->
                CASE Owner[t] \notin now -> NoRing
                  [] Owner[t] \in now /\ events[t] # NoRing /\ t \in seen -> events[t]
                  [] OTHER -> IF Opened(t) THEN Empty(t) ELSE NoRing]
           /\ leftover' = [p \in Processes |-> IF p \in collecting \ exited THEN KeepLeftover(p) ELSE {}]
           /\ waiting' = [p \in Processes |-> IF p \in exited THEN {} ELSE waiting[p]]
           /\ forced' = [p \in Processes |-> IF p \in exited THEN 0 ELSE forced[p]]
    /\ pc' = "loop"
    /\ UNCHANGED <<threadVars, seen, mode, cur, win, looked, heap, historyVars>>

-----------------------------------------------------------------------------
(* Draining                                                                *)

Drained(r) == [r EXCEPT !.samples = {}, !.lost = 0]
Losses(rings)   == Total([r \in rings |-> r.lost], rings)
MissedOf(rings) == Total([r \in rings |-> r.missed], rings)
LossesOf(ids)   == Total([t \in Tids |-> events[t].lost], ids)
MissedIn(ids)   == Total([t \in Tids |-> events[t].missed], ids)

(* ingest_cpu_batch on the window w: a sample without a valid stack is     *)
(* rejected, one with a new key is left out at --max-stacks; which keys    *)
(* come first is a matter of order.                                        *)
Ingested(w, ready, lost, admitted) ==
    LET valid == {s \in ready : s.key # Bad}
        used  == {s \in valid : s.key \in w.keys \cup admitted}
    IN  [usable   |-> w.usable + Cardinality(used),
         rejected |-> w.rejected + Cardinality(ready \ valid),
         omitted  |-> w.omitted + Cardinality(valid \ used),
         lost     |-> w.lost + lost,
         keys     |-> w.keys \cup admitted]
Admitted(w, ready) ==
    LET new == {s.key : s \in ready} \ (w.keys \cup {Bad}) IN
    {A \in SUBSET new : Cardinality(A) = AtMost(Cardinality(new), Minus(MaxStacks, Cardinality(w.keys)))}

(* The rings that are drained: the leftover ones and those of drained ids. *)
Rings(p, drained) == leftover[p] \cup {events[t] : t \in Open(p) \cap drained}

(* The samples in the rings of the ids.                                    *)
InRings == Held({events[t] : t \in Tids})

(* What can be kept waiting of all samples of a process.  (Mutant: one     *)
(* more than the limit.)                                                   *)
KeptOneMore(all) == {W \in SUBSET all : Cardinality(W) <= MaxPending + 1}
Kept(all) == {W \in SUBSET all : Cardinality(W) <= MaxPending}

(* What the collectors of exited processes still hold.                     *)
OfRetired == UNION {Held(c.rings) \cup c.waiting : c \in retired}

(* The rings that are drained for the last time.                           *)
Closed == (UNION {leftover[p] : p \in Processes}) \cup (UNION {c.rings : c \in retired})

(* Drain the rings of the ids in drained and the leftover ones, keep       *)
(* keep[p] waiting, and put the rest and all of the retired into the       *)
(* window.  A closed ring and a collector of an exited process end here:   *)
(* what such a ring missed and has not recorded, nobody is told.           *)
Collect(drained, keep) ==
    LET batch(p) == Held(Rings(p, drained)) \cup waiting[p]
        ready == (UNION {batch(p) \ keep[p] : p \in collecting}) \cup OfRetired
        lost  == Losses(Closed) + LossesOf(drained)
        excess(p) == Minus(Cardinality(batch(p)), MaxPending)
        excessRetired(c) == Minus(Cardinality(Held(c.rings) \cup c.waiting), MaxPending)
    IN  /\ \E admitted \in Admitted(win, ready) : win' = Ingested(win, ready, lost, admitted)
        /\ waiting' = [p \in Processes |-> IF p \in collecting THEN keep[p] ELSE waiting[p]]
        /\ \E more \in [collecting -> 0..MaxSamples], last \in 0..MaxSamples :
             /\ \A p \in collecting : more[p] <= excess(p)
             /\ last <= Total([c \in retired |-> excessRetired(c)], retired)
             /\ forced' = [p \in Processes |-> IF p \in collecting THEN forced[p] + more[p] ELSE forced[p]]
             /\ flushes' = flushes + Total(more, collecting) + last
        /\ events' = [t \in Tids |-> IF t \in drained /\ events[t] # NoRing THEN Drained(events[t]) ELSE events[t]]
        /\ unrecorded' = unrecorded + MissedOf(Closed)
        /\ leftover' = [p \in Processes |-> {}]
        /\ retired' = {}

(* wait_and_ingest: the poll of one process may be interrupted; its rings  *)
(* are then left as they are.                                              *)
Poll ==
    /\ pc = "loop"
    /\ \E skipped \in {{}} \cup {Threads(p) : p \in collecting} :
       \E keep \in [collecting -> SUBSET (UNION {Held(Rings(p, Tids)) \cup waiting[p] : p \in collecting})] :
          /\ \A p \in collecting : keep[p] \in Kept(Held(Rings(p, Tids \ skipped)) \cup waiting[p])
          /\ Collect(Tids \ skipped, keep)
    /\ UNCHANGED <<threadVars, collecting, seen, pc, mode, cur, looked, heap,
                   taken, counted, discarded, reported, stacks, evidence>>

(* What drain_and_ingest leaves in a sorter.                               *)
Flushed(p) == {}

(* The window is over: drain_and_ingest drains everything, and the heap    *)
(* collector, if there is one, gives its counts.  A long window ends after *)
(* the threads were read in it.                                            *)
EndWindow ==
    /\ pc = "loop"
    /\ long => looked
    /\ Collect(Tids, [p \in collecting |-> Flushed(p)])
    /\ heap' \in HeapCounts
    /\ cur' = IF cur < MaxWindows THEN cur + 1 ELSE 1
    /\ looked' = FALSE
    /\ pc' = "report"
    /\ stacks' = NoStacks
    /\ evidence' = IF mode = "fp"
                    THEN [valid |-> stacks.valid, bad |-> stacks.bad, omitted |-> win'.omitted, heap |-> heap']
                    ELSE evidence
    /\ UNCHANGED <<threadVars, collecting, seen, mode, taken, counted, discarded, reported>>

All(w) == w.usable + w.rejected + w.omitted

(* Of some stacks, fewer than 90% are usable.                              *)
Poor(usable, all) == all > 0 /\ 10 * usable < 9 * all

(* low_fp_quality: the smaller of the two ratios decides.  (Mutant: the    *)
(* ratio of no samples is 0, as the calibration has it.)                   *)
LowQualityOrEmpty(w, h) == All(w) = 0 \/ Poor(w.usable, All(w)) \/ Poor(h.usable, h.all)
LowQuality(w, h)        == Poor(w.usable, All(w)) \/ Poor(h.usable, h.all)

(* take_sorter_stats resets the counters.  (Mutant: it does not.)          *)
NotReset   == forced
AfterStats == [p \in Processes |-> 0]

(* The window's diagnostics with take_sorter_stats, then the decision on   *)
(* the mode: to switch drops every collector and starts new ones.          *)
Report ==
    /\ pc = "report"
    /\ reported' = reported + Total(forced, collecting) + Total([c \in retired |-> c.forced], retired)
    /\ forced' = AfterStats
    /\ counted' = counted + All(win) + win.lost
    /\ win' = NewWindow
    /\ heap' = NoHeap
    /\ IF mode = "fp" /\ LowQuality(win, heap)
       THEN /\ mode' = "dwarf"
            /\ pc' = "start"
            /\ collecting' = {}
            /\ events' = [t \in Tids |-> NoRing]
            /\ discarded' = discarded + Cardinality(InRings) + LossesOf(Tids) + MissedIn(Tids)
       ELSE /\ pc' = "loop"
            /\ UNCHANGED <<mode, collecting, events, discarded>>
    /\ UNCHANGED <<threadVars, leftover, waiting, retired, seen, cur, looked, taken, unrecorded, flushes, stacks, evidence>>

Target   == \E t \in Tids : Spawn(t) \/ Exit(t) \/ Sample(t)
Recorder == ReadThreads \/ Reconcile \/ Poll \/ EndWindow \/ Report

Next == Target \/ Recorder

Spec == Init /\ [][Next]_vars

(* The recorder's loop goes on, and while it polls its clock for reading   *)
(* the threads goes on; but no fairness outlasts the window.               *)
Fairness == WF_vars(ReadThreads) /\ WF_vars(Reconcile) /\ WF_vars(Report)
FairSpec == Spec /\ Fairness

-----------------------------------------------------------------------------
SampleSet == [number : 1..MaxSamples, window : 1..MaxWindows, key : Keys \cup {Bad}]
RingSet   == [tid : Tids, gen : 1..MaxGens, samples : SUBSET SampleSet, lost : Nat, missed : Nat]

(* Every variable holds a value of its kind; rings, sorters and the window *)
(* keep within their limits.                                               *)
TypeOK ==
    /\ gen \in [Tids -> 0..MaxGens] /\ alive \subseteq Tids /\ seen \subseteq Tids
    /\ \A t \in Tids : events[t] # NoRing =>
            events[t] \in RingSet /\ Cardinality(events[t].samples) <= RingCap
    /\ \A p \in Processes : leftover[p] \subseteq RingSet
    /\ collecting \subseteq Processes
    /\ \A p \in Processes : waiting[p] \subseteq SampleSet /\ Cardinality(waiting[p]) <= MaxPending
    /\ forced \in [Processes -> Nat]
    /\ \A c \in retired : c.rings \subseteq RingSet /\ c.waiting \subseteq SampleSet
    /\ pc \in {"start", "loop", "reconcile", "report"} /\ mode \in {"fp", "dwarf"}
    /\ cur \in 1..MaxWindows
    /\ win.keys \subseteq Keys /\ Cardinality(win.keys) <= MaxStacks
    /\ long \in BOOLEAN /\ looked \in BOOLEAN /\ heap \in HeapCounts
    /\ {taken, counted, unrecorded, discarded, flushes, reported} \subseteq Nat
    /\ stacks \in [valid : Nat, bad : Nat]
    /\ evidence \in [valid : Nat, bad : Nat, omitted : Nat, heap : HeapCounts]

OnTheWay == InRings \cup Held(Closed) \cup (UNION {waiting[p] : p \in Processes})
                    \cup (UNION {c.waiting : c \in retired})

(* Every sample taken is counted once, as usable, rejected, omitted or     *)
(* lost, in a window's diagnostics, unless it is still on its way, with    *)
(* two exceptions: what the mode switch drops with the FP collectors, and  *)
(* the losses of a ring that was full when its thread or process was found *)
(* gone, which no later sample came to record (record.rs, CpuWindow and    *)
(* ingest_cpu_batch; perf.rs:444-458).                                     *)
EverySampleCounted ==
    taken = counted + All(win) + win.lost + unrecorded + discarded + Cardinality(OnTheWay)
            + LossesOf(Tids) + MissedIn(Tids) + Losses(Closed) + MissedOf(Closed)
SwitchDiscards == mode = "fp" => discarded = 0

(* A window contains every sample taken before its end, whatever threads   *)
(* and processes have gone in the meantime: all that is on its way was     *)
(* taken in the current window (record.rs, wait_and_ingest and             *)
(* drain_and_ingest).                                                      *)
WindowComplete == \A s \in OnTheWay : s.window = cur
SamplesInWindows == EverySampleCounted /\ SwitchDiscards /\ WindowComplete

(* The diagnostics' forced_flushes tell every sample that a sorter had to  *)
(* emit before its time.  README.md, lines 350-352.                        *)
PressureReported ==
    flushes = reported + Total(forced, Processes) + Total([c \in retired |-> c.forced], retired)

(* They do when there is no cgroup.                                        *)
ProcessPressure == cgroup \/ PressureReported

(* The recording is in DWARF mode exactly when some window of the FP mode  *)
(* ended with fewer than 90% usable stacks, of those that threads put into *)
(* rings during that window or of those of the heap.  A sample left out at *)
(* --max-stacks is not usable, whatever its stack (record.rs,              *)
(* low_fp_quality and ingest_cpu_batch).                                   *)
HeapPoor == Poor(evidence.heap.usable, evidence.heap.all)
Justified == Poor(evidence.valid - evidence.omitted, evidence.valid + evidence.bad) \/ HeapPoor
FallbackJustified ==
    /\ mode = "dwarf" => Justified
    /\ mode = "fp" /\ pc # "report" => ~Justified

(* The ring of a thread id may be that of an earlier thread, when the id   *)
(* was used again between two looks at /proc.                              *)
Stale(t) == events[t].gen \in 1..gen[t] - 1

(* A thread that lives long enough gets a ring, whenever it starts, in     *)
(* whichever window, and also after a switch of the mode, unless its id    *)
(* was used again between two looks (reconcile_thread_ids knows threads by *)
(* their ids only).  It needs windows that outlast RECONCILE_INTERVAL: in  *)
(* shorter ones only a lifecycle event has the threads read.               *)
EveryThreadSampled ==
    \A t \in Tids : \A g \in 1..MaxGens :
        (long /\ t \in alive /\ gen[t] = g /\ (cgroup \/ Owner[t] = Main))
            ~> (events[t].gen = g \/ Stale(t) \/ t \notin alive \/ gen[t] # g)
=============================================================================
