-------------------------------- MODULE OffCpu --------------------------------
(***************************************************************************)
(* Off-CPU sampling: the sched_switch program (src/bpf/off_cpu.bpf.c), its *)
(* event ring, and the collector that turns switches into intervals        *)
(* (src/src/platform/linux/off_cpu.rs).                                    *)
(*                                                                         *)
(*   scheduler --switch--> ring --drain--> queue --apply--> pending        *)
(*                                                    \--> samples         *)
(*                                                                         *)
(* The scheduler runs beside the collector: it switches, and time passes,  *)
(* between a look at /proc and the next drain, and between the drain of a  *)
(* window's end and the reading of the clock that splits the intervals.    *)
(* Timestamps are those of one monotonic clock.  The names of threads and  *)
(* the size check of the ring's records are left out; more threads than    *)
(* --max-threads end the recording (see RecordLoop).                       *)
(***************************************************************************)
EXTENDS Naturals, SequencesExt

CONSTANTS
    Tids,
    Stacks,     \* user stacks
    RingCap,    \* capacity of off_cpu_events, in events
    QueueCap,   \* EVENT_QUEUE_CAPACITY
    MaxStacks,  \* --max-stacks
    MaxTime,    \* bound: the clock
    MaxEvents,  \* bound: switches of tracked threads
    MaxMoves,   \* bound: threads that start, join or leave
    MaxWindows  \* bound: windows

ASSUME OffCpuAssumption ==
    /\ IsFiniteSet(Tids)
    /\ {RingCap, QueueCap, MaxStacks, MaxTime, MaxEvents, MaxMoves, MaxWindows} \subseteq Nat

VARIABLES
    now,       \* CLOCK_MONOTONIC
    thread,    \* what each thread is doing
    member,    \* the ids that /proc or the cgroup lists
    moves,     \* how many threads started, joined or left
    tracked,   \* tracked_tids, in the kernel's map and in the collector
    ring,      \* off_cpu_events
    stats,     \* off_cpu_stats
    previous,  \* previous_stats
    queueDrops,\* userspace_drops
    pending,   \* the open interval of each thread
    window,    \* what the collector counts for the current window
    pc,        \* where the recorder is
    emitted,   \* history: events of tracked threads
    applied,   \* history: events that apply() has seen
    reported,  \* history: totals of the windows' diagnostics, and their number
    asleep,    \* history: since when a thread is off CPU
    slept,     \* history: time a thread was off CPU, until it was last put on
    attributed,\* history: time that aggregate() was given for a thread
    slack,     \* history: time between drains and boundaries, per thread
    drainedAt, \* history: when the events were last drained
    uprooted,  \* history: threads that were untracked
    strays     \* history: threads that were untracked with a switch-out in ring

schedulerVars == <<now, thread, member, moves, asleep, slept>>
collectorVars == <<tracked, previous, queueDrops, pending, window, pc>>
historyVars   == <<emitted, applied, reported, attributed, slack, drainedAt, uprooted, strays>>
vars == <<schedulerVars, collectorVars, historyVars, ring, stats>>

NoStack    == "nostack"  \* no frame, or none that is not zero
NoInterval == [stack |-> NoStack, started |-> 0]
Awake      == MaxTime + 1
NewWindow == [outs |-> 0, completed |-> 0, incomplete |-> 0, omitted |-> 0,
              keys |-> {}, events |-> 0]
Nothing   == [outs |-> 0, completed |-> 0, incomplete |-> 0, omitted |-> 0,
              events |-> 0, drops |-> 0, windows |-> 0]

Init ==
    /\ now = 0
    /\ thread \in [Tids -> {"running", "blocked"}] /\ member = Tids /\ moves = 0
    /\ tracked = {} /\ ring = <<>>
    /\ stats = [drops |-> 0, failures |-> 0] /\ previous = stats /\ queueDrops = 0
    /\ pending = [t \in Tids |-> NoInterval] /\ window = NewWindow /\ pc = "attach"
    /\ emitted = 0 /\ applied = 0 /\ reported = Nothing
    /\ asleep = [t \in Tids |-> Awake] /\ slept = [t \in Tids |-> 0]
    /\ attributed = [t \in Tids |-> 0] /\ slack = [t \in Tids |-> 0]
    /\ drainedAt = 0 /\ uprooted = {} /\ strays = {}

Minus(n, m) == IF n >= m THEN n - m ELSE 0

-----------------------------------------------------------------------------
(* The scheduler and the sched_switch program                              *)

Tick ==
    /\ now < MaxTime
    /\ now' = now + 1
    /\ UNCHANGED <<thread, member, moves, asleep, slept, collectorVars, historyVars, ring, stats>>

(* A thread starts; one of a cgroup is moved out of it, or back.           *)
Start(t) ==
    /\ thread[t] = "dead"
    /\ moves < MaxMoves
    /\ thread' = [thread EXCEPT ![t] = "running"]
    /\ member' = member \cup {t}
    /\ moves' = moves + 1
    /\ UNCHANGED <<now, asleep, slept, collectorVars, historyVars, ring, stats>>

Move(t) ==
    /\ thread[t] \in {"running", "blocked"}
    /\ moves < MaxMoves
    /\ member' = IF t \in member THEN member \ {t} ELSE member \cup {t}
    /\ moves' = moves + 1
    /\ UNCHANGED <<now, thread, asleep, slept, collectorVars, historyVars, ring, stats>>

(* A thread that exits is unlisted, and has no user stack any more, before *)
(* it leaves the CPU for the last time.                                    *)
Exit(t) ==
    /\ thread[t] = "running"
    /\ thread' = [thread EXCEPT ![t] = "exiting"]
    /\ member' = member \ {t}
    /\ UNCHANGED <<now, moves, asleep, slept, collectorVars, historyVars, ring, stats>>

(* bpf_ringbuf_reserve and submit; a full ring counts a drop.  (Mutant: it *)
(* does not.)                                                              *)
Uncounted == stats.drops
Counted   == stats.drops + 1
SwitchOutEvent(t, stack) == [kind |-> "out", tid |-> t, stack |-> stack, at |-> now]
SwitchInEvent(t)         == [kind |-> "in", tid |-> t, stack |-> NoStack, at |-> now]
Submitted(event) ==
    /\ emitted < MaxEvents
    /\ emitted' = emitted + 1
    /\ ring' = IF Len(ring) < RingCap THEN Append(ring, event) ELSE ring

(* A thread leaves the CPU: emit_switch_out, if it is tracked.             *)
SwitchOut(t) ==
    /\ thread[t] \in {"running", "exiting"}
    /\ thread' = [thread EXCEPT ![t] = IF @ = "running" THEN "blocked" ELSE "dead"]
    /\ IF t \in tracked
       THEN \E stack \in (IF thread[t] = "running" THEN Stacks ELSE {}) \cup {NoStack},
               failed \in BOOLEAN :
              /\ failed => stack = NoStack /\ Len(ring) < RingCap
              /\ Submitted(SwitchOutEvent(t, stack))
              /\ stats' = [drops |-> IF Len(ring) < RingCap THEN stats.drops ELSE Counted,
                           failures |-> IF failed THEN stats.failures + 1 ELSE stats.failures]
              /\ asleep' = [asleep EXCEPT ![t] = IF stack = NoStack THEN Awake ELSE now]
       ELSE UNCHANGED <<emitted, ring, stats, asleep>>
    /\ UNCHANGED <<now, member, moves, slept, collectorVars,
                   applied, reported, attributed, slack, drainedAt, uprooted, strays>>

(* A thread gets the CPU: emit_switch_in, if it is tracked.                *)
SwitchIn(t) ==
    /\ thread[t] = "blocked"
    /\ thread' = [thread EXCEPT ![t] = "running"]
    /\ slept' = [slept EXCEPT ![t] = IF asleep[t] = Awake THEN @ ELSE @ + (now - asleep[t])]
    /\ asleep' = [asleep EXCEPT ![t] = Awake]
    /\ IF t \in tracked
       THEN /\ Submitted(SwitchInEvent(t))
            /\ stats' = [stats EXCEPT !.drops = IF Len(ring) < RingCap THEN @ ELSE Counted]
       ELSE UNCHANGED <<emitted, ring, stats>>
    /\ UNCHANGED <<now, member, moves, collectorVars,
                   applied, reported, attributed, slack, drainedAt, uprooted, strays>>

-----------------------------------------------------------------------------
(* The collector                                                           *)

(* reconcile_threads or reconcile_thread_snapshot, then apply_threads: a   *)
(* thread that is gone takes its open interval with it.  (Mutant: the      *)
(* interval is dropped without a trace; it stays.)                         *)
NotIncomplete(w, cut) == w
Incomplete(w, cut)    == [w EXCEPT !.incomplete = @ + Cardinality(cut)]
SwitchOutQueued(t) == \E i \in 1..Len(ring) : ring[i].tid = t /\ ring[i].kind = "out"
NotCut(t, gone) == pending[t]
Cut(t, gone)    == IF t \in gone THEN NoInterval ELSE pending[t]
Reconcile ==
    /\ pc \in {"attach", "loop"}
    /\ LET gone == tracked \ member
           cut  == {t \in gone : pending[t] # NoInterval}
       IN  /\ pending' = [t \in Tids |-> Cut(t, gone)]
           /\ window' = Incomplete(window, cut)
           /\ uprooted' = uprooted \cup gone
           /\ strays' = strays \cup {t \in gone : SwitchOutQueued(t)}
    /\ tracked' = member
    /\ pc' = "loop"
    /\ UNCHANGED <<schedulerVars, previous, queueDrops, ring, stats,
                   emitted, applied, reported, attributed, slack, drainedAt>>

(* The collector as a value that events are folded into.                   *)
State == [pending |-> pending, window |-> window, attributed |-> attributed]

(* aggregate(): a new key is left out at --max-stacks, and counted.        *)
(* (Mutants: one key too many; not counted.)                               *)
OneKeyMore(w, key)   == key \in w.keys \/ Cardinality(w.keys) <= MaxStacks
Admitted(w, key)     == key \in w.keys \/ Cardinality(w.keys) < MaxStacks
SilentlyOmitted(w)   == w
Omitted(w)           == [w EXCEPT !.omitted = @ + 1]
Sampled(w, key, completed) ==
    IF Admitted(w, key)
    THEN [w EXCEPT !.keys = @ \cup {key}, !.events = IF completed THEN @ + 1 ELSE @]
    ELSE Omitted(w)
Aggregated(c, t, stack, elapsed, completed) ==
    [pending    |-> c.pending,
     window     |-> Sampled(c.window, <<t, stack>>, completed),
     attributed |-> [c.attributed EXCEPT ![t] = @ + elapsed]]

(* apply() of a switch-out without a stack, and of one that finds the last *)
(* switch-in of its thread missing.  (Mutant: the latter is not counted.)  *)
ReplacedNever(c, e) == FALSE
Replaced(c, e)      == c.pending[e.tid] # NoInterval
Opened(c, e) ==
    IF e.stack = NoStack
    THEN [c EXCEPT !.window.outs = @ + 1, !.window.incomplete = @ + 1]
    ELSE [c EXCEPT !.window.outs = @ + 1,
                   !.window.incomplete = IF Replaced(c, e) THEN @ + 1 ELSE @,
                   !.pending[e.tid] = [stack |-> e.stack, started |-> e.at]]

(* apply() of a switch-in; without an open interval it is ignored.         *)
(* (Mutant: the interval stays open.)                                      *)
StillOpen(c, e) == c.pending
Closed(c, e)    == [c.pending EXCEPT ![e.tid] = NoInterval]
Completed(c, e) ==
    IF c.pending[e.tid] = NoInterval THEN c
    ELSE LET interval == c.pending[e.tid] IN
         Aggregated([c EXCEPT !.pending = Closed(c, e), !.window.completed = @ + 1],
                    e.tid, interval.stack, Minus(e.at, interval.started), TRUE)

Apply(c, e) == IF e.kind = "out" THEN Opened(c, e) ELSE Completed(c, e)

(* drain(): the ring is emptied into the queue, which drops what it cannot *)
(* hold, and then the queue is applied.                                    *)
Drained ==
    LET queue == SubSeq(ring, 1, IF Len(ring) < QueueCap THEN Len(ring) ELSE QueueCap)
        c     == FoldLeft(Apply, State, queue)
    IN  /\ pending' = c.pending
        /\ window' = c.window
        /\ attributed' = c.attributed
        /\ applied' = applied + Len(queue)
        /\ queueDrops' = queueDrops + (Len(ring) - Len(queue))
        /\ ring' = <<>>
        /\ drainedAt' = now

Drain ==
    /\ pc = "loop"
    /\ Drained
    /\ UNCHANGED <<schedulerVars, tracked, previous, pc, stats, emitted, reported, slack, uprooted, strays>>

(* snapshot_window drains first ...                                        *)
SnapshotDrain ==
    /\ pc = "loop"
    /\ reported.windows < MaxWindows
    /\ Drained
    /\ pc' = "split"
    /\ UNCHANGED <<schedulerVars, tracked, previous, stats, emitted, reported, slack, uprooted, strays>>

(* ... then reads the clock and splits the open intervals there.  (Mutants: *)
(* they start over when they began; they are left out of the window.)      *)
NotRestarted(interval) == interval
Restarted(interval)    == [interval EXCEPT !.started = now]
SplitInto(c, open) ==
    FoldLeft(LAMBDA d, t : Aggregated(d, t, pending[t].stack, Minus(now, pending[t].started), FALSE),
             c, SetToSeq(open))

(* The diagnostics of the window add the stack failures, which apply() has *)
(* counted as incomplete, to the incomplete intervals.  (Mutant: the       *)
(* queue's drops are left out.)                                            *)
RingDropsOnly == stats.drops - previous.drops
WindowDrops   == (stats.drops - previous.drops) + queueDrops
SnapshotSplit ==
    /\ pc = "split"
    /\ LET open == {t \in Tids : pending[t] # NoInterval}
           c    == SplitInto(State, open)
       IN  /\ pending' = [t \in Tids |-> IF t \in open THEN Restarted(pending[t]) ELSE NoInterval]
           /\ attributed' = c.attributed
           /\ slack' = [t \in Tids |-> IF t \in open THEN slack[t] + (now - drainedAt) ELSE slack[t]]
           /\ reported' = [outs       |-> reported.outs + c.window.outs,
                           completed  |-> reported.completed + c.window.completed,
                           incomplete |-> reported.incomplete + c.window.incomplete
                                            + (stats.failures - previous.failures),
                           omitted    |-> reported.omitted + c.window.omitted,
                           events     |-> reported.events + c.window.events,
                           drops      |-> reported.drops + WindowDrops,
                           windows    |-> reported.windows + 1]
    /\ window' = NewWindow
    /\ previous' = stats
    /\ queueDrops' = 0
    /\ pc' = "loop"
    /\ UNCHANGED <<schedulerVars, tracked, ring, stats, emitted, applied, drainedAt, uprooted, strays>>

Scheduler == Tick \/ \E t \in Tids : Start(t) \/ Move(t) \/ Exit(t) \/ SwitchOut(t) \/ SwitchIn(t)
Collector == Reconcile \/ Drain \/ SnapshotDrain \/ SnapshotSplit

Next == Scheduler \/ Collector

Spec == Init /\ [][Next]_vars

-----------------------------------------------------------------------------
EventSet == [kind : {"out", "in"}, tid : Tids, stack : Stacks \cup {NoStack}, at : 0..MaxTime]
Open     == {t \in Tids : pending[t] # NoInterval}

(* Every variable holds a value of its kind, and ring and samples keep     *)
(* within their limits.                                                    *)
TypeOK ==
    /\ now \in 0..MaxTime /\ drainedAt \in 0..now
    /\ thread \in [Tids -> {"running", "blocked", "exiting", "dead"}]
    /\ member \subseteq Tids /\ tracked \subseteq Tids /\ strays \subseteq uprooted /\ uprooted \subseteq Tids
    /\ moves \in 0..MaxMoves /\ emitted \in 0..MaxEvents /\ applied \in 0..emitted
    /\ ring \in Seq(EventSet) /\ Len(ring) <= RingCap
    /\ stats \in [drops : Nat, failures : Nat] /\ previous \in [drops : 0..stats.drops, failures : 0..stats.failures]
    /\ queueDrops \in Nat
    /\ \A t \in Open : pending[t] \in [stack : Stacks, started : 0..now]
    /\ DOMAIN window = DOMAIN NewWindow /\ Cardinality(window.keys) <= MaxStacks
    /\ DOMAIN reported = DOMAIN Nothing
    /\ pc \in {"attach", "loop", "split"}
    /\ asleep \in [Tids -> 0..Awake]
    /\ {slept, attributed, slack} \subseteq [Tids -> Nat]

(* Every switch-out that arrives ends in exactly one way: its interval is  *)
(* completed, incomplete or still open, across windows, lost switch-ins    *)
(* and threads that go away.  The incomplete intervals of the diagnostics  *)
(* count the stack failures once more.                                     *)
IntervalsConserved ==
    reported.outs + window.outs
        = (reported.completed + window.completed)
          + (reported.incomplete - previous.failures + window.incomplete)
          + Cardinality(Open)

(* Every loss is told in the diagnostics of a window: an event of a        *)
(* tracked thread is applied, on its way, or among the drops, the kernel's *)
(* and the queue's (README.md, lines 593-595); a completed interval is an  *)
(* event of a sample or an omission.                                       *)
LossesReported ==
    LET counted == reported.events + window.events IN
    /\ emitted = applied + Len(ring) + reported.drops + WindowDrops
    /\ counted <= reported.completed + window.completed
    /\ reported.completed + window.completed <= counted + reported.omitted + window.omitted

Dropped == stats.drops + queueDrops + reported.drops > 0

(* As long as no event was lost and no thread went away, each thread is    *)
(* given all the time it was off CPU, and at most that and the time        *)
(* between a window's last drain and its boundary: a thread that is put    *)
(* back on the CPU in between is charged up to the boundary.               *)
TimeAttributed ==
    (ring = <<>> /\ ~Dropped /\ uprooted = {} /\ pc = "loop") =>
        \A t \in Tids :
            LET given  == attributed[t] + (IF pending[t] = NoInterval THEN 0 ELSE now - pending[t].started)
                really == slept[t] + (IF asleep[t] = Awake THEN 0 ELSE now - asleep[t])
            IN  really <= given /\ given <= really + slack[t]

(* An interval of a thread that is not tracked any more stays open, to be  *)
(* charged to every window, only if its switch-out was still in the ring   *)
(* when the thread was untracked.                                          *)
NoGhosts == Open \subseteq tracked \cup strays
=============================================================================
