------------------------------ MODULE EventSorter ------------------------------
(***************************************************************************)
(* PerfEventSorter of src/src/platform/linux/event.rs: the bounded buffer  *)
(* that puts the CPU samples of a process, drained ring by ring, back into *)
(* the order of their timestamps.  A sample waits until one that is        *)
(* Reorder younger has been seen; more than MaxPending never wait; the end *)
(* of a window flushes the buffer.                                         *)
(*                                                                         *)
(* The buffer is a map from timestamps to queues.  Here it is a set of     *)
(* samples, each with the number of its arrival, which is its place in its *)
(* queue.  push and flush are loops around pop_oldest; a step is one       *)
(* iteration.                                                              *)
(***************************************************************************)
EXTENDS Integers, Sequences, FiniteSets

CONSTANTS
    MaxPending,  \* --max-pending-events
    Reorder,     \* --event-reorder-window
    MaxTime,     \* bound: timestamps
    MaxArrivals  \* bound: samples

ASSUME SorterAssumption ==
    /\ MaxPending \in Nat \ {0}
    /\ Reorder \in Nat
    /\ MaxTime \in Nat
    /\ MaxArrivals \in Nat

VARIABLES
    pending,     \* the samples that wait
    pendingLen,  \* pending_len
    maxSeen,     \* max_seen
    peak,        \* peak_pending
    forced,      \* forced_flushes
    phase,       \* the call in progress: none ("idle"), "push" or "flush"
    emitted,     \* history: what was pushed to ready, in that order
    arrived,     \* history: how many samples were pushed
    reported     \* history: the forced flushes that take_stats returned

vars == <<pending, pendingLen, maxSeen, peak, forced, phase, emitted, arrived, reported>>

(* skew is how far behind the newest timestamp a sample arrived.           *)
Samples == [time : 0..MaxTime, number : 1..MaxArrivals, skew : 0..MaxTime]
Causes  == {"ready", "forced", "flushed"}

Init ==
    /\ pending = {} /\ pendingLen = 0 /\ maxSeen = 0 /\ peak = 0 /\ forced = 0
    /\ phase = "idle" /\ emitted = <<>> /\ arrived = 0 /\ reported = 0

(* u64::saturating_sub.  (Mutant: it wraps or panics below zero.)          *)
Larger(m, n)     == IF m >= n THEN m ELSE n
Difference(m, n) == m - n
Minus(m, n)      == IF m >= n THEN m - n ELSE 0

(* The order of the map, then of the queue of a timestamp.                 *)
Before(s, t) == s.time < t.time \/ (s.time = t.time /\ s.number < t.number)
IsOldest(s)  == s \in pending /\ \A t \in pending : ~Before(t, s)

(* push, up to drain_before                                                *)
Push ==
    /\ phase = "idle"
    /\ arrived < MaxArrivals
    /\ \E time \in 0..MaxTime :
         /\ pending' = pending \cup
                {[time |-> time, number |-> arrived + 1, skew |-> Minus(maxSeen, time)]}
         /\ maxSeen' = Larger(maxSeen, time)
    /\ pendingLen' = pendingLen + 1
    /\ peak' = Larger(peak, pendingLen')
    /\ arrived' = arrived + 1
    /\ phase' = "push"
    /\ UNCHANGED <<forced, emitted, reported>>

(* What pop_oldest leaves in the map when it takes s.  (Mutant: it removes *)
(* the queue of the timestamp, not only its first sample.)                 *)
WithoutQueue(s) == {t \in pending : t.time # s.time}
Without(s)      == pending \ {s}

(* pop_oldest, and the sample goes to ready.                               *)
PopOldest(s, cause) ==
    /\ IsOldest(s)
    /\ pending' = Without(s)
    /\ pendingLen' = pendingLen - 1
    /\ emitted' = Append(emitted,
            [time |-> s.time, number |-> s.number, skew |-> s.skew, cause |-> cause])

(* (Mutant: no sample waits for a late one.)                               *)
NoWindow  == maxSeen
Watermark == Minus(maxSeen, Reorder)
IsReady(s) == s.time <= Watermark

(* drain_before, an iteration                                              *)
EmitReady ==
    /\ phase = "push"
    /\ \E s \in pending : IsReady(s) /\ PopOldest(s, "ready")
    /\ UNCHANGED <<maxSeen, peak, forced, phase, arrived, reported>>

(* (Mutant: a full buffer counts as too full.)                             *)
Full            == pendingLen >= MaxPending
OverLimit       == pendingLen > MaxPending
NoneReady == \A s \in pending : ~IsReady(s)

(* The second loop of push, an iteration: too many samples wait.           *)
ForceOldest ==
    /\ phase = "push"
    /\ NoneReady
    /\ OverLimit
    /\ \E s \in pending : PopOldest(s, "forced")
    /\ forced' = forced + 1
    /\ UNCHANGED <<maxSeen, peak, phase, arrived, reported>>

Pushed ==
    /\ phase = "push"
    /\ NoneReady
    /\ ~OverLimit
    /\ phase' = "idle"
    /\ UNCHANGED <<pending, pendingLen, maxSeen, peak, forced, emitted, arrived, reported>>

(* flush, at the end of a window and when a process is retired             *)
Flush ==
    /\ phase = "idle"
    /\ pending # {}
    /\ phase' = "flush"
    /\ UNCHANGED <<pending, pendingLen, maxSeen, peak, forced, emitted, arrived, reported>>

FlushOldest ==
    /\ phase = "flush"
    /\ \E s \in pending : PopOldest(s, "flushed")
    /\ UNCHANGED <<maxSeen, peak, forced, phase, arrived, reported>>

Flushed ==
    /\ phase = "flush"
    /\ pending = {}
    /\ phase' = "idle"
    /\ UNCHANGED <<pending, pendingLen, maxSeen, peak, forced, emitted, arrived, reported>>

(* take_stats, called for a window's diagnostics after its flush           *)
TakeStats ==
    /\ phase = "idle"
    /\ pending = {}
    /\ peak' = 0
    /\ forced' = 0
    /\ reported' = reported + forced
    /\ UNCHANGED <<pending, pendingLen, maxSeen, phase, emitted, arrived>>

Next ==
    \/ Push \/ EmitReady \/ ForceOldest \/ Pushed
    \/ Flush \/ FlushOldest \/ Flushed \/ TakeStats

Spec == Init /\ [][Next]_vars

-----------------------------------------------------------------------------
Emitted == [time : 0..MaxTime, number : 1..MaxArrivals, skew : 0..MaxTime, cause : Causes]

(* Every variable holds a value of its kind.                               *)
TypeOK ==
    /\ pending \subseteq Samples
    /\ pendingLen \in Nat
    /\ maxSeen \in 0..MaxTime
    /\ peak \in Nat /\ forced \in Nat /\ reported \in Nat
    /\ phase \in {"idle", "push", "flush"}
    /\ emitted \in Seq(Emitted)
    /\ arrived \in 0..MaxArrivals

(* pending_len is the number of samples that wait; it passes the limit by  *)
(* one while a sample is pushed and never otherwise, so that the reported  *)
(* peak is at most MaxPending + 1.                                         *)
Bounded ==
    /\ IsFiniteSet(pending)
    /\ pendingLen = Cardinality(pending)
    /\ pendingLen <= MaxPending + 1
    /\ phase # "push" => pendingLen <= MaxPending
    /\ peak <= MaxPending + 1

(* The reorder window: a sample that arrives at most Reorder late leaves   *)
(* in the order of timestamps, and of arrival among equal timestamps,      *)
(* unless one that should follow it was forced out or flushed before.      *)
InOrder ==
    \A i, j \in 1..Len(emitted) :
        i < j => \/ Before(emitted[i], emitted[j])
                 \/ emitted[j].skew > Reorder
                 \/ emitted[i].cause # "ready"

(* No sample is lost or emitted twice: every sample that arrived waits or  *)
(* was emitted, and not both; forced flushes are counted one by one.       *)
Conserved ==
    LET left  == {s.number : s \in pending}
        gone  == {emitted[i].number : i \in 1..Len(emitted)}
    IN  /\ left \cup gone = 1..arrived
        /\ left \cap gone = {}
        /\ Cardinality(gone) = Len(emitted)
        /\ forced + reported = Cardinality({i \in 1..Len(emitted) : emitted[i].cause = "forced"})
=============================================================================
