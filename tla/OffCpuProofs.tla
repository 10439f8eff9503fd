----------------------------- MODULE OffCpuProofs -----------------------------
(***************************************************************************)
(* Theorems about OffCpu, for every number of threads, every capacity of   *)
(* the ring and of the queue, every limit of samples and every run of the  *)
(* scheduler.                                                              *)
(*                                                                         *)
(* The collector folds a queue of events of any length; what a fold does   *)
(* is a path of collectors, one event apart (Folded), so that what one     *)
(* event keeps (Applied) the fold keeps (Drains).  The invariant is Sound; *)
(* for the time of the threads Told comes on top of it.                    *)
(***************************************************************************)
EXTENDS OffCpu, FoldTheorems

Intervals  == {i \in [stack : Stacks, started : 0..now] : i.stack # NoStack}
Windows    == {w \in [outs : Nat, completed : Nat, incomplete : Nat, omitted : Nat,
                   keys : SUBSET (Tids \X Stacks), events : Nat] :
                IsFiniteSet(w.keys) /\ Cardinality(w.keys) <= MaxStacks}
Collectors == [pending : [Tids -> Intervals \cup {NoInterval}], window : Windows, attributed : [Tids -> Nat]]
Events     == {e \in EventSet : e.at <= now}
OpenIn(c)  == {t \in Tids : c.pending[t] # NoInterval}

(* What aggregate() makes of the collector, field by field.                *)
Shaped(w) == w = [outs |-> w.outs, completed |-> w.completed, incomplete |-> w.incomplete,
                  omitted |-> w.omitted, keys |-> w.keys, events |-> w.events]

(* Updates of one field, and of two.                                       *)
LEMMA Updates ==
    ASSUME NEW w, Shaped(w), NEW x, NEW y
    PROVE  /\ [w EXCEPT !.outs = x] = [outs |-> x, completed |-> w.completed, incomplete |-> w.incomplete,
                                       omitted |-> w.omitted, keys |-> w.keys, events |-> w.events]
           /\ [w EXCEPT !.completed = x] = [outs |-> w.outs, completed |-> x, incomplete |-> w.incomplete,
                                            omitted |-> w.omitted, keys |-> w.keys, events |-> w.events]
           /\ [w EXCEPT !.incomplete = x] = [outs |-> w.outs, completed |-> w.completed, incomplete |-> x,
                                             omitted |-> w.omitted, keys |-> w.keys, events |-> w.events]
           /\ [w EXCEPT !.omitted = x] = [outs |-> w.outs, completed |-> w.completed, incomplete |-> w.incomplete,
                                          omitted |-> x, keys |-> w.keys, events |-> w.events]
           /\ [w EXCEPT !.keys = x] = [outs |-> w.outs, completed |-> w.completed, incomplete |-> w.incomplete,
                                       omitted |-> w.omitted, keys |-> x, events |-> w.events]
           /\ [w EXCEPT !.keys = x, !.events = y] = [outs |-> w.outs, completed |-> w.completed, incomplete |-> w.incomplete,
                                                     omitted |-> w.omitted, keys |-> x, events |-> y]
           /\ [w EXCEPT !.outs = x, !.incomplete = y] = [outs |-> x, completed |-> w.completed, incomplete |-> y,
                                                         omitted |-> w.omitted, keys |-> w.keys, events |-> w.events]
<1>1. /\ [w EXCEPT !.outs = x] = [outs |-> x, completed |-> w.completed, incomplete |-> w.incomplete,
                                  omitted |-> w.omitted, keys |-> w.keys, events |-> w.events]
      /\ [w EXCEPT !.completed = x] = [outs |-> w.outs, completed |-> x, incomplete |-> w.incomplete,
                                       omitted |-> w.omitted, keys |-> w.keys, events |-> w.events]
      /\ [w EXCEPT !.incomplete = x] = [outs |-> w.outs, completed |-> w.completed, incomplete |-> x,
                                        omitted |-> w.omitted, keys |-> w.keys, events |-> w.events]
      /\ [w EXCEPT !.omitted = x] = [outs |-> w.outs, completed |-> w.completed, incomplete |-> w.incomplete,
                                     omitted |-> x, keys |-> w.keys, events |-> w.events]
      /\ [w EXCEPT !.keys = x] = [outs |-> w.outs, completed |-> w.completed, incomplete |-> w.incomplete,
                                  omitted |-> w.omitted, keys |-> x, events |-> w.events]
  BY DEF Shaped
<1> DEFINE u == [w EXCEPT !.keys = x]
    v == [w EXCEPT !.outs = x]
<1>2. [u EXCEPT !.events = y] = [outs |-> w.outs, completed |-> w.completed, incomplete |-> w.incomplete,
                                 omitted |-> w.omitted, keys |-> x, events |-> y]
  <2>1. u = [outs |-> w.outs, completed |-> w.completed, incomplete |-> w.incomplete,
             omitted |-> w.omitted, keys |-> x, events |-> w.events]
    BY <1>1
  <2> HIDE DEF u
  <2> QED
    BY <2>1
<1>3. [v EXCEPT !.incomplete = y] = [outs |-> x, completed |-> w.completed, incomplete |-> y,
                                     omitted |-> w.omitted, keys |-> w.keys, events |-> w.events]
  <2>1. v = [outs |-> x, completed |-> w.completed, incomplete |-> w.incomplete,
             omitted |-> w.omitted, keys |-> w.keys, events |-> w.events]
    BY <1>1
  <2> HIDE DEF v
  <2> QED
    BY <2>1
<1> QED
  BY <1>1, <1>2, <1>3

(* A window that counts a sample, or omits it.                             *)
LEMMA SampledIs ==
    ASSUME NEW w, Shaped(w), NEW key, NEW completed
    PROVE  Sampled(w, key, completed) =
             [outs       |-> w.outs,
              completed  |-> w.completed,
              incomplete |-> w.incomplete,
              omitted    |-> IF Admitted(w, key) THEN w.omitted ELSE w.omitted + 1,
              keys       |-> IF Admitted(w, key) THEN w.keys \cup {key} ELSE w.keys,
              events     |-> IF Admitted(w, key) THEN IF completed THEN w.events + 1 ELSE w.events
                             ELSE w.events]
<1> DEFINE k == w.keys \cup {key}
    n == IF completed THEN w.events + 1 ELSE w.events
    u == [w EXCEPT !.keys = k, !.events = n]
<1>1. CASE Admitted(w, key)
  <2>1. Sampled(w, key, completed) = u
    BY <1>1 DEF Sampled
  <2>2. u = [outs |-> w.outs, completed |-> w.completed, incomplete |-> w.incomplete,
             omitted |-> w.omitted, keys |-> k, events |-> n]
    <3> HIDE DEF k, n
    <3> DEFINE v == [w EXCEPT !.keys = k]
    <3>1. v = [outs |-> w.outs, completed |-> w.completed, incomplete |-> w.incomplete,
               omitted |-> w.omitted, keys |-> k, events |-> w.events]
      BY DEF Shaped
    <3>2. u = [v EXCEPT !.events = n]
      OBVIOUS
    <3> HIDE DEF v, u
    <3> QED
      BY <3>1, <3>2
  <2> HIDE DEF u
  <2> QED
    BY <1>1, <2>1, <2>2
<1>2. CASE ~Admitted(w, key)
  BY <1>2, Updates DEF Sampled, Omitted
<1> QED
  BY <1>1, <1>2

LEMMA OpenedIs ==
    ASSUME NEW c \in Collectors, NEW e
    PROVE  Opened(c, e) =
             [pending    |-> IF e.stack = NoStack THEN c.pending
                             ELSE [c.pending EXCEPT ![e.tid] = [stack |-> e.stack, started |-> e.at]],
              window     |-> [outs       |-> c.window.outs + 1,
                              completed  |-> c.window.completed,
                              incomplete |-> IF e.stack = NoStack \/ Replaced(c, e)
                                             THEN c.window.incomplete + 1 ELSE c.window.incomplete,
                              omitted    |-> c.window.omitted,
                              keys       |-> c.window.keys,
                              events     |-> c.window.events],
              attributed |-> c.attributed]
<1> DEFINE w == c.window
<1>1. c = [pending |-> c.pending, window |-> w, attributed |-> c.attributed] /\ Shaped(w)
  BY DEF Collectors, Windows, Shaped
<1> DEFINE v == [w EXCEPT !.outs = w.outs + 1]
    d == [c EXCEPT !.window.outs = @ + 1]
<1>2. v = [outs |-> w.outs + 1, completed |-> w.completed, incomplete |-> w.incomplete,
           omitted |-> w.omitted, keys |-> w.keys, events |-> w.events]
  BY <1>1, Updates
<1>3. d = [pending |-> c.pending, window |-> v, attributed |-> c.attributed]
  BY <1>1
<1>4. CASE e.stack = NoStack
  <2>1. Opened(c, e) = [d EXCEPT !.window.incomplete = @ + 1]
    BY <1>4 DEF Opened
  <2> HIDE DEF d
  <2>2. [d EXCEPT !.window.incomplete = @ + 1]
          = [pending |-> c.pending, window |-> [v EXCEPT !.incomplete = @ + 1], attributed |-> c.attributed]
    <3> HIDE DEF v
    <3> QED
      BY <1>3
  <2>3. [v EXCEPT !.incomplete = @ + 1]
          = [outs |-> w.outs + 1, completed |-> w.completed, incomplete |-> w.incomplete + 1,
             omitted |-> w.omitted, keys |-> w.keys, events |-> w.events]
    <3> HIDE DEF v
    <3> QED
      BY <1>2
  <2> QED
    BY <1>4, <2>1, <2>2, <2>3
<1>5. CASE e.stack # NoStack
  <2> DEFINE i == [stack |-> e.stack, started |-> e.at]
      b == [d EXCEPT !.window.incomplete = IF Replaced(c, e) THEN @ + 1 ELSE @]
  <2>1. Opened(c, e) = [b EXCEPT !.pending[e.tid] = i]
    BY <1>5 DEF Opened
  <2>2. b = [pending |-> c.pending,
             window |-> [v EXCEPT !.incomplete = IF Replaced(c, e) THEN @ + 1 ELSE @],
             attributed |-> c.attributed]
    <3> HIDE DEF d, v
    <3> QED
      BY <1>3
  <2>3. [v EXCEPT !.incomplete = IF Replaced(c, e) THEN @ + 1 ELSE @]
          = [outs |-> w.outs + 1, completed |-> w.completed,
             incomplete |-> IF Replaced(c, e) THEN w.incomplete + 1 ELSE w.incomplete,
             omitted |-> w.omitted, keys |-> w.keys, events |-> w.events]
    <3> HIDE DEF v
    <3> QED
      BY <1>2
  <2> HIDE DEF b, i
  <2>4. [b EXCEPT !.pending[e.tid] = i]
          = [pending |-> [c.pending EXCEPT ![e.tid] = i], window |-> b.window, attributed |-> b.attributed]
    BY <2>2
  <2> QED
    BY <1>5, <2>1, <2>2, <2>3, <2>4 DEF i
<1> QED
  BY <1>4, <1>5

LEMMA CompletedIs ==
    ASSUME NEW c \in Collectors, NEW e
    PROVE  Completed(c, e) =
             IF c.pending[e.tid] = NoInterval THEN c
             ELSE [pending    |-> [c.pending EXCEPT ![e.tid] = NoInterval],
                   window     |-> Sampled([outs       |-> c.window.outs,
                                           completed  |-> c.window.completed + 1,
                                           incomplete |-> c.window.incomplete,
                                           omitted    |-> c.window.omitted,
                                           keys       |-> c.window.keys,
                                           events     |-> c.window.events],
                                          <<e.tid, c.pending[e.tid].stack>>, TRUE),
                   attributed |-> [c.attributed EXCEPT ![e.tid] = @ + Minus(e.at, c.pending[e.tid].started)]]
<1> DEFINE w == c.window
    p == Closed(c, e)
<1>1. c = [pending |-> c.pending, window |-> w, attributed |-> c.attributed] /\ Shaped(w)
  BY DEF Collectors, Windows, Shaped
<1> DEFINE b == [c EXCEPT !.pending = p]
    d == [b EXCEPT !.window.completed = @ + 1]
<1>2. [w EXCEPT !.completed = @ + 1]
        = [outs |-> w.outs, completed |-> w.completed + 1, incomplete |-> w.incomplete,
           omitted |-> w.omitted, keys |-> w.keys, events |-> w.events]
  BY <1>1, Updates
<1>3. b = [pending |-> p, window |-> w, attributed |-> c.attributed]
  <2> HIDE DEF p
  <2> QED
    BY <1>1
<1>4. d = [pending |-> p, window |-> [w EXCEPT !.completed = @ + 1], attributed |-> c.attributed]
  <2> HIDE DEF b, p
  <2> QED
    BY <1>3
<1>5. c.pending[e.tid] # NoInterval =>
        Completed(c, e) = Aggregated(d, e.tid, c.pending[e.tid].stack, Minus(e.at, c.pending[e.tid].started), TRUE)
  BY DEF Completed
<1> HIDE DEF d
<1> QED
  BY <1>2, <1>4, <1>5 DEF Completed, Aggregated, Closed

-----------------------------------------------------------------------------
(* What one event does to the collector.                                   *)

(* A collector as one thread sees it, and what an event does to that.      *)
View(c, t) == [open |-> c.pending[t], given |-> c.attributed[t]]
Seen(v, e, t) ==
    IF e.tid # t THEN v
    ELSE IF e.kind = "out"
    THEN IF e.stack = NoStack THEN v
         ELSE [open |-> [stack |-> e.stack, started |-> e.at], given |-> v.given]
    ELSE IF v.open = NoInterval THEN v
         ELSE [open |-> NoInterval, given |-> v.given + Minus(e.at, v.open.started)]

(* From c to d, what arrives is accounted for.                             *)
Conserves(c, d) ==
    d.window.outs + c.window.completed + c.window.incomplete + Cardinality(OpenIn(c))
        = c.window.outs + d.window.completed + d.window.incomplete + Cardinality(OpenIn(d))
Reports(c, d) ==
    /\ d.window.events + c.window.completed <= c.window.events + d.window.completed
    /\ d.window.completed + c.window.events + c.window.omitted
           <= c.window.completed + d.window.events + d.window.omitted

LEMMA CollectorFields ==
    ASSUME NEW c \in Collectors
    PROVE  /\ c = [pending |-> c.pending, window |-> c.window, attributed |-> c.attributed]
           /\ c.pending \in [Tids -> Intervals \cup {NoInterval}]
           /\ c.attributed \in [Tids -> Nat]
           /\ Shaped(c.window) /\ c.window \in Windows
           /\ c.window.outs \in Nat /\ c.window.completed \in Nat /\ c.window.incomplete \in Nat
           /\ c.window.omitted \in Nat /\ c.window.events \in Nat
           /\ c.window.keys \in SUBSET (Tids \X Stacks) /\ IsFiniteSet(c.window.keys)
           /\ Cardinality(c.window.keys) \in Nat /\ Cardinality(c.window.keys) <= MaxStacks
           /\ IsFiniteSet(OpenIn(c)) /\ Cardinality(OpenIn(c)) \in Nat
<1>1. IsFiniteSet(OpenIn(c)) /\ Cardinality(OpenIn(c)) \in Nat
  BY OffCpuAssumption, FS_Subset, FS_CardinalityType DEF OpenIn
<1>2. c.window \in Windows
  BY DEF Collectors
<1>3. Shaped(c.window)
  BY <1>2 DEF Windows, Shaped
<1> QED
  BY <1>1, <1>2, <1>3, FS_CardinalityType DEF Collectors, Windows

LEMMA IntervalFacts ==
    ASSUME now \in Nat, NEW i \in Intervals \cup {NoInterval}
    PROVE  /\ i # NoInterval => /\ i \in Intervals /\ i.stack \in Stacks /\ i.stack # NoStack
                                /\ i.started \in Nat /\ i.started <= now
           /\ NoInterval \notin Intervals
  BY DEF Intervals, NoInterval

LEMMA SampledFits ==
    ASSUME NEW w \in Windows, NEW key \in Tids \X Stacks, NEW completed \in BOOLEAN
    PROVE  Sampled(w, key, completed) \in Windows
<1> DEFINE v == Sampled(w, key, completed)
<1>0. /\ w.outs \in Nat /\ w.completed \in Nat /\ w.incomplete \in Nat /\ w.omitted \in Nat /\ w.events \in Nat
      /\ w.keys \in SUBSET (Tids \X Stacks) /\ IsFiniteSet(w.keys) /\ Cardinality(w.keys) <= MaxStacks
      /\ Cardinality(w.keys) \in Nat /\ MaxStacks \in Nat /\ Shaped(w)
  BY FS_CardinalityType, OffCpuAssumption DEF Windows, Shaped
<1>1. v = [outs       |-> w.outs,
           completed  |-> w.completed,
           incomplete |-> w.incomplete,
           omitted    |-> IF Admitted(w, key) THEN w.omitted ELSE w.omitted + 1,
           keys       |-> IF Admitted(w, key) THEN w.keys \cup {key} ELSE w.keys,
           events     |-> IF Admitted(w, key) THEN IF completed THEN w.events + 1 ELSE w.events
                          ELSE w.events]
  BY <1>0, SampledIs
<1> HIDE DEF v
<1>2. IsFiniteSet(v.keys) /\ Cardinality(v.keys) <= MaxStacks /\ v.keys \in SUBSET (Tids \X Stacks)
  <2>1. CASE key \in w.keys
    <3>1. w.keys \cup {key} = w.keys
      BY <2>1
    <3>2. v.keys = w.keys
      BY <1>1, <3>1
    <3> QED
      BY <1>0, <3>2
  <2>2. CASE key \notin w.keys /\ Cardinality(w.keys) < MaxStacks
    <3>1. IsFiniteSet(w.keys \cup {key}) /\ Cardinality(w.keys \cup {key}) = Cardinality(w.keys) + 1
      BY <1>0, <2>2, FS_AddElement
    <3>2. v.keys = w.keys \cup {key}
      BY <1>1, <2>2 DEF Admitted
    <3> QED
      BY <1>0, <2>2, <3>1, <3>2
  <2>3. CASE key \notin w.keys /\ ~(Cardinality(w.keys) < MaxStacks)
    <3>1. v.keys = w.keys
      BY <1>1, <2>3 DEF Admitted
    <3> QED
      BY <1>0, <3>1
  <2> QED
    BY <2>1, <2>2, <2>3
<1>3. /\ v = [outs |-> v.outs, completed |-> v.completed, incomplete |-> v.incomplete,
              omitted |-> v.omitted, keys |-> v.keys, events |-> v.events]
      /\ v.outs \in Nat /\ v.completed \in Nat /\ v.incomplete \in Nat /\ v.omitted \in Nat /\ v.events \in Nat
  BY <1>0, <1>1
<1>4. v \in [outs : Nat, completed : Nat, incomplete : Nat, omitted : Nat,
             keys : SUBSET (Tids \X Stacks), events : Nat]
  BY <1>2, <1>3
<1>5. v \in Windows
  BY <1>2, <1>4 DEF Windows
<1> QED
  BY <1>5 DEF v

LEMMA Applied ==
    ASSUME now \in Nat, NEW c \in Collectors, NEW e \in Events
    PROVE  /\ Apply(c, e) \in Collectors
           /\ \A t \in Tids : View(Apply(c, e), t) = Seen(View(c, t), e, t)
           /\ OpenIn(Apply(c, e)) \subseteq OpenIn(c) \cup {t \in Tids : t = e.tid /\ e.kind = "out"}
           /\ Conserves(c, Apply(c, e))
           /\ Reports(c, Apply(c, e))
<1> DEFINE w == c.window
    d == Apply(c, e)
<1>0. /\ e.kind \in {"out", "in"} /\ e.tid \in Tids /\ e.stack \in Stacks \cup {NoStack}
      /\ e.at \in Nat /\ e.at <= now /\ e.at \in 0..now
  BY OffCpuAssumption DEF Events, EventSet
<1>1. c.pending[e.tid] \in Intervals \cup {NoInterval} /\ c.attributed[e.tid] \in Nat
  BY <1>0, CollectorFields
<1>2. CASE e.kind = "out"
  <2> DEFINE i == [stack |-> e.stack, started |-> e.at]
      p == IF e.stack = NoStack THEN c.pending ELSE [c.pending EXCEPT ![e.tid] = i]
      u == [outs       |-> w.outs + 1,
            completed  |-> w.completed,
            incomplete |-> IF e.stack = NoStack \/ Replaced(c, e) THEN w.incomplete + 1 ELSE w.incomplete,
            omitted    |-> w.omitted,
            keys       |-> w.keys,
            events     |-> w.events]
  <2>1. d = [pending |-> p, window |-> u, attributed |-> c.attributed]
    BY <1>2, OpenedIs DEF Apply
  <2>2. p \in [Tids -> Intervals \cup {NoInterval}]
    <3>1. CASE e.stack = NoStack
      BY <3>1, CollectorFields
    <3>2. CASE e.stack # NoStack
      <4>1. i \in Intervals
        BY <1>0, <3>2 DEF Intervals
      <4> HIDE DEF i
      <4> QED
        BY <1>0, <3>2, <4>1, CollectorFields
    <3> QED
      BY <3>1, <3>2
  <2>3. u \in Windows
    BY CollectorFields DEF Windows
  <2>4. /\ d.pending = p /\ d.attributed = c.attributed
        /\ d.window.outs = w.outs + 1 /\ d.window.completed = w.completed
        /\ d.window.incomplete = (IF e.stack = NoStack \/ Replaced(c, e) THEN w.incomplete + 1 ELSE w.incomplete)
        /\ d.window.omitted = w.omitted /\ d.window.events = w.events
    <3> HIDE DEF p, d
    <3> QED
      BY <2>1
  <2>5. d \in Collectors
    <3> HIDE DEF p, u, d
    <3> QED
      BY <2>1, <2>2, <2>3, CollectorFields DEF Collectors
  <2> HIDE DEF d
  <2>6. ASSUME NEW t \in Tids
        PROVE  View(d, t) = Seen(View(c, t), e, t)
    <3>1. p[t] = IF e.stack # NoStack /\ e.tid = t THEN i ELSE c.pending[t]
      BY <1>0, CollectorFields
    <3> HIDE DEF p
    <3> QED
      BY <1>2, <2>4, <3>1 DEF View, Seen
  <2>7. /\ OpenIn(d) = OpenIn(c) \cup (IF e.stack = NoStack THEN {} ELSE {e.tid})
        /\ Replaced(c, e) <=> e.tid \in OpenIn(c)
    <3>1. \A t \in Tids : p[t] = IF e.stack # NoStack /\ e.tid = t THEN i ELSE c.pending[t]
      BY <1>0, CollectorFields
    <3>2. e.stack # NoStack => i # NoInterval
      BY DEF NoInterval
    <3> HIDE DEF p, i
    <3> QED
      BY <1>0, <2>4, <3>1, <3>2 DEF OpenIn, Replaced
  <2>8. Cardinality(OpenIn(d)) = IF e.stack = NoStack \/ Replaced(c, e) THEN Cardinality(OpenIn(c))
                                 ELSE Cardinality(OpenIn(c)) + 1
    <3>1. CASE e.stack = NoStack \/ Replaced(c, e)
      <4>1. OpenIn(d) = OpenIn(c)
        BY <2>7, <3>1
      <4> QED
        BY <3>1, <4>1
    <3>2. CASE ~(e.stack = NoStack \/ Replaced(c, e))
      <4>1. OpenIn(d) = OpenIn(c) \cup {e.tid} /\ e.tid \notin OpenIn(c)
        BY <2>7, <3>2
      <4>2. Cardinality(OpenIn(c) \cup {e.tid}) = Cardinality(OpenIn(c)) + 1
        BY <4>1, CollectorFields, FS_AddElement
      <4> QED
        BY <3>2, <4>1, <4>2
    <3> QED
      BY <3>1, <3>2
  <2>9. Conserves(c, d)
    <3>1. CASE e.stack = NoStack \/ Replaced(c, e)
      BY <2>4, <2>8, <3>1, CollectorFields DEF Conserves
    <3>2. CASE ~(e.stack = NoStack \/ Replaced(c, e))
      BY <2>4, <2>8, <3>2, CollectorFields DEF Conserves
    <3> QED
      BY <3>1, <3>2
  <2>10. Reports(c, d)
    BY <2>4, CollectorFields DEF Reports
  <2> QED
    BY <1>0, <1>2, <2>5, <2>6, <2>7, <2>9, <2>10 DEF d
<1>3. CASE e.kind # "out" /\ c.pending[e.tid] = NoInterval
  <2>1. d = c
    BY <1>3, CompletedIs DEF Apply
  <2>2. \A t \in Tids : View(d, t) = Seen(View(c, t), e, t)
    BY <1>3, <2>1 DEF View, Seen
  <2>3. Conserves(c, d) /\ Reports(c, d)
    BY <2>1, CollectorFields DEF Conserves, Reports
  <2> HIDE DEF d
  <2> QED
    BY <2>1, <2>2, <2>3 DEF d
<1>4. CASE e.kind # "out" /\ c.pending[e.tid] # NoInterval
  <2> DEFINE p == [c.pending EXCEPT ![e.tid] = NoInterval]
      x == Minus(e.at, c.pending[e.tid].started)
      a == [c.attributed EXCEPT ![e.tid] = @ + x]
      u == [outs       |-> w.outs,
            completed  |-> w.completed + 1,
            incomplete |-> w.incomplete,
            omitted    |-> w.omitted,
            keys       |-> w.keys,
            events     |-> w.events]
      key == <<e.tid, c.pending[e.tid].stack>>
      v == Sampled(u, key, TRUE)
  <2>1. d = [pending |-> p, window |-> v, attributed |-> a]
    BY <1>4, CompletedIs DEF Apply
  <2>2. p \in [Tids -> Intervals \cup {NoInterval}]
    BY <1>0, CollectorFields
  <2>3. x \in Nat
    BY <1>0, <1>1, <1>4, IntervalFacts DEF Minus
  <2>4. a \in [Tids -> Nat]
    <3> HIDE DEF x
    <3> QED
      BY <1>0, <2>3, CollectorFields
  <2>5. u \in Windows /\ Shaped(u)
    <3>1. u \in Windows
      BY CollectorFields DEF Windows
    <3>2. Shaped(u)
      BY DEF Shaped
    <3> QED
      BY <3>1, <3>2
  <2>6. key \in Tids \X Stacks
    BY <1>0, <1>1, <1>4, IntervalFacts
  <2>7. v = [outs       |-> u.outs,
             completed  |-> u.completed,
             incomplete |-> u.incomplete,
             omitted    |-> IF Admitted(u, key) THEN u.omitted ELSE u.omitted + 1,
             keys       |-> IF Admitted(u, key) THEN u.keys \cup {key} ELSE u.keys,
             events     |-> IF Admitted(u, key) THEN IF TRUE THEN u.events + 1 ELSE u.events ELSE u.events]
    <3> HIDE DEF u, key
    <3> QED
      BY <2>5, SampledIs
  <2>8. v \in Windows
    <3> HIDE DEF u, key
    <3> QED
      BY <2>5, <2>6, SampledFits
  <2>9. d \in Collectors
    <3> HIDE DEF p, v, a, d
    <3> QED
      BY <2>1, <2>2, <2>4, <2>8 DEF Collectors
  <2>10. /\ d.pending = p /\ d.attributed = a /\ d.window = v
    <3> HIDE DEF p, v, a, d
    <3> QED
      BY <2>1
  <2>11. /\ v.outs = w.outs /\ v.completed = w.completed + 1 /\ v.incomplete = w.incomplete
         /\ \/ v.omitted = w.omitted /\ v.events = w.events + 1
            \/ v.omitted = w.omitted + 1 /\ v.events = w.events
    <3> HIDE DEF key, v
    <3> QED
      BY <2>7
  <2> HIDE DEF d, v, u, key
  <2>12. ASSUME NEW t \in Tids
        PROVE  View(d, t) = Seen(View(c, t), e, t)
    <3>1. /\ p[t] = IF e.tid = t THEN NoInterval ELSE c.pending[t]
          /\ a[t] = IF e.tid = t THEN c.attributed[t] + x ELSE c.attributed[t]
      <4> HIDE DEF x
      <4> QED
        BY <1>0, CollectorFields
    <3> HIDE DEF p, a
    <3>2. CASE e.tid = t
      BY <1>4, <2>10, <3>1, <3>2 DEF View, Seen
    <3>3. CASE e.tid # t
      BY <1>4, <2>10, <3>1, <3>3 DEF View, Seen
    <3> QED
      BY <3>2, <3>3
  <2>13. OpenIn(d) = OpenIn(c) \ {e.tid} /\ e.tid \in OpenIn(c)
    <3>1. \A t \in Tids : p[t] = IF e.tid = t THEN NoInterval ELSE c.pending[t]
      BY <1>0, CollectorFields
    <3> HIDE DEF p, a
    <3> QED
      BY <1>0, <1>4, <2>10, <3>1 DEF OpenIn
  <2>14. Cardinality(OpenIn(c)) = Cardinality(OpenIn(d)) + 1
    <3>1. IsFiniteSet(OpenIn(c)) /\ Cardinality(OpenIn(c)) \in Nat
      BY CollectorFields
    <3>2. Cardinality(OpenIn(c) \ {e.tid}) = Cardinality(OpenIn(c)) - 1
      BY <2>13, <3>1, FS_RemoveElement
    <3> QED
      BY <2>13, <3>1, <3>2
  <2>15. Conserves(c, d) /\ Reports(c, d)
    <3>1. Cardinality(OpenIn(d)) \in Nat
      BY <2>9, CollectorFields
    <3> HIDE DEF p, a
    <3> QED
      BY <2>10, <2>11, <2>14, <3>1, CollectorFields DEF Conserves, Reports
  <2> QED
    BY <2>9, <2>12, <2>13, <2>15 DEF d
<1> QED
  BY <1>2, <1>3, <1>4

-----------------------------------------------------------------------------
(* What a queue of events does to the collector.                           *)

(* The collectors that FoldLeft goes through.                              *)
LEMMA Folded ==
    ASSUME now \in Nat, NEW c \in Collectors, NEW q \in Seq(Events)
    PROVE  \E p \in [0..Len(q) -> Collectors] :
              /\ p[0] = c /\ p[Len(q)] = FoldLeft(Apply, c, q)
              /\ \A k \in 1..Len(q) : p[k] = Apply(p[k - 1], q[k])
<1> DEFINE n == Len(q)
    F(g) == [s \in SUBSET (DOMAIN q) |-> IF s = {} THEN c ELSE Apply(g[s \ {Max(s)}], q[Max(s)])]
    iter == CHOOSE g : g = F(g)
    step == [ce \in Collectors \X Events |-> Apply(ce[1], ce[2])]
<1>1. n \in Nat /\ DOMAIN q = 1..n /\ q \in [1..n -> Events]
  OBVIOUS
<1>2. FoldLeft(Apply, c, q) = iter[DOMAIN q]
  BY DEF FoldLeft, MapThenFoldSet
<1>3. step \in [Collectors \X Events -> Collectors]
  <2>1. \A ce \in Collectors \X Events : Apply(ce[1], ce[2]) \in Collectors
    BY Applied
  <2> QED
    BY <2>1
<1>4. PICK f \in [SUBSET (1..n) -> Collectors] :
         f = [s \in SUBSET (1..n) |-> IF s = {} THEN c ELSE step[<<f[s \ {Max(s)}], q[Max(s)]>>]]
  <2> DEFINE C == Collectors
      E == Events
  <2>1. c \in C /\ n \in Nat /\ q \in [1..n -> E] /\ step \in [C \X E -> C]
    BY <1>1, <1>3
  <2> HIDE DEF step, n, C, E
  <2>2. \E f \in [SUBSET (1..n) -> C] : Iterates(f, step, c, n, q)
    BY <2>1, IndexRecursion
  <2> QED
    BY <2>2 DEF C, Iterates
<1>5. f = F(f)
  <2>1. ASSUME NEW s \in SUBSET (1..n), s # {}
        PROVE  step[<<f[s \ {Max(s)}], q[Max(s)]>>] = Apply(f[s \ {Max(s)}], q[Max(s)])
    <3>1. Max(s) \in s
      BY <1>1, <2>1, MaxIs
    <3>2. s \ {Max(s)} \in SUBSET (1..n) /\ Max(s) \in 1..n
      BY <3>1
    <3>3. f[s \ {Max(s)}] \in Collectors /\ q[Max(s)] \in Events
      BY <1>1, <3>2
    <3>4. <<f[s \ {Max(s)}], q[Max(s)]>> \in Collectors \X Events
      BY <3>3
    <3> QED
      BY <3>4
  <2>2. \A s \in SUBSET (1..n) : f[s] = IF s = {} THEN c ELSE Apply(f[s \ {Max(s)}], q[Max(s)])
    <3> HIDE DEF step
    <3> QED
      BY <1>4, <2>1
  <2>3. f = [s \in SUBSET (1..n) |-> f[s]]
    OBVIOUS
  <2>4. f = [s \in SUBSET (1..n) |-> IF s = {} THEN c ELSE Apply(f[s \ {Max(s)}], q[Max(s)])]
    BY <2>2, <2>3
  <2> QED
    BY <1>1, <2>4
<1> HIDE DEF F
<1>6. iter = F(iter)
  BY <1>5
<1> HIDE DEF iter
<1>7. iter = [s \in SUBSET (1..n) |-> IF s = {} THEN c ELSE Apply(iter[s \ {Max(s)}], q[Max(s)])]
  BY <1>1, <1>6 DEF F
<1> DEFINE p == [k \in 0..n |-> iter[1..k]]
<1>8. /\ p[0] = c /\ \A k \in 1..n : p[k] = Apply(p[k - 1], q[k])
      /\ p[n] = iter[1..n]
  <2>1. 1..0 = {} /\ 1..0 \in SUBSET (1..n) /\ 0 \in 0..n /\ n \in 0..n
    OBVIOUS
  <2>2. p[0] = c
    BY <1>7, <2>1
  <2>3. ASSUME NEW k \in 1..n
        PROVE  p[k] = Apply(p[k - 1], q[k])
    <3>1. k \in Nat /\ k >= 1 /\ k \in 0..n /\ k - 1 \in 0..n
      OBVIOUS
    <3>3. 1..k \in SUBSET (1..n) /\ 1..k # {} /\ (1..k) \ {k} = 1..(k - 1) /\ Max(1..k) = k
      <4> HIDE DEF n
      <4> QED
        BY <1>1, Initials
    <3>4. iter[1..k] = Apply(iter[(1..k) \ {k}], q[k])
      BY <1>7, <3>3
    <3> QED
      BY <3>1, <3>3, <3>4
  <2>4. p[n] = iter[1..n]
    BY <2>1
  <2> QED
    BY <2>2, <2>3, <2>4
<1>9. p \in [0..n -> Collectors]
  <2> DEFINE T == {k \in 0..n : p[k] \in Collectors}
  <2>1. 0 \in T
    BY <1>8
  <2>2. ASSUME NEW k \in 0..n, k \in T, k < n
        PROVE  k + 1 \in T
    <3>1. k + 1 \in 1..n /\ (k + 1) - 1 = k /\ q[k + 1] \in Events
      BY <1>1, <2>2
    <3>2. p[k + 1] = Apply(p[k], q[k + 1]) /\ p[k] \in Collectors
      BY <1>8, <2>2, <3>1
    <3> HIDE DEF p
    <3> QED
      BY <3>1, <3>2, Applied
  <2>3. \A k \in 0..n : k \in T
    <3> HIDE DEF T
    <3> QED
      BY <1>1, <2>1, <2>2, BoundedInduction
  <2>4. p = [k \in 0..n |-> p[k]]
    OBVIOUS
  <2> HIDE DEF p
  <2> QED
    BY <2>3, <2>4
<1> HIDE DEF p
<1> QED
  BY <1>1, <1>2, <1>8, <1>9

-----------------------------------------------------------------------------
(* What the end of a window does to the collector.                         *)

Elapsed(t)    == Minus(now, pending[t].started)
Charged(d, t) == Aggregated(d, t, pending[t].stack, Elapsed(t), FALSE)

(* The same window, but for the samples and what is omitted from them.     *)
SameCounts(c, d) ==
    /\ d.pending = c.pending
    /\ d.window.outs = c.window.outs /\ d.window.completed = c.window.completed
    /\ d.window.incomplete = c.window.incomplete /\ d.window.events = c.window.events
    /\ c.window.omitted <= d.window.omitted

LEMMA OneCharged ==
    ASSUME now \in Nat, NEW c \in Collectors, NEW t \in Tids, pending[t] \in Intervals
    PROVE  /\ Charged(c, t) \in Collectors /\ SameCounts(c, Charged(c, t))
           /\ Elapsed(t) \in Nat
           /\ \A u \in Tids : Charged(c, t).attributed[u]
                 = IF u = t THEN c.attributed[u] + Elapsed(t) ELSE c.attributed[u]
<1> DEFINE d == Charged(c, t)
    key == <<t, pending[t].stack>>
    x == Elapsed(t)
    a == [c.attributed EXCEPT ![t] = @ + x]
    v == Sampled(c.window, key, FALSE)
<1>1. d = [pending |-> c.pending, window |-> v, attributed |-> a]
  BY DEF Charged, Aggregated
<1>2. key \in Tids \X Stacks /\ x \in Nat
  BY IntervalFacts DEF Minus, Elapsed
<1>3. v \in Windows
  <2> HIDE DEF key
  <2> QED
    BY <1>2, CollectorFields, SampledFits
<1>4. v = [outs       |-> c.window.outs,
           completed  |-> c.window.completed,
           incomplete |-> c.window.incomplete,
           omitted    |-> IF Admitted(c.window, key) THEN c.window.omitted ELSE c.window.omitted + 1,
           keys       |-> IF Admitted(c.window, key) THEN c.window.keys \cup {key} ELSE c.window.keys,
           events     |-> IF Admitted(c.window, key) THEN IF FALSE THEN c.window.events + 1 ELSE c.window.events
                          ELSE c.window.events]
  <2> HIDE DEF key
  <2> QED
    BY CollectorFields, SampledIs
<1> HIDE DEF v, key, x
<1>5. v.outs = c.window.outs /\ v.completed = c.window.completed /\ v.incomplete = c.window.incomplete
      /\ v.events = c.window.events /\ c.window.omitted <= v.omitted
  BY <1>4, CollectorFields
<1>6. a \in [Tids -> Nat] /\ \A u \in Tids : a[u] = IF u = t THEN c.attributed[u] + x ELSE c.attributed[u]
  BY <1>2, CollectorFields
<1> HIDE DEF a, d
<1>7. d \in Collectors
  BY <1>1, <1>3, <1>6, CollectorFields DEF Collectors
<1>8. SameCounts(c, d)
  BY <1>1, <1>5 DEF SameCounts
<1> QED
  BY <1>1, <1>2, <1>6, <1>7, <1>8 DEF d, x

(* Every open interval is charged once.                                    *)
LEMMA AllCharged ==
    ASSUME now \in Nat, NEW c \in Collectors, NEW open \in SUBSET Tids,
           \A t \in open : pending[t] \in Intervals
    PROVE  /\ SplitInto(c, open) \in Collectors /\ SameCounts(c, SplitInto(c, open))
           /\ \A t \in Tids : SplitInto(c, open).attributed[t]
                 = IF t \in open THEN c.attributed[t] + Elapsed(t) ELSE c.attributed[t]
<1> DEFINE q == SetToSeq(open)
    n == Cardinality(open)
    F(g) == [s \in SUBSET (DOMAIN q) |-> IF s = {} THEN c ELSE Charged(g[s \ {Max(s)}], q[Max(s)])]
    iter == CHOOSE g : g = F(g)
    step == [ce \in Collectors \X open |-> Charged(ce[1], ce[2])]
<1>1. /\ n \in Nat /\ DOMAIN q = 1..n /\ q \in [1..n -> open]
      /\ \A i, j \in 1..n : q[i] = q[j] => i = j
      /\ \A t \in open : \E i \in 1..n : q[i] = t
  <2>1. IsFiniteSet(open)
    BY OffCpuAssumption, FS_Subset
  <2> QED
    BY <2>1, ListedOnce
<1> HIDE DEF q, n
<1>2. SplitInto(c, open) = iter[DOMAIN q]
  BY DEF SplitInto, FoldLeft, MapThenFoldSet, Charged, Elapsed, q
<1>3. step \in [Collectors \X open -> Collectors]
  <2>1. \A ce \in Collectors \X open : Charged(ce[1], ce[2]) \in Collectors
    BY OneCharged
  <2> QED
    BY <2>1
<1>4. PICK f \in [SUBSET (1..n) -> Collectors] :
         f = [s \in SUBSET (1..n) |-> IF s = {} THEN c ELSE step[<<f[s \ {Max(s)}], q[Max(s)]>>]]
  <2> DEFINE C == Collectors
  <2>1. c \in C /\ step \in [C \X open -> C]
    BY <1>1, <1>3
  <2> HIDE DEF step, C
  <2>2. \E f \in [SUBSET (1..n) -> C] : Iterates(f, step, c, n, q)
    BY <1>1, <2>1, IndexRecursion
  <2> QED
    BY <2>2 DEF C, Iterates
<1>5. f = F(f)
  <2>1. ASSUME NEW s \in SUBSET (1..n), s # {}
        PROVE  step[<<f[s \ {Max(s)}], q[Max(s)]>>] = Charged(f[s \ {Max(s)}], q[Max(s)])
    <3>1. Max(s) \in s
      BY <1>1, <2>1, MaxIs
    <3>2. s \ {Max(s)} \in SUBSET (1..n) /\ Max(s) \in 1..n
      BY <3>1
    <3>3. f[s \ {Max(s)}] \in Collectors /\ q[Max(s)] \in open
      BY <1>1, <3>2
    <3>4. <<f[s \ {Max(s)}], q[Max(s)]>> \in Collectors \X open
      BY <3>3
    <3> QED
      BY <3>4
  <2>2. \A s \in SUBSET (1..n) : f[s] = IF s = {} THEN c ELSE Charged(f[s \ {Max(s)}], q[Max(s)])
    <3> HIDE DEF step
    <3> QED
      BY <1>4, <2>1
  <2>3. f = [s \in SUBSET (1..n) |-> f[s]]
    OBVIOUS
  <2>4. f = [s \in SUBSET (1..n) |-> IF s = {} THEN c ELSE Charged(f[s \ {Max(s)}], q[Max(s)])]
    BY <2>2, <2>3
  <2> QED
    BY <1>1, <2>4
<1> HIDE DEF F
<1>6. iter = F(iter)
  BY <1>5
<1> HIDE DEF iter
<1>7. iter = [s \in SUBSET (1..n) |-> IF s = {} THEN c ELSE Charged(iter[s \ {Max(s)}], q[Max(s)])]
  BY <1>1, <1>6 DEF F
<1> DEFINE p == [k \in 0..n |-> iter[1..k]]
<1>8. /\ p[0] = c /\ \A k \in 1..n : p[k] = Charged(p[k - 1], q[k])
      /\ p[n] = iter[1..n]
  <2>1. 1..0 = {} /\ 1..0 \in SUBSET (1..n) /\ 0 \in 0..n /\ n \in 0..n
    BY <1>1
  <2>2. p[0] = c
    BY <1>7, <2>1
  <2>3. ASSUME NEW k \in 1..n
        PROVE  p[k] = Charged(p[k - 1], q[k])
    <3>1. k \in Nat /\ k >= 1 /\ k \in 0..n /\ k - 1 \in 0..n
      BY <1>1
    <3>2. 1..k \in SUBSET (1..n) /\ 1..k # {} /\ (1..k) \ {k} = 1..(k - 1) /\ Max(1..k) = k
      BY <1>1, Initials
    <3>3. iter[1..k] = Charged(iter[(1..k) \ {k}], q[k])
      BY <1>7, <3>2
    <3> QED
      BY <3>1, <3>2, <3>3
  <2>4. p[n] = iter[1..n]
    BY <2>1
  <2> QED
    BY <2>2, <2>3, <2>4
<1> DEFINE Sofar(k) == {t \in open : \E i \in 1..k : q[i] = t}
    Good(k) == /\ p[k] \in Collectors /\ SameCounts(c, p[k])
               /\ \A t \in Tids : p[k].attributed[t]
                     = IF t \in Sofar(k) THEN c.attributed[t] + Elapsed(t) ELSE c.attributed[t]
    T == {k \in 0..n : Good(k)}
<1> HIDE DEF p
<1>9. 0 \in T
  <2>1. SameCounts(c, c)
    BY CollectorFields DEF SameCounts
  <2>2. Sofar(0) = {}
    OBVIOUS
  <2> HIDE DEF Sofar
  <2> QED
    BY <1>1, <1>8, <2>1, <2>2
<1>10. ASSUME NEW k \in 0..n, k \in T, k < n
       PROVE  k + 1 \in T
  <2> DEFINE t == q[k + 1]
  <2>1. k + 1 \in 1..n /\ (k + 1) - 1 = k /\ k + 1 \in 0..n /\ k \in Nat /\ 1..k \subseteq 1..n /\ k + 1 \notin 1..k
    BY <1>1, <1>10
  <2>2. t \in open /\ t \in Tids /\ pending[t] \in Intervals
    BY <1>1, <2>1
  <2>3. p[k + 1] = Charged(p[k], t) /\ p[k] \in Collectors
    BY <1>8, <1>10, <2>1
  <2>4. /\ Charged(p[k], t) \in Collectors /\ SameCounts(p[k], Charged(p[k], t)) /\ Elapsed(t) \in Nat
        /\ \A u \in Tids : Charged(p[k], t).attributed[u]
                 = IF u = t THEN p[k].attributed[u] + Elapsed(t) ELSE p[k].attributed[u]
    <3> HIDE DEF t
    <3> QED
      BY <2>2, <2>3, OneCharged
  <2>5. SameCounts(c, p[k + 1])
    <3>1. SameCounts(c, p[k]) /\ SameCounts(p[k], p[k + 1]) /\ p[k + 1] \in Collectors
      BY <1>10, <2>3, <2>4
    <3>2. c.window.omitted \in Nat /\ p[k].window.omitted \in Nat /\ p[k + 1].window.omitted \in Nat
      BY <2>3, <3>1, CollectorFields
    <3> QED
      BY <3>1, <3>2 DEF SameCounts
  <2>6. Sofar(k + 1) = Sofar(k) \cup {t} /\ t \notin Sofar(k)
    <3>1. t \notin Sofar(k)
      BY <1>1, <2>1
    <3>2. \A i : i \in 1..(k + 1) <=> i \in 1..k \/ i = k + 1
      BY <2>1
    <3> QED
      BY <2>2, <3>1, <3>2
  <2>7. \A u \in Tids : p[k].attributed[u]
             = IF u \in Sofar(k) THEN c.attributed[u] + Elapsed(u) ELSE c.attributed[u]
    BY <1>10
  <2>8. \A u \in Tids : p[k + 1].attributed[u]
             = IF u \in Sofar(k + 1) THEN c.attributed[u] + Elapsed(u) ELSE c.attributed[u]
    <3> HIDE DEF t, Sofar
    <3> QED
      BY <2>3, <2>4, <2>6, <2>7
  <2> HIDE DEF Sofar
  <2> QED
    BY <2>1, <2>3, <2>4, <2>5, <2>8
<1>11. n \in T
  <2> HIDE DEF T
  <2> QED
    BY <1>1, <1>9, <1>10, BoundedInduction
<1>12. Sofar(n) = open
  BY <1>1
<1> HIDE DEF Sofar
<1> QED
  BY <1>1, <1>2, <1>8, <1>11, <1>12

-----------------------------------------------------------------------------
(* The inductive invariant: types, with times that have come; and a        *)
(* switch-out in the ring is of a thread that is tracked, or a stray.      *)

Counter  == [drops : Nat, failures : Nat]
Totals   == [outs : Nat, completed : Nat, incomplete : Nat, omitted : Nat, events : Nat, drops : Nat, windows : Nat]
Clocked  == now \in Nat /\ now <= MaxTime /\ drainedAt \in Nat /\ drainedAt <= now
Threaded ==
    /\ thread \in [Tids -> {"running", "blocked", "exiting", "dead"}]
    /\ member \subseteq Tids /\ tracked \subseteq Tids
    /\ strays \subseteq uprooted /\ uprooted \subseteq Tids
    /\ moves \in Nat /\ moves <= MaxMoves
    /\ pc \in {"attach", "loop", "split"}
Ringed   == ring \in Seq(Events) /\ Len(ring) <= RingCap
Numbered ==
    /\ stats \in Counter /\ previous \in Counter /\ queueDrops \in Nat
    /\ previous.drops <= stats.drops /\ previous.failures <= stats.failures
    /\ emitted \in Nat /\ emitted <= MaxEvents /\ applied \in Nat
    /\ reported \in Totals
Held     == State \in Collectors
Sleeping ==
    /\ asleep \in [Tids -> 0..Awake] /\ \A t \in Tids : asleep[t] = Awake \/ asleep[t] <= now
    /\ slept \in [Tids -> Nat] /\ slack \in [Tids -> Nat]
Sourced  == \A i \in 1..Len(ring) : ring[i].kind = "out" => ring[i].tid \in tracked \cup strays
Typed    == Clocked /\ Threaded /\ Ringed /\ Numbered /\ Held /\ Sleeping
Sound    == Typed /\ Sourced /\ IntervalsConserved /\ LossesReported /\ NoGhosts

LEMMA Bounds ==
    /\ IsFiniteSet(Tids) /\ RingCap \in Nat /\ QueueCap \in Nat /\ MaxStacks \in Nat /\ MaxTime \in Nat
    /\ MaxEvents \in Nat /\ MaxMoves \in Nat /\ MaxWindows \in Nat
  BY OffCpuAssumption

(* The clock goes on, and what was of an earlier time still is.            *)
LEMMA Later ==
    ASSUME now \in Nat, now' \in Nat, now <= now'
    PROVE  /\ \A c : c \in Collectors => c \in Collectors'
           /\ \A e : e \in Events => e \in Events'
<1>1. \A i : i \in Intervals => i \in Intervals'
  BY DEF Intervals
<1>2. \A p : p \in [Tids -> Intervals \cup {NoInterval}] => p \in [Tids -> Intervals' \cup {NoInterval}]
  BY <1>1
<1>3. Windows' = Windows
  BY DEF Windows
<1>4. \A c : c \in Collectors => c \in Collectors'
  <2> HIDE DEF Intervals, Windows
  <2> QED
    BY <1>2, <1>3 DEF Collectors
<1>5. \A e : e \in Events => e \in Events'
  BY DEF Events, EventSet
<1> QED
  BY <1>4, <1>5

LEMMA Meanwhile ==
    ASSUME now' = now
    PROVE  Collectors' = Collectors /\ Events' = Events /\ Intervals' = Intervals
  BY DEF Collectors, Events, EventSet, Intervals, Windows

LEMMA NewWindowFits == NewWindow \in Windows
<1>1. /\ NewWindow = [outs |-> 0, completed |-> 0, incomplete |-> 0, omitted |-> 0, keys |-> {}, events |-> 0]
      /\ {} \in SUBSET (Tids \X Stacks)
  BY DEF NewWindow
<1>2. NewWindow \in [outs : Nat, completed : Nat, incomplete : Nat, omitted : Nat,
                    keys : SUBSET (Tids \X Stacks), events : Nat]
  BY <1>1
<1>3. NewWindow.keys = {} /\ IsFiniteSet({}) /\ Cardinality({}) <= MaxStacks
  BY Bounds, FS_EmptySet DEF NewWindow
<1> QED
  BY <1>2, <1>3 DEF Windows

LEMMA Initially == Init => Sound
<1> SUFFICES ASSUME Init PROVE Sound
  OBVIOUS
<1>1. Clocked /\ Threaded /\ Ringed /\ Sourced
  BY Bounds DEF Init, Clocked, Threaded, Ringed, Sourced
<1>2. Numbered
  BY Bounds DEF Init, Numbered, Counter, Totals, Nothing
<1>3. Sleeping
  BY Bounds DEF Init, Sleeping, Awake
<1>4. OpenIn(State) = {} /\ Open = {} /\ Cardinality({}) = 0 /\ IsFiniteSet({})
  BY FS_EmptySet DEF Init, State, OpenIn, Open
<1>5. Held
  <2>1. window \in Windows
    BY NewWindowFits DEF Init
  <2> QED
    BY <2>1 DEF Init, Held, State, Collectors
<1>6. IntervalsConserved /\ LossesReported /\ NoGhosts
  BY <1>4 DEF Init, IntervalsConserved, LossesReported, NoGhosts, Nothing, NewWindow, WindowDrops
<1> QED
  BY <1>1, <1>2, <1>3, <1>5, <1>6 DEF Sound, Typed

(* An event that is submitted is the last of the ring, or dropped.         *)
LEMMA Submits ==
    ASSUME Sound, NEW e \in Events, Submitted(e), now' = now, e.tid \in tracked,
           tracked' = tracked, strays' = strays
    PROVE  /\ Ringed' /\ Sourced' /\ emitted' = emitted + 1 /\ emitted' \in Nat /\ emitted' <= MaxEvents
           /\ Len(ring) \in Nat /\ Len(ring') \in Nat
           /\ IF Len(ring) < RingCap THEN ring' = Append(ring, e) /\ Len(ring') = Len(ring) + 1
              ELSE ring' = ring
<1>1. ring \in Seq(Events) /\ Len(ring) \in Nat /\ Len(ring) <= RingCap
  BY DEF Sound, Typed, Ringed
<1>2. emitted' = emitted + 1 /\ emitted' \in Nat /\ emitted' <= MaxEvents
  BY Bounds DEF Submitted, Sound, Typed, Numbered
<1>3. CASE Len(ring) < RingCap
  <2>1. ring' = Append(ring, e)
    BY <1>3 DEF Submitted
  <2>2. ring' \in Seq(Events) /\ Len(ring') = Len(ring) + 1 /\ Len(ring') <= RingCap
    BY <1>1, <1>3, <2>1, Bounds
  <2>3. \A i \in 1..Len(ring') : ring'[i] = IF i = Len(ring) + 1 THEN e ELSE ring[i]
    BY <1>1, <2>1
  <2>4. Sourced'
    BY <1>1, <2>2, <2>3 DEF Sound, Sourced
  <2> QED
    BY <1>1, <1>2, <1>3, <2>1, <2>2, <2>4, Meanwhile DEF Ringed
<1>4. CASE ~(Len(ring) < RingCap)
  <2>1. ring' = ring
    BY <1>4 DEF Submitted
  <2> QED
    BY <1>1, <1>2, <1>4, <2>1, Meanwhile DEF Ringed, Sound, Sourced
<1> QED
  BY <1>3, <1>4

LEMMA TickSound == Sound /\ Tick => Sound'
<1> SUFFICES ASSUME Sound, Tick PROVE Sound'
  OBVIOUS
<1>1. /\ now' = now + 1 /\ now < MaxTime
      /\ UNCHANGED <<thread, member, moves, asleep, slept, tracked, previous, queueDrops, pending, window, pc>>
      /\ UNCHANGED <<emitted, applied, reported, attributed, slack, drainedAt, uprooted, strays, ring, stats>>
  BY DEF Tick, collectorVars, historyVars
<1>2. Clocked' /\ now \in Nat /\ now' \in Nat /\ now <= now'
  BY <1>1, Bounds DEF Sound, Typed, Clocked
<1>3. Threaded' /\ Numbered'
  BY <1>1 DEF Sound, Typed, Threaded, Numbered
<1>4. Sleeping'
  BY <1>1, <1>2 DEF Sound, Typed, Sleeping, Clocked
<1>5. Ringed'
  <2>1. \A e \in Events : e \in Events'
    BY <1>2, Later
  <2>2. ring \in Seq(Events')
    <3> DEFINE E == Events
        D == Events'
    <3>1. ring \in Seq(E) /\ \A e \in E : e \in D
      BY <2>1 DEF Sound, Typed, Ringed
    <3> HIDE DEF E, D
    <3>2. ring \in Seq(D)
      BY <3>1
    <3> QED
      BY <3>2 DEF D
  <2> QED
    BY <1>1, <2>2 DEF Sound, Typed, Ringed
<1>6. Held'
  BY <1>1, <1>2, Later DEF Sound, Typed, Held, State
<1>7. Sourced' /\ IntervalsConserved' /\ LossesReported' /\ NoGhosts'
  BY <1>1 DEF Sound, Sourced, IntervalsConserved, LossesReported, NoGhosts, Open, WindowDrops
<1> QED
  BY <1>2, <1>3, <1>4, <1>5, <1>6, <1>7 DEF Sound, Typed

LEMMA ThreadSound == ASSUME Sound, NEW t \in Tids, Start(t) \/ Move(t) \/ Exit(t) PROVE Sound'
<1>1. /\ UNCHANGED <<now, asleep, slept, tracked, previous, queueDrops, pending, window, pc>>
      /\ UNCHANGED <<emitted, applied, reported, attributed, slack, drainedAt, uprooted, strays, ring, stats>>
  BY DEF Start, Move, Exit, collectorVars, historyVars
<1>2. Threaded'
  <2>1. Threaded /\ UNCHANGED <<tracked, strays, uprooted, pc>>
    BY <1>1 DEF Sound, Typed
  <2>2. moves' \in Nat /\ moves' <= MaxMoves
    BY <2>1, Bounds DEF Threaded, Start, Move, Exit
  <2>3. member' \subseteq Tids
    BY <2>1 DEF Threaded, Start, Move, Exit
  <2>4. thread' \in [Tids -> {"running", "blocked", "exiting", "dead"}]
    BY <2>1 DEF Threaded, Start, Move, Exit
  <2> QED
    BY <2>1, <2>2, <2>3, <2>4 DEF Threaded
<1>3. Clocked' /\ Numbered' /\ Sleeping'
  BY <1>1 DEF Sound, Typed, Clocked, Numbered, Sleeping
<1>4. Ringed' /\ Held'
  BY <1>1, Meanwhile DEF Sound, Typed, Ringed, Held, State
<1>5. Sourced' /\ IntervalsConserved' /\ LossesReported' /\ NoGhosts'
  BY <1>1 DEF Sound, Sourced, IntervalsConserved, LossesReported, NoGhosts, Open, WindowDrops
<1> QED
  BY <1>2, <1>3, <1>4, <1>5 DEF Sound, Typed

(* A thread that leaves the CPU, or gets it.                               *)
LEMMA OutEvent ==
    ASSUME Sound, NEW t \in Tids, NEW stack \in Stacks \cup {NoStack}
    PROVE  SwitchOutEvent(t, stack) \in Events /\ SwitchInEvent(t) \in Events
  BY Bounds DEF Sound, Typed, Clocked, SwitchOutEvent, SwitchInEvent, Events, EventSet

(* An event more, in the ring or among the drops.                          *)
LEMMA LedgerAdds ==
    ASSUME NEW a \in Nat, NEW l \in Nat, NEW r \in Nat, NEW d \in Nat, NEW p \in Nat, NEW q \in Nat
    PROVE  /\ (a + l + r + ((d - p) + q)) + 1 = a + (l + 1) + r + ((d - p) + q)
           /\ (a + l + r + ((d - p) + q)) + 1 = a + l + r + (((d + 1) - p) + q)
  OBVIOUS

LEMMA OneMoreReported ==
    ASSUME Sound, UNCHANGED <<applied, reported, previous, queueDrops, window>>,
           emitted' = emitted + 1, Len(ring) \in Nat,
           \/ Len(ring') = Len(ring) + 1 /\ stats'.drops = stats.drops
           \/ Len(ring') = Len(ring) /\ stats'.drops = stats.drops + 1
    PROVE  LossesReported'
<1> DEFINE l == Len(ring)
           l2 == Len(ring')
           d == stats.drops
           d2 == stats'.drops
           p == previous.drops
           r == reported.drops
<1>1. /\ emitted = applied + l + r + ((d - p) + queueDrops)
      /\ applied \in Nat /\ d \in Nat /\ p \in Nat /\ queueDrops \in Nat /\ r \in Nat /\ l \in Nat
  BY DEF Sound, LossesReported, WindowDrops, Typed, Numbered, Counter, Totals
<1>2. (l2 = l + 1 /\ d2 = d) \/ (l2 = l /\ d2 = d + 1)
  OBVIOUS
<1>3. emitted' = applied + l2 + r + ((d2 - p) + queueDrops) => LossesReported'
  BY DEF Sound, LossesReported, WindowDrops
<1> HIDE DEF l, l2, d, d2, p, r
<1>4. /\ emitted' = applied + (l + 1) + r + ((d - p) + queueDrops)
      /\ emitted' = applied + l + r + (((d + 1) - p) + queueDrops)
  BY <1>1, LedgerAdds
<1> QED
  BY <1>2, <1>3, <1>4

LEMMA SwitchOutSound == ASSUME Sound, NEW t \in Tids, SwitchOut(t) PROVE Sound'
<1>1. /\ UNCHANGED <<now, member, moves, slept, tracked, previous, queueDrops, pending, window, pc>>
      /\ UNCHANGED <<applied, reported, attributed, slack, drainedAt, uprooted, strays>>
  BY DEF SwitchOut, collectorVars
<1>2. thread' = [thread EXCEPT ![t] = IF @ = "running" THEN "blocked" ELSE "dead"]
  BY DEF SwitchOut
<1>3. Threaded'
  BY <1>1, <1>2 DEF Sound, Typed, Threaded
<1>4. Clocked' /\ Held'
  BY <1>1, Meanwhile DEF Sound, Typed, Clocked, Held, State
<1>5. IntervalsConserved' /\ NoGhosts'
  BY <1>1 DEF Sound, IntervalsConserved, NoGhosts, Open
<1>6. CASE t \in tracked
  <2>1. PICK stack \in (IF thread[t] = "running" THEN Stacks ELSE {}) \cup {NoStack}, failed \in BOOLEAN :
              /\ failed => stack = NoStack /\ Len(ring) < RingCap
              /\ Submitted(SwitchOutEvent(t, stack))
              /\ stats' = [drops |-> IF Len(ring) < RingCap THEN stats.drops ELSE Counted,
                           failures |-> IF failed THEN stats.failures + 1 ELSE stats.failures]
              /\ asleep' = [asleep EXCEPT ![t] = IF stack = NoStack THEN Awake ELSE now]
    BY <1>6 DEF SwitchOut
  <2>2. stack \in Stacks \cup {NoStack}
    OBVIOUS
  <2> DEFINE e == SwitchOutEvent(t, stack)
  <2>3. e \in Events /\ e.tid = t
    BY <2>2, OutEvent DEF SwitchOutEvent
  <2> HIDE DEF e
  <2>4. /\ Ringed' /\ Sourced' /\ emitted' = emitted + 1 /\ emitted' \in Nat /\ emitted' <= MaxEvents
        /\ Len(ring) \in Nat /\ Len(ring') \in Nat
        /\ IF Len(ring) < RingCap THEN ring' = Append(ring, e) /\ Len(ring') = Len(ring) + 1
           ELSE ring' = ring
    BY <1>1, <1>6, <2>1, <2>3, Submits DEF e
  <2>5. /\ stats' \in Counter /\ stats'.drops = (IF Len(ring) < RingCap THEN stats.drops ELSE stats.drops + 1)
        /\ stats'.failures >= stats.failures
    BY <2>1 DEF Sound, Typed, Numbered, Counter, Counted
  <2>6. Numbered'
    BY <1>1, <2>4, <2>5 DEF Sound, Typed, Numbered, Counter
  <2>7. Sleeping'
    BY <1>1, <2>1, Bounds DEF Sound, Typed, Sleeping, Clocked, Awake
  <2>8. LossesReported'
    <3>1. \/ Len(ring') = Len(ring) + 1 /\ stats'.drops = stats.drops
          \/ Len(ring') = Len(ring) /\ stats'.drops = stats.drops + 1
      BY <2>4, <2>5
    <3> QED
      BY <1>1, <2>4, <3>1, OneMoreReported
  <2> QED
    BY <1>3, <1>4, <1>5, <2>4, <2>6, <2>7, <2>8 DEF Sound, Typed
<1>7. CASE t \notin tracked
  <2>1. UNCHANGED <<emitted, ring, stats, asleep>>
    BY <1>7 DEF SwitchOut
  <2>2. Ringed' /\ Sourced'
    BY <1>1, <2>1, Meanwhile DEF Sound, Typed, Ringed, Sourced
  <2>3. Numbered' /\ Sleeping' /\ LossesReported'
    BY <1>1, <2>1 DEF Sound, Typed, Numbered, Sleeping, LossesReported, WindowDrops
  <2> QED
    BY <1>3, <1>4, <1>5, <2>2, <2>3 DEF Sound, Typed
<1> QED
  BY <1>6, <1>7

LEMMA SwitchInSound == ASSUME Sound, NEW t \in Tids, SwitchIn(t) PROVE Sound'
<1>1. /\ UNCHANGED <<now, member, moves, tracked, previous, queueDrops, pending, window, pc>>
      /\ UNCHANGED <<applied, reported, attributed, slack, drainedAt, uprooted, strays>>
  BY DEF SwitchIn, collectorVars
<1>2. /\ thread' = [thread EXCEPT ![t] = "running"]
      /\ slept' = [slept EXCEPT ![t] = IF asleep[t] = Awake THEN @ ELSE @ + (now - asleep[t])]
      /\ asleep' = [asleep EXCEPT ![t] = Awake]
  BY DEF SwitchIn
<1>3. Threaded'
  BY <1>1, <1>2 DEF Sound, Typed, Threaded
<1>4. Clocked' /\ Held'
  BY <1>1, Meanwhile DEF Sound, Typed, Clocked, Held, State
<1>5. IntervalsConserved' /\ NoGhosts'
  BY <1>1 DEF Sound, IntervalsConserved, NoGhosts, Open
<1>6. Sleeping'
  <2>1. /\ asleep \in [Tids -> 0..Awake] /\ \A u \in Tids : asleep[u] = Awake \/ asleep[u] <= now
        /\ slept \in [Tids -> Nat] /\ slack \in [Tids -> Nat] /\ now \in Nat /\ Awake \in Nat
    BY Bounds DEF Sound, Typed, Sleeping, Clocked, Awake
  <2>2. (IF asleep[t] = Awake THEN slept[t] ELSE slept[t] + (now - asleep[t])) \in Nat
    BY <2>1
  <2>3. slept' \in [Tids -> Nat]
    BY <1>2, <2>1, <2>2
  <2>4. asleep' \in [Tids -> 0..Awake] /\ \A u \in Tids : asleep'[u] = Awake \/ asleep'[u] <= now
    BY <1>2, <2>1
  <2> QED
    BY <1>1, <2>1, <2>3, <2>4 DEF Sleeping, Awake
<1>7. CASE t \in tracked
  <2> DEFINE e == SwitchInEvent(t)
  <2>1. Submitted(e) /\ stats' = [stats EXCEPT !.drops = IF Len(ring) < RingCap THEN @ ELSE Counted]
    BY <1>7 DEF SwitchIn
  <2>2. NoStack \in Stacks \cup {NoStack}
    OBVIOUS
  <2>3. e \in Events /\ e.tid = t
    BY <2>2, OutEvent DEF SwitchInEvent
  <2> HIDE DEF e
  <2>4. /\ Ringed' /\ Sourced' /\ emitted' = emitted + 1 /\ emitted' \in Nat /\ emitted' <= MaxEvents
        /\ Len(ring) \in Nat /\ Len(ring') \in Nat
        /\ IF Len(ring) < RingCap THEN ring' = Append(ring, e) /\ Len(ring') = Len(ring) + 1
           ELSE ring' = ring
    BY <1>1, <1>7, <2>1, <2>3, Submits
  <2>5. /\ stats' \in Counter /\ stats'.drops = (IF Len(ring) < RingCap THEN stats.drops ELSE stats.drops + 1)
        /\ stats'.failures = stats.failures
    BY <2>1 DEF Sound, Typed, Numbered, Counter, Counted
  <2>6. Numbered'
    BY <1>1, <2>4, <2>5 DEF Sound, Typed, Numbered, Counter
  <2>8. LossesReported'
    <3>1. \/ Len(ring') = Len(ring) + 1 /\ stats'.drops = stats.drops
          \/ Len(ring') = Len(ring) /\ stats'.drops = stats.drops + 1
      BY <2>4, <2>5
    <3> QED
      BY <1>1, <2>4, <3>1, OneMoreReported
  <2> QED
    BY <1>3, <1>4, <1>5, <1>6, <2>4, <2>6, <2>8 DEF Sound, Typed
<1>8. CASE t \notin tracked
  <2>1. UNCHANGED <<emitted, ring, stats>>
    BY <1>8 DEF SwitchIn
  <2>2. Ringed' /\ Sourced'
    BY <1>1, <2>1, Meanwhile DEF Sound, Typed, Ringed, Sourced
  <2>3. Numbered' /\ LossesReported'
    BY <1>1, <2>1 DEF Sound, Typed, Numbered, LossesReported, WindowDrops
  <2> QED
    BY <1>3, <1>4, <1>5, <1>6, <2>2, <2>3 DEF Sound, Typed
<1> QED
  BY <1>7, <1>8

(* The queue that drain() applies.                                         *)
Queue == SubSeq(ring, 1, IF Len(ring) < QueueCap THEN Len(ring) ELSE QueueCap)

LEMMA QueueIs ==
    ASSUME Sound
    PROVE  /\ Queue \in Seq(Events) /\ Len(Queue) \in Nat /\ Len(ring) \in Nat /\ Len(Queue) <= Len(ring)
           /\ Len(Queue) = (IF Len(ring) < QueueCap THEN Len(ring) ELSE QueueCap)
           /\ \A i \in 1..Len(Queue) : Queue[i] = ring[i] /\ i \in 1..Len(ring)
           /\ Len(Queue) = Len(ring) => Queue = ring
<1> DEFINE n == IF Len(ring) < QueueCap THEN Len(ring) ELSE QueueCap
<1>1. ring \in Seq(Events) /\ Len(ring) \in Nat /\ n \in Nat /\ n <= Len(ring)
  BY Bounds DEF Sound, Typed, Ringed
<1>2. Queue = SubSeq(ring, 1, n)
  BY DEF Queue
<1> HIDE DEF n
<1>3. Queue = [i \in 1..n |-> ring[i]] /\ Len(Queue) = n /\ Queue \in Seq(Events)
  BY <1>1, <1>2
<1>4. \A i \in 1..n : i \in 1..Len(ring)
  BY <1>1
<1>5. ring = [i \in 1..Len(ring) |-> ring[i]]
  BY <1>1
<1>6. Len(Queue) = Len(ring) => Queue = ring
  BY <1>1, <1>3, <1>5
<1> QED
  BY <1>1, <1>3, <1>4, <1>6 DEF n

LEMMA ConservesTrans ==
    ASSUME now \in Nat, NEW b \in Collectors, NEW c \in Collectors, NEW d \in Collectors,
           Conserves(b, c), Reports(b, c), Conserves(c, d), Reports(c, d)
    PROVE  Conserves(b, d) /\ Reports(b, d)
<1>1. /\ b.window.outs \in Nat /\ b.window.completed \in Nat /\ b.window.incomplete \in Nat
      /\ b.window.omitted \in Nat /\ b.window.events \in Nat /\ Cardinality(OpenIn(b)) \in Nat
  BY CollectorFields
<1>2. /\ c.window.outs \in Nat /\ c.window.completed \in Nat /\ c.window.incomplete \in Nat
      /\ c.window.omitted \in Nat /\ c.window.events \in Nat /\ Cardinality(OpenIn(c)) \in Nat
  BY CollectorFields
<1>3. /\ d.window.outs \in Nat /\ d.window.completed \in Nat /\ d.window.incomplete \in Nat
      /\ d.window.omitted \in Nat /\ d.window.events \in Nat /\ Cardinality(OpenIn(d)) \in Nat
  BY CollectorFields
<1> QED
  BY <1>1, <1>2, <1>3 DEF Conserves, Reports

LEMMA Drains ==
    ASSUME Sound, Drained
    PROVE  /\ State' \in Collectors /\ Conserves(State, State') /\ Reports(State, State')
           /\ OpenIn(State') \subseteq OpenIn(State) \cup tracked \cup strays
           /\ State' = FoldLeft(Apply, State, Queue)
           /\ applied' \in Nat /\ queueDrops' \in Nat
           /\ applied' + queueDrops' = applied + queueDrops + Len(ring)
           /\ queueDrops' = queueDrops + (Len(ring) - Len(Queue))
           /\ ring' = <<>> /\ drainedAt' = now
<1> DEFINE c == FoldLeft(Apply, State, Queue)
    n == Len(Queue)
<1>1. /\ pending' = c.pending /\ window' = c.window /\ attributed' = c.attributed
      /\ applied' = applied + Len(Queue) /\ queueDrops' = queueDrops + (Len(ring) - Len(Queue))
      /\ ring' = <<>> /\ drainedAt' = now
  BY DEF Drained, Queue
<1>2. /\ applied' \in Nat /\ queueDrops' \in Nat
      /\ applied' + queueDrops' = applied + queueDrops + Len(ring)
  <2>1. applied \in Nat /\ queueDrops \in Nat
    BY DEF Sound, Typed, Numbered
  <2> QED
    BY <1>1, <2>1, QueueIs
<1>3. State \in Collectors /\ now \in Nat /\ Queue \in Seq(Events) /\ n \in Nat
  BY QueueIs DEF Sound, Typed, Held, Clocked
<1>4. PICK p \in [0..n -> Collectors] :
         /\ p[0] = State /\ p[n] = FoldLeft(Apply, State, Queue)
         /\ \A k \in 1..n : p[k] = Apply(p[k - 1], Queue[k])
  BY <1>3, Folded
<1> DEFINE Good(k) == /\ Conserves(State, p[k]) /\ Reports(State, p[k])
                     /\ OpenIn(p[k]) \subseteq OpenIn(State) \cup tracked \cup strays
    T == {k \in 0..n : Good(k)}
<1>5. 0 \in T
  <2>1. Conserves(State, State) /\ Reports(State, State)
    BY <1>3, CollectorFields DEF Conserves, Reports
  <2> QED
    BY <1>3, <1>4, <2>1
<1>6. ASSUME NEW k \in 0..n, k \in T, k < n
      PROVE  k + 1 \in T
  <2> DEFINE e == Queue[k + 1]
  <2>1. k + 1 \in 1..n /\ (k + 1) - 1 = k /\ k + 1 \in 0..n
    BY <1>3, <1>6
  <2>2. e \in Events /\ e = ring[k + 1] /\ k + 1 \in 1..Len(ring) /\ p[k] \in Collectors /\ p[k + 1] \in Collectors
    BY <1>3, <1>4, <2>1, QueueIs
  <2>3. p[k + 1] = Apply(p[k], e)
    BY <1>4, <2>1
  <2>4. e.kind = "out" => e.tid \in tracked \cup strays
    BY <2>2 DEF Sound, Sourced
  <2> HIDE DEF e
  <2>5. /\ Conserves(p[k], p[k + 1]) /\ Reports(p[k], p[k + 1])
        /\ OpenIn(p[k + 1]) \subseteq OpenIn(p[k]) \cup {t \in Tids : t = e.tid /\ e.kind = "out"}
    BY <1>3, <2>2, <2>3, Applied
  <2>6. Conserves(State, p[k + 1]) /\ Reports(State, p[k + 1])
    <3>1. Conserves(State, p[k]) /\ Reports(State, p[k])
      BY <1>6
    <3> QED
      BY <1>3, <2>2, <2>5, <3>1, ConservesTrans
  <2>7. OpenIn(p[k + 1]) \subseteq OpenIn(State) \cup tracked \cup strays
    BY <1>6, <2>4, <2>5
  <2> QED
    BY <2>1, <2>6, <2>7
<1>7. n \in T
  <2> HIDE DEF T, n
  <2>1. \A k \in 0..n : k \in T /\ k < n => k + 1 \in T
    BY <1>6
  <2>2. \A k \in 0..n : k \in T
    BY <1>3, <1>5, <2>1, BoundedInduction
  <2> QED
    BY <1>3, <2>2
<1>8. c \in Collectors /\ c = p[n]
  BY <1>3, <1>4
<1> HIDE DEF c
<1>9. State' = c
  BY <1>1, <1>8, CollectorFields DEF State
<1> QED
  BY <1>1, <1>2, <1>7, <1>8, <1>9 DEF c

(* The sums of IntervalsConserved and LossesReported.                      *)
Balance(ro, rc, ri, pf, o, c, i, n) == ro + o = (rc + c) + (ri - pf + i) + n
Transfer(o, c, i, n, p, d, j, m)    == p + c + i + n = o + d + j + m
LEMMA BalanceMoves ==
    ASSUME NEW ro \in Nat, NEW rc \in Nat, NEW ri \in Nat, NEW pf \in Nat,
           NEW o \in Nat, NEW c \in Nat, NEW i \in Nat, NEW n \in Nat,
           NEW p \in Nat, NEW d \in Nat, NEW j \in Nat, NEW m \in Nat,
           Balance(ro, rc, ri, pf, o, c, i, n), Transfer(o, c, i, n, p, d, j, m)
    PROVE  Balance(ro, rc, ri, pf, p, d, j, m)
  BY DEF Balance, Transfer

Losses(e, a, l, r, s, p, q) == e = a + l + r + ((s - p) + q)
LEMMA LossesMove ==
    ASSUME NEW e \in Nat, NEW a \in Nat, NEW l \in Nat, NEW r \in Nat, NEW s \in Nat, NEW p \in Nat, NEW q \in Nat,
           NEW b \in Nat, NEW m \in Nat, NEW u \in Nat, Losses(e, a, l, r, s, p, q), b + m + u = a + l + q
    PROVE  Losses(e, b, m, r, s, p, u)
  BY DEF Losses

Samples(re, rc, ro, e, c, o) == re + e <= rc + c /\ rc + c <= (re + e) + ro + o
Further(e, c, o, f, d, p)    == f + c <= e + d /\ d + e + o <= c + f + p
LEMMA SamplesMove ==
    ASSUME NEW re \in Nat, NEW rc \in Nat, NEW ro \in Nat, NEW e \in Nat, NEW c \in Nat, NEW o \in Nat,
           NEW f \in Nat, NEW d \in Nat, NEW p \in Nat,
           Samples(re, rc, ro, e, c, o), Further(e, c, o, f, d, p)
    PROVE  Samples(re, rc, ro, f, d, p)
  BY DEF Samples, Further

LEMMA DrainSound ==
    ASSUME Sound, Drain \/ SnapshotDrain
    PROVE  Sound'
<1>1. /\ Drained /\ pc' \in {"attach", "loop", "split"}
      /\ UNCHANGED <<now, thread, member, moves, asleep, slept, tracked, previous, stats>>
      /\ UNCHANGED <<emitted, reported, slack, uprooted, strays>>
  BY DEF Drain, SnapshotDrain, schedulerVars, Sound, Typed, Threaded
<1>2. /\ State' \in Collectors /\ Conserves(State, State') /\ Reports(State, State')
      /\ OpenIn(State') \subseteq OpenIn(State) \cup tracked \cup strays
      /\ applied' \in Nat /\ queueDrops' \in Nat
      /\ applied' + queueDrops' = applied + queueDrops + Len(ring)
      /\ ring' = <<>> /\ drainedAt' = now
  BY <1>1, Drains
<1>3. Clocked' /\ Threaded'
  BY <1>1, <1>2 DEF Sound, Typed, Clocked, Threaded
<1>4. Ringed' /\ Sourced' /\ Len(ring') = 0
  <2>1. ring' \in Seq(Events') /\ Len(ring') = 0
    BY <1>2
  <2> QED
    BY <1>2, <2>1, Bounds DEF Ringed, Sourced
<1>5. Numbered' /\ Sleeping'
  BY <1>1, <1>2 DEF Sound, Typed, Numbered, Sleeping
<1>6. Held'
  BY <1>1, <1>2, Meanwhile DEF Held
<1>7. State.window = window /\ State'.window = window' /\ OpenIn(State) = Open /\ OpenIn(State') = Open'
  BY DEF State, OpenIn, Open
<1>8. State \in Collectors
  BY DEF Sound, Typed, Held
<1>9. /\ window.outs \in Nat /\ window.completed \in Nat /\ window.incomplete \in Nat
      /\ window.omitted \in Nat /\ window.events \in Nat /\ Cardinality(Open) \in Nat
      /\ window'.outs \in Nat /\ window'.completed \in Nat /\ window'.incomplete \in Nat
      /\ window'.omitted \in Nat /\ window'.events \in Nat /\ Cardinality(Open') \in Nat
  BY <1>2, <1>7, <1>8, CollectorFields
<1>10. /\ previous.failures \in Nat /\ previous.drops \in Nat /\ stats.drops \in Nat /\ queueDrops \in Nat
       /\ emitted \in Nat /\ applied \in Nat /\ Len(ring) \in Nat
       /\ reported.outs \in Nat /\ reported.completed \in Nat /\ reported.incomplete \in Nat
       /\ reported.omitted \in Nat /\ reported.events \in Nat /\ reported.drops \in Nat
  BY QueueIs DEF Sound, Typed, Numbered, Counter, Totals
<1>11. IntervalsConserved'
  <2>1. IntervalsConserved
    BY DEF Sound
  <2>2. Transfer(window.outs, window.completed, window.incomplete, Cardinality(Open),
                 window'.outs, window'.completed, window'.incomplete, Cardinality(Open'))
    BY <1>2, <1>7 DEF Conserves, Transfer
  <2>3. Balance(reported.outs, reported.completed, reported.incomplete, previous.failures,
                window.outs, window.completed, window.incomplete, Cardinality(Open))
    BY <2>1 DEF IntervalsConserved, Balance
  <2>4. Balance(reported.outs, reported.completed, reported.incomplete, previous.failures,
                window'.outs, window'.completed, window'.incomplete, Cardinality(Open'))
    BY <1>9, <1>10, <2>2, <2>3, BalanceMoves
  <2> QED
    BY <1>1, <2>4 DEF IntervalsConserved, Balance
<1>12. LossesReported'
  <2>1. LossesReported
    BY DEF Sound
  <2>2. Further(window.events, window.completed, window.omitted, window'.events, window'.completed, window'.omitted)
    BY <1>2, <1>7 DEF Reports, Further
  <2>3. Losses(emitted, applied', 0, reported.drops, stats.drops, previous.drops, queueDrops')
    <3>1. Losses(emitted, applied, Len(ring), reported.drops, stats.drops, previous.drops, queueDrops)
      BY <2>1 DEF LossesReported, WindowDrops, Losses
    <3>2. applied' + 0 + queueDrops' = applied + Len(ring) + queueDrops
      BY <1>2, <1>10
    <3> QED
      BY <1>2, <1>10, <3>1, <3>2, LossesMove
  <2>4. Samples(reported.events, reported.completed, reported.omitted,
                window'.events, window'.completed, window'.omitted)
    <3>1. Samples(reported.events, reported.completed, reported.omitted,
                  window.events, window.completed, window.omitted)
      BY <2>1 DEF LossesReported, Samples
    <3> QED
      BY <1>9, <1>10, <2>2, <3>1, SamplesMove
  <2> QED
    BY <1>1, <1>4, <2>3, <2>4 DEF LossesReported, WindowDrops, Losses, Samples
<1>13. NoGhosts'
  BY <1>1, <1>2, <1>7 DEF Sound, NoGhosts
<1> QED
  BY <1>3, <1>4, <1>5, <1>6, <1>11, <1>12, <1>13 DEF Sound, Typed

LEMMA NumberedFields ==
    ASSUME Sound
    PROVE  /\ previous.failures \in Nat /\ previous.drops \in Nat /\ previous \in Counter
           /\ stats.drops \in Nat /\ stats.failures \in Nat /\ stats \in Counter
           /\ previous.drops <= stats.drops /\ previous.failures <= stats.failures
           /\ queueDrops \in Nat /\ emitted \in Nat /\ applied \in Nat /\ Len(ring) \in Nat
           /\ reported.outs \in Nat /\ reported.completed \in Nat /\ reported.incomplete \in Nat
           /\ reported.omitted \in Nat /\ reported.events \in Nat /\ reported.drops \in Nat
           /\ reported.windows \in Nat
           /\ window.outs \in Nat /\ window.completed \in Nat /\ window.incomplete \in Nat
           /\ window.omitted \in Nat /\ window.events \in Nat
           /\ IsFiniteSet(Open) /\ Cardinality(Open) \in Nat
           /\ State \in Collectors /\ State.window = window /\ OpenIn(State) = Open
           /\ pending \in [Tids -> Intervals \cup {NoInterval}] /\ attributed \in [Tids -> Nat]
           /\ now \in Nat
<1>1. State \in Collectors /\ State.window = window /\ OpenIn(State) = Open /\ State.pending = pending
      /\ State.attributed = attributed
  BY DEF Sound, Typed, Held, State, OpenIn, Open
<1>2. /\ window.outs \in Nat /\ window.completed \in Nat /\ window.incomplete \in Nat
      /\ window.omitted \in Nat /\ window.events \in Nat
      /\ IsFiniteSet(Open) /\ Cardinality(Open) \in Nat
      /\ pending \in [Tids -> Intervals \cup {NoInterval}] /\ attributed \in [Tids -> Nat]
  BY <1>1, CollectorFields
<1>3. /\ previous.failures \in Nat /\ previous.drops \in Nat /\ previous \in Counter
      /\ stats.drops \in Nat /\ stats.failures \in Nat /\ stats \in Counter
      /\ previous.drops <= stats.drops /\ previous.failures <= stats.failures
      /\ queueDrops \in Nat /\ emitted \in Nat /\ applied \in Nat /\ now \in Nat
  BY DEF Sound, Typed, Numbered, Counter, Clocked
<1>4. /\ reported.outs \in Nat /\ reported.completed \in Nat /\ reported.incomplete \in Nat
      /\ reported.omitted \in Nat /\ reported.events \in Nat /\ reported.drops \in Nat
      /\ reported.windows \in Nat
  BY DEF Sound, Typed, Numbered, Totals
<1> QED
  BY <1>1, <1>2, <1>3, <1>4, QueueIs

(* A thread that went away takes its open interval with it.                *)
LEMMA ReconcileSound ==
    ASSUME Sound, Reconcile
    PROVE  Sound'
<1> DEFINE gone == tracked \ member
    cut == {t \in gone : pending[t] # NoInterval}
<1>0. /\ previous.failures \in Nat /\ previous.drops \in Nat
      /\ stats.drops \in Nat /\ stats.failures \in Nat
      /\ previous.drops <= stats.drops /\ previous.failures <= stats.failures
      /\ queueDrops \in Nat /\ emitted \in Nat /\ applied \in Nat /\ Len(ring) \in Nat
      /\ reported.outs \in Nat /\ reported.completed \in Nat /\ reported.incomplete \in Nat
      /\ reported.omitted \in Nat /\ reported.events \in Nat /\ reported.drops \in Nat
      /\ reported.windows \in Nat
      /\ window.outs \in Nat /\ window.completed \in Nat /\ window.incomplete \in Nat
      /\ window.omitted \in Nat /\ window.events \in Nat
      /\ Cardinality(Open) \in Nat
  BY NumberedFields
<1>1. /\ pending' = [t \in Tids |-> IF t \in gone THEN NoInterval ELSE pending[t]]
      /\ window' = [window EXCEPT !.incomplete = @ + Cardinality(cut)]
      /\ uprooted' = uprooted \cup gone
      /\ strays' = strays \cup {t \in gone : SwitchOutQueued(t)}
      /\ tracked' = member /\ pc' = "loop"
      /\ UNCHANGED <<now, thread, member, moves, asleep, slept, previous, queueDrops, ring, stats>>
      /\ UNCHANGED <<emitted, applied, reported, attributed, slack, drainedAt>>
  BY DEF Reconcile, Cut, Incomplete, schedulerVars
<1>2. gone \subseteq Tids /\ gone \subseteq tracked /\ cut = gone \cap Open
  BY DEF Sound, Typed, Threaded, Open
<1>3. Clocked' /\ Numbered' /\ Sleeping'
  BY <1>1 DEF Sound, Typed, Clocked, Numbered, Sleeping
<1>4. Threaded'
  BY <1>1, <1>2 DEF Sound, Typed, Threaded
<1>5. Open' = Open \ gone /\ Open' = Open \ cut
  BY <1>1, <1>2 DEF Open
<1> HIDE DEF cut
<1>6. /\ IsFiniteSet(cut) /\ Cardinality(cut) \in Nat
      /\ Cardinality(Open) = Cardinality(Open') + Cardinality(cut) /\ Cardinality(Open') \in Nat
  <2>1. cut \in SUBSET Open /\ IsFiniteSet(Open) /\ Open \cap cut = cut /\ Cardinality(Open) \in Nat
    BY <1>2, NumberedFields
  <2>2. IsFiniteSet(cut) /\ Cardinality(cut) \in Nat
    BY <2>1, FS_Subset, FS_CardinalityType
  <2>3. Cardinality(Open \ cut) = Cardinality(Open) - Cardinality(cut) /\ IsFiniteSet(Open \ cut)
    BY <2>1, FS_Difference
  <2>4. Cardinality(Open') = Cardinality(Open) - Cardinality(cut) /\ Cardinality(Open') \in Nat
    BY <1>5, <2>3, FS_CardinalityType
  <2> QED
    BY <2>1, <2>2, <2>4
<1>6a. window.incomplete + Cardinality(cut) \in Nat
  <2>1. window.incomplete \in Nat
    BY <1>0
  <2> QED
    BY <1>6, <2>1
<1>7. /\ window' = [outs |-> window.outs, completed |-> window.completed,
                     incomplete |-> window.incomplete + Cardinality(cut), omitted |-> window.omitted,
                     keys |-> window.keys, events |-> window.events]
  <2> DEFINE n == Cardinality(cut)
  <2>1. Shaped(window)
    BY NumberedFields, CollectorFields
  <2>2. window' = [window EXCEPT !.incomplete = window.incomplete + n]
    BY <1>1
  <2> HIDE DEF n
  <2> QED
    BY <2>1, <2>2, Updates DEF n
<1>8. Held'
  <2>1. pending' \in [Tids -> Intervals \cup {NoInterval}]
    BY <1>1, NumberedFields
  <2>2. window' \in Windows
    <3>1. window.keys \in SUBSET (Tids \X Stacks) /\ IsFiniteSet(window.keys) /\ Cardinality(window.keys) <= MaxStacks
      BY NumberedFields, CollectorFields
    <3>2. window' \in [outs : Nat, completed : Nat, incomplete : Nat, omitted : Nat,
                        keys : SUBSET (Tids \X Stacks), events : Nat]
      <4>1. /\ window.outs \in Nat /\ window.completed \in Nat
            /\ window.omitted \in Nat /\ window.events \in Nat
        BY <1>0
      <4> QED
        BY <1>6a, <1>7, <3>1, <4>1
    <3>3. window'.keys = window.keys
      BY <1>7
    <3> QED
      BY <3>1, <3>2, <3>3 DEF Windows
  <2>3. State' \in Collectors
    BY <1>1, <2>1, <2>2, NumberedFields DEF State, Collectors
  <2> QED
    BY <1>1, <2>3, Meanwhile DEF Held
<1>9. Ringed'
  BY <1>1, Meanwhile DEF Sound, Typed, Ringed
<1>10. Sourced'
  <2>1. ASSUME NEW i \in 1..Len(ring), ring[i].kind = "out"
        PROVE  ring[i].tid \in tracked' \cup strays'
    <3>1. ring[i].tid \in tracked \cup strays
      BY <2>1 DEF Sound, Sourced
    <3>2. ring[i].tid \in gone => SwitchOutQueued(ring[i].tid)
      BY <2>1 DEF SwitchOutQueued
    <3> QED
      BY <1>1, <3>1, <3>2
  <2> QED
    BY <1>1, <2>1 DEF Sourced
<1>11. NoGhosts'
  BY <1>1, <1>5 DEF Sound, NoGhosts
<1>12. IntervalsConserved'
  <2>1. Balance(reported.outs, reported.completed, reported.incomplete, previous.failures,
                window.outs, window.completed, window.incomplete, Cardinality(Open))
    BY DEF Sound, IntervalsConserved, Balance
  <2>2. /\ window'.outs = window.outs /\ window'.completed = window.completed
        /\ window'.incomplete = window.incomplete + Cardinality(cut) /\ window'.incomplete \in Nat
    BY <1>6a, <1>7
  <2>3. Transfer(window.outs, window.completed, window.incomplete, Cardinality(Open),
                 window.outs, window.completed, window'.incomplete, Cardinality(Open'))
    BY <1>0, <1>6, <2>2 DEF Transfer
  <2>4. Balance(reported.outs, reported.completed, reported.incomplete, previous.failures,
                window.outs, window.completed, window'.incomplete, Cardinality(Open'))
    BY <1>6, <2>1, <2>2, <2>3, NumberedFields, BalanceMoves
  <2> QED
    BY <1>1, <2>2, <2>4 DEF IntervalsConserved, Balance
<1>13. LossesReported'
  <2>1. window'.completed = window.completed /\ window'.omitted = window.omitted /\ window'.events = window.events
    BY <1>7
  <2> QED
    BY <1>1, <2>1 DEF Sound, LossesReported, WindowDrops
<1> QED
  BY <1>3, <1>4, <1>8, <1>9, <1>10, <1>11, <1>12, <1>13 DEF Sound, Typed

(* The boundary of a window: what it counts goes to its diagnostics.       *)
LEMMA BalanceCloses ==
    ASSUME NEW ro \in Nat, NEW rc \in Nat, NEW ri \in Nat, NEW pf \in Nat,
           NEW o \in Nat, NEW c \in Nat, NEW i \in Nat, NEW n \in Nat, NEW sf \in Nat, pf <= sf,
           Balance(ro, rc, ri, pf, o, c, i, n)
    PROVE  Balance(ro + o, rc + c, ri + i + (sf - pf), sf, 0, 0, 0, n)
  BY DEF Balance

LEMMA SamplesClose ==
    ASSUME NEW re \in Nat, NEW rc \in Nat, NEW ro \in Nat, NEW e \in Nat, NEW c \in Nat, NEW o \in Nat,
           NEW p \in Nat, o <= p, Samples(re, rc, ro, e, c, o)
    PROVE  Samples(re + e, rc + c, ro + p, 0, 0, 0)
  BY DEF Samples

LEMMA LossesClose ==
    ASSUME NEW e \in Nat, NEW a \in Nat, NEW l \in Nat, NEW r \in Nat, NEW s \in Nat, NEW p \in Nat, NEW q \in Nat,
           p <= s, Losses(e, a, l, r, s, p, q)
    PROVE  Losses(e, a, l, r + ((s - p) + q), s, s, 0)
  BY DEF Losses

LEMMA SplitSound ==
    ASSUME Sound, SnapshotSplit
    PROVE  Sound'
<1> DEFINE c == SplitInto(State, Open)
<1>0. /\ previous.failures \in Nat /\ previous.drops \in Nat
      /\ stats.drops \in Nat /\ stats.failures \in Nat
      /\ previous.drops <= stats.drops /\ previous.failures <= stats.failures
      /\ queueDrops \in Nat /\ emitted \in Nat /\ applied \in Nat /\ Len(ring) \in Nat
      /\ reported.outs \in Nat /\ reported.completed \in Nat /\ reported.incomplete \in Nat
      /\ reported.omitted \in Nat /\ reported.events \in Nat /\ reported.drops \in Nat
      /\ reported.windows \in Nat
      /\ window.outs \in Nat /\ window.completed \in Nat /\ window.incomplete \in Nat
      /\ window.omitted \in Nat /\ window.events \in Nat
      /\ Cardinality(Open) \in Nat
  BY NumberedFields
<1>1. /\ pending' = [t \in Tids |-> IF t \in Open THEN Restarted(pending[t]) ELSE NoInterval]
      /\ attributed' = c.attributed
      /\ slack' = [t \in Tids |-> IF t \in Open THEN slack[t] + (now - drainedAt) ELSE slack[t]]
      /\ reported' = [outs       |-> reported.outs + c.window.outs,
                       completed  |-> reported.completed + c.window.completed,
                       incomplete |-> reported.incomplete + c.window.incomplete
                                         + (stats.failures - previous.failures),
                       omitted    |-> reported.omitted + c.window.omitted,
                       events     |-> reported.events + c.window.events,
                       drops      |-> reported.drops + WindowDrops,
                       windows    |-> reported.windows + 1]
      /\ window' = NewWindow /\ previous' = stats /\ queueDrops' = 0 /\ pc' = "loop"
  BY DEF SnapshotSplit, Open
<1>2. /\ UNCHANGED <<now, thread, member, moves, asleep, slept, tracked, ring, stats>>
      /\ UNCHANGED <<emitted, applied, drainedAt, uprooted, strays>>
  BY DEF SnapshotSplit, schedulerVars
<1>3. /\ c \in Collectors /\ SameCounts(State, c)
  <2>1. Open \in SUBSET Tids /\ \A t \in Open : pending[t] \in Intervals
    BY NumberedFields DEF Open
  <2> QED
    BY <2>1, NumberedFields, AllCharged
<1> HIDE DEF c
<1>4. /\ c.window.outs = window.outs /\ c.window.completed = window.completed
      /\ c.window.incomplete = window.incomplete /\ c.window.events = window.events
      /\ window.omitted <= c.window.omitted /\ c.window.omitted \in Nat
  BY <1>3, NumberedFields, CollectorFields DEF SameCounts
<1>5. Clocked' /\ Threaded'
  BY <1>1, <1>2 DEF Sound, Typed, Clocked, Threaded
<1>6. Ringed' /\ Sourced'
  BY <1>2, Meanwhile DEF Sound, Typed, Ringed, Sourced
<1>7. WindowDrops \in Nat /\ stats.failures - previous.failures \in Nat
  <2>0. /\ stats.drops \in Nat /\ previous.drops \in Nat /\ previous.drops <= stats.drops
        /\ stats.failures \in Nat /\ previous.failures \in Nat /\ previous.failures <= stats.failures
        /\ queueDrops \in Nat
    BY <1>0
  <2>1. stats.drops - previous.drops \in Nat /\ stats.failures - previous.failures \in Nat
    BY <2>0
  <2>2. (stats.drops - previous.drops) + queueDrops \in Nat
    BY <2>0, <2>1
  <2> QED
    BY <2>1, <2>2 DEF WindowDrops
<1>8. /\ reported'.outs = reported.outs + window.outs
      /\ reported'.completed = reported.completed + window.completed
      /\ reported'.incomplete = reported.incomplete + window.incomplete + (stats.failures - previous.failures)
      /\ reported'.omitted = reported.omitted + c.window.omitted
      /\ reported'.events = reported.events + window.events
      /\ reported'.drops = reported.drops + WindowDrops
  BY <1>1, <1>4
<1>9. Numbered'
  <2>1. reported' \in Totals
    <3>1. /\ reported.outs + c.window.outs \in Nat /\ reported.completed + c.window.completed \in Nat
          /\ reported.incomplete + c.window.incomplete + (stats.failures - previous.failures) \in Nat
          /\ reported.omitted + c.window.omitted \in Nat /\ reported.events + c.window.events \in Nat
          /\ reported.drops + WindowDrops \in Nat /\ reported.windows + 1 \in Nat
      <4>1. /\ reported.outs + window.outs \in Nat /\ reported.completed + window.completed \in Nat
            /\ reported.incomplete + window.incomplete \in Nat
            /\ reported.omitted + c.window.omitted \in Nat /\ reported.events + window.events \in Nat
            /\ reported.drops + WindowDrops \in Nat /\ reported.windows + 1 \in Nat
        <5>1. /\ reported.outs + window.outs \in Nat /\ reported.completed + window.completed \in Nat
              /\ reported.incomplete + window.incomplete \in Nat
              /\ reported.events + window.events \in Nat /\ reported.windows + 1 \in Nat
          <6>1. /\ reported.outs \in Nat /\ window.outs \in Nat /\ reported.completed \in Nat /\ window.completed \in Nat
                /\ reported.incomplete \in Nat /\ window.incomplete \in Nat
                /\ reported.events \in Nat /\ window.events \in Nat /\ reported.windows \in Nat
            BY <1>0
          <6> QED
            BY <6>1
        <5>2. reported.omitted \in Nat /\ reported.drops \in Nat
          BY <1>0
        <5> QED
          BY <1>4, <1>7, <5>1, <5>2
      <4>2. (reported.incomplete + window.incomplete) + (stats.failures - previous.failures) \in Nat
        BY <1>7, <4>1
      <4> QED
        BY <1>4, <4>1, <4>2
    <3> QED
      BY <1>1, <3>1 DEF Totals
  <2>2. /\ stats \in Counter /\ stats.drops <= stats.drops /\ stats.failures <= stats.failures
        /\ 0 \in Nat /\ emitted \in Nat /\ emitted <= MaxEvents /\ applied \in Nat
    BY DEF Sound, Typed, Numbered, Counter
  <2> QED
    BY <1>1, <1>2, <2>1, <2>2 DEF Numbered
<1>10. Sleeping'
  <2>1. now - drainedAt \in Nat /\ slack \in [Tids -> Nat]
    BY DEF Sound, Typed, Clocked, Sleeping
  <2>2. slack' \in [Tids -> Nat]
    BY <1>1, <2>1
  <2> QED
    BY <1>2, <2>2 DEF Sound, Typed, Sleeping
<1>11. /\ pending' \in [Tids -> Intervals \cup {NoInterval}] /\ Open' = Open
  <2>1. ASSUME NEW t \in Open
        PROVE  Restarted(pending[t]) \in Intervals /\ Restarted(pending[t]) # NoInterval
    <3>1. pending[t] \in Intervals /\ now \in 0..now
      BY NumberedFields DEF Open
    <3>2. Restarted(pending[t]) = [stack |-> pending[t].stack, started |-> now]
      BY <3>1 DEF Restarted, Intervals
    <3> QED
      BY <3>1, <3>2 DEF Intervals, NoInterval
  <2>2. pending' \in [Tids -> Intervals \cup {NoInterval}]
    <3>1. \A t \in Tids : (IF t \in Open THEN Restarted(pending[t]) ELSE NoInterval) \in Intervals \cup {NoInterval}
      BY <2>1
    <3> QED
      BY <1>1, <3>1
  <2>3. Open' = {t \in Tids : pending'[t] # NoInterval}
    BY DEF Open
  <2>4. \A t \in Tids : pending'[t] # NoInterval <=> t \in Open
    BY <1>1, <2>1
  <2>5. Open \subseteq Tids
    BY DEF Open
  <2> QED
    BY <2>2, <2>3, <2>4, <2>5
<1>12. Held'
  <2>1. State' \in Collectors
    BY <1>1, <1>3, <1>11, NewWindowFits, CollectorFields DEF State, Collectors
  <2> QED
    BY <1>2, <2>1, Meanwhile DEF Held
<1>13. NoGhosts'
  BY <1>2, <1>11 DEF Sound, NoGhosts
<1>14. window'.outs = 0 /\ window'.completed = 0 /\ window'.incomplete = 0 /\ window'.omitted = 0 /\ window'.events = 0
  BY <1>1 DEF NewWindow
<1>15. IntervalsConserved'
  <2>1. Balance(reported.outs, reported.completed, reported.incomplete, previous.failures,
                window.outs, window.completed, window.incomplete, Cardinality(Open))
    BY DEF Sound, IntervalsConserved, Balance
  <2>2. Balance(reported'.outs, reported'.completed, reported'.incomplete, stats.failures, 0, 0, 0, Cardinality(Open))
    <3>1. Balance(reported.outs + window.outs, reported.completed + window.completed,
                  reported.incomplete + window.incomplete + (stats.failures - previous.failures),
                  stats.failures, 0, 0, 0, Cardinality(Open))
      BY <1>0, <2>1, BalanceCloses
    <3> QED
      BY <1>8, <3>1
  <2> QED
    BY <1>1, <1>11, <1>14, <2>2 DEF IntervalsConserved, Balance
<1>16. LossesReported'
  <2>1. Samples(reported.events, reported.completed, reported.omitted,
                window.events, window.completed, window.omitted)
    BY DEF Sound, LossesReported, Samples
  <2>2. Samples(reported'.events, reported'.completed, reported'.omitted, 0, 0, 0)
    <3>1. Samples(reported.events + window.events, reported.completed + window.completed,
                  reported.omitted + c.window.omitted, 0, 0, 0)
      BY <1>0, <1>4, <2>1, SamplesClose
    <3> QED
      BY <1>8, <3>1
  <2>3. Losses(emitted, applied, Len(ring), reported.drops, stats.drops, previous.drops, queueDrops)
    BY DEF Sound, LossesReported, WindowDrops, Losses
  <2>4. Losses(emitted, applied, Len(ring), reported'.drops, stats.drops, stats.drops, 0)
    <3>1. Losses(emitted, applied, Len(ring), reported.drops + WindowDrops, stats.drops, stats.drops, 0)
      BY <1>0, <2>3, LossesClose DEF WindowDrops
    <3> QED
      BY <1>8, <3>1
  <2> QED
    BY <1>1, <1>2, <1>14, <2>2, <2>4 DEF LossesReported, WindowDrops, Losses, Samples
<1> QED
  BY <1>5, <1>6, <1>9, <1>10, <1>12, <1>13, <1>15, <1>16 DEF Sound, Typed

LEMMA StutterSound == Sound /\ UNCHANGED vars => Sound'
<1> SUFFICES ASSUME Sound, UNCHANGED vars PROVE Sound'
  OBVIOUS
<1>1. /\ UNCHANGED <<now, thread, member, moves, asleep, slept, tracked, previous, queueDrops, pending, window, pc>>
      /\ UNCHANGED <<emitted, applied, reported, attributed, slack, drainedAt, uprooted, strays, ring, stats>>
  BY DEF vars, schedulerVars, collectorVars, historyVars
<1>2. Clocked' /\ Threaded' /\ Numbered' /\ Sleeping'
  BY <1>1 DEF Sound, Typed, Clocked, Threaded, Numbered, Sleeping
<1>3. Ringed' /\ Held'
  BY <1>1, Meanwhile DEF Sound, Typed, Ringed, Held, State
<1>4. Sourced' /\ IntervalsConserved' /\ LossesReported' /\ NoGhosts'
  BY <1>1 DEF Sound, Sourced, IntervalsConserved, LossesReported, NoGhosts, Open, WindowDrops
<1> QED
  BY <1>2, <1>3, <1>4 DEF Sound, Typed

LEMMA StepSound == Sound /\ [Next]_vars => Sound'
<1> SUFFICES ASSUME Sound, [Next]_vars PROVE Sound'
  OBVIOUS
<1>1. CASE Tick
  BY <1>1, TickSound
<1>2. ASSUME NEW t \in Tids, Start(t) \/ Move(t) \/ Exit(t) PROVE Sound'
  BY <1>2, ThreadSound
<1>3. ASSUME NEW t \in Tids, SwitchOut(t) PROVE Sound'
  BY <1>3, SwitchOutSound
<1>4. ASSUME NEW t \in Tids, SwitchIn(t) PROVE Sound'
  BY <1>4, SwitchInSound
<1>5. CASE Reconcile
  BY <1>5, ReconcileSound
<1>6. CASE Drain \/ SnapshotDrain
  BY <1>6, DrainSound
<1>7. CASE SnapshotSplit
  BY <1>7, SplitSound
<1>8. CASE UNCHANGED vars
  BY <1>8, StutterSound
<1> QED
  BY <1>1, <1>2, <1>3, <1>4, <1>5, <1>6, <1>7, <1>8 DEF Next, Scheduler, Collector

LEMMA AlwaysSound == Spec => []Sound
  BY Initially, StepSound, PTL DEF Spec

(* The ring and the samples keep within their limits, and every counter    *)
(* that snapshot_window() subtracts from is at least as large as what it   *)
(* subtracts.                                                              *)
THEOREM TypesOK == Spec => []TypeOK
<1>1. Sound => TypeOK
  <2> SUFFICES ASSUME Sound PROVE TypeOK
    OBVIOUS
  <2>1. /\ now \in 0..MaxTime /\ drainedAt \in 0..now
    BY Bounds DEF Sound, Typed, Clocked
  <2>2. /\ thread \in [Tids -> {"running", "blocked", "exiting", "dead"}]
        /\ member \subseteq Tids /\ tracked \subseteq Tids /\ strays \subseteq uprooted /\ uprooted \subseteq Tids
        /\ moves \in 0..MaxMoves /\ pc \in {"attach", "loop", "split"}
    BY Bounds DEF Sound, Typed, Threaded
  <2>3. emitted \in 0..MaxEvents
    BY Bounds DEF Sound, Typed, Numbered
  <2>4. applied \in 0..emitted
    <3>1. WindowDrops \in Nat
      <4>1. stats.drops \in Nat /\ previous.drops \in Nat /\ previous.drops <= stats.drops /\ queueDrops \in Nat
        BY NumberedFields
      <4> QED
        BY <4>1 DEF WindowDrops
    <3>2. applied \in Nat /\ emitted \in Nat /\ Len(ring) \in Nat /\ reported.drops \in Nat
      BY NumberedFields
    <3>3. emitted = applied + Len(ring) + reported.drops + WindowDrops
      BY DEF Sound, LossesReported
    <3> QED
      BY <3>1, <3>2, <3>3
  <2>5. ring \in Seq(EventSet) /\ Len(ring) <= RingCap
    <3>1. \A e \in Events : e \in EventSet
      BY DEF Events
    <3> DEFINE E == Events
    <3>2. ring \in Seq(E) /\ Len(ring) <= RingCap /\ \A e \in E : e \in EventSet
      BY <3>1 DEF Sound, Typed, Ringed
    <3> HIDE DEF E
    <3> QED
      BY <3>2
  <2>6. /\ stats \in [drops : Nat, failures : Nat] /\ queueDrops \in Nat
        /\ previous \in [drops : 0..stats.drops, failures : 0..stats.failures]
    <3>1. stats \in Counter /\ previous \in Counter /\ queueDrops \in Nat
          /\ previous.drops <= stats.drops /\ previous.failures <= stats.failures
      BY DEF Sound, Typed, Numbered
    <3>2. stats.drops \in Nat /\ stats.failures \in Nat /\ previous.drops \in Nat /\ previous.failures \in Nat
      BY <3>1 DEF Counter
    <3>3. previous.drops \in 0..stats.drops /\ previous.failures \in 0..stats.failures
      BY <3>1, <3>2
    <3>4. previous = [drops |-> previous.drops, failures |-> previous.failures]
      BY <3>1 DEF Counter
    <3>5. previous \in [drops : 0..stats.drops, failures : 0..stats.failures]
      BY <3>3, <3>4
    <3> QED
      BY <3>1, <3>5 DEF Counter
  <2>7. \A t \in Open : pending[t] \in [stack : Stacks, started : 0..now]
    BY NumberedFields DEF Open, Intervals
  <2>8. DOMAIN window = DOMAIN NewWindow /\ Cardinality(window.keys) <= MaxStacks
    <3>1. Shaped(window) /\ Cardinality(window.keys) <= MaxStacks
      BY NumberedFields, CollectorFields
    <3> QED
      BY <3>1 DEF Shaped, NewWindow
  <2>9. DOMAIN reported = DOMAIN Nothing
    BY DEF Sound, Typed, Numbered, Totals, Nothing
  <2>10. asleep \in [Tids -> 0..Awake] /\ {slept, attributed, slack} \subseteq [Tids -> Nat]
    BY NumberedFields DEF Sound, Typed, Sleeping
  <2> QED
    BY <2>1, <2>2, <2>3, <2>4, <2>5, <2>6, <2>7, <2>8, <2>9, <2>10 DEF TypeOK
<1> QED
  BY <1>1, AlwaysSound, PTL

(* Every switch-out that apply() has seen is a completed interval, an      *)
(* incomplete one or an open one, whatever the ring and the queue drop.    *)
THEOREM SwitchOutsAccounted == Spec => []IntervalsConserved
<1>1. Sound => IntervalsConserved
  BY DEF Sound
<1> QED
  BY <1>1, AlwaysSound, PTL

(* The diagnostics of the windows count every event of a tracked thread    *)
(* that emit_switch_out(), emit_switch_in() or the queue had to drop, and  *)
(* every completed interval that aggregate() had to omit.                  *)
THEOREM EveryLossReported == Spec => []LossesReported
<1>1. Sound => LossesReported
  BY DEF Sound
<1> QED
  BY <1>1, AlwaysSound, PTL

(* apply_threads() leaves the interval of no thread open that it untracks, *)
(* but for a switch-out that is applied afterwards.                        *)
THEOREM GhostsAreStrays == Spec => []NoGhosts
<1>1. Sound => NoGhosts
  BY DEF Sound
<1> QED
  BY <1>1, AlwaysSound, PTL

-----------------------------------------------------------------------------
(* Time: as long as nothing is lost and no thread went away, the events in *)
(* the ring take each thread from what the collector knows of it to what   *)
(* the thread does.  A path is what the collector will know after each of  *)
(* them, as one thread sees it.                                            *)
Views == [open : Intervals \cup {NoInterval}, given : Nat]
Given(v)  == v.given + (IF v.open = NoInterval THEN 0 ELSE now - v.open.started)
Really(t) == slept[t] + (IF asleep[t] = Awake THEN 0 ELSE now - asleep[t])
Path(p, t) ==
    /\ p[0] = View(State, t)
    /\ \A k \in 1..Len(ring) :
          /\ p[k] = Seen(p[k - 1], ring[k], t)
          /\ ring[k].tid = t /\ ring[k].kind = "out" => p[k - 1].open = NoInterval
Agrees(v, t) ==
    /\ v.open = NoInterval <=> asleep[t] = Awake
    /\ Really(t) <= Given(v) /\ Given(v) <= Really(t) + slack[t]
Traced(t) == \E p \in [0..Len(ring) -> Views] : Path(p, t) /\ Agrees(p[Len(ring)], t)

Clean    == ~Dropped /\ uprooted = {}
Resting  == \A t \in Tids : thread[t] # "blocked" => asleep[t] = Awake
Followed == uprooted = {} => \A t \in Tids : asleep[t] # Awake => t \in tracked
Fresh    == /\ \A i \in 1..Len(ring) : ring[i].at >= drainedAt
            /\ pc = "split" => \A t \in Open : pending[t].started <= drainedAt
Timed    == Clean => \A t \in Tids : Traced(t)
Told     == Resting /\ Followed /\ Fresh /\ Timed

LEMMA ViewTyped ==
    ASSUME now \in Nat, NEW c \in Collectors, NEW t \in Tids
    PROVE  View(c, t) \in Views
<1>1. c.pending[t] \in Intervals \cup {NoInterval} /\ c.attributed[t] \in Nat
  BY CollectorFields
<1> QED
  BY <1>1 DEF View, Views

LEMMA SeenTyped ==
    ASSUME now \in Nat, NEW v \in Views, NEW e \in Events, NEW t \in Tids
    PROVE  Seen(v, e, t) \in Views
<1>1. /\ e.stack \in Stacks \cup {NoStack} /\ e.at \in Nat /\ e.at <= now /\ e.at \in 0..now
  BY Bounds DEF Events, EventSet
<1>2. v.open \in Intervals \cup {NoInterval} /\ v.given \in Nat
  BY DEF Views
<1>3. v.open # NoInterval => v.given + Minus(e.at, v.open.started) \in Nat
  BY <1>1, <1>2, IntervalFacts DEF Minus
<1>4. e.stack # NoStack => [stack |-> e.stack, started |-> e.at] \in Intervals
  BY <1>1 DEF Intervals
<1> DEFINE i == [stack |-> e.stack, started |-> e.at]
<1> HIDE DEF i
<1>5. CASE e.tid = t /\ e.kind = "out" /\ e.stack # NoStack
  <2>1. Seen(v, e, t) = [open |-> i, given |-> v.given]
    BY <1>5 DEF Seen, i
  <2>2. i \in Intervals
    BY <1>4, <1>5 DEF i
  <2> QED
    BY <1>2, <2>1, <2>2 DEF Views
<1>6. CASE e.tid = t /\ e.kind # "out" /\ v.open # NoInterval
  <2>1. Seen(v, e, t) = [open |-> NoInterval, given |-> v.given + Minus(e.at, v.open.started)]
    BY <1>6 DEF Seen
  <2> QED
    BY <1>3, <1>6, <2>1 DEF Views
<1>7. CASE \/ e.tid # t
           \/ e.kind = "out" /\ e.stack = NoStack
           \/ e.kind # "out" /\ v.open = NoInterval
  BY <1>7 DEF Seen
<1> QED
  BY <1>5, <1>6, <1>7

(* A thread whose view the step leaves alone.                              *)
LEMMA SameTraced ==
    ASSUME NEW t \in Tids, Traced(t), UNCHANGED <<now, ring>>, View(State, t)' = View(State, t),
           UNCHANGED <<asleep[t], slept[t], slack[t]>>
    PROVE  Traced(t)'
<1>1. PICK p \in [0..Len(ring) -> Views] : Path(p, t) /\ Agrees(p[Len(ring)], t)
  BY DEF Traced
<1>2. Views' = Views
  BY Meanwhile DEF Views
<1>3. Path(p, t)'
  BY <1>1 DEF Path
<1>4. Agrees(p[Len(ring)], t)'
  BY <1>1 DEF Agrees, Given, Really
<1> QED
  BY <1>1, <1>2, <1>3, <1>4 DEF Traced

LEMMA CleanBefore ==
    ASSUME Sound, UNCHANGED reported, stats'.drops \in Nat, stats'.drops >= stats.drops,
           queueDrops' \in Nat, queueDrops' >= queueDrops, uprooted \subseteq uprooted', Clean'
    PROVE  Clean /\ stats'.drops = stats.drops /\ queueDrops' = queueDrops
<1>1. stats.drops \in Nat /\ queueDrops \in Nat /\ reported.drops \in Nat
  BY NumberedFields
<1>2. ~(stats'.drops + queueDrops' + reported.drops > 0) /\ uprooted = {}
  BY DEF Clean, Dropped
<1> QED
  BY <1>1, <1>2 DEF Clean, Dropped

LEMMA InitiallyTold == Init => Told
<1> SUFFICES ASSUME Init PROVE Told
  OBVIOUS
<1>0. Sound
  BY Initially
<1>1. Resting /\ Followed /\ Fresh
  BY DEF Init, Resting, Followed, Fresh
<1>2. ASSUME NEW t \in Tids
      PROVE  Traced(t)
  <2> DEFINE v == View(State, t)
      p == [k \in 0..0 |-> v]
  <2>1. v \in Views /\ now \in Nat
    BY <1>0, ViewTyped, NumberedFields
  <2>2. v.open = NoInterval /\ v.given = 0
    BY DEF Init, State, View
  <2>3. asleep[t] = Awake /\ slept[t] = 0 /\ slack[t] = 0 /\ Len(ring) = 0
    BY DEF Init
  <2> HIDE DEF v
  <2>4. Agrees(v, t)
    BY <2>2, <2>3 DEF Agrees, Given, Really
  <2>5. p \in [0..0 -> Views] /\ p[0] = v
    BY <2>1
  <2> HIDE DEF p
  <2>6. Path(p, t)
    BY <2>3, <2>5 DEF Path, v
  <2> QED
    BY <2>3, <2>4, <2>5, <2>6 DEF Traced
<1> QED
  BY <1>1, <1>2 DEF Told, Timed

LEMMA Clocks ==
    ASSUME Sound
    PROVE  /\ now \in Nat /\ drainedAt \in Nat /\ drainedAt <= now /\ now <= MaxTime /\ MaxTime \in Nat
           /\ Len(ring) \in Nat /\ ring \in Seq(Events)
           /\ \A t \in Tids : /\ asleep[t] \in Nat /\ (asleep[t] = Awake \/ asleep[t] <= now)
                              /\ slept[t] \in Nat /\ slack[t] \in Nat
                              /\ attributed[t] \in Nat /\ pending[t] \in Intervals \cup {NoInterval}
<1>1. /\ now \in Nat /\ drainedAt \in Nat /\ drainedAt <= now /\ now <= MaxTime /\ MaxTime \in Nat
      /\ ring \in Seq(Events)
  BY Bounds DEF Sound, Typed, Clocked, Ringed
<1>2. \A t \in Tids : /\ asleep[t] \in Nat /\ (asleep[t] = Awake \/ asleep[t] <= now)
                      /\ slept[t] \in Nat /\ slack[t] \in Nat
  BY Bounds DEF Sound, Typed, Sleeping, Awake
<1>3. pending \in [Tids -> Intervals \cup {NoInterval}] /\ attributed \in [Tids -> Nat]
  BY NumberedFields
<1> QED
  BY <1>1, <1>2, <1>3

(* What agrees goes on agreeing while time passes.                         *)
LEMMA AgreesOn ==
    ASSUME Sound, NEW t \in Tids, NEW v \in Views, Agrees(v, t), now' = now + 1,
           UNCHANGED <<asleep[t], slept[t], slack[t]>>
    PROVE  Agrees(v, t)'
<1>1. /\ now \in Nat /\ asleep[t] \in Nat /\ (asleep[t] = Awake \/ asleep[t] <= now)
      /\ slept[t] \in Nat /\ slack[t] \in Nat
  BY Clocks
<1>2. v.open \in Intervals \cup {NoInterval} /\ v.given \in Nat
  BY DEF Views
<1>3. v.open # NoInterval => v.open.started \in Nat /\ v.open.started <= now
  BY <1>1, <1>2, IntervalFacts
<1>4. CASE v.open = NoInterval
  BY <1>4 DEF Agrees, Given, Really, Awake
<1>5. CASE v.open # NoInterval
  <2>1. Given(v) \in Nat /\ Given(v)' = Given(v) + 1
    BY <1>1, <1>2, <1>3, <1>5 DEF Given
  <2>2. asleep[t] # Awake
    BY <1>5 DEF Agrees
  <2>3. Really(t) \in Nat /\ Really(t)' = Really(t) + 1
    BY <1>1, <2>2 DEF Really, Awake
  <2>4. Really(t) <= Given(v) /\ Given(v) <= Really(t) + slack[t]
    BY DEF Agrees
  <2>5. Really(t)' <= Given(v)' /\ Given(v)' <= Really(t)' + slack[t]'
    BY <1>1, <2>1, <2>3, <2>4
  <2>6. Awake' = Awake
    BY DEF Awake
  <2> QED
    BY <1>5, <2>2, <2>5, <2>6 DEF Agrees
<1> QED
  BY <1>4, <1>5

LEMMA TickTold == ASSUME Sound, Told, Tick PROVE Told'
<1>1. /\ now' = now + 1 /\ now < MaxTime
      /\ UNCHANGED <<thread, member, moves, asleep, slept, tracked, previous, queueDrops, pending, window, pc>>
      /\ UNCHANGED <<emitted, applied, reported, attributed, slack, drainedAt, uprooted, strays, ring, stats>>
  BY DEF Tick, collectorVars, historyVars
<1>2. now \in Nat /\ now' \in Nat /\ now <= now' /\ Len(ring) \in Nat
  <2>1. now \in Nat /\ Len(ring) \in Nat
    BY Clocks
  <2> QED
    BY <1>1, <2>1
<1>3. Resting' /\ Followed' /\ Fresh'
  BY <1>1 DEF Told, Resting, Followed, Fresh, Open, Awake
<1>4. ASSUME NEW t \in Tids, Traced(t)
      PROVE  Traced(t)'
  <2>1. PICK p \in [0..Len(ring) -> Views] : Path(p, t) /\ Agrees(p[Len(ring)], t)
    BY <1>4 DEF Traced
  <2>2. p \in [0..Len(ring) -> Views']
    <3>1. \A i : i \in Intervals => i \in Intervals'
      BY <1>2 DEF Intervals
    <3>2. \A v \in Views : v \in Views'
      <4> HIDE DEF Intervals
      <4> QED
        BY <3>1 DEF Views
    <3> HIDE DEF Views
    <3> QED
      BY <3>2
  <2>3. Path(p, t)'
    BY <1>1, <2>1 DEF Path, View, State
  <2>4. PICK v : v = p[Len(ring)]
    OBVIOUS
  <2>5. v \in Views /\ Agrees(v, t)
    BY <1>2, <2>1, <2>4
  <2>6. Agrees(v, t)'
    BY <1>1, <2>5, AgreesOn
  <2>7. Agrees(p[Len(ring)], t)'
    BY <1>1, <2>4, <2>6 DEF Agrees, Given
  <2> QED
    BY <1>1, <2>2, <2>3, <2>7 DEF Traced
<1>5. Clean' => Clean
  BY <1>1 DEF Clean, Dropped
<1> QED
  BY <1>3, <1>4, <1>5 DEF Told, Timed

LEMMA ThreadTold ==
    ASSUME Sound, Told, NEW t \in Tids, Start(t) \/ Move(t) \/ Exit(t)
    PROVE  Told'
<1>1. /\ UNCHANGED <<now, asleep, slept, tracked, previous, queueDrops, pending, window, pc>>
      /\ UNCHANGED <<emitted, applied, reported, attributed, slack, drainedAt, uprooted, strays, ring, stats>>
  BY DEF Start, Move, Exit, collectorVars, historyVars
<1>2. Resting'
  <2>1. ASSUME NEW u \in Tids, thread'[u] # "blocked"
        PROVE  asleep[u] = Awake
    <3>1. thread \in [Tids -> {"running", "blocked", "exiting", "dead"}]
      BY DEF Sound, Typed, Threaded
    <3>2. thread[u] # "blocked"
      BY <2>1, <3>1 DEF Start, Move, Exit
    <3> QED
      BY <3>2 DEF Told, Resting
  <2> QED
    BY <1>1, <2>1 DEF Resting, Awake
<1>3. Followed' /\ Fresh'
  BY <1>1 DEF Told, Followed, Fresh, Open, Awake
<1>4. ASSUME NEW u \in Tids, Traced(u)
      PROVE  Traced(u)'
  BY <1>1, <1>4, SameTraced DEF View, State
<1>5. Clean' => Clean
  BY <1>1 DEF Clean, Dropped
<1> QED
  BY <1>2, <1>3, <1>4, <1>5 DEF Told, Timed

(* An event that reaches the ring is the last step of a longer path.       *)
LEMMA LongerPath ==
    ASSUME Sound, NEW t \in Tids, NEW e \in Events, UNCHANGED <<now, pending, window, attributed>>,
           ring' = Append(ring, e), NEW n \in Nat, n = Len(ring),
           NEW p \in [0..n -> Views], Path(p, t), e.tid = t /\ e.kind = "out" => p[n].open = NoInterval,
           NEW v, v = Seen(p[n], e, t), Agrees(v, t)'
    PROVE  Traced(t)'
<1> DEFINE r == [k \in 0..(n + 1) |-> IF k = n + 1 THEN v ELSE p[k]]
<1>1. ring \in Seq(Events) /\ now \in Nat
  BY Clocks
<1>2. Len(ring') = n + 1 /\ ring'[n + 1] = e /\ \A k \in 1..n : ring'[k] = ring[k]
  BY <1>1
<1>3. v \in Views
  <2>1. p[n] \in Views
    OBVIOUS
  <2> QED
    BY <1>1, <2>1, SeenTyped
<1>4. r \in [0..(n + 1) -> Views]
  <2>1. \A k \in 0..(n + 1) : k # n + 1 => k \in 0..n
    OBVIOUS
  <2>2. \A k \in 0..n : p[k] \in Views
    OBVIOUS
  <2> QED
    BY <1>3, <2>1, <2>2
<1>5. r[n + 1] = v /\ \A k \in 0..n : r[k] = p[k]
  <2>1. n + 1 \in 0..(n + 1) /\ \A k \in 0..n : k # n + 1 /\ k \in 0..(n + 1)
    OBVIOUS
  <2> QED
    BY <2>1
<1> HIDE DEF r
<1>6. View(State, t)' = View(State, t)
  BY DEF View, State
<1>7. \A k \in 1..n : /\ p[k] = Seen(p[k - 1], ring[k], t)
                      /\ ring[k].tid = t /\ ring[k].kind = "out" => p[k - 1].open = NoInterval
  BY DEF Path
<1>8. \A k \in 1..(n + 1) : /\ r[k] = Seen(r[k - 1], ring'[k], t)
                            /\ ring'[k].tid = t /\ ring'[k].kind = "out" => r[k - 1].open = NoInterval
  <2> SUFFICES ASSUME NEW k \in 1..(n + 1)
               PROVE  /\ r[k] = Seen(r[k - 1], ring'[k], t)
                      /\ ring'[k].tid = t /\ ring'[k].kind = "out" => r[k - 1].open = NoInterval
    OBVIOUS
  <2>1. CASE k = n + 1
    <3>1. k - 1 = n /\ n \in 0..n
      BY <2>1
    <3>2. r[k] = v /\ r[k - 1] = p[n] /\ ring'[k] = e
      BY <1>2, <1>5, <2>1, <3>1
    <3> QED
      BY <3>2
  <2>2. CASE k # n + 1
    <3>1. k \in 1..n /\ k \in 0..n /\ k - 1 \in 0..n
      BY <2>2
    <3>2. r[k] = p[k] /\ r[k - 1] = p[k - 1] /\ ring'[k] = ring[k]
      BY <1>2, <1>5, <3>1
    <3> QED
      BY <1>7, <3>1, <3>2
  <2> QED
    BY <2>1, <2>2
<1>9. r[0] = View(State, t)'
  <2>1. r[0] = p[0] /\ p[0] = View(State, t)
    BY <1>5 DEF Path
  <2> QED
    BY <1>6, <2>1
<1>10. Path(r, t)'
  BY <1>2, <1>8, <1>9 DEF Path
<1>11. Views' = Views
  BY Meanwhile DEF Views
<1>12. Agrees(r[n + 1], t)'
  BY <1>5
<1> QED
  BY <1>2, <1>4, <1>10, <1>11, <1>12 DEF Traced

LEMMA SwitchOutTold ==
    ASSUME Sound, Told, NEW t \in Tids, SwitchOut(t)
    PROVE  Told'
<1>1. /\ UNCHANGED <<now, member, moves, slept, tracked, previous, queueDrops, pending, window, pc>>
      /\ UNCHANGED <<applied, reported, attributed, slack, drainedAt, uprooted, strays>>
      /\ thread[t] \in {"running", "exiting"}
      /\ thread' = [thread EXCEPT ![t] = IF @ = "running" THEN "blocked" ELSE "dead"]
  BY DEF SwitchOut, collectorVars
<1>2. thread \in [Tids -> {"running", "blocked", "exiting", "dead"}] /\ asleep \in [Tids -> 0..Awake]
  BY DEF Sound, Typed, Threaded, Sleeping
<1>3. asleep[t] = Awake
  BY <1>1 DEF Told, Resting
<1>4. Awake' = Awake /\ now # Awake
  <2>1. now \in Nat /\ now <= MaxTime /\ MaxTime \in Nat
    BY Clocks
  <2> QED
    BY <2>1 DEF Awake
<1>5. CASE t \notin tracked
  <2>1. UNCHANGED <<emitted, ring, stats, asleep>>
    BY <1>5 DEF SwitchOut
  <2>2. Resting'
    <3>1. ASSUME NEW u \in Tids, thread'[u] # "blocked"
          PROVE  asleep[u] = Awake
      <4>1. u = t \/ thread[u] # "blocked"
        BY <1>1, <1>2, <3>1
      <4> QED
        BY <1>3, <4>1 DEF Told, Resting
    <3> QED
      BY <1>4, <2>1, <3>1 DEF Resting
  <2>3. Followed' /\ Fresh'
    BY <1>1, <1>4, <2>1 DEF Told, Followed, Fresh, Open
  <2>4. ASSUME NEW u \in Tids, Traced(u)
        PROVE  Traced(u)'
    BY <1>1, <2>1, <2>4, SameTraced DEF View, State
  <2>5. Clean' => Clean
    BY <1>1, <2>1 DEF Clean, Dropped
  <2> QED
    BY <2>2, <2>3, <2>4, <2>5 DEF Told, Timed
<1>6. CASE t \in tracked
  <2>1. PICK stack \in (IF thread[t] = "running" THEN Stacks ELSE {}) \cup {NoStack} :
          /\ Submitted(SwitchOutEvent(t, stack))
          /\ stats'.drops = IF Len(ring) < RingCap THEN stats.drops ELSE Counted
          /\ asleep' = [asleep EXCEPT ![t] = IF stack = NoStack THEN Awake ELSE now]
    <3>1. PICK stack \in (IF thread[t] = "running" THEN Stacks ELSE {}) \cup {NoStack}, failed \in BOOLEAN :
             /\ Submitted(SwitchOutEvent(t, stack))
             /\ stats' = [drops |-> IF Len(ring) < RingCap THEN stats.drops ELSE Counted,
                          failures |-> IF failed THEN stats.failures + 1 ELSE stats.failures]
             /\ asleep' = [asleep EXCEPT ![t] = IF stack = NoStack THEN Awake ELSE now]
      BY <1>6 DEF SwitchOut
    <3> QED
      BY <3>1
  <2>2. PICK e : e = SwitchOutEvent(t, stack)
    OBVIOUS
  <2>3. /\ e.tid = t /\ e.kind = "out" /\ e.stack = stack /\ e.at = now /\ e \in Events
        /\ ring' = IF Len(ring) < RingCap THEN Append(ring, e) ELSE ring
    <3>1. stack \in Stacks \cup {NoStack}
      BY <2>1
    <3> QED
      BY <2>1, <2>2, <3>1, OutEvent DEF SwitchOutEvent, Submitted
  <2>4. /\ asleep'[t] = IF stack = NoStack THEN Awake ELSE now
        /\ \A u \in Tids : u # t => asleep'[u] = asleep[u]
    BY <1>2, <2>1
  <2>5. Resting'
    <3>1. ASSUME NEW u \in Tids, thread'[u] # "blocked"
          PROVE  asleep'[u] = Awake
      <4>1. CASE u = t
        <5>1. thread[t] # "running"
          BY <1>1, <1>2, <3>1, <4>1
        <5>2. stack = NoStack
          BY <2>1, <5>1
        <5> QED
          BY <2>4, <4>1, <5>2
      <4>2. CASE u # t
        <5>1. thread[u] # "blocked"
          BY <1>1, <1>2, <3>1, <4>2
        <5> QED
          BY <2>4, <4>2, <5>1 DEF Told, Resting
      <4> QED
        BY <4>1, <4>2
    <3> QED
      BY <1>4, <3>1 DEF Resting
  <2>6. Followed'
    <3>1. uprooted = {} => \A u \in Tids : asleep'[u] # Awake => u \in tracked
      BY <1>6, <2>4 DEF Told, Followed
    <3> QED
      BY <1>1, <1>4, <3>1 DEF Followed
  <2>7. Fresh'
    <3>1. \A i \in 1..Len(ring') : ring'[i].at >= drainedAt
      <4>1. ring \in Seq(Events) /\ Len(ring) \in Nat /\ now \in Nat /\ drainedAt \in Nat /\ drainedAt <= now
        BY Clocks
      <4>2. \A i \in 1..Len(ring) : ring[i].at >= drainedAt
        BY DEF Told, Fresh
      <4>3. CASE Len(ring) < RingCap
        <5>1. ring' = Append(ring, e)
          BY <2>3, <4>3
        <5>2. Len(ring') = Len(ring) + 1 /\ ring'[Len(ring) + 1] = e
              /\ \A i \in 1..Len(ring) : ring'[i] = ring[i]
          BY <4>1, <5>1
        <5>3. ASSUME NEW i \in 1..(Len(ring) + 1)
              PROVE  ring'[i].at >= drainedAt
          <6>1. i \in 1..Len(ring) \/ i = Len(ring) + 1
            BY <4>1
          <6>2. e.at >= drainedAt
            BY <2>3, <4>1
          <6> QED
            BY <4>2, <5>2, <6>1, <6>2
        <5> QED
          BY <5>2, <5>3
      <4>4. CASE ~(Len(ring) < RingCap)
        BY <2>3, <4>2, <4>4
      <4> QED
        BY <4>3, <4>4
    <3>2. Open' = Open
      BY <1>1 DEF Open
    <3> QED
      BY <1>1, <3>1, <3>2 DEF Told, Fresh
  <2>8. CASE Len(ring) < RingCap
    <3>1. ring' = Append(ring, e) /\ stats'.drops = stats.drops
      BY <2>1, <2>3, <2>8
    <3>2. Clean' => Clean
      BY <1>1, <3>1 DEF Clean, Dropped
    <3>3. ASSUME NEW u \in Tids, Traced(u)
          PROVE  Traced(u)'
      <4>1. PICK n \in Nat : n = Len(ring)
        BY Clocks
      <4>2. PICK p \in [0..n -> Views] : Path(p, u) /\ Agrees(p[n], u)
        BY <3>3, <4>1 DEF Traced
      <4>3. PICK v : v = Seen(p[n], e, u)
        OBVIOUS
      <4>4. p[n] \in Views /\ p[n].given \in Nat
        <5>1. p[n] \in Views
          BY <4>2
        <5> QED
          BY <5>1 DEF Views
      <4>5. u = t => p[n].open = NoInterval
        BY <1>3, <4>2 DEF Agrees
      <4>6. Agrees(v, u)'
        <5>1. CASE u # t \/ stack = NoStack
          <6>1. v = p[n] /\ asleep'[u] = asleep[u]
            BY <1>3, <2>3, <2>4, <4>3, <5>1 DEF Seen
          <6>2. Agrees(v, u)
            BY <4>2, <6>1
          <6> QED
            BY <1>1, <1>4, <6>1, <6>2 DEF Agrees, Given, Really
        <5>2. CASE u = t /\ stack # NoStack
          <6>1. v = [open |-> [stack |-> stack, started |-> now], given |-> p[n].given]
            BY <2>3, <4>3, <5>2 DEF Seen
          <6>2. v.open # NoInterval /\ v.open.started = now /\ v.given = p[n].given
            BY <5>2, <6>1 DEF NoInterval
          <6>3. asleep'[t] = now
            BY <2>4, <5>2
          <6>5. now \in Nat /\ slept[t] \in Nat /\ slack[t] \in Nat
            BY Clocks
          <6>4. slept[t] <= p[n].given /\ p[n].given <= slept[t] + slack[t]
            <7>1. Really(t) <= Given(p[n]) /\ Given(p[n]) <= Really(t) + slack[t]
              BY <4>2, <5>2 DEF Agrees
            <7>2. Really(t) = slept[t]
              BY <1>3, <6>5 DEF Really
            <7>3. Given(p[n]) = p[n].given
              BY <4>4, <4>5, <5>2 DEF Given
            <7> QED
              BY <7>1, <7>2, <7>3
          <6>6. Given(v)' = p[n].given
            BY <1>1, <4>4, <6>2, <6>5 DEF Given
          <6>7. Really(t)' = slept[t]
            BY <1>1, <1>4, <6>3, <6>5 DEF Really
          <6> QED
            BY <1>1, <1>4, <5>2, <6>2, <6>3, <6>4, <6>6, <6>7 DEF Agrees
        <5> QED
          BY <5>1, <5>2
      <4> QED
        BY <1>1, <2>3, <3>1, <4>1, <4>2, <4>3, <4>5, <4>6, LongerPath
    <3> QED
      BY <2>5, <2>6, <2>7, <3>2, <3>3 DEF Told, Timed
  <2>9. CASE ~(Len(ring) < RingCap)
    <3>1. stats'.drops = stats.drops + 1 /\ stats.drops \in Nat /\ queueDrops \in Nat /\ reported.drops \in Nat
      BY <2>1, <2>9, NumberedFields DEF Counted
    <3>2. ~Clean'
      BY <1>1, <3>1 DEF Clean, Dropped
    <3> QED
      BY <2>5, <2>6, <2>7, <3>2 DEF Told, Timed
  <2> QED
    BY <2>8, <2>9
<1> QED
  BY <1>5, <1>6

LEMMA SwitchInTold ==
    ASSUME Sound, Told, NEW t \in Tids, SwitchIn(t)
    PROVE  Told'
<1>1. /\ UNCHANGED <<now, member, moves, tracked, previous, queueDrops, pending, window, pc>>
      /\ UNCHANGED <<applied, reported, attributed, slack, drainedAt, uprooted, strays>>
      /\ thread' = [thread EXCEPT ![t] = "running"]
      /\ slept' = [slept EXCEPT ![t] = IF asleep[t] = Awake THEN @ ELSE @ + (now - asleep[t])]
      /\ asleep' = [asleep EXCEPT ![t] = Awake]
  BY DEF SwitchIn, collectorVars
<1>2. /\ thread \in [Tids -> {"running", "blocked", "exiting", "dead"}]
      /\ asleep \in [Tids -> 0..Awake] /\ slept \in [Tids -> Nat]
  BY DEF Sound, Typed, Threaded, Sleeping
<1>3. Awake' = Awake
  BY DEF Awake
<1>4. /\ asleep'[t] = Awake /\ slept'[t] = IF asleep[t] = Awake THEN slept[t] ELSE slept[t] + (now - asleep[t])
      /\ \A u \in Tids : u # t => asleep'[u] = asleep[u] /\ slept'[u] = slept[u] /\ thread'[u] = thread[u]
  BY <1>1, <1>2
<1>5. Resting' /\ Followed'
  <2>1. \A u \in Tids : thread'[u] # "blocked" => asleep'[u] = Awake
    BY <1>4 DEF Told, Resting
  <2>2. uprooted = {} => \A u \in Tids : asleep'[u] # Awake => u \in tracked
    BY <1>4 DEF Told, Followed
  <2> QED
    BY <1>1, <1>3, <2>1, <2>2 DEF Resting, Followed
<1>6. Open' = Open
  BY <1>1 DEF Open
<1>7. CASE t \notin tracked
  <2>1. UNCHANGED <<emitted, ring, stats>>
    BY <1>7 DEF SwitchIn
  <2>2. Fresh'
    BY <1>1, <1>6, <2>1 DEF Told, Fresh
  <2>3. ASSUME NEW u \in Tids, Traced(u), uprooted = {}
        PROVE  Traced(u)'
    <3>1. asleep'[u] = asleep[u] /\ slept'[u] = slept[u]
      BY <1>4, <1>7, <2>3 DEF Told, Followed
    <3> QED
      BY <1>1, <2>1, <2>3, <3>1, SameTraced DEF View, State
  <2>4. Clean' => Clean /\ uprooted = {}
    BY <1>1, <2>1 DEF Clean, Dropped
  <2> QED
    BY <1>5, <2>2, <2>3, <2>4 DEF Told, Timed
<1>8. CASE t \in tracked
  <2>1. Submitted(SwitchInEvent(t)) /\ stats' = [stats EXCEPT !.drops = IF Len(ring) < RingCap THEN @ ELSE Counted]
    BY <1>8 DEF SwitchIn
  <2>2. stats'.drops = IF Len(ring) < RingCap THEN stats.drops ELSE stats.drops + 1
    BY <2>1 DEF Sound, Typed, Numbered, Counter, Counted
  <2>3. PICK e : e = SwitchInEvent(t)
    OBVIOUS
  <2>4. /\ e.tid = t /\ e.kind = "in" /\ e.at = now /\ e \in Events
        /\ ring' = IF Len(ring) < RingCap THEN Append(ring, e) ELSE ring
    <3>1. NoStack \in Stacks \cup {NoStack}
      OBVIOUS
    <3> QED
      BY <2>1, <2>3, <3>1, OutEvent DEF SwitchInEvent, Submitted
  <2>5. Fresh'
    <3>1. \A i \in 1..Len(ring') : ring'[i].at >= drainedAt
      <4>1. ring \in Seq(Events) /\ Len(ring) \in Nat /\ now \in Nat /\ drainedAt \in Nat /\ drainedAt <= now
        BY Clocks
      <4>2. \A i \in 1..Len(ring) : ring[i].at >= drainedAt
        BY DEF Told, Fresh
      <4>3. CASE Len(ring) < RingCap
        <5>1. ring' = Append(ring, e)
          BY <2>4, <4>3
        <5>2. Len(ring') = Len(ring) + 1 /\ ring'[Len(ring) + 1] = e
              /\ \A i \in 1..Len(ring) : ring'[i] = ring[i]
          BY <4>1, <5>1
        <5>3. ASSUME NEW i \in 1..(Len(ring) + 1)
              PROVE  ring'[i].at >= drainedAt
          <6>1. i \in 1..Len(ring) \/ i = Len(ring) + 1
            BY <4>1
          <6>2. e.at >= drainedAt
            BY <2>4, <4>1
          <6> QED
            BY <4>2, <5>2, <6>1, <6>2
        <5> QED
          BY <5>2, <5>3
      <4>4. CASE ~(Len(ring) < RingCap)
        BY <2>4, <4>2, <4>4
      <4> QED
        BY <4>3, <4>4
    <3> QED
      BY <1>1, <1>6, <3>1 DEF Told, Fresh
  <2>6. CASE Len(ring) < RingCap
    <3>1. ring' = Append(ring, e) /\ stats'.drops = stats.drops
      BY <2>2, <2>4, <2>6
    <3>2. Clean' => Clean
      BY <1>1, <3>1 DEF Clean, Dropped
    <3>3. ASSUME NEW u \in Tids, Traced(u)
          PROVE  Traced(u)'
      <4>1. PICK n \in Nat : n = Len(ring)
        BY Clocks
      <4>2. PICK p \in [0..n -> Views] : Path(p, u) /\ Agrees(p[n], u)
        BY <3>3, <4>1 DEF Traced
      <4>3. PICK v : v = Seen(p[n], e, u)
        OBVIOUS
      <4>4. p[n] \in Views /\ p[n].given \in Nat /\ p[n].open \in Intervals \cup {NoInterval}
        <5>1. p[n] \in Views
          BY <4>2
        <5> QED
          BY <5>1 DEF Views
      <4>5. /\ now \in Nat /\ slept[u] \in Nat /\ slack[u] \in Nat
            /\ asleep[u] \in Nat /\ (asleep[u] = Awake \/ asleep[u] <= now)
        BY Clocks
      <4>6. Agrees(v, u)'
        <5>1. CASE u # t \/ p[n].open = NoInterval
          <6>1. asleep'[u] = asleep[u] /\ slept'[u] = slept[u]
            BY <1>4, <4>2, <5>1 DEF Agrees
          <6>2. v = p[n]
            BY <2>4, <4>3, <5>1 DEF Seen
          <6>3. Agrees(v, u)
            BY <4>2, <6>2
          <6> QED
            BY <1>1, <1>3, <6>1, <6>3 DEF Agrees, Given, Really
        <5>2. CASE u = t /\ p[n].open # NoInterval
          <6>1. asleep[u] # Awake
            BY <4>2, <5>2 DEF Agrees
          <6>2. slept'[u] = slept[u] + (now - asleep[u]) /\ asleep'[u] = Awake
            BY <1>4, <5>2, <6>1
          <6>3. p[n].open.started \in Nat /\ p[n].open.started <= now
            BY <4>4, <4>5, <5>2, IntervalFacts
          <6>4. v = [open |-> NoInterval, given |-> p[n].given + Minus(now, p[n].open.started)]
            BY <2>4, <4>3, <5>2 DEF Seen
          <6>5. v.open = NoInterval /\ v.given = p[n].given + (now - p[n].open.started)
            BY <4>5, <6>3, <6>4 DEF Minus
          <6>6. Given(p[n]) = p[n].given + (now - p[n].open.started)
            BY <5>2 DEF Given
          <6>7. Given(v)' = Given(p[n])
            <7>1. v.given + 0 = v.given
              BY <4>4, <4>5, <6>3, <6>5
            <7> QED
              BY <6>5, <6>6, <7>1 DEF Given
          <6>8. Really(u) = slept[u] + (now - asleep[u])
            BY <6>1 DEF Really
          <6>9. Really(u)' = Really(u)
            <7>1. slept'[u] + 0 = slept'[u]
              BY <4>5, <6>1, <6>2
            <7> QED
              BY <1>3, <6>2, <6>8, <7>1 DEF Really
          <6> QED
            BY <1>1, <1>3, <4>2, <6>2, <6>5, <6>7, <6>9 DEF Agrees
        <5> QED
          BY <5>1, <5>2
      <4>7. ~(e.tid = u /\ e.kind = "out")
        BY <2>4
      <4> QED
        BY <1>1, <2>4, <3>1, <4>1, <4>2, <4>3, <4>6, <4>7, LongerPath
    <3> QED
      BY <1>5, <2>5, <3>2, <3>3 DEF Told, Timed
  <2>7. CASE ~(Len(ring) < RingCap)
    <3>1. stats'.drops = stats.drops + 1 /\ stats.drops \in Nat /\ queueDrops \in Nat /\ reported.drops \in Nat
      BY <2>2, <2>7, NumberedFields
    <3>2. ~Clean'
      BY <1>1, <3>1 DEF Clean, Dropped
    <3> QED
      BY <1>5, <2>5, <3>2 DEF Told, Timed
  <2> QED
    BY <2>6, <2>7
<1> QED
  BY <1>7, <1>8

(* A look at /proc that finds every thread that is tracked.                *)
LEMMA ReconcileTold ==
    ASSUME Sound, Told, Reconcile
    PROVE  Told'
<1> DEFINE gone == tracked \ member
<1>1. /\ pending' = [t \in Tids |-> IF t \in gone THEN NoInterval ELSE pending[t]]
      /\ uprooted' = uprooted \cup gone
      /\ tracked' = member /\ pc' = "loop"
      /\ UNCHANGED <<now, thread, member, moves, asleep, slept, previous, queueDrops, ring, stats>>
      /\ UNCHANGED <<emitted, applied, reported, attributed, slack, drainedAt>>
  BY DEF Reconcile, Cut, schedulerVars
<1>2. Resting'
  BY <1>1 DEF Told, Resting, Awake
<1>3. Followed'
  <2>1. ASSUME uprooted \cup gone = {}, NEW t \in Tids, asleep[t] # Awake
        PROVE  t \in member
    BY <2>1 DEF Told, Followed
  <2> QED
    BY <1>1, <2>1 DEF Followed, Awake
<1>4. Fresh'
  BY <1>1 DEF Told, Fresh
<1>5. ASSUME Clean'
      PROVE  Clean /\ gone = {}
  BY <1>1, <1>5 DEF Clean, Dropped
<1>6. ASSUME gone = {}, NEW t \in Tids, Traced(t)
      PROVE  Traced(t)'
  <2>1. pending'[t] = pending[t]
    BY <1>1, <1>6
  <2>2. View(State, t)' = View(State, t)
    BY <1>1, <2>1 DEF View, State
  <2> QED
    BY <1>1, <1>6, <2>2, SameTraced
<1> QED
  BY <1>2, <1>3, <1>4, <1>5, <1>6 DEF Told, Timed

(* A drain that the queue can hold takes the collector along the path.     *)
LEMMA DrainTold ==
    ASSUME Sound, Told, Drain \/ SnapshotDrain
    PROVE  Told'
<1>1. /\ Drained
      /\ UNCHANGED <<now, thread, member, moves, asleep, slept, tracked, previous, stats>>
      /\ UNCHANGED <<emitted, reported, slack, uprooted, strays>>
  BY DEF Drain, SnapshotDrain, schedulerVars
<1>2. /\ State' \in Collectors /\ State' = FoldLeft(Apply, State, Queue)
      /\ queueDrops' \in Nat /\ queueDrops' = queueDrops + (Len(ring) - Len(Queue))
      /\ ring' = <<>> /\ drainedAt' = now
  BY <1>1, Drains
<1>3. Resting' /\ Followed'
  BY <1>1 DEF Told, Resting, Followed, Awake
<1>4. Fresh'
  <2>1. \A t \in Open' : pending'[t].started <= drainedAt'
    <3>1. ASSUME NEW t \in Open'
          PROVE  pending'[t].started <= now
      <4>1. t \in Tids /\ pending'[t] # NoInterval
        BY DEF Open
      <4>2. pending'[t] \in Intervals \cup {NoInterval} /\ now \in Nat
        <5>1. State'.pending \in [Tids -> Intervals \cup {NoInterval}] /\ State'.pending = pending'
          BY <1>2, CollectorFields DEF State
        <5> QED
          BY <4>1, <5>1, Clocks
      <4> QED
        BY <4>1, <4>2, IntervalFacts
    <3> QED
      BY <1>2, <3>1
  <2>2. Len(ring') = 0
    BY <1>2
  <2>3. \A i \in 1..Len(ring') : ring'[i].at >= drainedAt'
    BY <2>2
  <2> QED
    BY <2>1, <2>3 DEF Fresh
<1>5. ASSUME Clean'
      PROVE  Clean /\ Queue = ring
  <2>1. /\ Len(ring) \in Nat /\ Len(Queue) \in Nat /\ Len(Queue) <= Len(ring)
        /\ (Len(Queue) = Len(ring) => Queue = ring)
    BY QueueIs
  <2>2. queueDrops \in Nat /\ stats.drops \in Nat /\ reported.drops \in Nat
    BY NumberedFields
  <2>3. ~(stats.drops + queueDrops' + reported.drops > 0) /\ uprooted = {}
    BY <1>1, <1>5 DEF Clean, Dropped
  <2>4. queueDrops' = 0
    <3>1. queueDrops' \in Nat
      BY <1>2
    <3> QED
      BY <2>2, <2>3, <3>1
  <2>5. queueDrops = 0 /\ Len(Queue) = Len(ring)
    BY <1>2, <2>1, <2>2, <2>4
  <2> QED
    BY <2>1, <2>2, <2>3, <2>4, <2>5 DEF Clean, Dropped
<1>6. ASSUME Queue = ring, NEW t \in Tids, Traced(t)
      PROVE  Traced(t)'
  <2>1. PICK n \in Nat : n = Len(ring)
    BY Clocks
  <2>2. PICK p \in [0..n -> Views] : Path(p, t) /\ Agrees(p[n], t)
    BY <1>6, <2>1 DEF Traced
  <2>3. State \in Collectors /\ now \in Nat /\ Queue \in Seq(Events) /\ Len(Queue) = n
    BY <1>6, <2>1, Clocks, QueueIs DEF Sound, Typed, Held
  <2>4. PICK P \in [0..n -> Collectors] :
           /\ P[0] = State /\ P[n] = FoldLeft(Apply, State, Queue)
           /\ \A k \in 1..n : P[k] = Apply(P[k - 1], Queue[k])
    BY <2>3, Folded
  <2> DEFINE T == {k \in 0..n : View(P[k], t) = p[k]}
  <2>5. 0 \in T
    BY <2>2, <2>4 DEF Path
  <2>6. ASSUME NEW k \in 0..n, k \in T, k < n
        PROVE  k + 1 \in T
    <3>1. k + 1 \in 1..n /\ k + 1 \in 0..n /\ (k + 1) - 1 = k
      BY <2>6
    <3>2. P[k + 1] = Apply(P[k], Queue[k + 1]) /\ P[k] \in Collectors /\ View(P[k], t) = p[k]
      BY <2>4, <2>6, <3>1
    <3>3. Queue[k + 1] \in Events
      BY <2>3, <3>1
    <3>4. View(P[k + 1], t) = Seen(p[k], Queue[k + 1], t)
      BY <2>3, <3>2, <3>3, Applied
    <3>5. p[k + 1] = Seen(p[k], ring[k + 1], t)
      BY <2>1, <2>2, <3>1 DEF Path
    <3> QED
      BY <1>6, <3>1, <3>4, <3>5
  <2>7. n \in T
    <3> HIDE DEF T
    <3>1. \A k \in 0..n : k \in T
      BY <2>1, <2>5, <2>6, BoundedInduction
    <3> QED
      BY <3>1
  <2>8. PICK v : v = p[n]
    OBVIOUS
  <2>9. View(State, t)' = v
    <3>1. State' = P[n]
      BY <1>2, <2>4
    <3>2. View(P[n], t) = v
      BY <2>7, <2>8
    <3>3. View(State, t)' = View(P[n], t)
      BY <3>1 DEF View
    <3> QED
      BY <3>2, <3>3
  <2>10. v \in Views /\ v \in Views'
    <3>1. Views' = Views
      BY <1>1, Meanwhile DEF Views
    <3> QED
      BY <2>1, <2>2, <2>8, <3>1
  <2>11. Agrees(v, t)'
    <3>1. Agrees(v, t)
      BY <2>2, <2>8
    <3> QED
      BY <1>1, <3>1 DEF Agrees, Given, Really, Awake
  <2>12. PICK r : r = [k \in 0..0 |-> v]
    OBVIOUS
  <2>13. Len(ring') = 0
    BY <1>2
  <2>14. r[0] = v /\ r \in [0..0 -> Views']
    BY <2>10, <2>12
  <2>15. Path(r, t)'
    <3>1. r[0] = View(State, t)' /\ ~\E k : k \in 1..Len(ring')
      BY <2>9, <2>13, <2>14
    <3> QED
      BY <3>1 DEF Path
  <2>16. Agrees(r[Len(ring)], t)'
    BY <2>11, <2>13, <2>14 DEF Agrees, Given
  <2> QED
    BY <2>13, <2>14, <2>15, <2>16 DEF Traced
<1> QED
  BY <1>3, <1>4, <1>5, <1>6 DEF Told, Timed

(* From any view on, the ring leads somewhere.                             *)
LEMMA Leads ==
    ASSUME now \in Nat, NEW t \in Tids, NEW q \in Seq(Events), NEW v \in Views
    PROVE  \E r \in [0..Len(q) -> Views] :
              r[0] = v /\ \A k \in 1..Len(q) : r[k] = Seen(r[k - 1], q[k], t)
<1> DEFINE n == Len(q)
    Upto(r, k) == r[0] = v /\ \A j \in 1..k : r[j] = Seen(r[j - 1], q[j], t)
    T == {k \in 0..n : \E r \in [0..k -> Views] : Upto(r, k)}
<1>1. n \in Nat
  OBVIOUS
<1>2. 0 \in T
  <2> DEFINE r == [k \in 0..0 |-> v]
  <2>1. r \in [0..0 -> Views] /\ r[0] = v /\ 1..0 = {}
    OBVIOUS
  <2> HIDE DEF r
  <2>2. Upto(r, 0)
    BY <2>1
  <2> HIDE DEF Upto
  <2> QED
    BY <1>1, <2>1, <2>2
<1>3. ASSUME NEW k \in 0..n, k \in T, k < n
      PROVE  k + 1 \in T
  <2>1. PICK p \in [0..k -> Views] : Upto(p, k)
    BY <1>3
  <2> DEFINE w == Seen(p[k], q[k + 1], t)
      r == [j \in 0..(k + 1) |-> IF j = k + 1 THEN w ELSE p[j]]
  <2>2. k + 1 \in 0..n /\ k + 1 \in 1..n /\ k \in Nat /\ k \in 0..k
    BY <1>1, <1>3
  <2>3. q[k + 1] \in Events /\ p[k] \in Views
    BY <2>2
  <2>4. w \in Views
    BY <2>3, SeenTyped
  <2> HIDE DEF w
  <2>5. \A j \in 0..(k + 1) : j # k + 1 => j \in 0..k
    BY <2>2
  <2>6. r \in [0..(k + 1) -> Views]
    BY <2>4, <2>5
  <2>7. r[k + 1] = w /\ \A j \in 0..k : r[j] = p[j]
    <3>1. k + 1 \in 0..(k + 1) /\ \A j \in 0..k : j # k + 1 /\ j \in 0..(k + 1)
      BY <2>2
    <3> QED
      BY <3>1
  <2> HIDE DEF r
  <2>8. r[0] = v
    BY <2>1, <2>2, <2>7
  <2>9. ASSUME NEW j \in 1..(k + 1)
        PROVE  r[j] = Seen(r[j - 1], q[j], t)
    <3>1. CASE j = k + 1
      <4>1. j - 1 = k /\ r[k] = p[k]
        BY <2>2, <2>7, <3>1
      <4> QED
        BY <2>7, <3>1, <4>1 DEF w
    <3>2. CASE j # k + 1
      <4>1. j \in 1..k /\ j \in 0..k /\ j - 1 \in 0..k
        BY <2>2, <3>2
      <4>2. r[j] = p[j] /\ r[j - 1] = p[j - 1]
        BY <2>7, <4>1
      <4> QED
        BY <2>1, <4>1, <4>2
    <3> QED
      BY <3>1, <3>2
  <2>10. Upto(r, k + 1)
    BY <2>8, <2>9
  <2> HIDE DEF Upto, n
  <2> QED
    BY <2>2, <2>6, <2>10
<1>4. n \in T
  <2> HIDE DEF T
  <2>1. \A k \in 0..n : k \in T
    BY <1>1, <1>2, <1>3, BoundedInduction
  <2> QED
    BY <1>1, <2>1
<1> QED
  BY <1>4

(* An open interval that is split at a time between started and at.        *)
LEMMA SplitTime ==
    ASSUME NEW s \in Nat, NEW d \in Nat, NEW a \in Nat, NEW n \in Nat, s <= d, d <= a, a <= n
    PROVE  /\ Minus(a, s) = a - s /\ Minus(n, s) = n - s /\ Minus(a, n) = 0
           /\ a - s <= n - s /\ n - s <= (a - s) + (n - d) /\ n - s \in Nat /\ a - s \in Nat
  BY DEF Minus

(* What splitting the open interval of a thread does to the views on its   *)
(* path: they give as much, or, once a switch-in has closed the interval,  *)
(* at most the time since the last drain more.                             *)
Split(v, r, t) ==
    \/ /\ v.open = pending[t] /\ r.open = Restarted(pending[t])
       /\ r.given = v.given + (now - pending[t].started)
    \/ /\ v.open = r.open
       /\ v.given <= r.given /\ r.given <= v.given + (now - drainedAt)

LEMMA SplitSeen ==
    ASSUME Sound, NEW t \in Tids, NEW e \in Events, NEW v \in Views, NEW r \in Views, Split(v, r, t),
           pending[t] # NoInterval, pending[t].started <= drainedAt, drainedAt <= e.at,
           e.tid = t /\ e.kind = "out" => v.open = NoInterval
    PROVE  /\ Split(Seen(v, e, t), Seen(r, e, t), t)
           /\ e.tid = t /\ e.kind = "out" => r.open = NoInterval
<1>1. /\ now \in Nat /\ drainedAt \in Nat /\ drainedAt <= now
      /\ e.at \in Nat /\ e.at <= now /\ v.given \in Nat /\ r.given \in Nat
      /\ v.open \in Intervals \cup {NoInterval} /\ r.open \in Intervals \cup {NoInterval}
  BY Clocks DEF Events, EventSet, Views
<1>2. pending[t].started \in Nat /\ pending[t] \in Intervals
  BY <1>1, Clocks, IntervalFacts
<1>3. /\ Restarted(pending[t]) = [stack |-> pending[t].stack, started |-> now]
      /\ Restarted(pending[t]) # NoInterval
  <2>1. pending[t] \in [stack : Stacks, started : 0..now] /\ pending[t].stack # NoStack
    BY <1>2 DEF Intervals
  <2>2. Restarted(pending[t]) = [stack |-> pending[t].stack, started |-> now]
    BY <2>1 DEF Restarted
  <2> QED
    BY <2>1, <2>2 DEF NoInterval
<1>4. CASE /\ v.open = pending[t] /\ r.open = Restarted(pending[t])
           /\ r.given = v.given + (now - pending[t].started)
  <2>1. ~(e.tid = t /\ e.kind = "out")
    BY <1>4
  <2>2. CASE e.tid # t
    BY <1>4, <2>2 DEF Seen, Split
  <2>3. CASE e.tid = t
    <3>1. Seen(v, e, t) = [open |-> NoInterval, given |-> v.given + Minus(e.at, pending[t].started)]
      BY <1>4, <2>1, <2>3 DEF Seen
    <3>2. Seen(r, e, t) = [open |-> NoInterval, given |-> r.given + Minus(e.at, now)]
      <4>1. r.open.started = now /\ r.open # NoInterval
        BY <1>3, <1>4
      <4> QED
        BY <2>1, <2>3, <4>1 DEF Seen
    <3>3. /\ Minus(e.at, pending[t].started) = e.at - pending[t].started /\ Minus(e.at, now) = 0
          /\ e.at - pending[t].started <= now - pending[t].started
          /\ now - pending[t].started <= (e.at - pending[t].started) + (now - drainedAt)
          /\ now - pending[t].started \in Nat /\ e.at - pending[t].started \in Nat
      BY <1>1, <1>2, SplitTime
    <3>4. PICK a \in Nat, b \in Nat, c \in Nat : a = e.at - pending[t].started /\ b = now - pending[t].started
                                                 /\ c = now - drainedAt
      BY <1>1, <3>3
    <3>5. /\ Seen(v, e, t).open = NoInterval /\ Seen(v, e, t).given = v.given + a
          /\ Seen(r, e, t).open = NoInterval /\ Seen(r, e, t).given = v.given + b
      BY <1>1, <1>4, <3>1, <3>2, <3>3, <3>4
    <3>6. v.given + a <= v.given + b /\ v.given + b <= (v.given + a) + c
      BY <1>1, <3>3, <3>4
    <3> QED
      BY <2>1, <3>4, <3>5, <3>6 DEF Split
  <2> QED
    BY <2>2, <2>3
<1>5. CASE /\ v.open = r.open
           /\ v.given <= r.given /\ r.given <= v.given + (now - drainedAt)
  <2>1. e.tid = t /\ e.kind = "out" => r.open = NoInterval
    BY <1>5
  <2>2. CASE e.tid = t /\ e.kind = "out" /\ e.stack # NoStack
    <3>1. /\ Seen(v, e, t) = [open |-> [stack |-> e.stack, started |-> e.at], given |-> v.given]
          /\ Seen(r, e, t) = [open |-> [stack |-> e.stack, started |-> e.at], given |-> r.given]
      BY <2>2 DEF Seen
    <3> QED
      BY <1>5, <2>1, <3>1 DEF Split
  <2>3. CASE e.tid = t /\ e.kind # "out" /\ v.open # NoInterval
    <3>1. PICK m : m = Minus(e.at, v.open.started)
      OBVIOUS
    <3>2. m \in Nat
      BY <1>1, <2>3, <3>1, IntervalFacts DEF Minus
    <3>3. /\ Seen(v, e, t) = [open |-> NoInterval, given |-> v.given + m]
          /\ Seen(r, e, t) = [open |-> NoInterval, given |-> r.given + m]
      BY <1>5, <2>3, <3>1 DEF Seen
    <3>4. v.given + m <= r.given + m /\ r.given + m <= (v.given + m) + (now - drainedAt)
      BY <1>1, <1>5, <3>2
    <3> QED
      BY <2>1, <3>3, <3>4 DEF Split
  <2>4. CASE \/ e.tid # t
             \/ e.kind = "out" /\ e.stack = NoStack
             \/ e.kind # "out" /\ v.open = NoInterval
    <3>1. Seen(v, e, t) = v /\ Seen(r, e, t) = r
      BY <1>5, <2>4 DEF Seen
    <3> QED
      BY <2>1, <3>1
  <2> QED
    BY <2>2, <2>3, <2>4
<1> QED
  BY <1>4, <1>5 DEF Split

LEMMA NothingLost ==
    ASSUME NEW s \in Nat, NEW p \in Nat, NEW q \in Nat, NEW r \in Nat, p <= s,
           ~(s + 0 + (r + ((s - p) + q)) > 0)
    PROVE  s = 0 /\ q = 0 /\ r = 0
  OBVIOUS

LEMMA Lengthened ==
    ASSUME NEW a \in Nat, NEW s \in Nat, NEW d \in Nat, NEW n \in Nat, s <= d, d <= n
    PROVE  a + (n - s) \in Nat
  OBVIOUS

LEMMA SplitTold ==
    ASSUME Sound, Told, SnapshotSplit
    PROVE  Told'
<1>1. /\ pc = "split" /\ pc' = "loop"
      /\ pending' = [t \in Tids |-> IF t \in Open THEN Restarted(pending[t]) ELSE NoInterval]
      /\ attributed' = SplitInto(State, Open).attributed
      /\ slack' = [t \in Tids |-> IF t \in Open THEN slack[t] + (now - drainedAt) ELSE slack[t]]
      /\ reported'.drops = reported.drops + WindowDrops /\ queueDrops' = 0
      /\ UNCHANGED <<now, thread, member, moves, asleep, slept, tracked, ring, stats>>
      /\ UNCHANGED <<emitted, applied, drainedAt, uprooted, strays>>
  BY DEF SnapshotSplit, Open, schedulerVars
<1>2. /\ now \in Nat /\ drainedAt \in Nat /\ drainedAt <= now /\ Len(ring) \in Nat /\ ring \in Seq(Events)
  BY Clocks
<1>3. Resting' /\ Followed' /\ Fresh'
  BY <1>1 DEF Told, Resting, Followed, Fresh, Awake
<1>4. ASSUME Clean'
      PROVE  Clean
  <2>1. /\ stats.drops \in Nat /\ previous.drops \in Nat /\ previous.drops <= stats.drops
        /\ queueDrops \in Nat /\ reported.drops \in Nat
    BY NumberedFields
  <2>2. /\ ~(stats.drops + 0 + (reported.drops + ((stats.drops - previous.drops) + queueDrops)) > 0)
        /\ uprooted = {}
    BY <1>1, <1>4 DEF Clean, Dropped, WindowDrops
  <2>3. stats.drops = 0 /\ queueDrops = 0 /\ reported.drops = 0
    BY <2>1, <2>2, NothingLost
  <2> QED
    BY <2>2, <2>3 DEF Clean, Dropped
<1>5. \A t \in Tids : attributed'[t] = IF t \in Open THEN attributed[t] + Elapsed(t) ELSE attributed[t]
  <2>1. Open \in SUBSET Tids /\ \A t \in Open : pending[t] \in Intervals
    BY NumberedFields DEF Open
  <2>2. State \in Collectors /\ State.attributed = attributed
    BY NumberedFields DEF State
  <2> QED
    BY <1>1, <1>2, <2>1, <2>2, AllCharged
<1>6. Views' = Views
  BY <1>1, Meanwhile DEF Views
<1>7. ASSUME NEW t \in Tids, Traced(t)
      PROVE  Traced(t)'
  <2>1. CASE t \notin Open
    <3>1. pending[t] = NoInterval /\ pending'[t] = NoInterval /\ attributed'[t] = attributed[t]
          /\ slack'[t] = slack[t]
      BY <1>1, <1>5, <2>1 DEF Open
    <3>2. View(State, t)' = View(State, t)
      BY <3>1 DEF View, State
    <3> QED
      BY <1>1, <1>7, <3>1, <3>2, SameTraced
  <2>2. CASE t \in Open
    <3>1. PICK n \in Nat : n = Len(ring)
      BY <1>2
    <3>2. PICK p \in [0..n -> Views] : Path(p, t) /\ Agrees(p[n], t)
      BY <1>7, <3>1 DEF Traced
    <3>3. /\ pending[t] # NoInterval /\ pending[t] \in Intervals /\ pending[t].started <= drainedAt
          /\ pending[t].started \in Nat /\ attributed[t] \in Nat /\ slack[t] \in Nat
          /\ pending'[t] = Restarted(pending[t]) /\ slack'[t] = slack[t] + (now - drainedAt)
      <4>1. pending[t] # NoInterval
        BY <2>2 DEF Open
      <4>2. pending[t] \in Intervals \cup {NoInterval} /\ attributed[t] \in Nat /\ slack[t] \in Nat
        BY Clocks
      <4>3. pending[t] \in Intervals /\ pending[t].started \in Nat
        BY <1>2, <4>1, <4>2, IntervalFacts
      <4>4. pending[t].started <= drainedAt
        BY <1>1, <2>2 DEF Told, Fresh
      <4> QED
        BY <1>1, <2>2, <4>1, <4>2, <4>3, <4>4
    <3>4. attributed'[t] = attributed[t] + (now - pending[t].started)
      BY <1>2, <1>5, <2>2, <3>3 DEF Elapsed, Minus
    <3>5. PICK w : w = View(State, t)'
      OBVIOUS
    <3>6. w = [open |-> Restarted(pending[t]), given |-> attributed[t] + (now - pending[t].started)]
      <4>1. w = [open |-> pending'[t], given |-> attributed'[t]]
        BY <3>5 DEF View, State
      <4> QED
        BY <3>3, <3>4, <4>1
    <3>7. Restarted(pending[t]) \in Intervals /\ Restarted(pending[t]).started = now
          /\ Restarted(pending[t]) # NoInterval
      <4>1. pending[t] \in [stack : Stacks, started : 0..now] /\ pending[t].stack # NoStack
        BY <3>3 DEF Intervals
      <4>2. Restarted(pending[t]) = [stack |-> pending[t].stack, started |-> now] /\ now \in 0..now
        BY <1>2, <4>1 DEF Restarted
      <4> QED
        BY <4>1, <4>2 DEF NoInterval, Intervals
    <3>8. w \in Views /\ w.open = Restarted(pending[t]) /\ w.given = attributed[t] + (now - pending[t].started)
      <4>1. attributed[t] + (now - pending[t].started) \in Nat
        BY <1>2, <3>3, Lengthened
      <4>2. /\ w = [open |-> w.open, given |-> w.given]
            /\ w.open = Restarted(pending[t]) /\ w.given = attributed[t] + (now - pending[t].started)
        BY <3>6
      <4>3. w.open \in Intervals /\ w.given \in Nat
        BY <3>7, <4>1, <4>2
      <4> QED
        BY <4>2, <4>3 DEF Views
    <3>9. PICK r \in [0..n -> Views] : r[0] = w /\ \A k \in 1..n : r[k] = Seen(r[k - 1], ring[k], t)
      BY <1>2, <3>1, <3>8, Leads
    <3> DEFINE T == {k \in 0..n : Split(p[k], r[k], t)}
    <3>10. 0 \in T
      <4>1. p[0].open = pending[t] /\ p[0].given = attributed[t]
        BY <3>2 DEF Path, View, State
      <4> QED
        BY <3>8, <3>9, <4>1 DEF Split
    <3>11. ASSUME NEW k \in 0..n, k \in T, k < n
           PROVE  /\ k + 1 \in T
                  /\ ring[k + 1].tid = t /\ ring[k + 1].kind = "out" => r[k].open = NoInterval
      <4>1. k + 1 \in 1..n /\ k + 1 \in 0..n /\ (k + 1) - 1 = k
        BY <3>11
      <4>2. p[k] \in Views /\ r[k] \in Views /\ ring[k + 1] \in Events /\ ring[k + 1].at >= drainedAt
        BY <1>2, <3>1, <4>1 DEF Told, Fresh
      <4>3. /\ p[k + 1] = Seen(p[k], ring[k + 1], t)
            /\ ring[k + 1].tid = t /\ ring[k + 1].kind = "out" => p[k].open = NoInterval
        BY <3>1, <3>2, <4>1 DEF Path
      <4>4. r[k + 1] = Seen(r[k], ring[k + 1], t)
        BY <3>9, <4>1
      <4>5. Split(p[k], r[k], t)
        BY <3>11
      <4>6. drainedAt <= ring[k + 1].at
        BY <1>2, <4>2 DEF Events, EventSet
      <4>7. /\ Split(Seen(p[k], ring[k + 1], t), Seen(r[k], ring[k + 1], t), t)
            /\ ring[k + 1].tid = t /\ ring[k + 1].kind = "out" => r[k].open = NoInterval
        BY <3>3, <4>2, <4>3, <4>5, <4>6, SplitSeen
      <4> QED
        BY <4>1, <4>3, <4>4, <4>7
    <3>12. \A k \in 0..n : k \in T
      <4> HIDE DEF T
      <4>1. \A k \in 0..n : k \in T /\ k < n => k + 1 \in T
        BY <3>11
      <4> QED
        BY <3>10, <4>1, BoundedInduction
    <3>13. \A k \in 1..n : ring[k].tid = t /\ ring[k].kind = "out" => r[k - 1].open = NoInterval
      <4> SUFFICES ASSUME NEW k \in 1..n
                   PROVE  ring[k].tid = t /\ ring[k].kind = "out" => r[k - 1].open = NoInterval
        OBVIOUS
      <4>1. k - 1 \in 0..n /\ k - 1 < n /\ (k - 1) + 1 = k
        OBVIOUS
      <4>2. k - 1 \in T
        BY <3>12, <4>1
      <4> HIDE DEF T
      <4> QED
        BY <3>11, <4>1, <4>2
    <3>14. Path(r, t)'
      BY <1>1, <3>1, <3>5, <3>9, <3>13 DEF Path
    <3>15. PICK v : v = r[n]
      OBVIOUS
    <3>16. Agrees(v, t)'
      <4>1. Split(p[n], v, t) /\ p[n] \in Views /\ v \in Views /\ Agrees(p[n], t)
        BY <3>2, <3>9, <3>12, <3>15
      <4>2. /\ p[n].given \in Nat /\ v.given \in Nat
            /\ p[n].open \in Intervals \cup {NoInterval} /\ v.open \in Intervals \cup {NoInterval}
        BY <4>1 DEF Views
      <4>3. /\ Given(p[n]) <= Given(v) /\ Given(v) <= Given(p[n]) + (now - drainedAt)
            /\ Given(p[n]) \in Nat /\ Given(v) \in Nat
            /\ v.open = NoInterval <=> p[n].open = NoInterval
        <5>1. CASE /\ p[n].open = pending[t] /\ v.open = Restarted(pending[t])
                   /\ v.given = p[n].given + (now - pending[t].started)
          <6>1. Given(p[n]) = p[n].given + (now - pending[t].started)
            BY <3>3, <5>1 DEF Given
          <6>2. Given(v) = v.given + (now - now)
            BY <3>7, <5>1 DEF Given
          <6>3. Given(v) = Given(p[n])
            BY <1>2, <4>2, <5>1, <6>1, <6>2
          <6>4. Given(p[n]) \in Nat
            BY <1>2, <3>3, <4>2, <6>1, Lengthened
          <6> QED
            BY <1>2, <3>3, <3>7, <5>1, <6>3, <6>4
        <5>2. CASE /\ p[n].open = v.open
                   /\ p[n].given <= v.given /\ v.given <= p[n].given + (now - drainedAt)
          <6>1. PICK m : m = IF v.open = NoInterval THEN 0 ELSE now - v.open.started
            OBVIOUS
          <6>2. m \in Nat
            BY <1>2, <4>2, <6>1, IntervalFacts
          <6>3. Given(p[n]) = p[n].given + m /\ Given(v) = v.given + m
            BY <5>2, <6>1 DEF Given
          <6> QED
            BY <1>2, <4>2, <5>2, <6>2, <6>3
        <5> QED
          BY <4>1, <5>1, <5>2 DEF Split
      <4>4. PICK g \in Nat, h \in Nat : g = Given(p[n]) /\ h = Given(v)
        BY <4>3
      <4>5. Really(t) \in Nat
        BY Clocks DEF Really
      <4>6. Really(t) <= g /\ g <= Really(t) + slack[t]
        BY <4>1, <4>4 DEF Agrees
      <4>7. Really(t) <= h /\ h <= Really(t) + (slack[t] + (now - drainedAt))
        <5>1. PICK b \in Nat, w0 \in Nat : b = slack[t] /\ w0 = now - drainedAt
          BY <1>2, <3>3
        <5>2. g <= h /\ h <= g + w0
          BY <4>3, <4>4, <5>1
        <5>3. Really(t) <= g /\ g <= Really(t) + b
          BY <4>6, <5>1
        <5>4. Really(t) <= h /\ h <= Really(t) + (b + w0)
          BY <4>5, <5>2, <5>3
        <5> QED
          BY <5>1, <5>4
      <4>8. Given(v)' = h /\ Really(t)' = Really(t)
        BY <1>1, <4>4 DEF Given, Really, Awake
      <4> QED
        BY <1>1, <3>3, <4>1, <4>3, <4>7, <4>8 DEF Agrees, Awake
    <3>17. Agrees(r[Len(ring)], t)'
      <4>1. r[Len(ring')] = v
        BY <1>1, <3>1, <3>15
      <4> QED
        BY <3>16, <4>1 DEF Agrees, Given
    <3> QED
      BY <1>1, <1>6, <3>1, <3>9, <3>14, <3>17 DEF Traced
  <2> QED
    BY <2>1, <2>2
<1> QED
  BY <1>3, <1>4, <1>7 DEF Told, Timed

LEMMA StutterTold == Sound /\ Told /\ UNCHANGED vars => Told'
<1> SUFFICES ASSUME Sound, Told, UNCHANGED vars PROVE Told'
  OBVIOUS
<1>1. /\ UNCHANGED <<now, thread, member, moves, asleep, slept, tracked, previous, queueDrops, pending, window, pc>>
      /\ UNCHANGED <<emitted, applied, reported, attributed, slack, drainedAt, uprooted, strays, ring, stats>>
  BY DEF vars, schedulerVars, collectorVars, historyVars
<1>2. Resting' /\ Followed' /\ Fresh'
  BY <1>1 DEF Told, Resting, Followed, Fresh, Open, Awake
<1>3. ASSUME NEW t \in Tids, Traced(t)
      PROVE  Traced(t)'
  BY <1>1, <1>3, SameTraced DEF View, State
<1>4. Clean' => Clean
  BY <1>1 DEF Clean, Dropped
<1> QED
  BY <1>2, <1>3, <1>4 DEF Told, Timed

LEMMA StepTold == Sound /\ Told /\ [Next]_vars => Told'
<1> SUFFICES ASSUME Sound, Told, [Next]_vars PROVE Told'
  OBVIOUS
<1>1. CASE Tick
  BY <1>1, TickTold
<1>2. ASSUME NEW t \in Tids, Start(t) \/ Move(t) \/ Exit(t)
      PROVE  Told'
  BY <1>2, ThreadTold
<1>3. ASSUME NEW t \in Tids, SwitchOut(t)
      PROVE  Told'
  BY <1>3, SwitchOutTold
<1>4. ASSUME NEW t \in Tids, SwitchIn(t)
      PROVE  Told'
  BY <1>4, SwitchInTold
<1>5. CASE Reconcile
  BY <1>5, ReconcileTold
<1>6. CASE Drain \/ SnapshotDrain
  BY <1>6, DrainTold
<1>7. CASE SnapshotSplit
  BY <1>7, SplitTold
<1>8. CASE UNCHANGED vars
  BY <1>8, StutterTold
<1> QED
  BY <1>1, <1>2, <1>3, <1>4, <1>5, <1>6, <1>7, <1>8 DEF Next, Scheduler, Collector

(* At an empty ring the path is where the collector is.                    *)
LEMMA ToldTime == Sound /\ Told => TimeAttributed
<1> SUFFICES ASSUME Sound, Told, ring = <<>>, ~Dropped, uprooted = {}, NEW t \in Tids
             PROVE  LET given  == attributed[t] + (IF pending[t] = NoInterval THEN 0 ELSE now - pending[t].started)
                        really == slept[t] + (IF asleep[t] = Awake THEN 0 ELSE now - asleep[t])
                    IN  really <= given /\ given <= really + slack[t]
  BY DEF TimeAttributed
<1>1. Traced(t)
  BY DEF Told, Timed, Clean
<1>2. Len(ring) = 0
  OBVIOUS
<1>3. PICK p \in [0..0 -> Views] : Path(p, t) /\ Agrees(p[0], t)
  BY <1>1, <1>2 DEF Traced
<1>4. p[0].open = pending[t] /\ p[0].given = attributed[t]
  BY <1>3 DEF Path, View, State
<1> QED
  BY <1>3, <1>4 DEF Agrees, Given, Really

(* As long as nothing is lost and every thread stays, apply() and          *)
(* snapshot_window() together give a thread all the time it was off CPU,   *)
(* and at most the time between drains and boundaries more.                *)
THEOREM TimeIsAttributed == Spec => []TimeAttributed
<1>1. Sound /\ Told /\ [Next]_vars => (Sound /\ Told)'
  BY StepSound, StepTold
<1> QED
  BY <1>1, Initially, InitiallyTold, ToldTime, PTL DEF Spec
=============================================================================
