----------------------------- MODULE ServiceProofs -----------------------------
(***************************************************************************)
(* Theorems about the parts that run beside a recording or inside it:      *)
(* EventSorter, for every limit and every reorder window, and that batches *)
(* of samples pass it as SorterContract says; OtlpClient, for every number *)
(* of payloads and attempts, every limit of a delay and every delay an     *)
(* endpoint may ask for, and that it is ExportStep; Launch, for every      *)
(* number of descendants the child may start; Import, for every capture    *)
(* and every number of windows that wait; Gallery, for every number of     *)
(* connections, jobs, entries of a directory and files shown; and all of   *)
(* them with Encoders (EncoderProofs) side by side, as MCServices has      *)
(* them.                                                                   *)
(***************************************************************************)
EXTENDS MCServices, EncoderProofs, SequenceTheorems

-----------------------------------------------------------------------------
(* The reorder buffer of perf samples.                                     *)

(* Samples are told apart by their arrival numbers, which only grow.       *)
Numbered ==
    /\ \A s \in pending : s.number <= arrived
    /\ \A s, t \in pending : s.number = t.number => s = t
    /\ \A i \in 1..Len(emitted) : emitted[i].number <= arrived

(* What was emitted as ready is behind the watermark ...                   *)
BehindWatermark ==
    \A i \in 1..Len(emitted) : emitted[i].cause = "ready" => emitted[i].time <= Watermark

(* ... and before everything that waits, except what came too late.        *)
Barrier ==
    \A i \in 1..Len(emitted) : \A s \in pending :
        \/ Before(emitted[i], s)
        \/ s.skew > Reorder
        \/ emitted[i].cause # "ready"

Ordering == TypeOK /\ Numbered /\ BehindWatermark /\ Barrier /\ InOrder

(* Popping the oldest sample keeps the order, whatever it is popped for,   *)
(* as long as "ready" is said only of samples behind the watermark.        *)
LEMMA PopKeepsOrder ==
    ASSUME Ordering, NEW s \in pending, NEW cause \in Causes, PopOldest(s, cause),
           cause = "ready" => IsReady(s), UNCHANGED <<maxSeen, arrived>>
    PROVE  /\ emitted' \in Seq(Emitted)
           /\ Numbered' /\ BehindWatermark' /\ Barrier' /\ InOrder'
<1> DEFINE e == [time |-> s.time, number |-> s.number, skew |-> s.skew, cause |-> cause]
<1>1. emitted \in Seq(Emitted) /\ pending \subseteq Samples /\ s \in Samples
  BY DEF Ordering, TypeOK
<1>2. e \in Emitted
  BY <1>1 DEF Samples, Emitted
<1>3. emitted' = Append(emitted, e) /\ pending' = pending \ {s}
  BY DEF PopOldest, Without
<1>4. /\ emitted' \in Seq(Emitted)
      /\ Len(emitted') = Len(emitted) + 1
      /\ \A i \in 1..Len(emitted) : emitted'[i] = emitted[i]
      /\ emitted'[Len(emitted) + 1] = e
      /\ Len(emitted) \in Nat
  BY <1>1, <1>2, <1>3, AppendProperties
<1> HIDE DEF e
<1>5. e.time = s.time /\ e.number = s.number /\ e.skew = s.skew /\ e.cause = cause
  BY DEF e
<1>6. \A i \in 1..Len(emitted') : i \in 1..Len(emitted) \/ i = Len(emitted) + 1
  BY <1>4
<1>7. Numbered'
  BY <1>3, <1>4, <1>5, <1>6 DEF Ordering, Numbered
<1>8. BehindWatermark'
  BY <1>4, <1>5, <1>6 DEF Ordering, BehindWatermark, Watermark, Minus, IsReady
<1>9. Barrier'
  <2> SUFFICES ASSUME NEW i \in 1..Len(emitted'), NEW t \in pending'
               PROVE  \/ Before(emitted'[i], t)
                      \/ t.skew > Reorder
                      \/ emitted'[i].cause # "ready"
    BY DEF Barrier
  <2>1. CASE i \in 1..Len(emitted)
    BY <2>1, <1>3, <1>4 DEF Ordering, Barrier
  <2>2. CASE i = Len(emitted) + 1
    <3>1. t \in pending /\ t # s /\ ~Before(t, s)
      BY <1>3 DEF PopOldest, IsOldest
    <3>2. t.number # s.number
      BY <3>1 DEF Ordering, Numbered
    <3>3. t \in Samples
      BY <1>1, <3>1
    <3>4. Before(s, t)
      BY <1>1, <3>1, <3>2, <3>3 DEF Before, Samples
    <3> QED
      BY <2>2, <1>4, <1>5, <3>4 DEF Before
  <2> QED
    BY <2>1, <2>2, <1>6
<1>10. InOrder'
  <2> SUFFICES ASSUME NEW i \in 1..Len(emitted'), NEW j \in 1..Len(emitted'), i < j
               PROVE  \/ Before(emitted'[i], emitted'[j])
                      \/ emitted'[j].skew > Reorder
                      \/ emitted'[i].cause # "ready"
    BY DEF InOrder
  <2>1. i \in 1..Len(emitted)
    BY <1>4
  <2>2. CASE j \in 1..Len(emitted)
    BY <2>1, <2>2, <1>4 DEF Ordering, InOrder
  <2>3. CASE j = Len(emitted) + 1
    <3>1. \/ Before(emitted[i], s)
          \/ s.skew > Reorder
          \/ emitted[i].cause # "ready"
      BY <2>1 DEF Ordering, Barrier
    <3> QED
      BY <2>1, <2>3, <1>4, <1>5, <3>1 DEF Before
  <2> QED
    BY <2>2, <2>3, <1>6
<1> QED
  BY <1>4, <1>7, <1>8, <1>9, <1>10

(* A new sample that is not too late belongs behind the watermark it found.*)
LEMMA PushKeepsOrder == Ordering /\ Push => (Numbered /\ BehindWatermark /\ Barrier /\ InOrder)'
<1> SUFFICES ASSUME Ordering, Push
             PROVE  (Numbered /\ BehindWatermark /\ Barrier /\ InOrder)'
  OBVIOUS
<1>1. PICK time \in 0..MaxTime :
        /\ pending' = pending \cup
                {[time |-> time, number |-> arrived + 1, skew |-> Minus(maxSeen, time)]}
        /\ maxSeen' = Larger(maxSeen, time)
  BY DEF Push
<1> DEFINE x == [time |-> time, number |-> arrived + 1, skew |-> Minus(maxSeen, time)]
<1>2. x.time = time /\ x.number = arrived + 1 /\ x.skew = Minus(maxSeen, time)
  OBVIOUS
<1>3. pending' = pending \cup {x}
  BY <1>1
<1> HIDE DEF x
<1>4. /\ emitted' = emitted /\ emitted \in Seq(Emitted) /\ Len(emitted) \in Nat
      /\ arrived' = arrived + 1 /\ arrived \in Nat /\ maxSeen \in Nat /\ time \in Nat /\ Reorder \in Nat
      /\ pending \subseteq Samples
  BY SorterAssumption DEF Push, Ordering, TypeOK
<1>5. \A i \in 1..Len(emitted) : emitted[i] \in Emitted
  BY <1>4, ElementOfSeq
<1>6. \A i \in 1..Len(emitted) : emitted[i].time \in Nat /\ emitted[i].number \in Nat
  BY <1>5 DEF Emitted
<1>7. \A s \in pending : s.number \in Nat
  BY <1>4 DEF Samples
<1>8. Numbered'
  BY <1>2, <1>3, <1>4, <1>6, <1>7 DEF Ordering, Numbered
<1>9. BehindWatermark'
  <2>1. Watermark <= Watermark' /\ Watermark \in Nat /\ Watermark' \in Nat
    BY <1>1, <1>4 DEF Watermark, Minus, Larger
  <2> QED
    BY <2>1, <1>4, <1>6 DEF Ordering, BehindWatermark
<1>10. Barrier'
  <2> SUFFICES ASSUME NEW i \in 1..Len(emitted), NEW s \in pending',
                      ~(s.skew > Reorder), emitted[i].cause = "ready"
               PROVE  Before(emitted[i], s)
    BY <1>4 DEF Barrier
  <2>1. CASE s \in pending
    BY <2>1 DEF Ordering, Barrier
  <2>2. CASE s = x
    <3>1. emitted[i].time <= Watermark
      BY DEF Ordering, BehindWatermark
    <3>2. Watermark <= x.time
      BY <2>2, <1>2, <1>4 DEF Watermark, Minus
    <3>3. emitted[i].number < x.number
      BY <1>2, <1>4, <1>6 DEF Ordering, Numbered
    <3> QED
      BY <2>2, <3>1, <3>2, <3>3, <1>2, <1>4, <1>6 DEF Before, Watermark, Minus
  <2> QED
    BY <2>1, <2>2, <1>3
<1>11. InOrder'
  BY <1>4 DEF Ordering, InOrder
<1> QED
  BY <1>8, <1>9, <1>10, <1>11

(* The size of the buffer: one sample fewer ...                            *)
LEMMA PopKeepsBound ==
    ASSUME TypeOK, Bounded, NEW s \in pending, NEW cause \in Causes, PopOldest(s, cause),
           UNCHANGED <<phase, peak>>
    PROVE  Bounded' /\ pendingLen' \in Nat
<1>1. pending' = pending \ {s} /\ pendingLen' = pendingLen - 1
  BY DEF PopOldest, Without
<1>2. IsFiniteSet(pending') /\ Cardinality(pending') = Cardinality(pending) - 1
  BY <1>1, FS_RemoveElement DEF Bounded
<1>3. Cardinality(pending') \in Nat
  BY <1>2, FS_CardinalityType
<1> QED
  BY <1>1, <1>2, <1>3, SorterAssumption DEF Bounded, TypeOK

(* ... or one more.                                                        *)
LEMMA PushKeepsBound == TypeOK /\ Numbered /\ Bounded /\ Push => Bounded' /\ pendingLen' \in Nat
<1> SUFFICES ASSUME TypeOK, Numbered, Bounded, Push PROVE Bounded' /\ pendingLen' \in Nat
  OBVIOUS
<1>1. PICK x : x.number = arrived + 1 /\ pending' = pending \cup {x}
  <2>1. PICK time \in 0..MaxTime : pending' = pending \cup
                {[time |-> time, number |-> arrived + 1, skew |-> Minus(maxSeen, time)]}
    BY DEF Push
  <2> DEFINE x == [time |-> time, number |-> arrived + 1, skew |-> Minus(maxSeen, time)]
  <2>2. x.number = arrived + 1 /\ pending' = pending \cup {x}
    BY <2>1
  <2> HIDE DEF x
  <2> QED
    BY <2>2
<1>2. x \notin pending
  BY <1>1 DEF Numbered, TypeOK
<1>3. IsFiniteSet(pending') /\ Cardinality(pending') = Cardinality(pending) + 1
  BY <1>1, <1>2, FS_AddElement DEF Bounded
<1> QED
  BY <1>3, SorterAssumption DEF Bounded, TypeOK, Push, Larger

(* A sample within its bounds goes in, and the rest of push's state follows.*)
LEMMA PushKeepsType == TypeOK /\ Push /\ pendingLen' \in Nat => TypeOK'
<1> SUFFICES ASSUME TypeOK, Push, pendingLen' \in Nat PROVE TypeOK'
  OBVIOUS
<1>1. PICK time \in 0..MaxTime :
        /\ pending' = pending \cup
                {[time |-> time, number |-> arrived + 1, skew |-> Minus(maxSeen, time)]}
        /\ maxSeen' = Larger(maxSeen, time)
  BY DEF Push
<1>2. arrived + 1 \in 1..MaxArrivals /\ Minus(maxSeen, time) \in 0..MaxTime /\ Larger(maxSeen, time) \in 0..MaxTime
  BY SorterAssumption DEF Push, TypeOK, Minus, Larger
<1>3. pending' \subseteq Samples
  BY <1>1, <1>2 DEF TypeOK, Samples
<1> QED
  BY <1>1, <1>2, <1>3, SorterAssumption DEF TypeOK, Push, Larger

SorterInv == Ordering /\ Bounded

LEMMA SorterStep == SorterInv /\ [Next]_vars => SorterInv'
<1> SUFFICES ASSUME SorterInv, [Next]_vars PROVE SorterInv'
  OBVIOUS
<1> USE DEF SorterInv
<1>1. CASE Push
  BY <1>1, PushKeepsOrder, PushKeepsBound, PushKeepsType DEF Ordering
<1>2. ASSUME NEW s \in pending, NEW cause \in Causes, PopOldest(s, cause),
             cause = "ready" => IsReady(s), UNCHANGED <<maxSeen, peak, phase, arrived>>,
             forced' \in Nat, reported' \in Nat
      PROVE  SorterInv'
  <2>1. pending' \subseteq Samples
    BY <1>2 DEF PopOldest, Without, Ordering, TypeOK
  <2>2. /\ emitted' \in Seq(Emitted)
        /\ Numbered' /\ BehindWatermark' /\ Barrier' /\ InOrder'
    BY <1>2, PopKeepsOrder
  <2>3. Bounded' /\ pendingLen' \in Nat
    BY <1>2, PopKeepsBound DEF Ordering
  <2> QED
    BY <1>2, <2>1, <2>2, <2>3 DEF Ordering, TypeOK
<1>3. CASE EmitReady
  <2>1. forced' \in Nat /\ reported' \in Nat
    BY <1>3 DEF EmitReady, Ordering, TypeOK
  <2> QED
    BY <1>2, <1>3, <2>1 DEF EmitReady, Causes
<1>4. CASE ForceOldest
  <2>1. forced' \in Nat /\ reported' \in Nat
    BY <1>4 DEF ForceOldest, Ordering, TypeOK
  <2> QED
    BY <1>2, <1>4, <2>1 DEF ForceOldest, Causes
<1>5. CASE FlushOldest
  <2>1. forced' \in Nat /\ reported' \in Nat
    BY <1>5 DEF FlushOldest, Ordering, TypeOK
  <2> QED
    BY <1>2, <1>5, <2>1 DEF FlushOldest, Causes
<1>6. CASE Pushed \/ Flush \/ Flushed \/ TakeStats \/ UNCHANGED vars
  <2>1. /\ UNCHANGED <<pending, pendingLen, maxSeen, emitted, arrived>>
        /\ phase' \in {"idle", "push", "flush"}
        /\ peak' \in {peak, 0}
        /\ forced' \in Nat /\ reported' \in Nat
    BY <1>6 DEF Pushed, Flush, Flushed, TakeStats, vars, Ordering, TypeOK
  <2>2. Bounded'
    <3>1. phase' # "push" => pendingLen <= MaxPending
      BY <1>6, SorterAssumption
      DEF Pushed, Flush, Flushed, TakeStats, vars, OverLimit, Bounded, Ordering, TypeOK
    <3> QED
      BY <2>1, <3>1, SorterAssumption DEF Bounded, Ordering, TypeOK
  <2>3. TypeOK'
    BY <2>1 DEF Ordering, TypeOK
  <2>4. (Numbered /\ BehindWatermark /\ Barrier /\ InOrder)'
    BY <2>1 DEF Ordering, Numbered, BehindWatermark, Barrier, InOrder, Watermark
  <2> QED
    BY <2>2, <2>3, <2>4 DEF Ordering
<1> QED
  BY <1>1, <1>3, <1>4, <1>5, <1>6 DEF Next

LEMMA SorterFirst == Init => SorterInv
  BY SorterAssumption, FS_EmptySet
  DEF Init, SorterInv, Ordering, TypeOK, Numbered, BehindWatermark, Barrier, InOrder, Bounded, Samples, Emitted

LEMMA SorterInvariant == Spec => []SorterInv
  BY SorterFirst, SorterStep, PTL DEF Spec

(* The reorder buffer never holds more than --max-pending-events samples   *)
(* between two calls, and its counter is exact.                            *)
THEOREM SorterBounded == Spec => [](TypeOK /\ Bounded)
<1>1. SorterInv => TypeOK /\ Bounded
  BY DEF SorterInv, Ordering
<1> QED
  BY <1>1, SorterInvariant, PTL

(* Within the reorder window, samples leave in the order of their          *)
(* timestamps, equal ones in the order of their arrival.                   *)
THEOREM SorterOrdered == Spec => []InOrder
<1>1. SorterInv => InOrder
  BY DEF SorterInv, Ordering
<1> QED
  BY <1>1, SorterInvariant, PTL

-----------------------------------------------------------------------------
(* Conservation: the numbers that wait, those that left, and the places of *)
(* the forced ones, with what a step does to each.                         *)

Left   == {s.number : s \in pending}
Gone   == {emitted[i].number : i \in 1..Len(emitted)}
Pushes == {i \in 1..Len(emitted) : emitted[i].cause = "forced"}

LEMMA ConservedIs ==
    Conserved <=> /\ Left \cup Gone = 1..arrived
                  /\ Left \cap Gone = {}
                  /\ Cardinality(Gone) = Len(emitted)
                  /\ forced + reported = Cardinality(Pushes)
  BY DEF Conserved, Left, Gone, Pushes

(* Both histories are finite.                                              *)
LEMMA HistoriesFinite ==
    ASSUME TypeOK, Conserved
    PROVE  IsFiniteSet(Gone) /\ IsFiniteSet(Pushes)
<1>1. arrived \in Nat /\ Len(emitted) \in Nat
  BY SorterAssumption DEF TypeOK
<1>2. IsFiniteSet(1..arrived) /\ IsFiniteSet(1..Len(emitted))
  BY <1>1, FS_Interval
<1>3. Gone \subseteq 1..arrived /\ Pushes \subseteq 1..Len(emitted)
  BY ConservedIs DEF Pushes
<1> QED
  BY <1>2, <1>3, FS_Subset

(* A sample that is popped moves from those that wait to those that left.  *)
LEMMA PopConserves ==
    ASSUME Ordering, Conserved, NEW s \in pending, NEW cause \in Causes, PopOldest(s, cause),
           UNCHANGED <<arrived, reported>>, forced' = forced + (IF cause = "forced" THEN 1 ELSE 0)
    PROVE  Conserved'
<1> DEFINE e == [time |-> s.time, number |-> s.number, skew |-> s.skew, cause |-> cause]
<1>1. emitted \in Seq(Emitted) /\ pending \subseteq Samples /\ s \in Samples
  BY DEF Ordering, TypeOK
<1>2. e \in Emitted
  BY <1>1 DEF Samples, Emitted
<1>3. emitted' = Append(emitted, e) /\ pending' = pending \ {s}
  BY DEF PopOldest, Without
<1>4. /\ Len(emitted') = Len(emitted) + 1
      /\ \A i \in 1..Len(emitted) : emitted'[i] = emitted[i]
      /\ emitted'[Len(emitted) + 1] = e
      /\ Len(emitted) \in Nat
  BY <1>1, <1>2, <1>3, AppendProperties
<1>5. e.number = s.number /\ e.cause = cause
  OBVIOUS
<1> HIDE DEF e
<1>6. 1..Len(emitted') = 1..Len(emitted) \cup {Len(emitted) + 1}
  BY <1>4
<1>7. Gone' = Gone \cup {s.number}
  BY <1>4, <1>5, <1>6 DEF Gone
<1>8. Left' = Left \ {s.number}
  BY <1>3 DEF Left, Ordering, Numbered
<1>9. s.number \in Left
  BY DEF Left
<1>10. Left' \cup Gone' = 1..arrived' /\ Left' \cap Gone' = {}
  BY <1>7, <1>8, <1>9, ConservedIs
<1>11. Cardinality(Gone') = Len(emitted')
  <2>1. IsFiniteSet(Gone) /\ s.number \notin Gone
    BY <1>9, ConservedIs, HistoriesFinite DEF Ordering
  <2>2. Cardinality(Gone') = Cardinality(Gone) + 1
    BY <1>7, <2>1, FS_AddElement
  <2> QED
    BY <2>2, <1>4, ConservedIs
<1>12. forced' + reported' = Cardinality(Pushes')
  <2>1. IsFiniteSet(Pushes) /\ Len(emitted) + 1 \notin Pushes
    BY <1>4, HistoriesFinite DEF Ordering, Pushes
  <2>2. CASE cause = "forced"
    <3>1. Pushes' = Pushes \cup {Len(emitted) + 1}
      BY <1>4, <1>5, <1>6, <2>2 DEF Pushes
    <3>2. Cardinality(Pushes') = Cardinality(Pushes) + 1
      BY <2>1, <3>1, FS_AddElement
    <3> QED
      BY <2>2, <3>2, ConservedIs DEF Ordering, TypeOK
  <2>3. CASE cause # "forced"
    <3>1. Pushes' = Pushes
      BY <1>4, <1>5, <1>6, <2>3 DEF Pushes
    <3> QED
      BY <2>3, <3>1, ConservedIs DEF Ordering, TypeOK
  <2> QED
    BY <2>2, <2>3
<1>13. /\ Left' \cup Gone' = 1..arrived'
       /\ Left' \cap Gone' = {}
       /\ Cardinality(Gone') = Len(emitted')
       /\ forced' + reported' = Cardinality(Pushes')
  BY <1>10, <1>11, <1>12
<1> QED
  BY <1>13 DEF Conserved, Left, Gone, Pushes

(* A sample that is pushed waits.                                          *)
LEMMA PushConserves == TypeOK /\ Conserved /\ Push => Conserved'
<1> SUFFICES ASSUME TypeOK, Conserved, Push PROVE Conserved'
  OBVIOUS
<1>1. PICK x : x.number = arrived + 1 /\ pending' = pending \cup {x}
  <2>1. PICK time \in 0..MaxTime : pending' = pending \cup
                {[time |-> time, number |-> arrived + 1, skew |-> Minus(maxSeen, time)]}
    BY DEF Push
  <2> DEFINE x == [time |-> time, number |-> arrived + 1, skew |-> Minus(maxSeen, time)]
  <2>2. x.number = arrived + 1 /\ pending' = pending \cup {x}
    BY <2>1
  <2> HIDE DEF x
  <2> QED
    BY <2>2
<1>2. Left' = Left \cup {arrived + 1}
  BY <1>1 DEF Left
<1>3. UNCHANGED <<emitted, forced, reported>> /\ arrived' = arrived + 1 /\ arrived \in Nat
  BY SorterAssumption DEF Push, TypeOK
<1>4. Gone' = Gone /\ Pushes' = Pushes
  BY <1>3 DEF Gone, Pushes
<1>5. 1..arrived' = 1..arrived \cup {arrived + 1} /\ arrived + 1 \notin 1..arrived
  BY <1>3
<1>6. /\ Left' \cup Gone' = 1..arrived'
      /\ Left' \cap Gone' = {}
      /\ Cardinality(Gone') = Len(emitted')
      /\ forced' + reported' = Cardinality(Pushes')
  BY <1>2, <1>3, <1>4, <1>5, ConservedIs
<1> QED
  BY <1>6 DEF Conserved, Left, Gone, Pushes

LEMMA ConservedStep == Ordering /\ Conserved /\ [Next]_vars => Conserved'
<1> SUFFICES ASSUME Ordering, Conserved, [Next]_vars PROVE Conserved'
  OBVIOUS
<1>1. CASE Push
  BY <1>1, PushConserves DEF Ordering
<1>2. CASE EmitReady
  BY <1>2, PopConserves DEF EmitReady, Causes, Ordering, TypeOK
<1>3. CASE ForceOldest
  BY <1>3, PopConserves DEF ForceOldest, Causes
<1>4. CASE FlushOldest
  BY <1>4, PopConserves DEF FlushOldest, Causes, Ordering, TypeOK
<1>5. CASE Pushed \/ Flush \/ Flushed \/ TakeStats \/ UNCHANGED vars
  <2>1. UNCHANGED <<pending, emitted, arrived>> /\ forced' + reported' = forced + reported
    BY <1>5 DEF Pushed, Flush, Flushed, TakeStats, vars, Ordering, TypeOK
  <2> QED
    BY <2>1 DEF Conserved
<1> QED
  BY <1>1, <1>2, <1>3, <1>4, <1>5 DEF Next

LEMMA ConservedInit == Init => Conserved
<1> SUFFICES ASSUME Init PROVE Conserved
  OBVIOUS
<1>1. pending = {} /\ emitted = <<>> /\ arrived = 0 /\ forced = 0 /\ reported = 0 /\ Len(emitted) = 0
  BY DEF Init
<1>2. Left = {} /\ Gone = {} /\ Pushes = {}
  BY <1>1 DEF Left, Gone, Pushes
<1> QED
  BY <1>1, <1>2, FS_EmptySet, ConservedIs

(* No sample is lost or emitted twice, and every forced flush is counted   *)
(* once, however pushes, flushes and statistics follow each other.         *)
THEOREM SorterConserves == Spec => []Conserved
<1>1. SorterInv => Ordering
  BY DEF SorterInv
<1> QED
  BY <1>1, ConservedInit, ConservedStep, SorterInvariant, PTL DEF Spec

-----------------------------------------------------------------------------
(* Batches.  A batch has the samples that waited when it began and those   *)
(* that were pushed since.                                                 *)
OfBatch == start.waiting \cup (start.arrived + 1)..arrived

(* Each sample that waits is of the batch; each that was forced out is     *)
(* one that does not wait, and one too many.                               *)
Balanced ==
    /\ start.forced <= forced
    /\ Waiting \subseteq OfBatch
    /\ pendingLen + (forced - start.forced) <= Cardinality(OfBatch)
    /\ forced - start.forced <= Contract!Excess(Cardinality(OfBatch))

Batching ==
    /\ SorterInv
    /\ BatchesTyped
    /\ start.arrived <= arrived
    /\ start.waiting \subseteq 1..start.arrived
    /\ intake # "none" => Balanced

LEMMA Limit == MaxPending \in Nat /\ MaxPending > 0 /\ MaxArrivals \in Nat
  BY SorterAssumption

(* A sample is one number.                                                 *)
LEMMA WaitingCount ==
    ASSUME SorterInv
    PROVE  /\ IsFiniteSet(Waiting) /\ Cardinality(Waiting) = pendingLen
           /\ Waiting \subseteq 1..arrived
<1> DEFINE f == [s \in pending |-> s.number]
<1>1. f \in Surjection(pending, Waiting)
  BY DEF Surjection, Waiting
<1>2. f \in Injection(pending, Waiting)
  BY <1>1 DEF Surjection, Injection, IsInjective, SorterInv, Ordering, Numbered
<1>3. IsFiniteSet(pending) /\ Cardinality(pending) = pendingLen
  BY DEF SorterInv, Bounded
<1>4. IsFiniteSet(Waiting) /\ Cardinality(Waiting) = Cardinality(pending)
  <2> HIDE DEF f
  <2> QED
    BY <1>1, <1>2, <1>3, FS_Surjection
<1>5. \A s \in pending : s.number \in 1..arrived
  BY SorterAssumption DEF SorterInv, Ordering, TypeOK, Samples, Numbered
<1> QED
  BY <1>3, <1>4, <1>5 DEF Waiting

LEMMA BatchCount ==
    ASSUME Batching
    PROVE  /\ IsFiniteSet(OfBatch) /\ Cardinality(OfBatch) \in Nat
           /\ OfBatch \subseteq 1..arrived
<1>1. arrived \in Nat /\ start.arrived \in Nat /\ start.arrived <= arrived
  BY Limit DEF Batching, BatchesTyped, TypeOK
<1>2. OfBatch \subseteq 1..arrived
  BY <1>1 DEF OfBatch, Batching
<1>3. IsFiniteSet(1..arrived)
  BY <1>1, FS_Interval
<1> QED
  BY <1>2, <1>3, FS_Subset, FS_CardinalityType

LEMMA BatchesTypedStep ==
    ASSUME Batching, BatchesNext
    PROVE  SorterInv' /\ [Next]_vars /\ TypeOK' /\ arrived <= arrived'
<1>1. [Next]_vars
  BY DEF BatchesNext, Ingest, IngestSample, IngestFlush, IngestRest, Ingested, BatchStats, Next
<1>2. SorterInv'
  BY <1>1, SorterStep DEF Batching
<1>3. arrived' \in {arrived, arrived + 1} /\ arrived \in Nat
  BY <1>1, Limit
  DEF Next, vars, Push, EmitReady, ForceOldest, Pushed, Flush, FlushOldest, Flushed, TakeStats, Batching, BatchesTyped, TypeOK
<1> QED
  BY <1>1, <1>2, <1>3 DEF SorterInv, Ordering

(* What a step of the buffer does to the balance of a batch: a sample more *)
(* on both sides ...                                                       *)
LEMMA PushBalanced ==
    ASSUME Batching, Balanced, Push, UNCHANGED start
    PROVE  Balanced'
<1>1. pendingLen' = pendingLen + 1 /\ arrived' = arrived + 1 /\ forced' = forced
  BY DEF Push
<1>2. Waiting' = Waiting \cup {arrived + 1}
  <2>1. PICK time \in 0..MaxTime : pending' = pending \cup
                {[time |-> time, number |-> arrived + 1, skew |-> Minus(maxSeen, time)]}
    BY DEF Push
  <2> DEFINE x == [time |-> time, number |-> arrived + 1, skew |-> Minus(maxSeen, time)]
  <2>2. pending' = pending \cup {x} /\ x.number = arrived + 1
    BY <2>1
  <2> HIDE DEF x
  <2> QED
    BY <2>2 DEF Waiting
<1>3. arrived \in Nat /\ start.arrived \in Nat /\ start.arrived <= arrived
  BY Limit DEF Batching, BatchesTyped, TypeOK
<1>4. OfBatch' = OfBatch \cup {arrived + 1} /\ arrived + 1 \notin OfBatch
  BY <1>1, <1>3, BatchCount DEF OfBatch
<1>5. Cardinality(OfBatch') = Cardinality(OfBatch) + 1
  BY <1>4, BatchCount, FS_AddElement
<1>6. forced \in Nat /\ start.forced \in Nat /\ pendingLen \in Nat /\ Cardinality(OfBatch) \in Nat
  BY BatchCount DEF Batching, BatchesTyped, TypeOK
<1>7. Waiting' \subseteq OfBatch'
  BY <1>2, <1>4 DEF Balanced
<1>8. pendingLen' + (forced' - start'.forced) <= Cardinality(OfBatch')
  BY <1>1, <1>5, <1>6 DEF Balanced
<1>9. forced' - start'.forced <= Contract!Excess(Cardinality(OfBatch'))
  BY <1>1, <1>5, <1>6, Limit DEF Balanced, Contract!Excess
<1> QED
  BY <1>1, <1>7, <1>8, <1>9 DEF Balanced

(* ... one fewer that waits ...                                            *)
LEMMA PopBalanced ==
    ASSUME Batching, Balanced, NEW s \in pending, NEW cause \in Causes, PopOldest(s, cause),
           UNCHANGED <<arrived, start>>,
           forced' = forced \/ (forced' = forced + 1 /\ OverLimit)
    PROVE  Balanced'
<1>1. pendingLen' = pendingLen - 1 /\ Waiting' \subseteq Waiting
  BY DEF PopOldest, Without, Waiting
<1>2. OfBatch' = OfBatch
  BY DEF OfBatch
<1>3. forced \in Nat /\ start.forced \in Nat /\ pendingLen \in Nat /\ Cardinality(OfBatch) \in Nat
  BY BatchCount DEF Batching, BatchesTyped, TypeOK
<1>4. CASE forced' = forced
  BY <1>1, <1>2, <1>3, <1>4 DEF Balanced
<1>5. CASE forced' = forced + 1 /\ pendingLen > MaxPending
  <2>1. forced - start.forced + 1 <= Cardinality(OfBatch) - MaxPending
    BY <1>3, <1>5, Limit DEF Balanced
  <2>2. forced' - start'.forced <= Contract!Excess(Cardinality(OfBatch'))
    BY <1>2, <1>3, <1>5, <2>1, Limit DEF Balanced, Contract!Excess
  <2>3. pendingLen' + (forced' - start'.forced) <= Cardinality(OfBatch')
    BY <1>1, <1>2, <1>3, <1>5 DEF Balanced
  <2>4. start'.forced <= forced' /\ Waiting' \subseteq OfBatch'
    BY <1>1, <1>2, <1>3, <1>5 DEF Balanced
  <2> QED
    BY <2>2, <2>3, <2>4 DEF Balanced
<1> QED
  BY <1>4, <1>5 DEF OverLimit

(* ... or nothing.                                                         *)
LEMMA SameBalanced ==
    ASSUME Balanced, UNCHANGED <<pending, pendingLen, forced, arrived, start>>
    PROVE  Balanced'
  BY DEF Balanced, OfBatch, Waiting

LEMMA BatchBegins ==
    ASSUME Batching, Ingest
    PROVE  Balanced' /\ start'.arrived = arrived /\ start'.waiting = Waiting /\ start'.forced = forced
<1>1. start' = [waiting |-> Waiting, arrived |-> arrived, forced |-> forced]
  BY DEF Ingest
<1>2. UNCHANGED <<pending, pendingLen, forced, arrived>>
  BY DEF Ingest, vars
<1>3. arrived \in Nat /\ forced \in Nat
  BY Limit DEF Batching, BatchesTyped, TypeOK
<1>4. (arrived + 1)..arrived = {}
  BY <1>3
<1>5. OfBatch' = Waiting /\ Waiting' = Waiting
  BY <1>1, <1>2, <1>4 DEF OfBatch, Waiting
<1>6. Cardinality(Waiting) = pendingLen /\ pendingLen \in Nat
  BY WaitingCount DEF Batching, BatchesTyped, TypeOK
<1>7. 0 <= Contract!Excess(Cardinality(Waiting))
  BY <1>6, Limit DEF Contract!Excess
<1> QED
  BY <1>1, <1>2, <1>3, <1>5, <1>6, <1>7 DEF Balanced

LEMMA BatchingFirst == BatchesInit => Batching
<1> SUFFICES ASSUME BatchesInit PROVE Batching
  OBVIOUS
<1>1. SorterInv
  BY SorterFirst DEF BatchesInit
<1>2. start = [waiting |-> {}, arrived |-> 0, forced |-> 0] /\ intake = "none"
  BY DEF BatchesInit, NoBatch
<1>3. BatchesTyped
  BY <1>1, <1>2, Limit DEF SorterInv, Ordering, BatchesTyped
<1>4. arrived = 0
  BY DEF BatchesInit, Init
<1> QED
  BY <1>1, <1>2, <1>3, <1>4 DEF Batching

LEMMA BatchingStep == Batching /\ [BatchesNext]_sorterVars => Batching'
<1> SUFFICES ASSUME Batching, [BatchesNext]_sorterVars PROVE Batching'
  OBVIOUS
<1>1. CASE UNCHANGED sorterVars
  <2>1. UNCHANGED <<vars, intake, start>>
    BY <1>1 DEF sorterVars, batchVars
  <2>2. SorterInv'
    BY <2>1, SorterStep DEF Batching
  <2>3. BatchesTyped' /\ UNCHANGED <<arrived, start>>
    BY <2>1, <2>2 DEF Batching, BatchesTyped, SorterInv, Ordering, vars
  <2>4. intake' # "none" => Balanced'
    BY <2>1, SameBalanced DEF Batching, vars
  <2> QED
    BY <2>2, <2>3, <2>4 DEF Batching
<1>2. ASSUME BatchesNext,
             start' \in [waiting : SUBSET (1..MaxArrivals), arrived : 0..MaxArrivals, forced : Nat],
             start'.arrived <= arrived', start'.waiting \subseteq 1..start'.arrived,
             intake' \in {"none", "poll", "end", "flush"}, intake' # "none" => Balanced'
      PROVE  Batching'
  BY <1>2, BatchesTypedStep DEF Batching, BatchesTyped
<1>3. ASSUME BatchesNext, UNCHANGED start, intake' \in {"poll", "end", "flush"}, Balanced'
      PROVE  Batching'
  <2>1. start'.arrived <= arrived'
    <3>1. start.arrived \in Nat /\ arrived \in Nat /\ arrived' \in Nat /\ arrived <= arrived' /\ start.arrived <= arrived
      BY <1>3, BatchesTypedStep, Limit DEF Batching, BatchesTyped, TypeOK
    <3> QED
      BY <1>3, <3>1
  <2> QED
    BY <1>2, <1>3, <2>1 DEF Batching, BatchesTyped
<1>4. CASE Ingest
  <2>1. BatchesNext /\ intake' \in {"poll", "end"} /\ arrived' = arrived
    BY <1>4 DEF BatchesNext, Ingest, vars
  <2>2. Waiting \subseteq 1..arrived /\ arrived \in 0..MaxArrivals /\ forced \in Nat
    BY WaitingCount DEF Batching, BatchesTyped, TypeOK
  <2>3. Waiting \subseteq 1..MaxArrivals /\ arrived <= arrived
    BY <2>2, Limit
  <2>4. start' = [waiting |-> Waiting, arrived |-> arrived, forced |-> forced]
    BY <1>4 DEF Ingest
  <2> QED
    BY <1>2, <1>4, <2>1, <2>2, <2>3, <2>4, BatchBegins
<1>5. CASE IngestSample
  <2>1. BatchesNext /\ intake' \in {"poll", "end"} /\ UNCHANGED start /\ Balanced
    BY <1>5 DEF BatchesNext, IngestSample, batchVars, Batching
  <2>2. CASE Push
    BY <1>3, <2>1, <2>2, PushBalanced
  <2>3. CASE EmitReady
    <3>1. PICK s \in pending : PopOldest(s, "ready")
      BY <2>3 DEF EmitReady
    <3>2. UNCHANGED <<forced, arrived>>
      BY <2>3 DEF EmitReady
    <3> QED
      BY <1>3, <2>1, <3>1, <3>2, PopBalanced DEF Causes
  <2>4. CASE ForceOldest
    <3>1. PICK s \in pending : PopOldest(s, "forced")
      BY <2>4 DEF ForceOldest
    <3>2. UNCHANGED arrived /\ forced' = forced + 1 /\ OverLimit
      BY <2>4 DEF ForceOldest
    <3> QED
      BY <1>3, <2>1, <3>1, <3>2, PopBalanced DEF Causes
  <2>5. CASE Pushed
    BY <1>3, <2>1, <2>5, SameBalanced DEF Pushed
  <2> QED
    BY <1>5, <2>2, <2>3, <2>4, <2>5 DEF IngestSample
<1>6. CASE IngestFlush
  BY <1>3, <1>6, SameBalanced DEF BatchesNext, IngestFlush, Flush, Batching
<1>7. CASE IngestRest
  <2>1. BatchesNext /\ intake' = "flush" /\ UNCHANGED start /\ Balanced
    BY <1>7 DEF BatchesNext, IngestRest, batchVars, Batching
  <2>2. CASE FlushOldest
    <3>1. PICK s \in pending : PopOldest(s, "flushed")
      BY <2>2 DEF FlushOldest
    <3>2. UNCHANGED <<forced, arrived>>
      BY <2>2 DEF FlushOldest
    <3> QED
      BY <1>3, <2>1, <3>1, <3>2, PopBalanced DEF Causes
  <2>3. CASE Flushed
    BY <1>3, <2>1, <2>3, SameBalanced DEF Flushed
  <2> QED
    BY <1>7, <2>2, <2>3 DEF IngestRest
<1>8. CASE Ingested
  <2>1. BatchesNext /\ intake' = "none" /\ start' = [waiting |-> {}, arrived |-> 0, forced |-> 0]
    BY <1>8 DEF BatchesNext, Ingested, NoBatch
  <2>2. 0 <= arrived'
    <3>1. arrived' \in Nat
      BY <2>1, BatchesTypedStep, Limit DEF TypeOK
    <3> QED
      BY <3>1
  <2> QED
    BY <1>2, <2>1, <2>2, Limit
<1>9. CASE BatchStats
  <2>1. BatchesNext /\ intake' = "none" /\ UNCHANGED <<start, arrived>>
    BY <1>9 DEF BatchesNext, BatchStats, TakeStats, batchVars
  <2> QED
    BY <1>2, <2>1 DEF Batching, BatchesTyped
<1> QED
  BY <1>1, <1>4, <1>5, <1>6, <1>7, <1>8, <1>9 DEF BatchesNext

(* The contract counts as the buffer does.                                 *)
LEMMA ContractCounts == \A S : Contract!Cardinality(S) = Cardinality(S)
  BY DEF Contract!Cardinality, Cardinality

(* A batch that has been ingested is a step of the contract; before that   *)
(* nothing of it is seen.                                                  *)
LEMMA BatchKept ==
    ASSUME Batching, Ingested
    PROVE  Contract!Batch
<1>1. Between' /\ ~Between /\ Balanced /\ UNCHANGED <<pending, forced, arrived>>
  BY DEF Ingested, Between, Batching, vars
<1>2. Waiting' = Waiting
  BY <1>1 DEF Waiting
<1>3. /\ arrived \in start.arrived..MaxArrivals
      /\ forced - start.forced \in 0..Contract!Excess(Cardinality(OfBatch))
      /\ forced = start.forced + (forced - start.forced)
  <2>1. arrived \in 0..MaxArrivals /\ start.arrived \in Nat /\ start.arrived <= arrived
    BY Limit DEF Batching, BatchesTyped, TypeOK
  <2>2. forced \in Nat /\ start.forced \in Nat /\ start.forced <= forced
    BY <1>1 DEF Batching, BatchesTyped, TypeOK, Balanced
  <2>3. Contract!Excess(Cardinality(OfBatch)) \in Nat
    BY BatchCount, Limit DEF Contract!Excess
  <2> QED
    BY <1>1, <2>1, <2>2, <2>3, Limit DEF Balanced
<1>4. Cardinality(Waiting) <= MaxPending
  BY WaitingCount DEF Ingested, Batching, SorterInv, Bounded
<1>5. Waiting \subseteq OfBatch
  BY <1>1 DEF Balanced
<1>6. \E n \in 0..Contract!Excess(Contract!Cardinality(OfBatch)) : forced = start.forced + n
  BY <1>3, ContractCounts
<1>7. Contract!Cardinality(Waiting) <= MaxPending
  BY <1>4, ContractCounts
<1> QED
  BY <1>1, <1>2, <1>3, <1>5, <1>6, <1>7 DEF Contract!Batch, OfBatch

LEMMA BatchMoves ==
    ASSUME Batching, [BatchesNext]_sorterVars
    PROVE  [Contract!Next]_Contract!contractVars
<1>1. CASE Ingest
  <2>1. Between /\ ~Between' /\ start' = [waiting |-> Waiting, arrived |-> arrived, forced |-> forced]
    BY <1>1 DEF Ingest, Between
  <2> QED
    BY <2>1 DEF Contract!contractVars
<1>2. CASE IngestSample \/ IngestFlush \/ IngestRest
  <2>1. ~Between /\ ~Between' /\ UNCHANGED start
    BY <1>2 DEF IngestSample, IngestFlush, IngestRest, Between, batchVars
  <2> QED
    BY <2>1 DEF Contract!contractVars
<1>3. CASE Ingested
  BY <1>3, BatchKept DEF Contract!Next
<1>4. CASE BatchStats
  <2>1. Between /\ Between' /\ pending = {} /\ pending' = {} /\ arrived' = arrived /\ forced' = 0
    BY <1>4 DEF BatchStats, TakeStats, Between, batchVars
  <2>2. Waiting = {} /\ Waiting' = {}
    BY <2>1 DEF Waiting
  <2>3. Contract!Report
    BY <2>1, <2>2 DEF Contract!Report
  <2> QED
    BY <2>3 DEF Contract!Next
<1>5. CASE UNCHANGED sorterVars
  BY <1>5 DEF sorterVars, batchVars, vars, Between, Waiting, Contract!contractVars
<1> QED
  BY <1>1, <1>2, <1>3, <1>4, <1>5 DEF BatchesNext

(* The reorder buffer, sample by sample, does to a batch what CpuSampling  *)
(* allows it to do, for every limit and window: what waits is of the       *)
(* batch or waited before, the limit holds at the end of the batch, and no *)
(* more forced flushes are counted than samples were too many (event.rs,   *)
(* push and flush; record.rs, ingest_cpu_batch).                           *)
THEOREM BatchesKeepContract == BatchesSpec => ImplementsContract
<1>1. BatchesInit => Contract!Init
  BY DEF BatchesInit, Init, Between, Waiting, Contract!Init
<1>2. Batching /\ [BatchesNext]_sorterVars => [Contract!Next]_Contract!contractVars
  BY BatchMoves
<1> QED
  BY <1>1, <1>2, BatchingFirst, BatchingStep, PTL DEF BatchesSpec, ImplementsContract, Contract!Spec

-----------------------------------------------------------------------------
(* The OTLP client: payloads, attempts and delays.                         *)

LEMMA OtlpLimits ==
    /\ Payloads \in Nat /\ MaxAttempts \in Nat /\ MaxAttempts > 0 /\ MaxDelay \in Nat
    /\ \A d \in RetryAfters : d \in Nat
  BY OtlpAssumption

(* A delay is never longer than MAX_RETRY_DELAY.                           *)
LEMMA CappedDelay ==
    ASSUME NEW n \in Nat \ {0}, NEW d \in RetryAfters \cup {RetryDelay(n)}
    PROVE  Capped(d) \in 0..MaxDelay
<1>1. RetryDelay(n) \in Nat
  <2> DEFINE i == IF n <= 7 THEN n ELSE 7
  <2>1. i \in 1..7
    OBVIOUS
  <2>2. \A j \in 1..7 : Doubled[j] \in Nat
    BY DEF Doubled
  <2> QED
    BY <2>1, <2>2 DEF RetryDelay
<1> QED
  BY <1>1, OtlpLimits DEF Capped

(* How long the delays of n attempts may take together.                    *)
Budget(n) == n * MaxDelay

LEMMA Budgets ==
    /\ Budget(0) = 0
    /\ \A n \in Nat : Budget(n) \in Nat /\ Budget(n + 1) = Budget(n) + MaxDelay
  BY OtlpLimits DEF Budget

(* An attempt that begins is one of those allowed, and no answer is        *)
(* counted before it is there.                                             *)
Counted ==
    /\ xpc = "prepare" => attempt = 0
    /\ xpc \in {"check", "sleep"} => attempt < MaxAttempts
    /\ xpc \in {"send", "wait"} => accepted < attempt

(* Before the next attempt, and after a delay, there is room for a delay.  *)
Paced ==
    /\ xpc \in {"send", "wait", "decide"} => attempt > 0 /\ slept <= Budget(attempt - 1)
    /\ xpc = "sleep" => attempt > 0 /\ slept + nap <= Budget(attempt)
    /\ slept <= Budget(attempt)

(* Only what the endpoint may not have taken is sent again.                *)
Repeatable ==
    /\ xpc = "prepare" => answer = NoAnswer
    /\ xpc \in {"check", "send", "sleep"} => answer = NoAnswer \/ (answer \in Answers /\ answer.retryable)
    /\ ~repeated

(* Once an attempt has begun after a stop, the exporter only winds up.     *)
Winding ==
    /\ afterStop <= 1
    /\ afterStop > 0 => quitting /\ xpc \in {"wait", "decide", "recv", "done"}

Delivered == xpc = "decide" /\ answer.delivered => accepted > 0

Exporting == OtlpTyped /\ Counted /\ Paced /\ Repeatable /\ Winding /\ Delivered

(* An attempt that may be repeated may have been lost, and one that counts *)
(* as delivered was taken.                                                 *)
LEMMA AnswerFacts ==
    ASSUME NEW a \in Answers
    PROVE  /\ a.retryable => FALSE \in a.takes
           /\ a.delivered => a.takes = {TRUE}
           /\ a.delivered \in BOOLEAN
           /\ a # NoAnswer
<1> DEFINE Fits(b) == /\ b.retryable => FALSE \in b.takes
                      /\ b.delivered => b.takes = {TRUE}
                      /\ b.delivered \in BOOLEAN
                      /\ b.takes # {}
<1>1. /\ Fits(Answer("accepted", TRUE, FALSE, {TRUE}))
      /\ Fits(Answer("unreadable", FALSE, FALSE, {TRUE}))
      /\ Fits(Answer("refused", FALSE, FALSE, {FALSE}))
      /\ Fits(Answer("busy", FALSE, TRUE, {FALSE}))
      /\ Fits(Answer("gateway", FALSE, TRUE, {TRUE, FALSE}))
      /\ Fits(Answer("lost", FALSE, TRUE, {TRUE, FALSE}))
      /\ Fits(Answer("invalid", FALSE, FALSE, {FALSE}))
  BY DEF Answer
<1> HIDE DEF Fits
<1>2. Fits(a)
  BY <1>1 DEF Answers
<1>3. NoAnswer.takes = {}
  BY DEF NoAnswer, Answer
<1> QED
  BY <1>2, <1>3 DEF Fits

LEMMA OutcomeTyped ==
    ASSUME NEW d \in BOOLEAN, NEW n \in 0..MaxAttempts
    PROVE  [delivered |-> d, attempts |-> n] \in [delivered : BOOLEAN, attempts : 0..MaxAttempts]
  OBVIOUS

LEMMA ExportingInit == OtlpInit => Exporting
<1> SUFFICES ASSUME OtlpInit PROVE Exporting
  OBVIOUS
<1>1. NoOutcome \in [delivered : BOOLEAN, attempts : 0..MaxAttempts]
  BY OtlpLimits, OutcomeTyped DEF NoOutcome
<1>2. OtlpTyped
  <2>1. outcome \in [delivered : BOOLEAN, attempts : 0..MaxAttempts]
    BY <1>1 DEF OtlpInit
  <2>2. quitting \in BOOLEAN /\ repeated \in BOOLEAN
    BY DEF OtlpInit
  <2>3. payload \in 0..Payloads /\ attempt \in 0..MaxAttempts /\ accepted \in 0..attempt /\ nap \in 0..MaxDelay
    BY OtlpLimits DEF OtlpInit
  <2> QED
    BY <2>1, <2>2, <2>3 DEF OtlpInit, OtlpTyped
<1> QED
  BY <1>2, OtlpLimits, Budgets DEF OtlpInit, Exporting, Counted, Paced, Repeatable, Winding, Delivered

LEMMA ExportingStep == Exporting /\ [OtlpNext]_otlpVars => Exporting'
<1> SUFFICES ASSUME Exporting, [OtlpNext]_otlpVars PROVE Exporting'
  OBVIOUS
<1> USE OtlpLimits DEF Exporting
<1>1. CASE Receive
  <2>1. OtlpTyped' /\ Counted'
    <3>1. NoOutcome \in [delivered : BOOLEAN, attempts : 0..MaxAttempts]
      BY OutcomeTyped DEF NoOutcome
    <3> QED
      BY <1>1, <3>1 DEF Receive, Aborted, OtlpTyped, Counted
  <2>2. Paced'
    BY <1>1, Budgets DEF Receive, Aborted, Paced
  <2>3. Repeatable' /\ Winding' /\ Delivered'
    BY <1>1 DEF Receive, Aborted, OtlpTyped, Repeatable, Winding, Delivered
  <2> QED
    BY <2>1, <2>2, <2>3
<1>2. CASE Drained
  <2>1. OtlpTyped' /\ Counted'
    BY <1>2 DEF Drained, OtlpTyped, Counted
  <2>2. Paced'
    BY <1>2, Budgets DEF Drained, Paced, OtlpTyped
  <2>3. Repeatable' /\ Winding' /\ Delivered'
    BY <1>2 DEF Drained, OtlpTyped, Repeatable, Winding, Delivered
  <2> QED
    BY <2>1, <2>2, <2>3
<1>3. CASE PrepareBody
  <2>1. OtlpTyped' /\ Counted'
    <3>1. outcome' \in [delivered : BOOLEAN, attempts : 0..MaxAttempts]
      BY <1>3, OutcomeTyped DEF PrepareBody, Return, OtlpTyped
    <3> QED
      BY <1>3, <3>1 DEF PrepareBody, Return, OtlpTyped, Counted
  <2>2. Paced'
    BY <1>3, Budgets DEF PrepareBody, Return, Paced, OtlpTyped
  <2>3. Repeatable' /\ Winding' /\ Delivered'
    BY <1>3 DEF PrepareBody, Return, OtlpTyped, Repeatable, Winding, Delivered
  <2> QED
    BY <2>1, <2>2, <2>3
<1>4. CASE Check
  <2>1. OtlpTyped' /\ Counted'
    <3>1. outcome' \in [delivered : BOOLEAN, attempts : 0..MaxAttempts]
      BY <1>4, OutcomeTyped DEF Check, Return, OtlpTyped
    <3>2. attempt' \in 0..MaxAttempts /\ accepted' \in 0..attempt'
      <4>1. attempt \in 0..MaxAttempts /\ attempt < MaxAttempts /\ accepted \in 0..attempt
        BY <1>4 DEF Check, OtlpTyped, Counted
      <4>2. CASE MayBegin
        BY <1>4, <4>1, <4>2 DEF Check
      <4>3. CASE ~MayBegin
        BY <1>4, <4>1, <4>3 DEF Check
      <4> QED
        BY <4>2, <4>3
    <3> QED
      BY <1>4, <3>1, <3>2 DEF Check, Return, OtlpTyped, Counted
  <2>2. Paced'
    BY <1>4, Budgets DEF Check, MayBegin, Return, Paced, OtlpTyped
  <2>3. Repeatable' /\ Winding' /\ Delivered'
    BY <1>4 DEF Check, MayBegin, Return, OtlpTyped, Repeatable, Winding, Delivered
  <2> QED
    BY <2>1, <2>2, <2>3
<1>5. CASE SendOnce
  <2>1. OtlpTyped' /\ Counted'
    BY <1>5, AnswerFacts DEF SendOnce, OtlpTyped, Counted
  <2>2. Paced'
    BY <1>5, Budgets, AnswerFacts DEF SendOnce, Paced, OtlpTyped
  <2>3. Repeatable' /\ Winding' /\ Delivered'
    <3>1. ~repeated'
      <4>1. ~(answer # NoAnswer /\ FALSE \notin answer.takes)
        BY <1>5, AnswerFacts DEF SendOnce, Repeatable
      <4> QED
        BY <1>5, <4>1 DEF SendOnce, Repeatable
    <3>2. Winding'
      BY <1>5 DEF SendOnce, OtlpTyped, Winding
    <3> QED
      BY <1>5, <3>1, <3>2 DEF SendOnce, Repeatable, Delivered
  <2> QED
    BY <2>1, <2>2, <2>3
<1>6. CASE Answered
  <2>1. OtlpTyped' /\ Counted'
    BY <1>6, AnswerFacts DEF Answered, OtlpTyped, Counted
  <2>2. Paced'
    BY <1>6, Budgets, AnswerFacts DEF Answered, Paced, OtlpTyped
  <2>3. Repeatable' /\ Winding' /\ Delivered'
    <3>1. Delivered'
      <4>1. PICK a \in Answers, taken \in BOOLEAN :
              /\ taken \in a.takes
              /\ answer' = a
              /\ accepted' = accepted + (IF taken THEN 1 ELSE 0)
        BY <1>6 DEF Answered
      <4>2. a.delivered => taken = TRUE
        BY <4>1, AnswerFacts
      <4> QED
        BY <4>1, <4>2 DEF OtlpTyped, Delivered
    <3> QED
      BY <1>6, <3>1 DEF Answered, OtlpTyped, Repeatable, Winding
  <2> QED
    BY <2>1, <2>2, <2>3
<1>7. CASE Decide
  <2> DEFINE final == answer.delivered \/ ~Retryable \/ LastAttempt \/ quitting
  <2>1. answer.delivered \in BOOLEAN
    <3>1. NoAnswer.delivered = FALSE
      BY DEF NoAnswer, Answer
    <3> QED
      BY <3>1, AnswerFacts DEF OtlpTyped
  <2>2. CASE final
    <3>1. xpc' = "recv" /\ outcome' \in [delivered : BOOLEAN, attempts : 0..MaxAttempts] /\ UNCHANGED nap
      BY <1>7, <2>1, <2>2, OutcomeTyped DEF Decide, Return, OtlpTyped
    <3>2. OtlpTyped' /\ Counted'
      BY <1>7, <3>1 DEF Decide, OtlpTyped, Counted
    <3>3. Paced'
      BY <1>7, <3>1 DEF Decide, Paced
    <3> QED
      BY <1>7, <3>1, <3>2, <3>3 DEF Decide, Repeatable, Winding, Delivered
  <2>3. CASE ~final
    <3>1. /\ xpc' = "sleep" /\ attempt' = attempt
          /\ \E d \in RetryAfters \cup {RetryDelay(attempt)} : nap' = Capped(d)
          /\ UNCHANGED outcome
      BY <1>7, <2>3 DEF Decide
    <3>2. attempt \in Nat \ {0} /\ attempt < MaxAttempts
      BY <1>7, <2>3 DEF Decide, OtlpTyped, Paced, LastAttempt
    <3>3. nap' \in 0..MaxDelay
      BY <3>1, <3>2, CappedDelay
    <3>4. OtlpTyped' /\ Counted'
      BY <1>7, <3>1, <3>2, <3>3 DEF Decide, OtlpTyped, Counted
    <3>5. Paced'
      <4>1. attempt - 1 \in Nat /\ (attempt - 1) + 1 = attempt
        BY <3>2
      <4>2. Budget(attempt - 1) \in Nat /\ Budget(attempt) = Budget(attempt - 1) + MaxDelay
        BY <4>1, Budgets
      <4>3. slept \in Nat /\ slept <= Budget(attempt - 1) /\ slept <= Budget(attempt) /\ attempt > 0
        BY <1>7 DEF Decide, Paced, OtlpTyped
      <4>4. slept + nap' <= Budget(attempt)
        BY <3>3, <4>2, <4>3
      <4>5. slept' = slept
        BY <1>7 DEF Decide
      <4> QED
        BY <3>1, <4>3, <4>4, <4>5 DEF Paced
    <3>6. answer \in Answers /\ answer.retryable
      <4>1. NoAnswer.retryable = FALSE
        BY DEF NoAnswer, Answer
      <4> QED
        BY <2>3, <4>1 DEF Retryable, OtlpTyped
    <3> QED
      BY <1>7, <2>3, <3>1, <3>4, <3>5, <3>6 DEF Decide, Repeatable, Winding, Delivered, OtlpTyped
  <2> QED
    BY <2>2, <2>3
<1>8. CASE Sleep
  <2>1. OtlpTyped' /\ Counted'
    BY <1>8 DEF Sleep, OtlpTyped, Counted
  <2>2. Paced'
    <3>1. Budget(attempt) \in Nat /\ slept \in Nat /\ nap \in Nat
      BY Budgets DEF OtlpTyped
    <3>2. attempt > 0 /\ slept + nap <= Budget(attempt) /\ slept <= Budget(attempt) /\ attempt' = attempt
      BY <1>8 DEF Sleep, Paced
    <3>3. CASE nap = 0 \/ quitting
      BY <1>8, <3>2, <3>3 DEF Sleep, Paced
    <3>4. CASE ~(nap = 0 \/ quitting)
      <4>1. nap' = nap - 1 /\ slept' = slept + 1 /\ xpc' = "sleep"
        BY <1>8, <3>4 DEF Sleep
      <4>2. slept' + nap' <= Budget(attempt) /\ slept' <= Budget(attempt)
        BY <3>1, <3>2, <3>4, <4>1
      <4> QED
        BY <3>2, <4>1, <4>2 DEF Paced
    <3> QED
      BY <3>3, <3>4
  <2>3. Repeatable' /\ Winding' /\ Delivered'
    BY <1>8 DEF Sleep, OtlpTyped, Repeatable, Winding, Delivered
  <2> QED
    BY <2>1, <2>2, <2>3
<1>9. CASE Cancel
  <2>1. OtlpTyped' /\ Counted'
    BY <1>9 DEF Cancel, clientVars, OtlpTyped, Counted
  <2>2. Paced'
    BY <1>9, Budgets DEF Cancel, clientVars, Paced, OtlpTyped
  <2>3. Repeatable' /\ Winding' /\ Delivered'
    BY <1>9 DEF Cancel, clientVars, OtlpTyped, Repeatable, Winding, Delivered
  <2> QED
    BY <2>1, <2>2, <2>3
<1>10. CASE UNCHANGED otlpVars
  <2>1. OtlpTyped' /\ Counted'
    BY <1>10 DEF otlpVars, clientVars, OtlpTyped, Counted
  <2>2. Paced'
    BY <1>10, Budgets DEF otlpVars, clientVars, Paced, OtlpTyped
  <2>3. Repeatable' /\ Winding' /\ Delivered'
    BY <1>10 DEF otlpVars, clientVars, OtlpTyped, Repeatable, Winding, Delivered
  <2> QED
    BY <2>1, <2>2, <2>3
<1> QED
  BY <1>1, <1>2, <1>3, <1>4, <1>5, <1>6, <1>7, <1>8, <1>9, <1>10 DEF OtlpNext

LEMMA ExportingInvariant == OtlpSpec => []Exporting
  BY ExportingInit, ExportingStep, PTL DEF OtlpSpec

(* Every variable of the client keeps its type.                            *)
THEOREM ClientTyped == OtlpSpec => []OtlpTyped
<1>1. Exporting => OtlpTyped
  BY DEF Exporting
<1> QED
  BY <1>1, ExportingInvariant, PTL

(* At most one attempt begins after an abort, nothing the endpoint has     *)
(* taken for certain is sent again, what counts as delivered was taken,    *)
(* and the delays stay within MAX_RETRY_DELAY per attempt.                 *)
THEOREM ExportBounded == OtlpSpec => []ExportsBounded
<1>1. Exporting => ExportsBounded
  BY DEF Exporting, OtlpTyped, Paced, Repeatable, Winding, Delivered, ExportsBounded, Budget
<1> QED
  BY <1>1, ExportingInvariant, PTL

(* Each step of the client is one of ExportStep, or changes nothing it     *)
(* shows: the attempts at a payload are not seen until it has its outcome. *)
LEMMA ExportBegins == OtlpInit => OneExport!Init
  BY DEF OtlpInit, OneExport!Init, NoOutcome, Idle

(* An outcome is one step of the promise, and true if it says delivered.   *)
LEMMA OutcomeShips ==
    ASSUME NEW d \in BOOLEAN, Return(d), d => accepted > 0,
           xpc \in {"prepare", "check", "decide"}, UNCHANGED <<payload, accepted, quitting>>
    PROVE  OneExport!Ship
<1>1. xpc' = "recv" /\ outcome'.delivered = d
  BY DEF Return
<1>2. (Idle /\ accepted > 0)' \in BOOLEAN /\ outcome'.delivered \in {FALSE, (Idle /\ accepted > 0)'}
  BY <1>1 DEF Idle
<1> QED
  BY <1>1, <1>2 DEF OneExport!Ship

(* Before the outcome nothing of a payload is seen.                        *)
LEMMA ExportHidden ==
    ASSUME xpc \notin {"recv", "done"}, xpc' \notin {"recv", "done"}, UNCHANGED <<payload, outcome, quitting>>
    PROVE  UNCHANGED OneExport!stepVars
  BY DEF Idle, OneExport!stepVars

LEMMA ExportMoves ==
    ASSUME Exporting, [OtlpNext]_otlpVars
    PROVE  [OneExport!Next]_OneExport!stepVars
<1>1. CASE Receive
  <2>1. OneExport!Take
    BY <1>1 DEF Receive, Aborted, NoOutcome, Idle, OneExport!Take
  <2> QED
    BY <2>1 DEF OneExport!Next
<1>2. CASE Drained
  <2>1. OneExport!Finish
    BY <1>2 DEF Drained, Idle, OneExport!Finish
  <2> QED
    BY <2>1 DEF OneExport!Next
<1>3. CASE PrepareBody
  <2>1. CASE xpc' = "recv"
    <3>1. Return(FALSE)
      BY <1>3, <2>1 DEF PrepareBody, Return
    <3>2. OneExport!Ship
      BY <1>3, <3>1, OutcomeShips DEF PrepareBody
    <3> QED
      BY <3>2 DEF OneExport!Next
  <2>2. CASE xpc' = "check" /\ UNCHANGED outcome
    BY <1>3, <2>2, ExportHidden DEF PrepareBody
  <2>3. xpc' = "recv" \/ (xpc' = "check" /\ UNCHANGED outcome)
    BY <1>3 DEF PrepareBody, Return
  <2> QED
    BY <2>1, <2>2, <2>3
<1>4. CASE Check
  <2>1. CASE MayBegin
    BY <1>4, <2>1, ExportHidden DEF Check
  <2>2. CASE ~MayBegin
    <3>1. OneExport!Ship
      BY <1>4, <2>2, OutcomeShips DEF Check
    <3> QED
      BY <3>1 DEF OneExport!Next
  <2> QED
    BY <2>1, <2>2
<1>5. CASE SendOnce
  BY <1>5, ExportHidden DEF SendOnce
<1>6. CASE Answered
  BY <1>6, ExportHidden DEF Answered
<1>7. CASE Decide
  <2>1. answer.delivered \in BOOLEAN /\ (answer.delivered => accepted > 0)
    <3>1. NoAnswer.delivered = FALSE
      BY DEF NoAnswer, Answer
    <3> QED
      BY <1>7, <3>1, AnswerFacts DEF Decide, Exporting, OtlpTyped, Delivered
  <2>2. CASE Return(answer.delivered)
    <3>1. OneExport!Ship
      BY <1>7, <2>1, <2>2, OutcomeShips DEF Decide
    <3> QED
      BY <3>1 DEF OneExport!Next
  <2>3. CASE xpc' = "sleep" /\ UNCHANGED outcome
    BY <1>7, <2>3, ExportHidden DEF Decide
  <2>4. Return(answer.delivered) \/ (xpc' = "sleep" /\ UNCHANGED outcome)
    BY <1>7 DEF Decide
  <2> QED
    BY <2>2, <2>3, <2>4
<1>8. CASE Sleep
  BY <1>8, ExportHidden DEF Sleep
<1>9. CASE Cancel
  <2>1. OneExport!Abort
    BY <1>9 DEF Cancel, clientVars, Idle, OneExport!Abort
  <2> QED
    BY <2>1 DEF OneExport!Next
<1>10. CASE UNCHANGED otlpVars
  BY <1>10 DEF otlpVars, clientVars, Idle, OneExport!stepVars
<1> QED
  BY <1>1, <1>2, <1>3, <1>4, <1>5, <1>6, <1>7, <1>8, <1>9, <1>10 DEF OtlpNext

(* However many attempts a payload takes, to the output pipeline its       *)
(* export is one step with one true outcome (otlp/mod.rs, export_loop).    *)
THEOREM ClientExports == OtlpSpec => ImplementsExport
<1>1. Exporting /\ [OtlpNext]_otlpVars => [OneExport!Next]_OneExport!stepVars
  BY ExportMoves
<1> QED
  BY <1>1, ExportBegins, ExportingInvariant, PTL DEF OtlpSpec, ImplementsExport, OneExport!Spec

-----------------------------------------------------------------------------
(* Launch: however the command ends, it leaves nothing behind.             *)

(* What the type invariant says of the Boolean variables.                  *)
Flags == /\ stubborn \in BOOLEAN /\ pendingTerm \in BOOLEAN /\ partial \in BOOLEAN
         /\ stopsChild \in BOOLEAN /\ strays \in BOOLEAN

(* The type invariant without them.                                        *)
Typed ==
    /\ lpc \in Steps
    /\ child \in {"none", "starting", "stopped", "running", "zombie", "reaped"}
    /\ group \in {"none", "made", "removed"} /\ inGroup = (group # "none")
    /\ forks \in 0..MaxForks /\ descendants \in 0..forks
    /\ killFile \in {"works", "fails", "absent"} /\ recorded \in {"none", "ok", "failed"}

(* Where the child exists, and where nobody has waited for it yet.         *)
Followed ==
    /\ lpc = "spawn" => child = "none"
    /\ lpc \notin {"spawn", "returned"} => child # "none"
    /\ lpc \in {"waitStopped", "createCgroup", "prepare", "record", "recording", "look"} => child # "reaped"
    /\ lpc = "returned" => child \in {"none", "reaped"}

(* A signal for the child's id is sent only while the id is the child's.   *)
Aimed ==
    /\ lpc \in {"terminate", "signal"} /\ stopsChild => child # "reaped"
    /\ lpc \in {"look", "terminate", "signal", "wait"} => recorded # "none"
    /\ lpc # "returned" /\ recorded = "none" /\ child = "reaped" => group = "none"
    /\ strays => lpc = "returned" /\ recorded = "none" /\ group = "none"

(* Where the cgroup exists.                                                *)
Grouped ==
    /\ lpc \in {"spawn", "waitStopped", "createCgroup"} => group = "none"
    /\ lpc \in {"terminate", "dropCgroup"} => group = "made"
    /\ group = "removed" => lpc \in {"dropGuard", "returned"}

(* From when on nothing lives in a cgroup that is killed as a whole.       *)
Emptied ==
    inGroup /\ killFile = "works" =>
        /\ lpc \in {"signal", "wait", "dropGuard", "returned"} =>
              descendants = 0 /\ child \in {"zombie", "reaped"}
        /\ lpc \in {"dropGuard", "returned"} => group = "removed"

Launching == Typed /\ Flags /\ Followed /\ Aimed /\ Grouped /\ Emptied

(* Killing the cgroup starts nothing.                                      *)
LEMMA TerminatedTyped ==
    ASSUME Typed, Terminated
    PROVE  /\ child' \in {"none", "starting", "stopped", "running", "zombie", "reaped"}
           /\ descendants' \in 0..forks
<1>1. /\ descendants \in 0..forks /\ forks \in Nat
      /\ \A d \in 0..descendants : d \in 0..forks
      /\ 0 \in 0..forks
  BY LaunchAssumption DEF Typed
<1>2. CASE killFile = "works"
  BY <1>1, <1>2 DEF Terminated, Typed
<1>3. CASE killFile = "absent"
  BY <1>1, <1>3 DEF Terminated, Typed
<1>4. CASE killFile = "fails"
  BY <1>1, <1>4 DEF Terminated, Typed
<1> QED
  BY <1>2, <1>3, <1>4 DEF Typed

LEMMA LaunchingInit == LaunchInit => Launching
<1> SUFFICES ASSUME LaunchInit PROVE Launching
  OBVIOUS
<1>1. Typed
  <2>1. inGroup = (group # "none")
    BY DEF LaunchInit
  <2>2. forks \in 0..MaxForks /\ descendants \in 0..forks
    BY LaunchAssumption DEF LaunchInit
  <2> QED
    BY <2>1, <2>2 DEF LaunchInit, Typed, Steps
<1>2. Flags
  BY DEF LaunchInit, Flags
<1> QED
  BY <1>1, <1>2 DEF LaunchInit, Launching, Followed, Aimed, Grouped, Emptied

LEMMA LaunchingStep == Launching /\ [LaunchNext]_launchVars => Launching'
<1> SUFFICES ASSUME Launching, [LaunchNext]_launchVars PROVE Launching'
  OBVIOUS
<1> USE LaunchAssumption DEF Launching
<1>1. CASE Stops
  <2>1. Typed'
    BY <1>1 DEF Stops, Typed, Steps
  <2>2. Flags'
    BY <1>1 DEF Stops, Flags
  <2>3. Followed'
    BY <1>1 DEF Stops, Typed, Steps, Followed
  <2>4. Aimed'
    BY <1>1 DEF Stops, Typed, Followed, Aimed, Grouped
  <2>5. Grouped' /\ Emptied'
    BY <1>1 DEF Stops, Typed, Followed, Grouped, Emptied
  <2> QED
    BY <2>1, <2>2, <2>3, <2>4, <2>5
<1>2. CASE Forks
  <2>1. Typed'
    BY <1>2 DEF Forks, Typed, Steps
  <2>2. Flags'
    BY <1>2 DEF Forks, Flags
  <2>3. Followed'
    BY <1>2 DEF Forks, Typed, Steps, Followed
  <2>4. Aimed'
    BY <1>2 DEF Forks, Typed, Followed, Aimed, Grouped
  <2>5. Grouped' /\ Emptied'
    BY <1>2 DEF Forks, Typed, Followed, Grouped, Emptied
  <2> QED
    BY <2>1, <2>2, <2>3, <2>4, <2>5
<1>3. CASE Ends
  <2>1. Typed'
    BY <1>3 DEF Ends, Alive, Typed, Steps
  <2>2. Flags'
    BY <1>3 DEF Ends, Alive, Flags
  <2>3. Followed'
    BY <1>3 DEF Ends, Alive, Typed, Steps, Followed
  <2>4. Aimed'
    BY <1>3 DEF Ends, Alive, Typed, Followed, Aimed, Grouped
  <2>5. Grouped' /\ Emptied'
    BY <1>3 DEF Ends, Alive, Typed, Followed, Grouped, Emptied
  <2> QED
    BY <2>1, <2>2, <2>3, <2>4, <2>5
<1>4. CASE Spawn
  <2>1. Typed'
    BY <1>4 DEF Spawn, Goes, Typed, Steps
  <2>2. Flags'
    BY <1>4 DEF Spawn, Goes, Flags
  <2>3. Followed'
    BY <1>4 DEF Spawn, Goes, Typed, Steps, Followed
  <2>4. Aimed'
    BY <1>4 DEF Spawn, Goes, Typed, Followed, Aimed, Grouped
  <2>5. Grouped' /\ Emptied'
    BY <1>4 DEF Spawn, Goes, Typed, Followed, Grouped, Emptied
  <2> QED
    BY <2>1, <2>2, <2>3, <2>4, <2>5
<1>5. CASE WaitStopped
  <2>1. Typed'
    BY <1>5 DEF WaitStopped, Goes, Unwind, Typed, Steps
  <2>2. Flags'
    BY <1>5 DEF WaitStopped, Goes, Unwind, Flags
  <2>3. Followed'
    BY <1>5 DEF WaitStopped, Goes, Unwind, Typed, Steps, Followed
  <2>4. Aimed'
    BY <1>5 DEF WaitStopped, Goes, Unwind, Typed, Followed, Aimed, Grouped
  <2>5. Grouped' /\ Emptied'
    BY <1>5 DEF WaitStopped, Goes, Unwind, Typed, Followed, Grouped, Emptied
  <2> QED
    BY <2>1, <2>2, <2>3, <2>4, <2>5
<1>6. CASE CreateCgroup
  <2>1. Typed'
    BY <1>6 DEF CreateCgroup, Goes, Unwind, Typed, Steps, Followed, Grouped
  <2>2. Flags'
    BY <1>6 DEF CreateCgroup, Goes, Unwind, Flags
  <2>3. Followed'
    BY <1>6 DEF CreateCgroup, Goes, Unwind, Typed, Steps, Followed
  <2>4. Aimed'
    BY <1>6 DEF CreateCgroup, Goes, Unwind, Typed, Followed, Aimed, Grouped
  <2>5. Grouped' /\ Emptied'
    BY <1>6 DEF CreateCgroup, Goes, Unwind, Typed, Followed, Grouped, Emptied
  <2> QED
    BY <2>1, <2>2, <2>3, <2>4, <2>5
<1>7. CASE Prepare
  <2>1. Typed'
    BY <1>7 DEF Prepare, Goes, Unwind, envVars, Typed, Steps
  <2>2. Flags'
    BY <1>7 DEF Prepare, Goes, Unwind, envVars, Flags
  <2>3. Followed'
    BY <1>7 DEF Prepare, Goes, Unwind, envVars, Typed, Steps, Followed
  <2>4. Aimed'
    BY <1>7 DEF Prepare, Goes, Unwind, envVars, Typed, Followed, Aimed, Grouped
  <2>5. Grouped' /\ Emptied'
    BY <1>7 DEF Prepare, Goes, Unwind, envVars, Typed, Followed, Grouped, Emptied
  <2> QED
    BY <2>1, <2>2, <2>3, <2>4, <2>5
<1>8. CASE RecordFails
  <2>1. Typed'
    BY <1>8 DEF RecordFails, Goes, envVars, Typed, Steps
  <2>2. Flags'
    BY <1>8 DEF RecordFails, Goes, envVars, Flags
  <2>3. Followed'
    BY <1>8 DEF RecordFails, Goes, envVars, Typed, Steps, Followed
  <2>4. Aimed'
    BY <1>8 DEF RecordFails, Goes, envVars, Typed, Followed, Aimed, Grouped
  <2>5. Grouped' /\ Emptied'
    BY <1>8 DEF RecordFails, Goes, envVars, Typed, Followed, Grouped, Emptied
  <2> QED
    BY <2>1, <2>2, <2>3, <2>4, <2>5
<1>9. CASE ResumeChild
  <2>1. Typed'
    BY <1>9 DEF ResumeChild, Goes, Typed, Steps
  <2>2. Flags'
    BY <1>9 DEF ResumeChild, Goes, Flags
  <2>3. Followed'
    BY <1>9 DEF ResumeChild, Goes, Typed, Steps, Followed
  <2>4. Aimed'
    BY <1>9 DEF ResumeChild, Goes, Typed, Followed, Aimed, Grouped
  <2>5. Grouped' /\ Emptied'
    BY <1>9 DEF ResumeChild, Goes, Typed, Followed, Grouped, Emptied
  <2> QED
    BY <2>1, <2>2, <2>3, <2>4, <2>5
<1>10. CASE RecordEnds
  <2>1. Typed'
    BY <1>10 DEF RecordEnds, Goes, envVars, Typed, Steps
  <2>2. Flags'
    BY <1>10 DEF RecordEnds, Goes, envVars, Flags
  <2>3. Followed'
    BY <1>10 DEF RecordEnds, Goes, envVars, Typed, Steps, Followed
  <2>4. Aimed'
    BY <1>10 DEF RecordEnds, Goes, envVars, Typed, Followed, Aimed, Grouped
  <2>5. Grouped' /\ Emptied'
    BY <1>10 DEF RecordEnds, Goes, envVars, Typed, Followed, Grouped, Emptied
  <2> QED
    BY <2>1, <2>2, <2>3, <2>4, <2>5
<1>11. CASE Look
  <2>1. Typed'
    BY <1>11 DEF Look, Goes, Alive, Typed, Steps
  <2>2. Flags'
    BY <1>11 DEF Look, Goes, Alive, Flags
  <2>3. Followed'
    BY <1>11 DEF Look, Goes, Alive, Typed, Steps, Followed
  <2>4. Aimed'
    BY <1>11 DEF Look, Goes, Alive, Typed, Followed, Aimed, Grouped
  <2>5. Grouped' /\ Emptied'
    BY <1>11 DEF Look, Goes, Alive, Typed, Followed, Grouped, Emptied
  <2> QED
    BY <2>1, <2>2, <2>3, <2>4, <2>5
<1>12. CASE TerminateCgroup
  <2>1. Typed'
    BY <1>12, TerminatedTyped DEF TerminateCgroup, Goes, Typed, Steps
  <2>2. Flags'
    BY <1>12 DEF TerminateCgroup, Goes, Terminated, Alive, Flags
  <2>3. Followed'
    BY <1>12 DEF TerminateCgroup, Goes, Terminated, Alive, Typed, Steps, Followed
  <2>4. Aimed'
    BY <1>12 DEF TerminateCgroup, Goes, Terminated, Alive, Typed, Followed, Aimed, Grouped
  <2>5. Grouped' /\ Emptied'
    BY <1>12 DEF TerminateCgroup, Goes, Terminated, Alive, Typed, Followed, Grouped, Emptied
  <2> QED
    BY <2>1, <2>2, <2>3, <2>4, <2>5
<1>13. CASE SignalChild
  <2>1. Typed'
    BY <1>13 DEF SignalChild, Goes, NeedsTerm, Typed, Steps
  <2>2. Flags'
    BY <1>13 DEF SignalChild, Goes, NeedsTerm, Flags
  <2>3. Followed'
    BY <1>13 DEF SignalChild, Goes, NeedsTerm, Typed, Steps, Followed
  <2>4. Aimed'
    BY <1>13 DEF SignalChild, Goes, NeedsTerm, Typed, Followed, Aimed, Grouped
  <2>5. Grouped' /\ Emptied'
    BY <1>13 DEF SignalChild, Goes, NeedsTerm, Typed, Followed, Grouped, Emptied
  <2> QED
    BY <2>1, <2>2, <2>3, <2>4, <2>5
<1>14. CASE WaitChild
  <2>1. Typed'
    BY <1>14 DEF WaitChild, Goes, Typed, Steps
  <2>2. Flags'
    BY <1>14 DEF WaitChild, Goes, Flags
  <2>3. Followed'
    BY <1>14 DEF WaitChild, Goes, Typed, Steps, Followed
  <2>4. Aimed'
    BY <1>14 DEF WaitChild, Goes, Typed, Followed, Aimed, Grouped
  <2>5. Grouped' /\ Emptied'
    BY <1>14 DEF WaitChild, Goes, Typed, Followed, Grouped, Emptied
  <2> QED
    BY <2>1, <2>2, <2>3, <2>4, <2>5
<1>15. CASE DropCgroup
  <2>1. Typed'
    <3>1. Terminated
      BY <1>15 DEF DropCgroup, KilledFirst
    <3>2. group' \in {"made", "removed"} /\ inGroup' = TRUE
      BY <1>15 DEF DropCgroup, Grouped, Typed
    <3> QED
      BY <1>15, <3>1, <3>2, TerminatedTyped DEF DropCgroup, Goes, Typed, Steps
  <2>2. Flags'
    BY <1>15 DEF DropCgroup, Goes, KilledFirst, Terminated, Alive, Flags
  <2>3. Followed'
    BY <1>15 DEF DropCgroup, Goes, KilledFirst, Terminated, Alive, Typed, Steps, Followed
  <2>4. Aimed'
    BY <1>15 DEF DropCgroup, Goes, KilledFirst, Terminated, Alive, Typed, Followed, Aimed, Grouped
  <2>5. Grouped' /\ Emptied'
    BY <1>15 DEF DropCgroup, Goes, KilledFirst, Terminated, Alive, Typed, Followed, Grouped, Emptied
  <2> QED
    BY <2>1, <2>2, <2>3, <2>4, <2>5
<1>16. CASE DropGuard
  <2>1. Typed'
    BY <1>16 DEF DropGuard, Goes, Armed, Typed, Steps
  <2>2. Flags'
    BY <1>16 DEF DropGuard, Goes, Armed, Flags
  <2>3. Followed'
    BY <1>16 DEF DropGuard, Goes, Armed, Typed, Steps, Followed
  <2>4. Aimed'
    <3>1. strays' => recorded = "none" /\ group = "none"
      <4>1. ~strays
        BY <1>16 DEF DropGuard, Aimed
      <4>2. Armed /\ child = "reaped" => recorded = "none" /\ group = "none"
        BY <1>16 DEF DropGuard, Armed, Aimed
      <4> QED
        BY <1>16, <4>1, <4>2 DEF DropGuard
    <3> QED
      BY <1>16, <3>1 DEF DropGuard, Goes, Aimed
  <2>5. Grouped' /\ Emptied'
    BY <1>16 DEF DropGuard, Goes, Armed, Typed, Followed, Grouped, Emptied
  <2> QED
    BY <2>1, <2>2, <2>3, <2>4, <2>5
<1>17. CASE UNCHANGED launchVars
  BY <1>17 DEF launchVars, envVars, Typed, Flags, Followed, Aimed, Grouped, Emptied
<1> QED
  BY <1>1, <1>2, <1>3, <1>4, <1>5, <1>6, <1>7, <1>8, <1>9, <1>10, <1>11, <1>12, <1>13, <1>14, <1>15, <1>16, <1>17 DEF LaunchNext

LEMMA LaunchingInvariant == LaunchSpec => []Launching
  BY LaunchingInit, LaunchingStep, PTL DEF LaunchSpec

(* Every variable of the launcher and of the child keeps its type.         *)
THEOREM LauncherTyped == LaunchSpec => []LaunchTyped
<1>1. Launching => LaunchTyped
  BY DEF Launching, Typed, Flags, LaunchTyped
<1> QED
  BY <1>1, LaunchingInvariant, PTL

(* However launch ends, its child is waited for, no signal goes to an id   *)
(* that is not the child's any more (unless the child ended before it      *)
(* stopped itself), and a cgroup that can be killed as a whole is gone     *)
(* with all its processes.                                                 *)
THEOREM LaunchCleansUp == LaunchSpec => []NothingLeftBehind
<1>1. Launching => NothingLeftBehind
  BY DEF Launching, Followed, Aimed, Emptied, NothingLeftBehind
<1> QED
  BY <1>1, LaunchingInvariant, PTL

-----------------------------------------------------------------------------
(* The import of perf captures.                                            *)

(* What a window holds.                                                    *)
Aggregates(w) ==
    /\ w = [total |-> w.total, stacks |-> w.stacks, aggregated |-> w.aggregated, dropped |-> w.dropped]
    /\ w.aggregated \in Nat /\ w.dropped \in Nat /\ w.total = w.aggregated + w.dropped
Writtens == {w \in [index : Nat, total : Nat, aggregated : Nat, dropped : Nat] : w.total = w.aggregated + w.dropped}

Holdings ==
    /\ IsFiniteSet(DOMAIN open) /\ open = [i \in DOMAIN open |-> open[i]]
    /\ \A i \in DOMAIN open : Aggregates(open[i])
    /\ written \in Seq(Writtens)

(* Windows are written in the order of time: what is written is before     *)
(* flushed_before, and what is open is not.                                *)
Chronological ==
    /\ \A i, j \in DOMAIN written : i < j => written[i].index < written[j].index
    /\ ipc # "failed" => \A i \in DOMAIN written : \A j \in DOMAIN open : written[i].index < j
    /\ ipc \in {"read", "evict"} => /\ \A i \in DOMAIN written : written[i].index < flushedBefore
                                    /\ \A j \in DOMAIN open : j >= flushedBefore

(* A window is written only when MAX_PENDING_WINDOWS later ones are known. *)
Outrun ==
    /\ known \in SUBSET Nat /\ IsFiniteSet(known) /\ DOMAIN open \subseteq known
    /\ flushedBefore > 0 => Cardinality({j \in known : j >= flushedBefore}) >= MaxOpen
    /\ \A l \in tooLate : Cardinality(l.after) >= MaxOpen

Accounted == ipc # "failed" => records = late + skipped + SamplesOf(open) + SamplesOf(written)

Importing == ImportTyped /\ Holdings /\ Chronological /\ Outrun /\ Accounted

LEMMA ImportLimits ==
    /\ MaxOpen \in Nat \ {0} /\ Times \subseteq Nat /\ MaxRecords \in Nat
  BY ImportAssumption DEF ImportAssumption

LEMMA ImportSums ==
    ASSUME NEW W
    PROVE  SamplesOf(W) = Sigma(SamplesIn(W), DOMAIN W)
  BY DEF SamplesOf, Sigma

(* The samples of the open windows and of those written can be added up.   *)
LEMMA ImportCounts ==
    ASSUME Holdings
    PROVE  /\ Counts(SamplesIn(open), DOMAIN open) /\ IsFiniteSet(DOMAIN open) /\ SamplesOf(open) \in Nat
           /\ Counts(SamplesIn(written), DOMAIN written) /\ IsFiniteSet(DOMAIN written) /\ SamplesOf(written) \in Nat
<1>1. Counts(SamplesIn(open), DOMAIN open)
  BY DEF Holdings, Aggregates, Counts, SamplesIn
<1>2. IsFiniteSet(DOMAIN written) /\ DOMAIN written = 1..Len(written) /\ Len(written) \in Nat
  <2>1. DOMAIN written = 1..Len(written) /\ Len(written) \in Nat
    BY DEF Holdings
  <2> QED
    BY <2>1, FS_Interval
<1>3. Counts(SamplesIn(written), DOMAIN written)
  <2>1. \A i \in DOMAIN written : written[i] \in Writtens
    BY DEF Holdings
  <2> QED
    BY <2>1 DEF Counts, SamplesIn, Writtens
<1> QED
  BY <1>1, <1>2, <1>3, ImportSums, SigmaFacts DEF Holdings

Countable == Holdings => SamplesOf(open) \in Nat /\ SamplesOf(written) \in Nat

LEMMA ImportCountable == Countable
  BY ImportCounts DEF Countable

LEMMA ImportCountsNext ==
    ASSUME Holdings'
    PROVE  SamplesOf(open)' \in Nat /\ SamplesOf(written)' \in Nat
<1>1. Countable'
  BY ImportCountable, PTL
<1> QED
  BY <1>1 DEF Countable

LEMMA ImportingInit == ImportInit => Importing
<1> SUFFICES ASSUME ImportInit PROVE Importing
  OBVIOUS
<1>1. DOMAIN open = {} /\ written = <<>> /\ DOMAIN written = {} /\ known = {} /\ IsFiniteSet({}) /\ Cardinality({}) = 0
  BY FS_EmptySet DEF ImportInit, NoWindows
<1>2. SamplesOf(open) = 0 /\ SamplesOf(written) = 0
  BY <1>1, ImportSums, SigmaEmpty
<1>3. open = [i \in DOMAIN open |-> open[i]]
  BY DEF ImportInit, NoWindows
<1> QED
  BY <1>1, <1>2, <1>3, ImportLimits DEF ImportInit, Importing, ImportTyped, Holdings, Chronological, Outrun, Accounted

(* One sample more in a window.                                            *)
LEMMA OneSampleMore ==
    ASSUME Holdings, DOMAIN open \subseteq Nat, NEW i \in Nat, NEW s,
           open' = [j \in DOMAIN open \cup {i} |-> IF j = i THEN With(Holding(i), s) ELSE open[j]]
    PROVE  /\ DOMAIN open' = DOMAIN open \cup {i} /\ IsFiniteSet(DOMAIN open')
           /\ open' = [j \in DOMAIN open' |-> open'[j]]
           /\ \A j \in DOMAIN open' : Aggregates(open'[j])
           /\ SamplesOf(open') = SamplesOf(open) + 1
<1> DEFINE w == Holding(i)
<1>1. Aggregates(w) /\ (i \notin DOMAIN open => w.total = 0) /\ (i \in DOMAIN open => w = open[i])
  <2>1. CASE i \in DOMAIN open
    BY <2>1 DEF Holding, Holdings
  <2>2. CASE i \notin DOMAIN open
    <3>1. w = EmptyWindow
      BY <2>2 DEF Holding
    <3> QED
      BY <2>2, <3>1 DEF EmptyWindow, Aggregates
  <2> QED
    BY <2>1, <2>2
<1> HIDE DEF w
<1>2. Aggregates(With(w, s)) /\ With(w, s).total = w.total + 1
  <2>1. CASE s \in w.stacks \/ Cardinality(w.stacks) < MaxDistinct
    <3>1. With(w, s) = [total |-> w.total + 1, stacks |-> w.stacks \cup {s}, aggregated |-> w.aggregated + 1, dropped |-> w.dropped]
      BY <1>1, <2>1 DEF With, Aggregates
    <3> QED
      BY <1>1, <3>1 DEF Aggregates
  <2>2. CASE ~(s \in w.stacks \/ Cardinality(w.stacks) < MaxDistinct)
    <3>1. With(w, s) = [total |-> w.total + 1, stacks |-> w.stacks, aggregated |-> w.aggregated, dropped |-> w.dropped + 1]
      BY <1>1, <2>2 DEF With, Aggregates
    <3> QED
      BY <1>1, <3>1 DEF Aggregates
  <2> QED
    BY <2>1, <2>2
<1>3. /\ DOMAIN open' = DOMAIN open \cup {i} /\ open' = [j \in DOMAIN open' |-> open'[j]]
      /\ open'[i] = With(w, s) /\ \A j \in DOMAIN open \ {i} : open'[j] = open[j]
  BY DEF w
<1>4. IsFiniteSet(DOMAIN open')
  BY <1>3, FS_AddElement DEF Holdings
<1>5. \A j \in DOMAIN open' : Aggregates(open'[j])
  BY <1>2, <1>3 DEF Holdings
<1>6. SamplesOf(open') = SamplesOf(open) + 1
  <2> DEFINE D == DOMAIN open  f == SamplesIn(open)  g == SamplesIn(open')
  <2>1. Counts(f, D) /\ IsFiniteSet(D) /\ SamplesOf(open) = Sigma(f, D) /\ SamplesOf(open') = Sigma(g, D \cup {i})
        /\ SamplesOf(open) \in Nat
    BY <1>3, ImportSums, ImportCounts
  <2>2. g[i] = w.total + 1 /\ w.total \in Nat /\ g[i] \in Nat
    BY <1>1, <1>2, <1>3 DEF SamplesIn, Aggregates
  <2>3. \A j \in D \ {i} : g[j] = f[j]
    BY <1>3 DEF SamplesIn
  <2>4. CASE i \in D
    <3>1. D \cup {i} = D /\ f[i] = w.total
      BY <1>1, <2>4 DEF SamplesIn
    <3> HIDE DEF D, f, g
    <3>2. Sigma(f, D) = f[i] + Sigma(f, D \ {i}) /\ Sigma(g, D) = g[i] + Sigma(f, D \ {i}) /\ Sigma(f, D \ {i}) \in Nat
      <4>1. IsFiniteSet(D \ {i}) /\ Counts(f, D \ {i})
        BY <2>1, FS_Subset DEF Counts
      <4>2. Counts(g, D) /\ Counts(g, D \ {i})
        BY <2>1, <2>2, <2>3 DEF Counts
      <4>3. Sigma(f, D) = f[i] + Sigma(f, D \ {i}) /\ Sigma(f, D \ {i}) \in Nat
        BY <2>1, <2>4, <4>1, SigmaFacts
      <4>4. Sigma(g, D) = g[i] + Sigma(g, D \ {i})
        BY <2>1, <2>4, <4>2, SigmaFacts
      <4>5. Sigma(g, D \ {i}) = Sigma(f, D \ {i})
        BY <2>3, <4>1, <4>2, SigmaSame
      <4> QED
        BY <4>3, <4>4, <4>5
    <3>3. Sigma(g, D \cup {i}) = Sigma(g, D)
      BY <3>1
    <3>4. SamplesOf(open') = g[i] + Sigma(f, D \ {i}) /\ SamplesOf(open) = f[i] + Sigma(f, D \ {i})
      BY <2>1, <3>2, <3>3
    <3> QED
      BY <2>2, <3>1, <3>2, <3>4
  <2>5. CASE i \notin D
    <3>1. w.total = 0
      BY <1>1, <2>5
    <3> HIDE DEF D, f, g
    <3>2. Counts(g, D) /\ Sigma(g, D) = Sigma(f, D)
      <4>1. Counts(g, D)
        BY <2>1, <2>3, <2>5 DEF Counts
      <4> QED
        BY <2>1, <2>3, <2>5, <4>1, SigmaSame
    <3>3. Sigma(g, D \cup {i}) = g[i] + Sigma(g, D)
      BY <2>1, <2>2, <2>5, <3>2, SigmaAdd
    <3> QED
      BY <2>1, <2>2, <3>1, <3>2, <3>3
  <2> QED
    BY <2>4, <2>5
<1> QED
  BY <1>3, <1>4, <1>5, <1>6

LEMMA OldestIs ==
    ASSUME NEW W \in SUBSET Nat, W # {}
    PROVE  Oldest(W) \in W /\ \A j \in W : Oldest(W) <= j
<1>1. \E i \in W : \A j \in W : i <= j
  BY LeastNumber
<1> QED
  BY <1>1 DEF Oldest

(* A window is taken out and written, or the import fails.                 *)
LEMMA OneWindowLess ==
    ASSUME Holdings, Chronological, DOMAIN open \subseteq Nat, NEW i \in DOMAIN open, \A j \in DOMAIN open : i <= j,
           ipc # "failed", WriteWindow(i)
    PROVE  /\ DOMAIN open' = DOMAIN open \ {i} /\ Holdings'
           /\ \A j, k \in DOMAIN written' : j < k => written'[j].index < written'[k].index
           /\ \/ ipc' = "failed"
              \/ /\ ipc' = ipc
                 /\ \A j \in DOMAIN written' : written'[j].index <= i
                 /\ SamplesOf(open') + SamplesOf(written') = SamplesOf(open) + SamplesOf(written)
<1> DEFINE w == [index |-> i, total |-> open[i].total, aggregated |-> open[i].aggregated, dropped |-> open[i].dropped]
<1>1. i \in Nat /\ Aggregates(open[i]) /\ w \in Writtens
  BY DEF Holdings, Aggregates, Writtens
<1>2. /\ open' = [j \in DOMAIN open \ {i} |-> open[j]]
      /\ \/ written' = Append(written, w) /\ ipc' = ipc
         \/ ipc' = "failed" /\ written' = written
  BY DEF WriteWindow
<1>3. DOMAIN open' = DOMAIN open \ {i} /\ \A j \in DOMAIN open' : open'[j] = open[j]
  BY <1>2
<1> HIDE DEF w
<1>4. written \in Seq(Writtens) /\ Len(written) \in Nat /\ DOMAIN written = 1..Len(written)
  BY DEF Holdings
<1>5. written' = Append(written, w) =>
        /\ written' \in Seq(Writtens) /\ DOMAIN written' = DOMAIN written \cup {Len(written) + 1}
        /\ Len(written) + 1 \notin DOMAIN written
        /\ \A j \in DOMAIN written : written'[j] = written[j]
        /\ written'[Len(written) + 1] = w
  BY <1>1, <1>4
<1>6. Holdings'
  <2>1. IsFiniteSet(DOMAIN open')
    BY <1>3, FS_Subset DEF Holdings
  <2>2. \A j \in DOMAIN open' : Aggregates(open'[j])
    BY <1>3 DEF Holdings
  <2>3. open' = [j \in DOMAIN open' |-> open'[j]]
    BY <1>2
  <2> QED
    BY <1>2, <1>4, <1>5, <2>1, <2>2, <2>3 DEF Holdings, Aggregates
<1>7. CASE written' = Append(written, w) /\ ipc' = ipc
  <2>1. w.index = i /\ w.total = open[i].total
    BY DEF w
  <2>2. \A j \in DOMAIN written : written[j] \in Writtens /\ written[j].index < i
    BY <1>4 DEF Chronological
  <2>3. \A j, k \in DOMAIN written' : j < k => written'[j].index < written'[k].index
    <3> SUFFICES ASSUME NEW j \in DOMAIN written', NEW k \in DOMAIN written', j < k
                 PROVE  written'[j].index < written'[k].index
      OBVIOUS
    <3>1. j \in Nat /\ k \in Nat /\ j \in DOMAIN written
      BY <1>4, <1>5, <1>7
    <3>2. CASE k \in DOMAIN written
      BY <1>5, <1>7, <3>1, <3>2 DEF Chronological
    <3>3. CASE k = Len(written) + 1
      BY <1>5, <1>7, <2>1, <2>2, <3>1, <3>3
    <3> QED
      BY <1>5, <1>7, <3>2, <3>3
  <2>4. \A j \in DOMAIN written' : written'[j].index <= i
    <3>0. \A j \in DOMAIN written : written[j].index \in Nat /\ written[j].index < i
      BY <2>2 DEF Writtens
    <3>1. \A j \in DOMAIN written : written'[j].index <= i
      BY <1>1, <1>5, <1>7, <3>0
    <3> QED
      BY <1>1, <1>5, <1>7, <2>1, <3>1
  <2>5. SamplesOf(open') + SamplesOf(written') = SamplesOf(open) + SamplesOf(written)
    <3> DEFINE D == DOMAIN open  f == SamplesIn(open)  g == SamplesIn(open')
               E == DOMAIN written  u == SamplesIn(written)  v == SamplesIn(written')  n == Len(written) + 1
    <3>1. /\ Counts(f, D) /\ IsFiniteSet(D) /\ SamplesOf(open) = Sigma(f, D) /\ SamplesOf(open') = Sigma(g, D \ {i})
          /\ Counts(u, E) /\ IsFiniteSet(E) /\ SamplesOf(written) = Sigma(u, E) /\ SamplesOf(written') = Sigma(v, E \cup {n})
      BY <1>3, <1>5, <1>7, ImportSums, ImportCounts
    <3>2. \A j \in D \ {i} : g[j] = f[j]
      BY <1>3 DEF SamplesIn
    <3>3. (\A j \in E : v[j] = u[j]) /\ n \notin E
      BY <1>5, <1>7 DEF SamplesIn
    <3>4. v[n] = f[i] /\ f[i] \in Nat /\ i \in D
      BY <1>1, <1>5, <1>7, <2>1 DEF SamplesIn, Aggregates
    <3> HIDE DEF D, E, f, g, u, v, n
    <3>5. Sigma(f, D) = f[i] + Sigma(f, D \ {i}) /\ Sigma(f, D \ {i}) \in Nat
      <4>1. IsFiniteSet(D \ {i}) /\ Counts(f, D \ {i})
        BY <3>1, FS_Subset DEF Counts
      <4> QED
        BY <3>1, <3>4, <4>1, SigmaFacts
    <3>6. Sigma(g, D \ {i}) = Sigma(f, D \ {i})
      <4>1. IsFiniteSet(D \ {i}) /\ Counts(g, D \ {i})
        BY <3>1, <3>2, FS_Subset DEF Counts
      <4> QED
        BY <3>2, <4>1, SigmaSame
    <3>7. Sigma(v, E \cup {n}) = v[n] + Sigma(v, E) /\ Sigma(v, E) = Sigma(u, E) /\ Sigma(u, E) \in Nat
      <4>1. Counts(v, E)
        BY <3>1, <3>3 DEF Counts
      <4>2. Sigma(v, E) = Sigma(u, E)
        BY <3>1, <3>3, <4>1, SigmaSame
      <4>3. Sigma(v, E \cup {n}) = v[n] + Sigma(v, E)
        BY <3>1, <3>3, <3>4, <4>1, SigmaAdd
      <4> QED
        BY <3>1, <4>2, <4>3, SigmaFacts
    <3> QED
      BY <3>1, <3>4, <3>5, <3>6, <3>7
  <2> QED
    BY <1>3, <1>6, <1>7, <2>3, <2>4, <2>5
<1>8. CASE ipc' = "failed" /\ written' = written
  BY <1>3, <1>6, <1>8 DEF Chronological
<1> QED
  BY <1>2, <1>7, <1>8

LEMMA ImportingRead == Importing /\ ReadSample => Importing'
<1> SUFFICES ASSUME Importing, ReadSample PROVE Importing'
  OBVIOUS
<1>0. /\ ImportTyped /\ Holdings /\ Chronological /\ Outrun /\ Accounted
      /\ MaxOpen \in Nat \ {0} /\ Times \subseteq Nat /\ MaxRecords \in Nat
  BY ImportLimits DEF Importing
<1>1. ipc = "read" /\ records < MaxRecords /\ records' = records + 1 /\ UNCHANGED <<flushedBefore, written>>
  BY DEF ReadSample
<1>2. PICK t \in Times, s \in ImportStacks \cup {"none"} :
         LET first == IF firstTime = -1 THEN t ELSE firstTime
             i     == IndexOf(t, first)
         IN  /\ firstTime' = first
             /\ \/ /\ i < flushedBefore
                   /\ late' = late + 1
                   /\ tooLate' = tooLate \cup {[index |-> i, after |-> {j \in known : j > i}]}
                   /\ UNCHANGED <<ipc, open, known, skipped>>
                \/ /\ i >= flushedBefore /\ s = "none"
                   /\ skipped' = skipped + 1
                   /\ UNCHANGED <<ipc, open, known, late, tooLate>>
                \/ /\ i >= flushedBefore /\ s # "none"
                   /\ open' = [j \in DOMAIN open \cup {i} |->
                                  IF j = i THEN With(Holding(i), s) ELSE open[j]]
                   /\ known' = known \cup {i}
                   /\ ipc' = "evict"
                   /\ UNCHANGED <<late, tooLate, skipped>>
  BY DEF ReadSample
<1> DEFINE first == IF firstTime = -1 THEN t ELSE firstTime
    i == IndexOf(t, first)
<1>3. first \in Times /\ i \in Nat /\ firstTime' = first
  <2>1. firstTime \in Times \cup {-1}
    BY <1>0 DEF ImportTyped
  <2>2. first \in Times /\ firstTime' = first
    BY <1>2, <2>1
  <2> HIDE DEF first
  <2> QED
    BY <1>0, <2>2 DEF IndexOf
<1>4. \/ /\ i < flushedBefore
         /\ late' = late + 1
         /\ tooLate' = tooLate \cup {[index |-> i, after |-> {j \in known : j > i}]}
         /\ UNCHANGED <<ipc, open, known, skipped>>
      \/ /\ i >= flushedBefore
         /\ skipped' = skipped + 1
         /\ UNCHANGED <<ipc, open, known, late, tooLate>>
      \/ /\ i >= flushedBefore
         /\ open' = [j \in DOMAIN open \cup {i} |-> IF j = i THEN With(Holding(i), s) ELSE open[j]]
         /\ known' = known \cup {i}
         /\ ipc' = "evict"
         /\ UNCHANGED <<late, tooLate, skipped>>
  BY <1>2
<1> HIDE DEF first, i
<1>5. SamplesOf(open) \in Nat /\ SamplesOf(written) \in Nat /\ records' \in 0..MaxRecords
      /\ records = late + skipped + SamplesOf(open) + SamplesOf(written)
      /\ late \in Nat /\ skipped \in Nat /\ flushedBefore \in Nat
  BY <1>0, <1>1, ImportCounts DEF Accounted, ImportTyped
<1>6. CASE i < flushedBefore /\ late' = late + 1 /\ tooLate' = tooLate \cup {[index |-> i, after |-> {j \in known : j > i}]}
           /\ UNCHANGED <<ipc, open, known, skipped>>
  <2>1. Cardinality({j \in known : j > i}) >= MaxOpen
    <3> DEFINE K == {j \in known : j >= flushedBefore}  L == {j \in known : j > i}
    <3>1. Cardinality(K) >= MaxOpen
      BY <1>3, <1>5, <1>6, <1>0 DEF Outrun
    <3>2. K \subseteq L
      <4>1. \A j \in known : j \in Nat
        BY <1>0 DEF Outrun
      <4>2. \A j \in known : j >= flushedBefore => j > i
        BY <1>3, <1>5, <1>6, <4>1
      <4> QED
        BY <4>2
    <3>3. IsFiniteSet(L) /\ IsFiniteSet(K)
      BY <1>0, FS_Subset DEF Outrun
    <3> HIDE DEF K, L
    <3>4. Cardinality(K) <= Cardinality(L) /\ Cardinality(K) \in Nat /\ Cardinality(L) \in Nat
      BY <3>2, <3>3, FS_Subset, FS_CardinalityType
    <3>5. Cardinality(L) >= MaxOpen
      BY <1>0, <3>1, <3>4
    <3> QED
      BY <3>5 DEF L
  <2>2. Outrun'
    <3>1. known' \in SUBSET Nat /\ IsFiniteSet(known') /\ DOMAIN open' \subseteq known'
      BY <1>0, <1>6 DEF Outrun
    <3>2. flushedBefore' > 0 => Cardinality({j \in known' : j >= flushedBefore'}) >= MaxOpen
      BY <1>0, <1>1, <1>6 DEF Outrun
    <3>3. \A l \in tooLate' : Cardinality(l.after) >= MaxOpen
      <4> DEFINE l0 == [index |-> i, after |-> {j \in known : j > i}]
      <4>1. Cardinality(l0.after) >= MaxOpen
        BY <2>1
      <4>2. tooLate' = tooLate \cup {l0}
        BY <1>6
      <4> HIDE DEF l0
      <4> QED
        BY <1>0, <4>1, <4>2 DEF Outrun
    <3> QED
      BY <3>1, <3>2, <3>3 DEF Outrun
  <2>3. Accounted'
    BY <1>1, <1>5, <1>6 DEF Accounted
  <2>4. ImportTyped'
    BY <1>0, <1>1, <1>3, <1>5, <1>6 DEF ImportTyped
  <2>5. Holdings' /\ Chronological'
    BY <1>0, <1>1, <1>6 DEF Holdings, Aggregates, Chronological
  <2> QED
    BY <2>2, <2>3, <2>4, <2>5 DEF Importing
<1>7. CASE skipped' = skipped + 1 /\ UNCHANGED <<ipc, open, known, late, tooLate>>
  <2>1. Accounted'
    BY <1>1, <1>5, <1>7 DEF Accounted
  <2>2. ImportTyped'
    BY <1>0, <1>1, <1>3, <1>5, <1>7 DEF ImportTyped
  <2>3. Holdings' /\ Chronological'
    BY <1>0, <1>1, <1>7 DEF Holdings, Aggregates, Chronological
  <2>4. Outrun'
    BY <1>0, <1>1, <1>7 DEF Outrun
  <2> QED
    BY <2>1, <2>2, <2>3, <2>4 DEF Importing
<1>8. CASE /\ i >= flushedBefore
           /\ open' = [j \in DOMAIN open \cup {i} |-> IF j = i THEN With(Holding(i), s) ELSE open[j]]
           /\ known' = known \cup {i} /\ ipc' = "evict" /\ UNCHANGED <<late, tooLate, skipped>>
  <2>1. /\ DOMAIN open' = DOMAIN open \cup {i} /\ IsFiniteSet(DOMAIN open')
        /\ open' = [j \in DOMAIN open' |-> open'[j]]
        /\ \A j \in DOMAIN open' : Aggregates(open'[j])
        /\ SamplesOf(open') = SamplesOf(open) + 1
    BY <1>0, <1>3, <1>8, OneSampleMore DEF ImportTyped
  <2>2. Cardinality(DOMAIN open') <= MaxOpen + 1 /\ DOMAIN open' \subseteq Nat
    <3>1. IsFiniteSet(DOMAIN open) /\ Cardinality(DOMAIN open) \in Nat /\ Cardinality(DOMAIN open) <= MaxOpen
      BY <1>0, <1>1, FS_CardinalityType DEF Holdings, ImportTyped
    <3>2. Cardinality(DOMAIN open') \in {Cardinality(DOMAIN open), Cardinality(DOMAIN open) + 1}
      BY <2>1, <3>1, FS_AddElement
    <3> QED
      BY <1>0, <1>3, <2>1, <3>1, <3>2 DEF ImportTyped
  <2>3. Chronological'
    <3>1. \A j \in DOMAIN open' : j >= flushedBefore
      BY <1>0, <1>1, <1>8, <2>1 DEF Chronological
    <3>2. \A k \in DOMAIN written : written[k].index < flushedBefore /\ written[k].index \in Nat
      <4>1. \A x \in Writtens : x.index \in Nat
        BY DEF Writtens
      <4>2. \A k \in DOMAIN written : written[k] \in Writtens
        BY <1>0 DEF Holdings
      <4> QED
        BY <1>0, <1>1, <4>1, <4>2 DEF Chronological
    <3>3. \A k \in DOMAIN written : \A j \in DOMAIN open' : written[k].index < j
      BY <1>5, <2>2, <3>1, <3>2
    <3> QED
      BY <1>0, <1>1, <1>8, <3>1, <3>2, <3>3 DEF Chronological
  <2>4. Outrun'
    <3>1. known' \in SUBSET Nat /\ IsFiniteSet(known') /\ DOMAIN open' \subseteq known'
      BY <1>0, <1>3, <1>8, <2>1, FS_AddElement DEF Outrun
    <3>2. flushedBefore' > 0 => Cardinality({j \in known' : j >= flushedBefore'}) >= MaxOpen
      <4> DEFINE K == {j \in known : j >= flushedBefore}  L == {j \in known' : j >= flushedBefore}
      <4>1. K \subseteq L
        BY <1>8
      <4>2. IsFiniteSet(L) /\ IsFiniteSet(K)
        BY <1>0, <3>1, FS_Subset DEF Outrun
      <4>3. flushedBefore > 0 => Cardinality(K) >= MaxOpen
        BY <1>0 DEF Outrun
      <4> HIDE DEF K, L
      <4>4. Cardinality(K) <= Cardinality(L) /\ Cardinality(K) \in Nat /\ Cardinality(L) \in Nat
        BY <4>1, <4>2, FS_Subset, FS_CardinalityType
      <4>5. flushedBefore > 0 => Cardinality(L) >= MaxOpen
        BY <1>0, <4>3, <4>4
      <4> QED
        BY <1>1, <4>5 DEF L
    <3> QED
      BY <1>0, <1>8, <3>1, <3>2 DEF Outrun
  <2>5. Accounted'
    BY <1>1, <1>5, <1>8, <2>1 DEF Accounted
  <2>6. Holdings'
    BY <1>0, <1>1, <2>1 DEF Holdings, Aggregates
  <2>7. ImportTyped'
    BY <1>1, <1>3, <1>5, <1>8, <2>2 DEF ImportTyped
  <2> QED
    BY <2>3, <2>4, <2>5, <2>6, <2>7 DEF Importing
<1> QED
  BY <1>4, <1>6, <1>7, <1>8

LEMMA ImportingEvict == Importing /\ EvictOldest => Importing'
<1> SUFFICES ASSUME Importing, EvictOldest PROVE Importing'
  OBVIOUS
<1>0. /\ ImportTyped /\ Holdings /\ Chronological /\ Outrun /\ Accounted
      /\ MaxOpen \in Nat \ {0}
  BY ImportLimits DEF Importing
<1> DEFINE W == DOMAIN open  i == Oldest(W)
<1>1. /\ ipc = "evict" /\ Cardinality(W) > MaxOpen /\ WriteWindow(i)
      /\ flushedBefore' = (IF ipc' = "failed" THEN flushedBefore ELSE i + 1)
      /\ UNCHANGED <<firstTime, late, records, skipped, tooLate, known>>
  BY DEF EvictOldest, TooMany, Beyond
<1>2. W \in SUBSET Nat /\ IsFiniteSet(W) /\ Cardinality(W) \in Nat /\ W # {}
      /\ Cardinality(W) = MaxOpen + 1
  <2>1. W \in SUBSET Nat /\ IsFiniteSet(W) /\ Cardinality(W) \in Nat /\ Cardinality(W) <= MaxOpen + 1
    BY <1>0, FS_CardinalityType DEF Holdings, ImportTyped
  <2>2. Cardinality(W) = MaxOpen + 1 /\ Cardinality(W) # 0
    BY <1>0, <1>1, <2>1
  <2> QED
    BY <2>1, <2>2, FS_EmptySet
<1>3. i \in W /\ i \in Nat /\ \A j \in W : i <= j
  BY <1>2, OldestIs
<1> HIDE DEF i
<1>4. /\ DOMAIN open' = W \ {i} /\ Holdings'
      /\ \A j, k \in DOMAIN written' : j < k => written'[j].index < written'[k].index
      /\ \/ ipc' = "failed"
         \/ /\ ipc' = ipc
            /\ \A j \in DOMAIN written' : written'[j].index <= i
            /\ SamplesOf(open') + SamplesOf(written') = SamplesOf(open) + SamplesOf(written)
  BY <1>0, <1>1, <1>2, <1>3, OneWindowLess
<1>5. IsFiniteSet(W \ {i}) /\ Cardinality(W \ {i}) = MaxOpen
  <2>1. IsFiniteSet(W \ {i}) /\ Cardinality(W \ {i}) = Cardinality(W) - 1
    BY <1>2, <1>3, FS_RemoveElement
  <2> QED
    BY <1>0, <1>2, <2>1
<1>6. ImportTyped'
  <2>1. DOMAIN open' \subseteq Nat /\ Cardinality(DOMAIN open') <= MaxOpen
    BY <1>0, <1>2, <1>4, <1>5
  <2>2. flushedBefore' \in Nat /\ ipc' \in {"evict", "failed"}
    BY <1>0, <1>1, <1>3, <1>4 DEF ImportTyped
  <2> QED
    BY <1>0, <1>1, <1>4, <1>5, <2>1, <2>2 DEF ImportTyped
<1>7. Chronological'
  <2>1. \A j \in W \ {i} : j \in Nat /\ i < j /\ j >= i + 1
    BY <1>2, <1>3
  <2>2. ipc' # "failed" => \A k \in DOMAIN written' : written'[k].index \in Nat /\ written'[k].index <= i
    <3>1. \A k \in DOMAIN written' : written'[k] \in Writtens
      BY <1>4 DEF Holdings
    <3>2. \A x \in Writtens : x.index \in Nat
      BY DEF Writtens
    <3> QED
      BY <1>4, <3>1, <3>2
  <2>3. ipc' # "failed" => \A k \in DOMAIN written' : \A j \in DOMAIN open' : written'[k].index < j
    BY <1>3, <1>4, <2>1, <2>2
  <2>4. ipc' # "failed" => /\ \A k \in DOMAIN written' : written'[k].index < flushedBefore'
                           /\ \A j \in DOMAIN open' : j >= flushedBefore'
    BY <1>1, <1>3, <1>4, <2>1, <2>2
  <2> QED
    BY <1>4, <2>3, <2>4 DEF Chronological
<1>8. Outrun'
  <2>1. known' \in SUBSET Nat /\ IsFiniteSet(known') /\ DOMAIN open' \subseteq known'
    BY <1>0, <1>1, <1>4 DEF Outrun
  <2>2. flushedBefore' > 0 => Cardinality({j \in known' : j >= flushedBefore'}) >= MaxOpen
    <3>1. CASE ipc' = "failed"
      BY <1>0, <1>1, <3>1 DEF Outrun
    <3>2. CASE ipc' # "failed"
      <4> DEFINE L == {j \in known : j >= i + 1}
      <4>1. W \ {i} \subseteq L
        BY <1>0, <1>2, <1>3 DEF Outrun
      <4>2. IsFiniteSet(L)
        BY <1>0, FS_Subset DEF Outrun
      <4>3. {j \in known' : j >= flushedBefore'} = L
        BY <1>1, <3>2
      <4> HIDE DEF L
      <4>4. Cardinality(W \ {i}) <= Cardinality(L) /\ Cardinality(L) \in Nat
        BY <4>1, <4>2, FS_Subset, FS_CardinalityType
      <4> QED
        BY <1>0, <1>5, <4>3, <4>4
    <3> QED
      BY <3>1, <3>2
  <2>3. \A l \in tooLate' : Cardinality(l.after) >= MaxOpen
    BY <1>0, <1>1 DEF Outrun
  <2> QED
    BY <2>1, <2>2, <2>3 DEF Outrun
<1>9. Accounted'
  <2>1. /\ SamplesOf(open) \in Nat /\ SamplesOf(written) \in Nat /\ late \in Nat /\ skipped \in Nat
        /\ records = late + skipped + SamplesOf(open) + SamplesOf(written)
    BY <1>0, <1>1, ImportCounts DEF Accounted, ImportTyped
  <2>2. SamplesOf(open)' \in Nat /\ SamplesOf(written)' \in Nat
    BY <1>4, ImportCountsNext
  <2> QED
    BY <1>1, <1>4, <2>1, <2>2 DEF Accounted
<1> QED
  BY <1>4, <1>6, <1>7, <1>8, <1>9 DEF Importing

LEMMA ImportingFinish == Importing /\ FinishWindow => Importing'
<1> SUFFICES ASSUME Importing, FinishWindow PROVE Importing'
  OBVIOUS
<1>0. /\ ImportTyped /\ Holdings /\ Chronological /\ Outrun /\ Accounted
      /\ MaxOpen \in Nat \ {0}
  BY ImportLimits DEF Importing
<1> DEFINE W == DOMAIN open  i == Oldest(W)
<1>1. /\ ipc = "finish" /\ W # {} /\ WriteWindow(i)
      /\ UNCHANGED <<firstTime, flushedBefore, late, records, skipped, tooLate, known>>
  BY DEF FinishWindow
<1>2. W \in SUBSET Nat /\ IsFiniteSet(W) /\ Cardinality(W) \in Nat /\ Cardinality(W) <= MaxOpen + 1
  BY <1>0, FS_CardinalityType DEF Holdings, ImportTyped
<1>3. i \in W /\ i \in Nat /\ \A j \in W : i <= j
  BY <1>1, <1>2, OldestIs
<1> HIDE DEF i
<1>4. /\ DOMAIN open' = W \ {i} /\ Holdings'
      /\ \A j, k \in DOMAIN written' : j < k => written'[j].index < written'[k].index
      /\ \/ ipc' = "failed"
         \/ /\ ipc' = ipc
            /\ \A j \in DOMAIN written' : written'[j].index <= i
            /\ SamplesOf(open') + SamplesOf(written') = SamplesOf(open) + SamplesOf(written)
  BY <1>0, <1>1, <1>2, <1>3, OneWindowLess
<1>5. Cardinality(W \ {i}) = Cardinality(W) - 1
  BY <1>2, <1>3, FS_RemoveElement
<1>6. ImportTyped'
  <2>1. DOMAIN open' \subseteq Nat /\ Cardinality(DOMAIN open') <= MaxOpen + 1
    BY <1>0, <1>2, <1>4, <1>5
  <2>2. ipc' \in {"finish", "failed"}
    BY <1>1, <1>4
  <2> QED
    BY <1>0, <1>1, <2>1, <2>2 DEF ImportTyped
<1>7. Chronological'
  <2>1. \A j \in W \ {i} : j \in Nat /\ i < j
    BY <1>2, <1>3
  <2>2. ipc' # "failed" => \A k \in DOMAIN written' : written'[k].index \in Nat /\ written'[k].index <= i
    <3>1. \A k \in DOMAIN written' : written'[k] \in Writtens
      BY <1>4 DEF Holdings
    <3>2. \A x \in Writtens : x.index \in Nat
      BY DEF Writtens
    <3> QED
      BY <1>4, <3>1, <3>2
  <2>3. ipc' # "failed" => \A k \in DOMAIN written' : \A j \in DOMAIN open' : written'[k].index < j
    BY <1>3, <1>4, <2>1, <2>2
  <2> QED
    BY <1>1, <1>4, <2>3 DEF Chronological
<1>8. Outrun'
  <2>1. known' \in SUBSET Nat /\ IsFiniteSet(known') /\ DOMAIN open' \subseteq known'
    BY <1>0, <1>1, <1>4 DEF Outrun
  <2> QED
    BY <1>0, <1>1, <2>1 DEF Outrun
<1>9. Accounted'
  <2>1. /\ SamplesOf(open) \in Nat /\ SamplesOf(written) \in Nat /\ late \in Nat /\ skipped \in Nat
        /\ records = late + skipped + SamplesOf(open) + SamplesOf(written)
    BY <1>0, <1>1, ImportCounts DEF Accounted, ImportTyped
  <2>2. SamplesOf(open)' \in Nat /\ SamplesOf(written)' \in Nat
    BY <1>4, ImportCountsNext
  <2> QED
    BY <1>1, <1>4, <2>1, <2>2 DEF Accounted
<1> QED
  BY <1>4, <1>6, <1>7, <1>8, <1>9 DEF Importing

LEMMA ImportingStep == Importing /\ [ImportNext]_importVars => Importing'
<1> SUFFICES ASSUME Importing, [ImportNext]_importVars PROVE Importing'
  OBVIOUS
<1>0. /\ ImportTyped /\ Holdings /\ Chronological /\ Outrun /\ Accounted
      /\ MaxOpen \in Nat \ {0}
  BY ImportLimits DEF Importing
<1>1. CASE ReadSample
  BY <1>1, ImportingRead
<1>2. CASE EvictOldest
  BY <1>2, ImportingEvict
<1>3. CASE FinishWindow
  BY <1>3, ImportingFinish
<1>4. ASSUME /\ UNCHANGED <<firstTime, open, flushedBefore, late, written, records, skipped, tooLate, known>>
             /\ \/ ipc' = ipc
                \/ ipc = "evict" /\ ~TooMany /\ ipc' = "read"
                \/ ipc = "read" /\ ipc' \in {"failed", "finish"}
                \/ ipc = "finish" /\ ipc' = "done"
      PROVE  Importing'
  <2>1. ImportTyped'
    <3>1. IsFiniteSet(DOMAIN open) /\ Cardinality(DOMAIN open) \in Nat
      BY <1>0, FS_CardinalityType DEF Holdings
    <3>2. ipc' = "read" => Cardinality(DOMAIN open) <= MaxOpen
      BY <1>0, <1>4, <3>1 DEF ImportTyped, TooMany
    <3>3. ipc' \in {"read", "evict", "finish", "done", "failed"}
      BY <1>0, <1>4 DEF ImportTyped
    <3> QED
      BY <1>0, <1>4, <3>2, <3>3 DEF ImportTyped
  <2>2. Holdings'
    BY <1>0, <1>4 DEF Holdings, Aggregates
  <2>3. Chronological'
    <3>1. /\ ipc' # "failed" => ipc # "failed"
          /\ ipc' \in {"read", "evict"} => ipc \in {"read", "evict"}
      BY <1>4
    <3> QED
      BY <1>0, <1>4, <3>1 DEF Chronological
  <2>4. Outrun'
    BY <1>0, <1>4 DEF Outrun
  <2>5. Accounted'
    <3>1. ipc' # "failed" => ipc # "failed"
      BY <1>4
    <3> QED
      BY <1>0, <1>4, <3>1 DEF Accounted
  <2> QED
    BY <2>1, <2>2, <2>3, <2>4, <2>5 DEF Importing
<1>5. CASE Evicted
  BY <1>4, <1>5 DEF Evicted
<1>6. CASE EndOfCapture
  BY <1>4, <1>6 DEF EndOfCapture
<1>7. CASE Finished
  BY <1>4, <1>7 DEF Finished
<1>8. CASE UNCHANGED importVars
  BY <1>4, <1>8 DEF importVars
<1> QED
  BY <1>1, <1>2, <1>3, <1>5, <1>6, <1>7, <1>8 DEF ImportNext

(* Whatever the capture holds and in whichever order, a sample that        *)
(* import::run has read is in one window that is written or waits, or is   *)
(* counted as late; windows are written once and in the order of time; and *)
(* a sample is late only behind MAX_PENDING_WINDOWS later windows.         *)
THEOREM ImportAccounts == ImportSpec => []ImportConserves
<1>1. Importing => ImportConserves
  <2>1. Holdings => \A i \in DOMAIN written : written[i].total = written[i].aggregated + written[i].dropped
    <3>1. \A x \in Writtens : x.total = x.aggregated + x.dropped
      BY DEF Writtens
    <3> QED
      BY <3>1 DEF Holdings
  <2> QED
    BY <2>1 DEF Importing, Accounted, Chronological, Outrun, ImportConserves
<1> QED
  BY <1>1, ImportingInit, ImportingStep, PTL DEF ImportSpec

-----------------------------------------------------------------------------
(* The gallery.                                                            *)

(* Permits are counted by jobs; of a running job, what it keeps was met,   *)
(* and what has been there all the while is not yet looked at or kept,     *)
(* unless the scan was cut off.                                            *)
Permitted == IsFiniteSet(Running) /\ Cardinality(Running) + permits = MaxJobs

Looking(a) ==
    /\ a.stable \subseteq FirefoxFiles(directory)
    /\ FirefoxFiles(directory) \subseteq a.met /\ a.met \subseteq Shown
    /\ a.entries \subseteq a.met
    /\ a.phase = "scan" => a.entries = {}
    /\ a.phase = "inspect" => a.cut # {} \/ a.stable \subseteq a.scanned \cup a.entries

Answering == \A j \in Running : Looking(job[j])

(* A job's record.                                                         *)
JobShape(a) ==
    a = [phase |-> a.phase, wants |-> a.wants, stable |-> a.stable, met |-> a.met, scanned |-> a.scanned,
         entries |-> a.entries, cut |-> a.cut]
Jobs == job = [j \in JobIds |-> job[j]] /\ \A j \in JobIds : JobShape(job[j])

Serving == GalleryTyped /\ Jobs /\ Permitted /\ Answering /\ GalleryTruthful

LEMMA GalleryLimits ==
    MaxJobs \in Nat \ {0} /\ MaxProfiles \in Nat \ {0} /\ Kept \in Nat \ {0} /\ MaxShown \in Nat
  BY GalleryAssumption DEF GalleryAssumption

(* What is not among the newest MaxProfiles has as many newer ones there.  *)
LEMMA NewestAreNewer ==
    ASSUME NEW W \in SUBSET Shown, NEW w \in W, w \notin Newest(W)
    PROVE  Newer(w, Newest(W)) >= MaxProfiles
<1> DEFINE Above(x) == {y \in W : y > x}
<1>0. MaxProfiles \in Nat /\ MaxShown \in Nat
  BY GalleryLimits
<1>1. IsFiniteSet(W) /\ \A s \in SUBSET W : IsFiniteSet(s) /\ Cardinality(s) \in Nat
  <2>1. IsFiniteSet(Shown)
    BY <1>0, FS_Interval DEF Shown
  <2>2. \A s \in SUBSET W : s \in SUBSET Shown
    OBVIOUS
  <2> QED
    BY <2>1, <2>2, FS_Subset, FS_CardinalityType
<1> DEFINE Rest == {x \in W : x >= w /\ x \notin Newest(W)}
<1>2. Rest \in SUBSET (1..MaxShown) /\ w \in Rest
  <2>1. w \in 1..MaxShown /\ w >= w /\ W \in SUBSET (1..MaxShown)
    BY <1>0 DEF Shown
  <2> QED
    BY <2>1
<1>3. PICK m \in Rest : \A x \in Rest : x <= m
  BY <1>0, <1>2, MaxIs
<1>4. Cardinality(Above(m)) >= MaxProfiles
  <2>1. Above(m) \in SUBSET W
    OBVIOUS
  <2>2. ~(Cardinality(Above(m)) < MaxProfiles)
    BY <1>3 DEF Newest
  <2>3. Cardinality(Above(m)) \in Nat
    BY <1>1, <2>1
  <2> HIDE DEF Above
  <2> QED
    BY <1>0, <2>2, <2>3
<1>5. Above(m) \subseteq {x \in Newest(W) : x > w}
  <2> SUFFICES ASSUME NEW y \in W, y > m PROVE y \in Newest(W) /\ y > w
    OBVIOUS
  <2>1. y \in Nat /\ m \in Nat /\ w \in Nat /\ m >= w
    BY <1>0, <1>2, <1>3 DEF Shown
  <2>2. y \notin Rest
    BY <1>3, <2>1
  <2> QED
    BY <2>1, <2>2
<1>6. {x \in Newest(W) : x > w} \in SUBSET W
  BY DEF Newest
<1>7. Cardinality(Above(m)) <= Cardinality({x \in Newest(W) : x > w})
  <2>1. IsFiniteSet({x \in Newest(W) : x > w})
    BY <1>1, <1>6
  <2> QED
    BY <1>5, <2>1, FS_Subset
<1>8. Cardinality(Above(m)) \in Nat /\ Cardinality({x \in Newest(W) : x > w}) \in Nat
  <2>1. Above(m) \in SUBSET W
    OBVIOUS
  <2> HIDE DEF Above
  <2> QED
    BY <1>1, <1>6, <2>1
<1> HIDE DEF Above
<1> QED
  BY <1>0, <1>4, <1>7, <1>8 DEF Newer

LEMMA FilesShown == \A files : FirefoxFiles(files) \subseteq Shown
  BY DEF FirefoxFiles

(* The recorder changes the directory.                                     *)
LEMMA DirectoryChanges ==
    ASSUME Serving, NEW files, Changes(files), UNCHANGED <<permits, answered>>
    PROVE  Jobs' /\ Permitted' /\ Answering' /\ GalleryTruthful' /\ \A j \in JobIds : job'[j].phase = job[j].phase
<1>1. /\ directory' = files
      /\ job' = [j \in JobIds |-> IF job[j].phase = "none" THEN NoJob ELSE Watched(files)[j]]
  BY DEF Changes
<1>2. ASSUME NEW j \in JobIds
      PROVE  /\ JobShape(job'[j]) /\ job'[j].phase = job[j].phase
             /\ job[j].phase # "none" =>
                   /\ job'[j].stable = job[j].stable \cap FirefoxFiles(files)
                   /\ job'[j].met = job[j].met \cup FirefoxFiles(files) /\ job'[j].scanned = job[j].scanned
                   /\ job'[j].entries = job[j].entries /\ job'[j].cut = job[j].cut
  <2>1. CASE job[j].phase = "none"
    <3>1. job'[j] = NoJob
      BY <1>1, <2>1
    <3> QED
      BY <2>1, <3>1 DEF NoJob, JobShape
  <2>2. CASE job[j].phase # "none"
    <3> DEFINE new == [phase |-> job[j].phase, wants |-> job[j].wants, stable |-> job[j].stable \cap FirefoxFiles(files),
                       met |-> job[j].met \cup FirefoxFiles(files), scanned |-> job[j].scanned,
                       entries |-> job[j].entries, cut |-> job[j].cut]
    <3>1. JobShape(job[j])
      BY DEF Serving, Jobs
    <3>2. job'[j] = Watched(files)[j]
      BY <1>1, <2>2
    <3>3. job'[j] = new
      BY <3>1, <3>2 DEF Watched, JobShape
    <3> QED
      BY <2>2, <3>3 DEF JobShape
  <2> QED
    BY <2>1, <2>2
<1>3. Jobs'
  BY <1>1, <1>2 DEF Jobs
<1>4. \A j \in JobIds : job'[j].phase = job[j].phase
  BY <1>2
<1>5. Running' = Running
  BY <1>4 DEF Running
<1>6. ASSUME NEW j \in Running
      PROVE  Looking(job[j])'
  <2>1. Looking(job[j]) /\ j \in JobIds /\ job[j].phase # "none"
    BY DEF Serving, Answering, Running
  <2>2. /\ job'[j].stable = job[j].stable \cap FirefoxFiles(files) /\ job'[j].met = job[j].met \cup FirefoxFiles(files)
        /\ job'[j].phase = job[j].phase /\ job'[j].scanned = job[j].scanned /\ job'[j].entries = job[j].entries
        /\ job'[j].cut = job[j].cut
    BY <1>2, <2>1
  <2>3. FirefoxFiles(directory)' = FirefoxFiles(files) /\ FirefoxFiles(files) \subseteq Shown
    BY <1>1, FilesShown DEF FirefoxFiles
  <2> QED
    BY <2>1, <2>2, <2>3 DEF Looking
<1> QED
  BY <1>3, <1>4, <1>5, <1>6 DEF Serving, Permitted, Answering, GalleryTruthful

(* A job goes on.                                                          *)
LEMMA JobSteps ==
    ASSUME Serving, NEW j \in JobIds, NEW a, JobShape(a), job[j].phase # "none", a.phase \in {"inspect", "read"},
           job' = [job EXCEPT ![j] = a], UNCHANGED <<directory, permits, answered>>, Looking(a)
    PROVE  Jobs' /\ Permitted' /\ Answering' /\ GalleryTruthful' /\ \A i \in JobIds : i # j => job'[i].phase = job[i].phase
<1>1. job' = [i \in JobIds |-> IF i = j THEN a ELSE job[i]]
  BY DEF Serving, Jobs
<1>2. Running' = Running
  BY <1>1 DEF Running
<1>3. \A i \in Running : Looking(job[i])'
  BY <1>1 DEF Running, Looking, Serving, Answering
<1>4. Jobs'
  BY <1>1 DEF Jobs, Serving
<1> QED
  BY <1>1, <1>2, <1>3, <1>4 DEF Serving, Permitted, Answering, GalleryTruthful

(* A job ends with an answer.                                              *)
LEMMA JobReplies ==
    ASSUME Serving, NEW j \in Running, NEW k \in {"list", "missing", "profile", "unprocessable"}, Replies(j, k),
           UNCHANGED directory,
           k \in {"list", "missing"} => job[j].phase = "inspect" /\ job[j].scanned = {},
           k = "missing" => job[j].wants \notin Newest(job[j].entries),
           k = "unprocessable" => job[j].wants \notin FirefoxFiles(directory)
    PROVE  Jobs' /\ Permitted' /\ Answering' /\ GalleryTruthful' /\ \A i \in JobIds : job'[i].phase \in {job[i].phase, "none"}
<1>0. MaxJobs \in Nat /\ permits \in Nat /\ j \in JobIds /\ Looking(job[j]) /\ job[j].phase # "none"
  BY GalleryLimits DEF Serving, Answering, Running, GalleryTyped
<1>1. job' = [i \in JobIds |-> IF i = j THEN NoJob ELSE job[i]] /\ permits' = permits + 1
  BY DEF Serving, Jobs, Replies
<1>2. Running' = Running \ {j}
  BY <1>1 DEF Running, NoJob
<1>3. Permitted'
  <2>1. IsFiniteSet(Running) /\ Cardinality(Running) + permits = MaxJobs /\ Cardinality(Running) \in Nat
    BY FS_CardinalityType DEF Serving, Permitted
  <2>2. IsFiniteSet(Running \ {j}) /\ Cardinality(Running \ {j}) = Cardinality(Running) - 1
    BY <2>1, FS_RemoveElement
  <2>3. Cardinality(Running \ {j}) + (permits + 1) = MaxJobs
    BY <1>0, <2>1, <2>2
  <2> QED
    BY <1>1, <1>2, <2>2, <2>3 DEF Permitted
<1>4. Jobs'
  <2>1. \A i \in JobIds : JobShape(job'[i])
    BY <1>1 DEF Jobs, Serving, NoJob, JobShape
  <2> QED
    BY <1>1, <2>1 DEF Jobs
<1>5. Answering'
  <2>1. \A i \in Running \ {j} : job'[i] = job[i] /\ Looking(job[i])
    BY <1>1 DEF Serving, Answering, Running
  <2> QED
    BY <1>2, <2>1 DEF Answering, Looking
<1>6. GalleryTruthful'
  <2> DEFINE a == answered'.job
  <2>1. /\ answered'.kind = k /\ a.entries = Newest(job[j].entries) /\ a.stable = job[j].stable /\ a.met = job[j].met
        /\ a.cut = job[j].cut /\ a.wants = job[j].wants
    <3>1. JobShape(job[j])
      BY <1>0 DEF Serving, Jobs
    <3>2. answered' = [kind |-> k, job |-> [job[j] EXCEPT !.entries = Newest(@)]]
      BY DEF Replies
    <3> QED
      BY <3>1, <3>2 DEF JobShape
  <2>2. job[j].entries \in SUBSET Shown /\ a.entries \subseteq a.met
    BY <1>0, <2>1 DEF Looking, Newest
  <2>3. ASSUME NEW w, w \in a.stable, w \notin a.entries, k \in {"list", "missing"}
        PROVE  a.cut # {} \/ Newer(w, a.entries) >= MaxProfiles
    <3>1. a.cut # {} \/ w \in job[j].entries
      BY <1>0, <2>1, <2>3 DEF Looking
    <3> QED
      BY <2>1, <2>2, <2>3, <3>1, NewestAreNewer
  <2>4. k = "unprocessable" => a.wants \notin a.stable
    BY <1>0, <2>1 DEF Looking
  <2>5. Cardinality(Running)' <= MaxJobs
    <3>1. Cardinality(Running)' \in Nat /\ permits' \in Nat /\ Cardinality(Running)' + permits' = MaxJobs
      BY <1>0, <1>1, <1>3, FS_CardinalityType DEF Permitted
    <3> QED
      BY <1>0, <3>1
  <2>6. k = "missing" => a.wants \notin a.entries
    BY <2>1
  <2> HIDE DEF a
  <2>7. \A w \in a.stable \ a.entries : a.cut # {} \/ (answered'.kind = "list" => Newer(w, a.entries) >= MaxProfiles)
    BY <2>1, <2>3
  <2>8. answered'.kind = "missing" /\ a.wants \in a.stable => a.cut # {} \/ Newer(a.wants, a.entries) >= MaxProfiles
    BY <2>1, <2>3, <2>6
  <2> QED
    BY <2>1, <2>2, <2>4, <2>5, <2>7, <2>8 DEF GalleryTruthful, a
<1> QED
  BY <1>1, <1>3, <1>4, <1>5, <1>6 DEF NoJob

LEMMA ServingInit == GalleryInit => Serving
<1> SUFFICES ASSUME GalleryInit PROVE Serving
  OBVIOUS
<1>1. Running = {} /\ Jobs
  BY DEF GalleryInit, Running, NoJob, Jobs, JobShape
<1>2. GalleryTyped /\ Answering
  BY <1>1, GalleryLimits DEF GalleryInit, GalleryTyped, NoJob, Answering
<1>3. Permitted
  BY <1>1, GalleryLimits, FS_EmptySet DEF GalleryInit, Permitted
<1>4. GalleryTruthful
  BY <1>1, GalleryLimits, FS_EmptySet DEF GalleryInit, GalleryTruthful, NoReply, NoJob
<1> QED
  BY <1>1, <1>2, <1>3, <1>4 DEF Serving

LEMMA PermitsLeft ==
    ASSUME Serving
    PROVE  /\ MaxJobs \in Nat /\ permits \in 0..MaxJobs /\ Cardinality(Running) \in Nat
           /\ \A j \in Running : permits < MaxJobs
<1>1. /\ MaxJobs \in Nat /\ permits \in 0..MaxJobs /\ Cardinality(Running) \in Nat
      /\ IsFiniteSet(Running) /\ Cardinality(Running) + permits = MaxJobs
  BY GalleryLimits, FS_CardinalityType DEF Serving, GalleryTyped, Permitted
<1>2. ASSUME NEW j \in Running PROVE permits < MaxJobs
  <2>1. Cardinality(Running) # 0
    BY <1>1, FS_EmptySet
  <2> QED
    BY <1>1, <2>1
<1> QED
  BY <1>1, <1>2

LEMMA ServingRequest ==
    ASSUME Serving, NEW v \in Viewers, Request(v)
    PROVE  Serving'
<1>1. PICK j \in JobIds \ Running : \E w \in 0..shown :
        /\ permits' = permits - 1
        /\ viewer' = [viewer EXCEPT ![v] = j]
        /\ job' = [job EXCEPT ![j] = [NoJob EXCEPT !.phase = "scan", !.wants = w,
                        !.stable = FirefoxFiles(directory), !.met = FirefoxFiles(directory)]]
  BY DEF Request
<1>2. PICK w \in 0..shown :
        /\ permits' = permits - 1
        /\ viewer' = [viewer EXCEPT ![v] = j]
        /\ job' = [job EXCEPT ![j] = [NoJob EXCEPT !.phase = "scan", !.wants = w,
                        !.stable = FirefoxFiles(directory), !.met = FirefoxFiles(directory)]]
  BY <1>1
<1> DEFINE new == [phase |-> "scan", wants |-> w, stable |-> FirefoxFiles(directory), met |-> FirefoxFiles(directory),
                   scanned |-> {}, entries |-> {}, cut |-> {}]
<1>3. [NoJob EXCEPT !.phase = "scan", !.wants = w,
                    !.stable = FirefoxFiles(directory), !.met = FirefoxFiles(directory)] = new
  <2> DEFINE F == FirefoxFiles(directory)
  <2> HIDE DEF F
  <2> DEFINE Rec(p, w2, s, m) ==
            [phase |-> p, wants |-> w2, stable |-> s, met |-> m, scanned |-> {}, entries |-> {}, cut |-> {}]
  <2>1. [NoJob EXCEPT !.phase = "scan"] = Rec("scan", 0, {}, {})
    BY DEF NoJob
  <2>2. [Rec("scan", 0, {}, {}) EXCEPT !.wants = w] = Rec("scan", w, {}, {})
    OBVIOUS
  <2>4. [Rec("scan", w, {}, {}) EXCEPT !.stable = F] = Rec("scan", w, F, {})
    OBVIOUS
  <2>5. [Rec("scan", w, F, {}) EXCEPT !.met = F] = Rec("scan", w, F, F)
    OBVIOUS
  <2>3. [NoJob EXCEPT !.phase = "scan", !.wants = w, !.stable = F, !.met = F] = Rec("scan", w, F, F)
    <3> HIDE DEF Rec
    <3> QED
      BY <2>1, <2>2, <2>4, <2>5
  <2> QED
    BY <2>3 DEF F
<1>4. job' = [i \in JobIds |-> IF i = j THEN new ELSE job[i]]
  BY <1>2, <1>3 DEF Serving, Jobs
<1>5. /\ UNCHANGED <<directory, shown, doomed, answered>> /\ permits > 0
      /\ GalleryTyped /\ Jobs /\ Permitted /\ Answering /\ GalleryTruthful
  BY DEF Request, Serving
<1>6. JobShape(new) /\ new.phase = "scan"
  BY DEF JobShape
<1>7. Looking(new)
  BY FilesShown DEF Looking
<1> HIDE DEF new
<1>8. Running' = Running \cup {j} /\ j \notin Running
  BY <1>1, <1>4, <1>6 DEF Running
<1>9. Permitted'
  <2>1. MaxJobs \in Nat /\ permits \in 0..MaxJobs /\ Cardinality(Running) \in Nat
    BY PermitsLeft
  <2>2. IsFiniteSet(Running') /\ Cardinality(Running') = Cardinality(Running) + 1
    BY <1>5, <1>8, FS_AddElement DEF Permitted
  <2> QED
    BY <1>2, <1>5, <2>1, <2>2 DEF Permitted
<1>10. Jobs'
  BY <1>4, <1>5, <1>6 DEF Jobs
<1>11. Answering'
  <2>1. \A i \in Running : i # j /\ job'[i] = job[i] /\ Looking(job[i])'
    BY <1>4, <1>5, <1>8 DEF Answering, Running, Looking
  <2>2. job'[j] = new
    BY <1>1, <1>4
  <2>3. Looking(job[j])'
    BY <1>5, <1>7, <2>2 DEF Looking, FirefoxFiles
  <2> QED
    BY <1>8, <2>1, <2>3 DEF Answering
<1>12. GalleryTyped'
  <2>1. permits' \in 0..MaxJobs
    BY <1>2, <1>5, PermitsLeft
  <2>2. viewer' \in [Viewers -> {"closed", "open"} \cup JobIds]
    BY <1>1, <1>2, <1>5 DEF GalleryTyped
  <2>3. \A i \in JobIds : job'[i].phase \in {"none", "scan", "inspect", "read"}
    BY <1>4, <1>5, <1>6 DEF GalleryTyped
  <2> QED
    BY <1>5, <2>1, <2>2, <2>3 DEF GalleryTyped
<1>13. GalleryTruthful'
  <2>1. Cardinality(Running)' <= MaxJobs
    <3>1. MaxJobs \in Nat /\ permits' \in Nat
      BY <1>12, GalleryLimits DEF GalleryTyped
    <3>2. Cardinality(Running)' \in Nat /\ Cardinality(Running)' + permits' = MaxJobs
      BY <1>9, FS_CardinalityType DEF Permitted
    <3> QED
      BY <3>1, <3>2
  <2> QED
    BY <1>5, <2>1 DEF GalleryTruthful
<1> QED
  BY <1>9, <1>10, <1>11, <1>12, <1>13 DEF Serving

LEMMA ServingJob ==
    ASSUME Serving, NEW j \in JobIds, Scan(j) \/ Inspect(j) \/ List(j) \/ Decode(j)
    PROVE  Serving'
<1>0. GalleryTyped /\ Jobs /\ Answering /\ GalleryTruthful /\ JobShape(job[j])
  BY DEF Serving, Jobs
<1>1. UNCHANGED <<directory, shown, doomed>> /\ job[j].phase # "none" /\ j \in Running /\ Looking(job[j])
  BY <1>0 DEF Scan, Inspect, List, Decode, Running, Answering
<1>2. ASSUME NEW a, JobShape(a), a.phase \in {"inspect", "read"}, job' = [job EXCEPT ![j] = a], Looking(a),
             UNCHANGED <<viewer, permits, answered>>
      PROVE  Serving'
  <2>1. Jobs' /\ Permitted' /\ Answering' /\ GalleryTruthful' /\ \A i \in JobIds : i # j => job'[i].phase = job[i].phase
    BY <1>1, <1>2, JobSteps
  <2>2. job'[j] = a
    BY <1>0, <1>2 DEF Jobs
  <2> QED
    BY <1>0, <1>1, <1>2, <2>1, <2>2 DEF Serving, GalleryTyped
<1>3. ASSUME NEW k \in {"list", "missing", "profile", "unprocessable"}, Replies(j, k),
             k \in {"list", "missing"} => job[j].phase = "inspect" /\ job[j].scanned = {},
             k = "missing" => job[j].wants \notin Newest(job[j].entries),
             k = "unprocessable" => job[j].wants \notin FirefoxFiles(directory)
      PROVE  Serving'
  <2>1. /\ Jobs' /\ Permitted' /\ Answering' /\ GalleryTruthful'
        /\ \A i \in JobIds : job'[i].phase \in {job[i].phase, "none"}
    BY <1>1, <1>3, JobReplies
  <2>2. permits' \in 0..MaxJobs
    BY <1>1, <1>3, PermitsLeft DEF Replies
  <2>3. viewer' \in [Viewers -> {"closed", "open"} \cup JobIds]
    BY <1>0, <1>3 DEF Replies, GalleryTyped
  <2>4. \A i \in JobIds : job'[i].phase \in {"none", "scan", "inspect", "read"}
    BY <1>0, <2>1 DEF GalleryTyped
  <2> QED
    BY <1>0, <1>1, <2>1, <2>2, <2>3, <2>4 DEF Serving, GalleryTyped
<1>4. CASE Scan(j)
  <2>1. PICK taken \in SUBSET directory :
          job' = [job EXCEPT ![j].phase = "inspect", ![j].scanned = FirefoxFiles(taken), ![j].cut = directory \ taken]
    BY <1>4 DEF Scan, kSubset
  <2> DEFINE a == [phase |-> "inspect", wants |-> job[j].wants, stable |-> job[j].stable, met |-> job[j].met,
                   scanned |-> FirefoxFiles(taken), entries |-> job[j].entries, cut |-> directory \ taken]
  <2>2. [[[job[j] EXCEPT !.phase = "inspect"] EXCEPT !.scanned = FirefoxFiles(taken)] EXCEPT !.cut = directory \ taken] = a
    <3> DEFINE r == job[j]  F == FirefoxFiles(taken)  R == directory \ taken
        Rec(p, c, u) == [phase |-> p, wants |-> r.wants, stable |-> r.stable, met |-> r.met,
                         scanned |-> c, entries |-> r.entries, cut |-> u]
    <3>1. r = Rec(r.phase, r.scanned, r.cut)
      BY <1>0 DEF JobShape
    <3> HIDE DEF r, F, R
    <3>2. [r EXCEPT !.phase = "inspect"] = Rec("inspect", r.scanned, r.cut)
      BY <3>1
    <3>3. [Rec("inspect", r.scanned, r.cut) EXCEPT !.scanned = F] = Rec("inspect", F, r.cut)
      OBVIOUS
    <3>4. [Rec("inspect", F, r.cut) EXCEPT !.cut = R] = Rec("inspect", F, R)
      OBVIOUS
    <3>5. a = Rec("inspect", F, R)
      BY DEF r, F, R
    <3> HIDE DEF Rec, a
    <3>6. [[[r EXCEPT !.phase = "inspect"] EXCEPT !.scanned = F] EXCEPT !.cut = R] = a
      BY <3>2, <3>3, <3>4, <3>5
    <3> QED
      BY <3>6 DEF r, F, R
  <2>3. job' = [job EXCEPT ![j] = [[[job[j] EXCEPT !.phase = "inspect"] EXCEPT !.scanned = FirefoxFiles(taken)] EXCEPT !.cut = directory \ taken]]
    BY <1>0, <2>1 DEF Jobs
  <2>4. Looking(a)
    <3>1. directory \ taken = {} => FirefoxFiles(taken) = FirefoxFiles(directory)
      BY <2>1 DEF FirefoxFiles
    <3> QED
      BY <1>1, <1>4, <3>1 DEF Looking, Scan
  <2>5. JobShape(a) /\ a.phase = "inspect"
    BY DEF JobShape
  <2> HIDE DEF a
  <2>6. job' = [job EXCEPT ![j] = a]
    BY <2>2, <2>3
  <2> QED
    BY <1>2, <1>4, <2>4, <2>5, <2>6 DEF Scan
<1>5. CASE Inspect(j)
  <2>1. PICK w \in job[j].scanned :
          job' = [job EXCEPT ![j].scanned = @ \ {w}, ![j].entries = IF Exists(w) THEN @ \cup {w} ELSE @]
    BY <1>5 DEF Inspect
  <2> DEFINE kept == IF Exists(w) THEN job[j].entries \cup {w} ELSE job[j].entries
      a == [phase |-> "inspect", wants |-> job[j].wants, stable |-> job[j].stable, met |-> job[j].met,
            scanned |-> job[j].scanned \ {w}, entries |-> kept, cut |-> job[j].cut]
  <2>2. [[job[j] EXCEPT !.scanned = @ \ {w}] EXCEPT !.entries = IF Exists(w) THEN @ \cup {w} ELSE @] = a
    <3> DEFINE r == job[j]  c == r.scanned \ {w}
        Rec(seen, e) == [phase |-> "inspect", wants |-> r.wants, stable |-> r.stable, met |-> r.met,
                         scanned |-> seen, entries |-> e, cut |-> r.cut]
    <3>1. r = Rec(r.scanned, r.entries)
      BY <1>0, <1>5 DEF JobShape, Inspect
    <3> HIDE DEF r
    <3>2. [r EXCEPT !.scanned = @ \ {w}] = Rec(c, r.entries)
      BY <3>1
    <3> HIDE DEF c
    <3>3. [Rec(c, r.entries) EXCEPT !.entries = IF Exists(w) THEN @ \cup {w} ELSE @] = Rec(c, kept)
      BY DEF r
    <3>4. a = Rec(c, kept)
      BY DEF r, c
    <3> HIDE DEF Rec, a, kept
    <3>5. [[r EXCEPT !.scanned = @ \ {w}] EXCEPT !.entries = IF Exists(w) THEN @ \cup {w} ELSE @] = a
      BY <3>2, <3>3, <3>4
    <3> QED
      BY <3>5 DEF r
  <2>3. job' = [job EXCEPT ![j] = [[job[j] EXCEPT !.scanned = @ \ {w}] EXCEPT !.entries = IF Exists(w) THEN @ \cup {w} ELSE @]]
    BY <1>0, <2>1 DEF Jobs
  <2>4. Looking(a)
    <3>1. w \in FirefoxFiles(directory) => Exists(w)
      BY DEF FirefoxFiles, Exists
    <3>2. Exists(w) => w \in FirefoxFiles(directory)
      <4>1. Exists(w) => <<"firefox", w>> \in {"firefox", "diagnostics"} \X Shown
        BY <1>0 DEF Exists, GalleryTyped
      <4>2. Exists(w) => w \in Shown
        BY <4>1
      <4> QED
        BY <4>2 DEF FirefoxFiles, Exists
    <3>3. /\ Exists(w) => a.entries = job[j].entries \cup {w}
          /\ ~Exists(w) => a.entries = job[j].entries /\ w \notin job[j].stable
      BY <1>1, <3>1 DEF Looking
    <3>4. a.phase = "inspect" /\ a.stable = job[j].stable /\ a.met = job[j].met /\ a.cut = job[j].cut
          /\ a.scanned = job[j].scanned \ {w}
      OBVIOUS
    <3>5. job[j].phase = "inspect"
      BY <1>5 DEF Inspect
    <3> HIDE DEF a, kept
    <3> QED
      BY <1>1, <3>2, <3>3, <3>4, <3>5 DEF Looking
  <2>5. JobShape(a) /\ a.phase = "inspect"
    BY DEF JobShape
  <2> HIDE DEF a
  <2>6. job' = [job EXCEPT ![j] = a]
    BY <2>2, <2>3
  <2> QED
    BY <1>2, <1>5, <2>4, <2>5, <2>6 DEF Inspect
<1>6. CASE List(j) /\ job' = [job EXCEPT ![j].phase = "read"] /\ UNCHANGED <<viewer, permits, answered>>
  <2> DEFINE a == [phase |-> "read", wants |-> job[j].wants, stable |-> job[j].stable, met |-> job[j].met,
                   scanned |-> job[j].scanned, entries |-> job[j].entries, cut |-> job[j].cut]
  <2>1. [job[j] EXCEPT !.phase = "read"] = a
    BY <1>0 DEF JobShape
  <2>2. job' = [job EXCEPT ![j] = [job[j] EXCEPT !.phase = "read"]]
    BY <1>0, <1>6 DEF Jobs
  <2>3. JobShape(a) /\ a.phase = "read" /\ Looking(a)
    BY <1>1 DEF JobShape, Looking
  <2> HIDE DEF a
  <2> QED
    BY <1>2, <1>6, <2>1, <2>2, <2>3
<1>7. CASE List(j) /\ Replies(j, "list")
  BY <1>3, <1>7 DEF List
<1>8. CASE List(j) /\ job[j].wants \notin Newest(job[j].entries) /\ Replies(j, "missing")
  BY <1>3, <1>8 DEF List
<1>9. CASE Decode(j)
  <2>1. Exists(job[j].wants) \/ job[j].wants \notin FirefoxFiles(directory)
    BY DEF Exists, FirefoxFiles
  <2> QED
    BY <1>3, <1>9, <2>1 DEF Decode
<1>10. List(j) => \/ job' = [job EXCEPT ![j].phase = "read"] /\ UNCHANGED <<viewer, permits, answered>>
                  \/ Replies(j, "list")
                  \/ job[j].wants \notin Newest(job[j].entries) /\ Replies(j, "missing")
  BY DEF List
<1> QED
  BY <1>4, <1>5, <1>6, <1>7, <1>8, <1>9, <1>10

LEMMA ServingStep == Serving /\ [GalleryNext]_galleryVars => Serving'
<1> SUFFICES ASSUME Serving, [GalleryNext]_galleryVars PROVE Serving'
  OBVIOUS
<1>1. CASE WriteProfile \/ WriteReport \/ ExpireProfile \/ ExpireReport
  <2>0. directory \subseteq {"firefox", "diagnostics"} \X Shown /\ shown \in 0..MaxShown /\ doomed \in 0..MaxShown
    BY DEF Serving, GalleryTyped
  <2>1. PICK files : Changes(files) /\ files \subseteq {"firefox", "diagnostics"} \X Shown
    <3>1. CASE WriteProfile
      <4>1. shown + 1 \in Shown
        BY <2>0, <3>1, GalleryLimits DEF WriteProfile, Shown
      <4> QED
        BY <2>0, <3>1, <4>1 DEF WriteProfile
    <3>2. CASE WriteReport
      BY <2>0, <3>2 DEF WriteReport, FirefoxFiles
    <3>3. CASE ExpireProfile
      <4>1. Changes(directory \ {<<"firefox", doomed'>>})
        BY <3>3 DEF ExpireProfile
      <4> QED
        BY <2>0, <4>1
    <3>4. CASE ExpireReport
      <4>1. Changes(directory \ {<<"diagnostics", doomed>>})
        BY <3>4 DEF ExpireReport
      <4> QED
        BY <2>0, <4>1
    <3> QED
      BY <1>1, <3>1, <3>2, <3>3, <3>4
  <2>2. UNCHANGED <<viewer, permits, answered>>
    BY <1>1 DEF WriteProfile, WriteReport, ExpireProfile, ExpireReport
  <2>3. Jobs' /\ Permitted' /\ Answering' /\ GalleryTruthful' /\ \A j \in JobIds : job'[j].phase = job[j].phase
    BY <2>1, <2>2, DirectoryChanges
  <2>4. shown' \in 0..MaxShown /\ doomed' \in 0..MaxShown
    <3>1. CASE WriteProfile
      BY <2>0, <3>1, GalleryLimits DEF WriteProfile
    <3>2. CASE WriteReport
      BY <2>0, <3>2 DEF WriteReport
    <3>3. CASE ExpireProfile
      <4>1. doomed' = Min(FirefoxFiles(directory)) /\ shown' = shown
        BY <3>3 DEF ExpireProfile
      <4>2. Cardinality(FirefoxFiles(directory)) # 0
        <5>1. FirefoxFiles(directory) \subseteq Shown /\ IsFiniteSet(Shown)
          BY FilesShown, GalleryLimits, FS_Interval DEF Shown
        <5>2. Cardinality(FirefoxFiles(directory)) \in Nat
          BY <5>1, FS_Subset, FS_CardinalityType
        <5> QED
          BY <3>3, <5>2, GalleryLimits DEF ExpireProfile
      <4>3. FirefoxFiles(directory) # {} /\ FirefoxFiles(directory) \in SUBSET Nat
        BY <4>2, FS_EmptySet, FilesShown, GalleryLimits DEF Shown
      <4>4. PICK m \in FirefoxFiles(directory) : \A x \in FirefoxFiles(directory) : m <= x
        BY <4>3, LeastNumber
      <4>5. Min(FirefoxFiles(directory)) \in FirefoxFiles(directory)
        BY <4>4 DEF Min
      <4> QED
        BY <2>0, <4>1, <4>5, FilesShown, GalleryLimits DEF Shown
    <3>4. CASE ExpireReport
      BY <2>0, <3>4, GalleryLimits DEF ExpireReport
    <3> QED
      BY <1>1, <3>1, <3>2, <3>3, <3>4
  <2>5. directory' \subseteq {"firefox", "diagnostics"} \X Shown
    BY <2>1 DEF Changes
  <2> QED
    BY <2>2, <2>3, <2>4, <2>5 DEF Serving, GalleryTyped
<1>2. ASSUME NEW v \in Viewers, Accept(v) \/ Close(v)
      PROVE  Serving'
  <2>1. /\ UNCHANGED <<directory, shown, doomed, permits, job, answered>>
        /\ viewer' \in [Viewers -> {"closed", "open"} \cup JobIds]
    BY <1>2 DEF Accept, Close, HeldByJob, Serving, GalleryTyped
  <2> QED
    BY <2>1 DEF Serving, GalleryTyped, Jobs, Permitted, Running, Answering, Looking, FirefoxFiles, GalleryTruthful
<1>3. CASE UNCHANGED galleryVars
  BY <1>3 DEF galleryVars, Serving, GalleryTyped, Jobs, Permitted, Running, Answering, Looking, FirefoxFiles, GalleryTruthful
<1> QED
  BY <1>1, <1>2, <1>3, ServingRequest, ServingJob DEF GalleryNext

(* However requests, their connections' ends and time limits, the jobs and *)
(* the recorder that goes on writing and expiring windows interleave:      *)
(* never more than MAX_GALLERY_JOBS jobs run, a listing names nothing that *)
(* was not there while it was made and misses nothing that was there all   *)
(* the while, unless the scan was cut off or MAX_GALLERY_PROFILES newer    *)
(* windows are listed, and a window that stays is found and decoded        *)
(* (serve.rs, gallery_jobs; serve_gallery.rs, entries and find).           *)
THEOREM GalleryAnswers == GallerySpec => []GalleryTruthful
<1>1. Serving => GalleryTruthful
  BY DEF Serving
<1> QED
  BY <1>1, ServingInit, ServingStep, PTL DEF GallerySpec

-----------------------------------------------------------------------------
(* The six parts side by side: what one step does to one part leaves the   *)
(* other five as they are.                                                 *)
Serviced == Batching /\ Told /\ Exporting /\ Launching /\ Importing /\ Serving

LEMMA ServicesStep == Serviced /\ [ServicesNext]_servicesVars => Serviced'
<1> SUFFICES ASSUME Serviced, [ServicesNext]_servicesVars PROVE Serviced'
  OBVIOUS
<1>1. /\ [BatchesNext]_sorterVars /\ [EncodersNext]_encodersVars /\ [OtlpNext]_otlpVars
      /\ [LaunchNext]_launchVars /\ [ImportNext]_importVars /\ [GalleryNext]_galleryVars
  BY DEF ServicesNext, servicesVars
<1> QED
  BY <1>1, BatchingStep, ToldStep, ExportingStep, LaunchingStep, ImportingStep, ServingStep DEF Serviced

(* Every variable of the reorder buffer, the encoders, the OTLP client,    *)
(* the launcher, the import and the viewer keeps a value of its kind,      *)
(* whichever of them runs (MCServices).                                    *)
THEOREM ServicesAreTyped == ServicesSpec => []ServicesTyped
<1>1. ServicesInit => Serviced
  BY BatchingFirst, ToldFirst, ExportingInit, LaunchingInit, ImportingInit, ServingInit DEF ServicesInit, Serviced
<1>2. Serviced => ServicesTyped
  <2>1. Batching => BatchesTyped
    BY DEF Batching
  <2>2. Told => EncodersTyped
    BY ToldRoundTrips
  <2>3. Exporting => OtlpTyped
    BY DEF Exporting
  <2>4. Launching => LaunchTyped
    BY DEF Launching, Typed, Flags, LaunchTyped
  <2>5. Importing => ImportTyped
    BY DEF Importing
  <2>6. Serving => GalleryTyped
    BY DEF Serving
  <2> QED
    BY <2>1, <2>2, <2>3, <2>4, <2>5, <2>6 DEF Serviced, ServicesTyped
<1> QED
  BY <1>1, <1>2, ServicesStep, PTL DEF ServicesSpec
================================================================================
