----------------------------- MODULE SamplingProofs -----------------------------
(***************************************************************************)
(* Proofs about CpuSampling.  Sound is the inductive invariant: which ring *)
(* is whose (Owned), that a sample is in one place only (Places), that it  *)
(* was taken in the current window (Numbers), and the account of all the   *)
(* samples taken.                                                          *)
(*                                                                         *)
(* Samples are counted as a set, on its way from the rings to the window:  *)
(* a step moves them or takes them off that set.  Losses are counted as    *)
(* sums, over the thread ids for the rings in use and over the rings that  *)
(* are closed; a reconciliation closes rings and so moves terms from one   *)
(* to the other.                                                           *)
(*                                                                         *)
(* Tally adds what the window's ratio needs: in FP mode the stacks that    *)
(* threads put into rings since the window began are those it has counted  *)
(* and those on their way, the valid and the others each by themselves.    *)
(***************************************************************************)
EXTENDS CpuSampling, FoldTheorems

WindowType == [usable : Nat, rejected : Nat, omitted : Nat, lost : Nat, keys : SUBSET Keys]

(* Every variable holds a value of its kind, and what is counted is finite. *)
Types ==
    /\ cgroup \in BOOLEAN
    /\ gen \in [Tids -> 0..MaxGens] /\ alive \in SUBSET Tids /\ seen \in SUBSET Tids
    /\ \A t \in alive : gen[t] # 0
    /\ events \in [Tids -> RingSet \cup {NoRing}]
    /\ \A t \in Tids : Cardinality(events[t].samples) <= RingCap
    /\ leftover \in [Processes -> SUBSET RingSet]
    /\ collecting \in SUBSET Processes
    /\ waiting \in [Processes -> SUBSET SampleSet]
    /\ \A p \in Processes : Cardinality(waiting[p]) <= MaxPending
    /\ forced \in [Processes -> Nat]
    /\ \A c \in retired : c.rings \in SUBSET RingSet /\ c.waiting \in SUBSET SampleSet
    /\ pc \in {"start", "loop", "reconcile", "report"} /\ mode \in {"fp", "dwarf"}
    /\ cur \in 1..MaxWindows
    /\ win \in WindowType /\ IsFiniteSet(win.keys) /\ Cardinality(win.keys) <= MaxStacks
    /\ taken \in 0..MaxSamples
    /\ counted \in Nat /\ unrecorded \in Nat /\ discarded \in Nat /\ flushes \in Nat /\ reported \in Nat
    /\ mode = "fp" => discarded = 0
    /\ IsFiniteSet(Closed) /\ IsFiniteSet(OnTheWay)

(* A ring is that of one thread, and a closed one that of a thread that    *)
(* has gone.  Only a collector has rings and samples.                      *)
Owned ==
    /\ \A t \in Tids : events[t] # NoRing =>
            events[t].tid = t /\ events[t].gen <= gen[t] /\ Owner[t] \in collecting
    /\ \A r \in Closed : /\ r.gen <= gen[r.tid]
                         /\ r.tid \in alive => r.gen # gen[r.tid]
                         /\ events[r.tid].gen # r.gen
    /\ pc = "reconcile" => \A t \in alive \ seen : events[t].gen # gen[t]
    /\ \A p \in Processes \ collecting : leftover[p] = {} /\ waiting[p] = {} /\ forced[p] = 0
    /\ pc = "report" => retired = {} /\ \A p \in Processes : leftover[p] = {} /\ waiting[p] = {}
    /\ ~cgroup => retired = {} /\ collecting \subseteq {Main}

(* The samples in the ring of a thread id, those that a process has on     *)
(* their way otherwise, and those of processes that have gone.             *)
Ringed(t) == events[t].samples
Behind(p) == Held(leftover[p]) \cup waiting[p]

(* A sample is in one place only.                                          *)
Places ==
    /\ \A t, u \in Tids : t # u => Ringed(t) \cap Ringed(u) = {}
    /\ \A t \in Tids : \A p \in Processes : Ringed(t) \cap Behind(p) = {}
    /\ \A p, q \in Processes : p # q => Behind(p) \cap Behind(q) = {}
    /\ \A t \in Tids : OfRetired \cap Ringed(t) = {}
    /\ \A p \in Processes : OfRetired \cap Behind(p) = {}

(* A sample on its way is one of those taken, in the current window.       *)
Numbers == \A s \in OnTheWay : s \in SampleSet /\ s.number <= taken /\ s.window = cur

Sound == Types /\ Owned /\ Places /\ Numbers /\ EverySampleCounted

-----------------------------------------------------------------------------
(* Facts about the state.                                                  *)

LEMMA Constants ==
    /\ IsFiniteSet(Processes) /\ IsFiniteSet(Tids) /\ IsFiniteSet(Keys)
    /\ Owner \in [Tids -> Processes] /\ Main \in Processes
    /\ RingCap \in Nat \ {0} /\ MaxPending \in Nat \ {0} /\ MaxStacks \in Nat \ {0}
    /\ MaxGens \in Nat \ {0} /\ MaxSamples \in Nat \ {0} /\ MaxWindows \in Nat \ {0}
  BY SamplingAssumption DEF SamplingAssumption

LEMMA NoRingIs ==
    /\ NoRing \notin RingSet
    /\ NoRing.gen = 0 /\ NoRing.samples = {} /\ NoRing.lost = 0 /\ NoRing.missed = 0
<1>1. \A r \in RingSet : r.gen \in 1..MaxGens
  BY DEF RingSet
<1>2. NoRing.gen = 0 /\ NoRing.samples = {} /\ NoRing.lost = 0 /\ NoRing.missed = 0
  BY DEF NoRing
<1>3. NoRing.gen \notin 1..MaxGens
  BY <1>2, Constants
<1> QED
  BY <1>1, <1>2, <1>3

LEMMA RingIs ==
    ASSUME NEW r \in RingSet
    PROVE  /\ r.tid \in Tids /\ r.gen \in 1..MaxGens /\ r.gen \in Nat \ {0}
           /\ r.samples \in SUBSET SampleSet /\ r.lost \in Nat /\ r.missed \in Nat
  BY Constants DEF RingSet

LEMMA EventIs ==
    ASSUME Types, NEW t \in Tids
    PROVE  /\ events[t] \in RingSet \cup {NoRing}
           /\ events[t] # NoRing => events[t] \in RingSet
           /\ events[t].gen \in Nat /\ events[t].samples \in SUBSET SampleSet
           /\ events[t].lost \in Nat /\ events[t].missed \in Nat
           /\ events[t] = NoRing <=> events[t].gen = 0
  BY NoRingIs, RingIs DEF Types

LEMMA ClosedIs ==
    ASSUME NEW r
    PROVE  r \in Closed <=> (\E p \in Processes : r \in leftover[p]) \/ (\E c \in retired : r \in c.rings)
<1> DEFINE A == UNION {leftover[p] : p \in Processes}
           B == UNION {c.rings : c \in retired}
<1>1. r \in A <=> \E p \in Processes : r \in leftover[p]
  OBVIOUS
<1>2. r \in B <=> \E c \in retired : r \in c.rings
  OBVIOUS
<1>3. Closed = A \cup B
  BY DEF Closed
<1> HIDE DEF A, B
<1> QED
  BY <1>1, <1>2, <1>3

LEMMA ClosedRings ==
    ASSUME Types
    PROVE  Closed \in SUBSET RingSet
<1>1. /\ \A p \in Processes : leftover[p] \in SUBSET RingSet
      /\ \A c \in retired : c.rings \in SUBSET RingSet
  BY DEF Types
<1> QED
  BY <1>1, ClosedIs

(* The places of the samples on their way.                                 *)
AllOf(ev, left, wait, ret) ==
    Held({ev[t] : t \in Tids}) \cup Held((UNION {left[p] : p \in Processes}) \cup (UNION {c.rings : c \in ret}))
        \cup (UNION {wait[p] : p \in Processes}) \cup (UNION {c.waiting : c \in ret})
OneOf(s, ev, left, wait, ret) ==
    \/ \E t \in Tids : s \in ev[t].samples
    \/ \E p \in Processes : s \in Held(left[p]) \cup wait[p]
    \/ s \in UNION {Held(c.rings) \cup c.waiting : c \in ret}

LEMMA Somewhere ==
    ASSUME NEW ev, NEW left, NEW wait, NEW ret, NEW s
    PROVE  s \in AllOf(ev, left, wait, ret) <=> OneOf(s, ev, left, wait, ret)
<1> DEFINE rings == (UNION {left[p] : p \in Processes}) \cup (UNION {c.rings : c \in ret})
           A == Held({ev[t] : t \in Tids})
           B == UNION {wait[p] : p \in Processes}
           C == UNION {c.waiting : c \in ret}
           D == UNION {Held(c.rings) \cup c.waiting : c \in ret}
<1>1. \A x : s \in Held(x) <=> \E r \in x : s \in r.samples
  BY DEF Held
<1>2. s \in A <=> \E t \in Tids : s \in ev[t].samples
  BY <1>1
<1>3. s \in B <=> \E p \in Processes : s \in wait[p]
  OBVIOUS
<1>4. s \in C <=> \E c \in ret : s \in c.waiting
  OBVIOUS
<1>5. s \in D <=> \E c \in ret : s \in Held(c.rings) \/ s \in c.waiting
  OBVIOUS
<1>6. s \in Held(rings) <=> \/ \E p \in Processes : s \in Held(left[p])
                            \/ \E c \in ret : s \in Held(c.rings)
  <2>1. \A r : r \in rings <=> (\E p \in Processes : r \in left[p]) \/ (\E c \in ret : r \in c.rings)
    OBVIOUS
  <2> HIDE DEF rings
  <2> QED
    BY <1>1, <2>1
<1> HIDE DEF rings, A, B, C, D
<1>7. s \in A \cup Held(rings) \cup B \cup C
      <=> \/ \E t \in Tids : s \in ev[t].samples
          \/ \E p \in Processes : s \in Held(left[p]) \cup wait[p]
          \/ s \in D
  BY <1>2, <1>3, <1>4, <1>5, <1>6
<1> QED
  BY <1>7 DEF rings, A, B, C, D, AllOf, OneOf

LEMMA OnTheWayIs ==
    \A s : s \in OnTheWay <=> \/ \E t \in Tids : s \in Ringed(t)
                              \/ \E p \in Processes : s \in Behind(p)
                              \/ s \in OfRetired
<1>1. OnTheWay = AllOf(events, leftover, waiting, retired)
  BY DEF OnTheWay, AllOf, InRings, Closed
<1>2. \A s : OneOf(s, events, leftover, waiting, retired) <=>
            \/ \E t \in Tids : s \in Ringed(t)
            \/ \E p \in Processes : s \in Behind(p)
            \/ s \in OfRetired
  BY DEF OneOf, Ringed, Behind, OfRetired
<1>3. \A s : s \in AllOf(events, leftover, waiting, retired) <=> OneOf(s, events, leftover, waiting, retired)
  BY Somewhere
<1>4. \A s : s \in OnTheWay <=> OneOf(s, events, leftover, waiting, retired)
  BY <1>1, <1>3
<1> QED
  BY <1>2, <1>4

LEMMA OnTheWayNext ==
    \A s : s \in OnTheWay' <=> \/ \E t \in Tids : s \in Ringed(t)'
                               \/ \E p \in Processes : s \in Behind(p)'
                               \/ s \in OfRetired'
<1>1. OnTheWay' = AllOf(events', leftover', waiting', retired')
  BY DEF OnTheWay, AllOf, InRings, Closed
<1>2. \A s : OneOf(s, events', leftover', waiting', retired') <=>
            \/ \E t \in Tids : s \in Ringed(t)'
            \/ \E p \in Processes : s \in Behind(p)'
            \/ s \in OfRetired'
  BY DEF OneOf, Ringed, Behind, OfRetired
<1>3. \A s : s \in AllOf(events', leftover', waiting', retired') <=> OneOf(s, events', leftover', waiting', retired')
  BY Somewhere
<1>4. \A s : s \in OnTheWay' <=> OneOf(s, events', leftover', waiting', retired')
  BY <1>1, <1>3
<1> QED
  BY <1>2, <1>4

(* Sums over the thread ids and over closed rings.                         *)
Lost   == [t \in Tids |-> events[t].lost]
Missed == [t \in Tids |-> events[t].missed]

LEMMA TotalIs ==
    ASSUME NEW f, NEW S
    PROVE  Total(f, S) = Sigma(f, S)
  BY DEF Total, Sigma

LEMMA SumsRead ==
    /\ LossesOf(Tids) = Sigma(Lost, Tids) /\ MissedIn(Tids) = Sigma(Missed, Tids)
    /\ Losses(Closed) = Sigma([r \in Closed |-> r.lost], Closed)
    /\ MissedOf(Closed) = Sigma([r \in Closed |-> r.missed], Closed)
    /\ LossesOf(Tids)' = Sigma(Lost', Tids) /\ MissedIn(Tids)' = Sigma(Missed', Tids)
    /\ Losses(Closed)' = Sigma([r \in Closed' |-> r.lost], Closed')
    /\ MissedOf(Closed)' = Sigma([r \in Closed' |-> r.missed], Closed')
<1>1. /\ LossesOf(Tids) = Total(Lost, Tids) /\ MissedIn(Tids) = Total(Missed, Tids)
      /\ Losses(Closed) = Total([r \in Closed |-> r.lost], Closed)
      /\ MissedOf(Closed) = Total([r \in Closed |-> r.missed], Closed)
  BY DEF LossesOf, MissedIn, Losses, MissedOf, Lost, Missed
<1>2. /\ LossesOf(Tids)' = Total(Lost', Tids) /\ MissedIn(Tids)' = Total(Missed', Tids)
      /\ Losses(Closed)' = Total([r \in Closed' |-> r.lost], Closed')
      /\ MissedOf(Closed)' = Total([r \in Closed' |-> r.missed], Closed')
  BY DEF LossesOf, MissedIn, Losses, MissedOf, Lost, Missed
<1> QED
  BY <1>1, <1>2, TotalIs

LEMMA SumsAre ==
    ASSUME Types
    PROVE  /\ Counts(Lost, Tids) /\ Counts(Missed, Tids)
           /\ Counts([r \in Closed |-> r.lost], Closed) /\ Counts([r \in Closed |-> r.missed], Closed)
           /\ \A d : LossesOf(d) = Sigma(Lost, d) /\ MissedIn(d) = Sigma(Missed, d)
           /\ Losses(Closed) = Sigma([r \in Closed |-> r.lost], Closed)
           /\ MissedOf(Closed) = Sigma([r \in Closed |-> r.missed], Closed)
           /\ LossesOf(Tids) \in Nat /\ MissedIn(Tids) \in Nat
           /\ Losses(Closed) \in Nat /\ MissedOf(Closed) \in Nat
<1>1. Counts(Lost, Tids) /\ Counts(Missed, Tids)
  BY EventIs DEF Counts, Lost, Missed
<1>2. Closed \in SUBSET RingSet
  BY ClosedRings
<1>3. Counts([r \in Closed |-> r.lost], Closed) /\ Counts([r \in Closed |-> r.missed], Closed)
  BY <1>2, RingIs DEF Counts
<1>4. /\ \A d : LossesOf(d) = Sigma(Lost, d) /\ MissedIn(d) = Sigma(Missed, d)
      /\ Losses(Closed) = Sigma([r \in Closed |-> r.lost], Closed)
      /\ MissedOf(Closed) = Sigma([r \in Closed |-> r.missed], Closed)
  BY DEF LossesOf, MissedIn, Losses, MissedOf, Total, Sigma, Lost, Missed
<1>5. IsFiniteSet(Closed) /\ IsFiniteSet(Tids)
  BY Constants DEF Types
<1> QED
  BY <1>1, <1>3, <1>4, <1>5, SigmaFacts

(* Everything that is counted is a number, and so is what has been told.   *)
Told == counted + All(win) + win.lost + unrecorded + discarded

LEMMA CountsAre ==
    ASSUME Types
    PROVE  /\ win.usable \in Nat /\ win.rejected \in Nat /\ win.omitted \in Nat /\ win.lost \in Nat
           /\ win.keys \in SUBSET Keys /\ All(win) \in Nat /\ Told \in Nat
           /\ Cardinality(OnTheWay) \in Nat /\ Cardinality(InRings) \in Nat
<1>1. win.usable \in Nat /\ win.rejected \in Nat /\ win.omitted \in Nat /\ win.lost \in Nat /\ win.keys \in SUBSET Keys
  BY DEF Types, WindowType
<1>2. All(win) \in Nat /\ Told \in Nat
  BY <1>1 DEF All, Told, Types
<1>3. InRings \subseteq OnTheWay /\ IsFiniteSet(OnTheWay)
  BY DEF OnTheWay, Types
<1> QED
  BY <1>1, <1>2, <1>3, FS_Subset, FS_CardinalityType

-----------------------------------------------------------------------------
(* Threads start and end, and the recorder looks at them.                  *)

LEMMA Still ==
    ASSUME UNCHANGED <<events, leftover, waiting, retired>>
    PROVE  /\ Closed' = Closed /\ OnTheWay' = OnTheWay /\ OfRetired' = OfRetired /\ InRings' = InRings
           /\ \A t : Ringed(t)' = Ringed(t)
           /\ \A p : Behind(p)' = Behind(p)
           /\ LossesOf(Tids)' = LossesOf(Tids) /\ MissedIn(Tids)' = MissedIn(Tids)
           /\ Losses(Closed)' = Losses(Closed) /\ MissedOf(Closed)' = MissedOf(Closed)
<1>1. Closed' = Closed /\ OfRetired' = OfRetired /\ InRings' = InRings
  BY DEF Closed, OfRetired, InRings, Held
<1>2. OnTheWay' = OnTheWay
  BY <1>1 DEF OnTheWay, Held
<1>3. /\ \A t : Ringed(t)' = Ringed(t)
      /\ \A p : Behind(p)' = Behind(p)
  BY DEF Ringed, Behind, Held
<1>4. LossesOf(Tids)' = LossesOf(Tids) /\ MissedIn(Tids)' = MissedIn(Tids)
  <2>1. Lost' = Lost /\ Missed' = Missed
    BY DEF Lost, Missed
  <2> QED
    BY <2>1, SumsRead
<1>5. Losses(Closed)' = Losses(Closed) /\ MissedOf(Closed)' = MissedOf(Closed)
  <2>1. /\ [r \in Closed |-> r.lost]' = [r \in Closed |-> r.lost]
        /\ [r \in Closed |-> r.missed]' = [r \in Closed |-> r.missed]
    BY <1>1
  <2> QED
    BY <1>1, <2>1, SumsRead
<1> QED
  BY <1>1, <1>2, <1>3, <1>4, <1>5

LEMMA PlacesStill ==
    ASSUME Places, UNCHANGED <<events, leftover, waiting, retired>>
    PROVE  Places'
<1>1. OfRetired' = OfRetired /\ (\A t : Ringed(t)' = Ringed(t)) /\ (\A p : Behind(p)' = Behind(p))
  BY Still
<1> QED
  BY <1>1 DEF Places

LEMMA SpawnSound ==
    ASSUME Sound, NEW t \in Tids, Spawn(t)
    PROVE  Sound'
<1>0. /\ t \notin alive /\ gen[t] < MaxGens /\ alive' = alive \cup {t} /\ gen' = [gen EXCEPT ![t] = @ + 1]
      /\ UNCHANGED <<cgroup, events, leftover, collecting, waiting, forced, retired, seen, pc, mode, cur, win,
                     taken, counted, unrecorded, discarded, flushes, reported>>
  BY DEF Spawn, collectorVars, recorderVars, historyVars
<1>1. /\ Closed' = Closed /\ OnTheWay' = OnTheWay
      /\ LossesOf(Tids)' = LossesOf(Tids) /\ MissedIn(Tids)' = MissedIn(Tids)
      /\ Losses(Closed)' = Losses(Closed) /\ MissedOf(Closed)' = MissedOf(Closed)
  BY <1>0, Still
<1>2. \A u \in Tids : gen[u] \in Nat /\ gen[u] <= MaxGens /\ gen'[u] = IF u = t THEN gen[u] + 1 ELSE gen[u]
  BY <1>0, Constants DEF Sound, Types
<1>3. Types'
  <2>1. gen' \in [Tids -> 0..MaxGens] /\ alive' \in SUBSET Tids /\ \A u \in alive' : gen'[u] # 0
    BY <1>0, <1>2, Constants DEF Sound, Types
  <2> QED
    BY <1>0, <1>1, <2>1 DEF Sound, Types
<1>4. Owned'
  <2>1. \A u \in Tids : events'[u] # NoRing => events'[u].tid = u /\ events'[u].gen <= gen'[u] /\ Owner[u] \in collecting'
    BY <1>0, <1>2, EventIs DEF Sound, Owned
  <2>2. ASSUME NEW r \in Closed
        PROVE  r.gen <= gen'[r.tid] /\ (r.tid \in alive' => r.gen # gen'[r.tid]) /\ events'[r.tid].gen # r.gen
    <3>1. r \in RingSet /\ r.tid \in Tids /\ r.gen \in Nat
      BY ClosedRings, RingIs DEF Sound
    <3>2. r.gen <= gen[r.tid] /\ (r.tid \in alive => r.gen # gen[r.tid]) /\ events[r.tid].gen # r.gen
      BY DEF Sound, Owned
    <3> QED
      BY <1>0, <1>2, <3>1, <3>2
  <2>3. pc' = "reconcile" => \A u \in alive' \ seen' : events'[u].gen # gen'[u]
    <3>1. \A u \in Tids : events[u].gen \in Nat /\ events[u].gen <= gen[u]
      BY <1>2, EventIs DEF Sound, Owned
    <3>2. alive \in SUBSET Tids /\ (pc = "reconcile" => \A u \in alive \ seen : events[u].gen # gen[u])
      BY DEF Sound, Types, Owned
    <3> QED
      BY <1>0, <1>2, <3>1, <3>2
  <2> QED
    BY <1>0, <1>1, <2>1, <2>2, <2>3 DEF Sound, Owned
<1>5. Places'
  BY <1>0, PlacesStill DEF Sound
<1>6. Numbers' /\ EverySampleCounted'
  BY <1>0, <1>1 DEF Sound, Numbers, EverySampleCounted, All
<1> QED
  BY <1>3, <1>4, <1>5, <1>6 DEF Sound

LEMMA ExitSound ==
    ASSUME Sound, NEW t \in Tids, Exit(t)
    PROVE  Sound'
<1>0. /\ alive' = alive \ {t}
      /\ UNCHANGED <<cgroup, gen, events, leftover, collecting, waiting, forced, retired, seen, pc, mode, cur, win,
                     taken, counted, unrecorded, discarded, flushes, reported>>
  BY DEF Exit, collectorVars, recorderVars, historyVars
<1>1. /\ Closed' = Closed /\ OnTheWay' = OnTheWay
      /\ LossesOf(Tids)' = LossesOf(Tids) /\ MissedIn(Tids)' = MissedIn(Tids)
      /\ Losses(Closed)' = Losses(Closed) /\ MissedOf(Closed)' = MissedOf(Closed)
  BY <1>0, Still
<1>2. Types'
  BY <1>0, <1>1 DEF Sound, Types
<1>3. Owned'
  BY <1>0, <1>1 DEF Sound, Owned
<1>4. Places'
  BY <1>0, PlacesStill DEF Sound
<1>5. Numbers' /\ EverySampleCounted'
  BY <1>0, <1>1 DEF Sound, Numbers, EverySampleCounted, All
<1> QED
  BY <1>2, <1>3, <1>4, <1>5 DEF Sound

LEMMA ReadThreadsSound ==
    ASSUME Sound, ReadThreads
    PROVE  Sound'
<1>0. /\ pc \in {"start", "loop"} /\ seen' = alive /\ pc' = "reconcile"
      /\ UNCHANGED <<cgroup, gen, alive, events, leftover, collecting, waiting, forced, retired, mode, cur, win,
                     taken, counted, unrecorded, discarded, flushes, reported>>
  BY DEF ReadThreads, threadVars, collectorVars, historyVars
<1>1. /\ Closed' = Closed /\ OnTheWay' = OnTheWay
      /\ LossesOf(Tids)' = LossesOf(Tids) /\ MissedIn(Tids)' = MissedIn(Tids)
      /\ Losses(Closed)' = Losses(Closed) /\ MissedOf(Closed)' = MissedOf(Closed)
  BY <1>0, Still
<1>2. Types'
  BY <1>0, <1>1 DEF Sound, Types
<1>3. Owned'
  BY <1>0, <1>1 DEF Sound, Owned
<1>4. Places'
  BY <1>0, PlacesStill DEF Sound
<1>5. Numbers' /\ EverySampleCounted'
  BY <1>0, <1>1 DEF Sound, Numbers, EverySampleCounted, All
<1> QED
  BY <1>2, <1>3, <1>4, <1>5 DEF Sound

-----------------------------------------------------------------------------
(* A sample is taken.                                                      *)

(* A stack among those of the window.                                      *)
Counted(key) == IF key = Bad THEN [stacks EXCEPT !.bad = @ + 1] ELSE [stacks EXCEPT !.valid = @ + 1]

LEMMA SampleEffect ==
    ASSUME Sound, NEW t \in Tids, Sample(t)
    PROVE  /\ t \in alive /\ events[t] \in RingSet /\ events[t] # NoRing /\ taken < MaxSamples /\ taken' = taken + 1
           /\ UNCHANGED <<cgroup, gen, alive, leftover, collecting, waiting, forced, retired, seen, pc, mode, cur, win,
                          counted, unrecorded, discarded, flushes, reported>>
           /\ events' \in [Tids -> RingSet \cup {NoRing}] /\ events'[t] \in RingSet
           /\ events'[t].tid = events[t].tid /\ events'[t].gen = events[t].gen
           /\ \A u \in Tids \ {t} : events'[u] = events[u]
           /\ \/ \E key \in Keys \cup {Bad} :
                   /\ Cardinality(events[t].samples) < RingCap
                   /\ events'[t].samples = events[t].samples \cup {[number |-> taken + 1, window |-> cur, key |-> key]}
                   /\ events'[t].lost = events[t].lost + events[t].missed /\ events'[t].missed = 0
                   /\ stacks' = Counted(key)
              \/ /\ events'[t].samples = events[t].samples
                 /\ events'[t].lost = events[t].lost /\ events'[t].missed = events[t].missed + 1
                 /\ stacks' = stacks
<1>0. /\ t \in alive /\ events[t] # NoRing /\ taken < MaxSamples /\ taken' = taken + 1
      /\ UNCHANGED <<cgroup, gen, alive, leftover, collecting, waiting, forced, retired, seen, pc, mode, cur, win,
                     counted, unrecorded, discarded, flushes, reported>>
  BY DEF Sample, threadVars, recorderVars
<1>1. events \in [Tids -> RingSet \cup {NoRing}] /\ events[t] \in RingSet
  BY <1>0, EventIs DEF Sound, Types
<1>2. taken + 1 \in 1..MaxSamples /\ cur \in 1..MaxWindows
  BY <1>0, Constants DEF Sound, Types
<1>3. CASE Cardinality(events[t].samples) < RingCap
  <2>1. PICK key \in Keys \cup {Bad} :
          /\ events' = [events EXCEPT ![t].samples = @ \cup {[number |-> taken + 1, window |-> cur, key |-> key]},
                                      ![t].lost = @ + events[t].missed,
                                      ![t].missed = 0]
          /\ stacks' = Counted(key)
    BY <1>3 DEF Sample, Counted
  <2> DEFINE new == [number |-> taken + 1, window |-> cur, key |-> key]
             ring == [tid |-> events[t].tid, gen |-> events[t].gen, samples |-> events[t].samples \cup {new},
                      lost |-> events[t].lost + events[t].missed, missed |-> 0]
  <2>2. new \in SampleSet
    BY <1>2 DEF SampleSet
  <2>3. ring \in RingSet
    BY <1>1, <2>2, RingIs DEF RingSet
  <2>4. events'[t] = ring
    BY <1>1, <2>1 DEF RingSet
  <2>5. \A u \in Tids \ {t} : events'[u] = events[u]
    BY <1>1, <2>1
  <2>6. events' \in [Tids -> RingSet \cup {NoRing}]
    <3>1. DOMAIN events' = Tids /\ events' = [u \in Tids |-> events'[u]]
      BY <1>1, <2>1
    <3> HIDE DEF ring
    <3>2. \A u \in Tids : events'[u] \in RingSet \cup {NoRing}
      BY <1>1, <2>3, <2>4, <2>5
    <3> QED
      BY <3>1, <3>2
  <2>7. /\ events'[t].tid = events[t].tid /\ events'[t].gen = events[t].gen
        /\ events'[t].samples = events[t].samples \cup {new}
        /\ events'[t].lost = events[t].lost + events[t].missed /\ events'[t].missed = 0
    BY <2>4
  <2> QED
    BY <1>0, <1>1, <1>3, <2>1, <2>3, <2>4, <2>5, <2>6, <2>7
<1>4. CASE ~(Cardinality(events[t].samples) < RingCap)
  <2>1. events' = [events EXCEPT ![t].missed = @ + 1] /\ stacks' = stacks
    BY <1>4 DEF Sample
  <2> DEFINE ring == [tid |-> events[t].tid, gen |-> events[t].gen, samples |-> events[t].samples,
                      lost |-> events[t].lost, missed |-> events[t].missed + 1]
  <2>3. ring \in RingSet
    BY <1>1, RingIs DEF RingSet
  <2>4. events'[t] = ring
    BY <1>1, <2>1 DEF RingSet
  <2>5. \A u \in Tids \ {t} : events'[u] = events[u]
    BY <1>1, <2>1
  <2>6. events' \in [Tids -> RingSet \cup {NoRing}]
    <3>1. DOMAIN events' = Tids /\ events' = [u \in Tids |-> events'[u]]
      BY <1>1, <2>1
    <3> HIDE DEF ring
    <3>2. \A u \in Tids : events'[u] \in RingSet \cup {NoRing}
      BY <1>1, <2>3, <2>4, <2>5
    <3> QED
      BY <3>1, <3>2
  <2>7. /\ events'[t].tid = events[t].tid /\ events'[t].gen = events[t].gen
        /\ events'[t].samples = events[t].samples
        /\ events'[t].lost = events[t].lost /\ events'[t].missed = events[t].missed + 1
    BY <2>4
  <2> QED
    BY <1>0, <1>1, <2>1, <2>3, <2>4, <2>5, <2>6, <2>7
<1> QED
  BY <1>3, <1>4

(* The sums over the thread ids change by what the ring of t does.         *)
LEMMA SumsSampled ==
    ASSUME Types, NEW t \in Tids, \A u \in Tids \ {t} : events'[u] = events[u],
           events'[t].lost \in Nat, events'[t].missed \in Nat
    PROVE  \E a, b \in Nat : /\ LossesOf(Tids) = events[t].lost + a /\ LossesOf(Tids)' = events'[t].lost + a
                             /\ MissedIn(Tids) = events[t].missed + b /\ MissedIn(Tids)' = events'[t].missed + b
<1> DEFINE a == Sigma(Lost, Tids \ {t})
           b == Sigma(Missed, Tids \ {t})
<1>1. IsFiniteSet(Tids) /\ Counts(Lost, Tids) /\ Counts(Missed, Tids)
  BY Constants, SumsAre
<1>2. /\ Lost'[t] \in Nat /\ Missed'[t] \in Nat /\ Lost'[t] = events'[t].lost /\ Missed'[t] = events'[t].missed
      /\ Lost[t] = events[t].lost /\ Missed[t] = events[t].missed
      /\ \A u \in Tids \ {t} : Lost'[u] = Lost[u] /\ Missed'[u] = Missed[u]
  BY DEF Lost, Missed
<1>3. /\ Sigma(Lost, Tids) = Lost[t] + a /\ Sigma(Lost', Tids) = Lost'[t] + a
      /\ Sigma(Missed, Tids) = Missed[t] + b /\ Sigma(Missed', Tids) = Missed'[t] + b
  BY <1>1, <1>2, SigmaChange
<1>4. a \in Nat /\ b \in Nat
  <2>1. IsFiniteSet(Tids \ {t}) /\ Counts(Lost, Tids \ {t}) /\ Counts(Missed, Tids \ {t})
    BY <1>1, FS_Subset DEF Counts
  <2> QED
    BY <2>1, SigmaFacts
<1> HIDE DEF a, b
<1> QED
  BY <1>2, <1>3, <1>4, SumsRead

(* What is closed or behind does not change when only rings do.            *)
LEMMA BehindStill ==
    ASSUME UNCHANGED <<leftover, waiting, retired>>
    PROVE  /\ Closed' = Closed /\ OfRetired' = OfRetired
           /\ \A p : Behind(p)' = Behind(p)
           /\ Losses(Closed)' = Losses(Closed) /\ MissedOf(Closed)' = MissedOf(Closed)
<1>1. Closed' = Closed /\ OfRetired' = OfRetired
  BY DEF Closed, OfRetired, Held
<1>2. \A p : Behind(p)' = Behind(p)
  BY DEF Behind, Held
<1>3. /\ [r \in Closed |-> r.lost]' = [r \in Closed |-> r.lost]
      /\ [r \in Closed |-> r.missed]' = [r \in Closed |-> r.missed]
  BY <1>1
<1> QED
  BY <1>1, <1>2, <1>3, SumsRead

(* A sample that fits is a new one on its way.                             *)
LEMMA SampleMoves ==
    ASSUME Sound, NEW t \in Tids, Sample(t), NEW new, new.number = taken + 1,
           events'[t].samples = events[t].samples \cup {new}
    PROVE  new \notin OnTheWay /\ OnTheWay' = OnTheWay \cup {new}
<1>1. new \notin OnTheWay
  <2>1. \A s \in OnTheWay : s.number <= taken
    BY DEF Sound, Numbers
  <2>2. taken \in Nat
    BY DEF Sound, Types
  <2> QED
    BY <2>1, <2>2
<1>2. /\ UNCHANGED <<leftover, waiting, retired>>
      /\ \A u \in Tids \ {t} : events'[u] = events[u]
  BY SampleEffect
<1>3. /\ Ringed(t)' = Ringed(t) \cup {new} /\ \A u \in Tids \ {t} : Ringed(u)' = Ringed(u)
      /\ OfRetired' = OfRetired /\ \A p : Behind(p)' = Behind(p)
  BY <1>2, BehindStill DEF Ringed
<1>4. \A s : s \in OnTheWay' <=> s \in OnTheWay \cup {new}
  BY <1>3, OnTheWayIs, OnTheWayNext
<1> QED
  BY <1>1, <1>4

LEMMA SampleSound ==
    ASSUME Sound, NEW t \in Tids, Sample(t)
    PROVE  Sound'
<1> DEFINE Fits(new) ==
        /\ new.number = taken + 1 /\ new.window = cur
        /\ Cardinality(events[t].samples) < RingCap
        /\ events'[t].samples = events[t].samples \cup {new}
        /\ events'[t].lost = events[t].lost + events[t].missed /\ events'[t].missed = 0
    Full == /\ events'[t].samples = events[t].samples
            /\ events'[t].lost = events[t].lost /\ events'[t].missed = events[t].missed + 1
<1>0. /\ t \in alive /\ events[t] \in RingSet /\ events[t] # NoRing /\ taken < MaxSamples /\ taken' = taken + 1
      /\ UNCHANGED <<cgroup, gen, alive, leftover, collecting, waiting, forced, retired, seen, pc, mode, cur, win,
                     counted, unrecorded, discarded, flushes, reported>>
      /\ events' \in [Tids -> RingSet \cup {NoRing}] /\ events'[t] \in RingSet
      /\ events'[t].tid = events[t].tid /\ events'[t].gen = events[t].gen
      /\ \A u \in Tids \ {t} : events'[u] = events[u]
  BY SampleEffect
<1>1. (\E new \in SampleSet : Fits(new)) \/ Full
  <2>1. taken + 1 \in 1..MaxSamples /\ cur \in 1..MaxWindows
    BY <1>0, Constants DEF Sound, Types
  <2>2. ASSUME NEW key \in Keys \cup {Bad}
        PROVE  [number |-> taken + 1, window |-> cur, key |-> key] \in SampleSet
    BY <2>1 DEF SampleSet
  <2> QED
    BY <2>2, SampleEffect
<1>2. /\ Closed' = Closed /\ OfRetired' = OfRetired /\ \A p : Behind(p)' = Behind(p)
      /\ Losses(Closed)' = Losses(Closed) /\ MissedOf(Closed)' = MissedOf(Closed)
  BY <1>0, BehindStill
<1>3. Ringed(t) = events[t].samples /\ Ringed(t)' = events'[t].samples /\ \A u \in Tids \ {t} : Ringed(u)' = Ringed(u)
  BY <1>0 DEF Ringed
<1>4. PICK a \in Nat, b \in Nat : /\ LossesOf(Tids) = events[t].lost + a /\ LossesOf(Tids)' = events'[t].lost + a
                                  /\ MissedIn(Tids) = events[t].missed + b /\ MissedIn(Tids)' = events'[t].missed + b
  BY <1>0, RingIs, SumsSampled DEF Sound
<1>5. events[t].lost \in Nat /\ events[t].missed \in Nat /\ events'[t] # NoRing
  BY <1>0, RingIs, NoRingIs
<1>6. Owned'
  <2>1. \A u \in Tids : events'[u] # NoRing => events[u] # NoRing /\ events'[u].tid = events[u].tid /\ events'[u].gen = events[u].gen
    BY <1>0
  <2>2. \A u \in Tids : events'[u].gen = events[u].gen
    BY <1>0
  <2>3. \A r \in Closed : r.tid \in Tids
    BY ClosedRings, RingIs DEF Sound
  <2>4. alive \in SUBSET Tids
    BY DEF Sound, Types
  <2> QED
    BY <1>0, <1>2, <2>1, <2>2, <2>3, <2>4 DEF Sound, Owned
<1>7. ASSUME NEW new \in SampleSet, Fits(new)
      PROVE  Sound'
  <2>1. new \notin OnTheWay /\ OnTheWay' = OnTheWay \cup {new}
    BY <1>7, SampleMoves
  <2>2. Ringed(t)' = Ringed(t) \cup {new}
    BY <1>3, <1>7
  <2>4. IsFiniteSet(OnTheWay') /\ Cardinality(OnTheWay') = Cardinality(OnTheWay) + 1
    BY <2>1, FS_AddElement DEF Sound, Types
  <2>5. Cardinality(events'[t].samples) <= RingCap
    <3>1. events[t].samples \subseteq OnTheWay /\ IsFiniteSet(OnTheWay)
      BY <1>3, OnTheWayIs DEF Sound, Types
    <3>2. IsFiniteSet(events[t].samples) /\ new \notin events[t].samples
      BY <2>1, <3>1, FS_Subset
    <3>3. Cardinality(events'[t].samples) = Cardinality(events[t].samples) + 1
      BY <1>7, <3>2, FS_AddElement
    <3>4. Cardinality(events[t].samples) \in Nat
      BY <3>2, FS_CardinalityType
    <3> QED
      BY <1>7, <3>3, <3>4, Constants
  <2>6. Types'
    <3>1. taken' \in 0..MaxSamples
      BY <1>0, Constants DEF Sound, Types
    <3>2. \A u \in Tids : Cardinality(events'[u].samples) <= RingCap
      BY <1>0, <2>5 DEF Sound, Types
    <3> QED
      BY <1>0, <1>2, <2>4, <3>1, <3>2 DEF Sound, Types
  <2>7. Places'
    <3>0. new \in OnTheWay <=> \/ \E u \in Tids : new \in Ringed(u)
                               \/ \E p \in Processes : new \in Behind(p)
                               \/ new \in OfRetired
      BY OnTheWayIs
    <3>1. (\A u \in Tids : new \notin Ringed(u)) /\ (\A p \in Processes : new \notin Behind(p)) /\ new \notin OfRetired
      BY <2>1, <3>0
    <3>2. \A u \in Tids : Ringed(u)' = IF u = t THEN Ringed(u) \cup {new} ELSE Ringed(u)
      BY <1>3, <2>2
    <3> QED
      BY <1>2, <3>1, <3>2 DEF Sound, Places
  <2>8. Numbers'
    <3>1. taken \in Nat
      BY DEF Sound, Types
    <3>2. \A s \in OnTheWay : s \in SampleSet /\ s.number <= taken /\ s.window = cur /\ s.number \in Nat
      BY DEF Sound, Numbers, SampleSet
    <3> QED
      BY <1>0, <1>7, <2>1, <3>1, <3>2 DEF Numbers
  <2>9. EverySampleCounted'
    <3>1. Told' = Told
      BY <1>0 DEF All, Told
    <3>2. /\ Told \in Nat /\ Cardinality(OnTheWay) \in Nat /\ taken \in Nat
          /\ Losses(Closed) \in Nat /\ MissedOf(Closed) \in Nat
      BY CountsAre, SumsAre DEF Sound, Types
    <3>3. taken = Told + Cardinality(OnTheWay) + LossesOf(Tids) + MissedIn(Tids) + Losses(Closed) + MissedOf(Closed)
      BY DEF Sound, EverySampleCounted, Told
    <3>4. /\ LossesOf(Tids)' = LossesOf(Tids) + events[t].missed
          /\ MissedIn(Tids) = MissedIn(Tids)' + events[t].missed
          /\ LossesOf(Tids) \in Nat /\ MissedIn(Tids)' \in Nat
      BY <1>4, <1>5, <1>7
    <3>5. taken' = Told + (Cardinality(OnTheWay) + 1)
                  + LossesOf(Tids)' + MissedIn(Tids)' + Losses(Closed) + MissedOf(Closed)
      BY <1>0, <1>5, <3>2, <3>3, <3>4
    <3> QED
      BY <1>0, <1>2, <2>4, <3>1, <3>5 DEF EverySampleCounted, Told
  <2> QED
    BY <1>6, <2>6, <2>7, <2>8, <2>9 DEF Sound
<1>8. ASSUME Full
      PROVE  Sound'
  <2>1. \A u \in Tids : Ringed(u)' = Ringed(u)
    BY <1>3, <1>8
  <2>2. OnTheWay' = OnTheWay
    <3>1. \A s : s \in OnTheWay' <=> s \in OnTheWay
      BY <1>2, <2>1, OnTheWayIs, OnTheWayNext
    <3> QED
      BY <3>1
  <2>3. Types'
    <3>1. taken' \in 0..MaxSamples
      BY <1>0, Constants DEF Sound, Types
    <3>2. \A u \in Tids : Cardinality(events'[u].samples) <= RingCap
      BY <1>0, <1>8 DEF Sound, Types
    <3> QED
      BY <1>0, <1>2, <2>2, <3>1, <3>2 DEF Sound, Types
  <2>4. Places'
    BY <1>2, <2>1 DEF Sound, Places
  <2>5. Numbers'
    <3>1. taken \in Nat /\ \A s \in OnTheWay : s \in SampleSet /\ s.number <= taken /\ s.window = cur /\ s.number \in Nat
      BY DEF Sound, Types, Numbers, SampleSet
    <3> QED
      BY <1>0, <2>2, <3>1 DEF Numbers
  <2>6. EverySampleCounted'
    <3>1. Told' = Told
      BY <1>0 DEF All, Told
    <3>2. /\ Told \in Nat /\ Cardinality(OnTheWay) \in Nat /\ taken \in Nat
          /\ Losses(Closed) \in Nat /\ MissedOf(Closed) \in Nat
      BY CountsAre, SumsAre DEF Sound, Types
    <3>3. taken = Told + Cardinality(OnTheWay) + LossesOf(Tids) + MissedIn(Tids) + Losses(Closed) + MissedOf(Closed)
      BY DEF Sound, EverySampleCounted, Told
    <3>4. /\ LossesOf(Tids)' = LossesOf(Tids) /\ MissedIn(Tids)' = MissedIn(Tids) + 1
          /\ LossesOf(Tids) \in Nat /\ MissedIn(Tids) \in Nat
      BY <1>4, <1>5, <1>8
    <3>5. taken' = Told + Cardinality(OnTheWay)
                  + LossesOf(Tids)' + MissedIn(Tids)' + Losses(Closed) + MissedOf(Closed)
      BY <1>0, <3>2, <3>3, <3>4
    <3> QED
      BY <1>0, <1>2, <2>2, <3>1, <3>5 DEF EverySampleCounted, Told
  <2> QED
    BY <1>6, <2>3, <2>4, <2>5, <2>6 DEF Sound
<1> QED
  BY <1>1, <1>7, <1>8

-----------------------------------------------------------------------------
(* Reconciliation: rings whose id or process has gone are closed.          *)

(* Terms go from one sum to another.                                       *)
LEMMA SumsMove ==
    ASSUME NEW T, IsFiniteSet(T), NEW M \in SUBSET T, NEW v, NEW w, Counts(v, T),
           \A t \in M : w[t] = 0, \A t \in T \ M : w[t] = v[t],
           NEW C, IsFiniteSet(C), NEW e, NEW h, NEW g, Counts(h, C),
           \A t, u \in M : e[t] = e[u] => t = u,
           \A t \in M : e[t] \notin C /\ g[e[t]] = v[t],
           \A r \in C : g[r] = h[r]
    PROVE  /\ IsFiniteSet(C \cup {e[t] : t \in M})
           /\ Sigma(w, T) + Sigma(g, C \cup {e[t] : t \in M}) = Sigma(v, T) + Sigma(h, C)
<1> DEFINE I == {e[t] : t \in M}
           D == C \cup I
<1>1. IsFiniteSet(M) /\ IsFiniteSet(T \ M) /\ Counts(v, M) /\ Counts(v, T \ M) /\ Counts(w, T)
  BY FS_Subset DEF Counts
<1>2. Sigma(w, M) = 0 /\ Sigma(w, T \ M) = Sigma(v, T \ M)
  BY <1>1, SigmaZero, SigmaSame
<1>3. Sigma(w, T) = Sigma(w, M) + Sigma(w, T \ M) /\ Sigma(v, T) = Sigma(v, M) + Sigma(v, T \ M)
  BY <1>1, SigmaSplit
<1>4. IsFiniteSet(I) /\ Sigma(g, I) = Sigma(v, M)
  <2>1. \A t \in M : v[t] = g[e[t]]
    OBVIOUS
  <2> QED
    BY <1>1, <2>1, SigmaImage
<1>5. Counts(g, I) /\ Counts(g, C) /\ \A r \in C : h[r] = g[r]
  BY <1>1 DEF Counts
<1>6. IsFiniteSet(D) /\ C \in SUBSET D /\ Counts(g, D) /\ D \ C = I
  <2>1. D \ C = I
    OBVIOUS
  <2>2. IsFiniteSet(D) /\ C \in SUBSET D
    BY <1>4, FS_Union
  <2>3. Counts(g, D)
    <3> HIDE DEF I
    <3> QED
      BY <1>5 DEF Counts
  <2> QED
    BY <2>1, <2>2, <2>3
<1> HIDE DEF I, D
<1>7. Sigma(g, D) = Sigma(g, C) + Sigma(g, I)
  <2>1. Sigma(g, D) = Sigma(g, C) + Sigma(g, D \ C)
    BY <1>6, SigmaSplit
  <2> QED
    BY <1>6, <2>1
<1>8. Sigma(g, C) = Sigma(h, C)
  BY <1>5, SigmaSame
<1>9. Sigma(v, M) \in Nat /\ Sigma(v, T \ M) \in Nat /\ Sigma(h, C) \in Nat
  BY <1>1, SigmaFacts
<1>10. Sigma(w, T) + Sigma(g, D) = Sigma(v, T) + Sigma(h, C)
  BY <1>2, <1>3, <1>4, <1>7, <1>8, <1>9
<1> QED
  BY <1>6, <1>10 DEF D, I

Exited == collecting \ Present(seen)
Now    == Present(seen) \ {p \in Present(seen) \ collecting : cgroup /\ Threads(p) \cap alive = {}}
Moved  == {t \in Tids : events[t] # NoRing /\ (Owner[t] \in Exited \/ t \notin seen)}

LEMMA Presence ==
    ASSUME Types, Owned
    PROVE  /\ Now \in SUBSET Processes /\ Exited \in SUBSET collecting
           /\ \A p \in Exited : p \notin Now
           /\ \A p \in collecting \ Exited : p \in Now
           /\ \A t \in Moved : t \notin seen /\ Owner[t] \in collecting
           /\ ~cgroup => Exited = {} /\ Now \in SUBSET {Main}
<1>1. Present(seen) \in SUBSET Processes
  BY Constants DEF Present, Types
<1>2. Now \in SUBSET Present(seen) /\ Exited = collecting \ Present(seen)
  BY DEF Now, Exited
<1>3. \A p \in collecting \ Exited : p \in Now
  BY DEF Now, Exited
<1>4. ASSUME ~cgroup PROVE Exited = {} /\ Now \in SUBSET {Main}
  <2>1. Present(seen) = {Main} /\ collecting \subseteq {Main}
    BY <1>4 DEF Present, Owned
  <2> QED
    BY <1>2, <2>1
<1>5. ASSUME NEW t \in Moved PROVE t \notin seen /\ Owner[t] \in collecting
  <2>1. Owner[t] \in collecting
    BY DEF Moved, Owned
  <2>2. CASE t \in seen
    <3>1. Owner[t] \in Exited
      BY <2>2 DEF Moved
    <3>2. cgroup
      BY <1>4, <3>1 DEF Types
    <3>3. Owner[t] \in Present(seen)
      BY <2>2, <3>2 DEF Present
    <3> QED
      BY <1>2, <3>1, <3>3
  <2> QED
    BY <2>1, <2>2
<1> QED
  BY <1>1, <1>2, <1>3, <1>4, <1>5

LEMMA ReconcileEffect ==
    ASSUME Types, Owned, Reconcile
    PROVE  /\ pc = "reconcile" /\ pc' = "loop" /\ collecting' = Now
           /\ UNCHANGED <<cgroup, gen, alive, seen, mode, cur, win, taken, counted, unrecorded, discarded, flushes, reported>>
           /\ events' = [t \in Tids |->
                CASE Owner[t] \notin Now -> NoRing
                  [] Owner[t] \in Now /\ events[t] # NoRing /\ t \in seen -> events[t]
                  [] OTHER -> IF Opened(t) THEN Empty(t) ELSE NoRing]
           /\ leftover' = [p \in Processes |-> IF p \in collecting \ Exited THEN KeepLeftover(p) ELSE {}]
           /\ waiting' = [p \in Processes |-> IF p \in Exited THEN {} ELSE waiting[p]]
           /\ forced' = [p \in Processes |-> IF p \in Exited THEN 0 ELSE forced[p]]
           /\ retired' = retired \cup
                {[process |-> p, rings |-> {events[t] : t \in Open(p)} \cup leftover[p],
                  waiting |-> waiting[p], forced |-> forced[p]] : p \in Exited}
  BY DEF Reconcile, Exited, Now, threadVars, historyVars

LEMMA ReconcileRings ==
    ASSUME Types, Owned, Reconcile
    PROVE  /\ events' \in [Tids -> RingSet \cup {NoRing}]
           /\ \A t \in Moved : events'[t] = NoRing
           /\ \A t \in Tids \ Moved : \/ events'[t] = events[t]
                                      \/ events[t] = NoRing /\ t \in alive /\ events'[t] = Empty(t) /\ Empty(t) \in RingSet
           /\ \A t \in Tids : events'[t] # NoRing => Owner[t] \in Now
<1>1. events' = [t \in Tids |->
         CASE Owner[t] \notin Now -> NoRing
           [] Owner[t] \in Now /\ events[t] # NoRing /\ t \in seen -> events[t]
           [] OTHER -> IF Opened(t) THEN Empty(t) ELSE NoRing]
  BY ReconcileEffect
<1>2. ASSUME NEW t \in Tids
      PROVE  /\ Owner[t] \notin Now => events'[t] = NoRing
             /\ Owner[t] \in Now /\ events[t] # NoRing /\ t \in seen => events'[t] = events[t]
             /\ Owner[t] \in Now /\ ~(events[t] # NoRing /\ t \in seen) =>
                   events'[t] = IF Opened(t) THEN Empty(t) ELSE NoRing
  BY <1>1
<1>3. ASSUME NEW t \in Tids, t \in alive PROVE Empty(t) \in RingSet
  <2>1. gen[t] \in 1..MaxGens
    BY <1>3, Constants DEF Types
  <2> QED
    BY <2>1 DEF Empty, RingSet
<1>4. ASSUME NEW t \in Moved PROVE events'[t] = NoRing
  <2>1. t \in Tids /\ t \notin seen /\ Owner[t] \in collecting
    BY Presence DEF Moved
  <2>2. ~Opened(t)
    BY <2>1 DEF Opened
  <2> QED
    BY <1>2, <2>1, <2>2
<1>5. ASSUME NEW t \in Tids \ Moved
      PROVE  \/ events'[t] = events[t]
             \/ events[t] = NoRing /\ t \in alive /\ events'[t] = Empty(t) /\ Empty(t) \in RingSet
  <2>1. CASE events[t] # NoRing
    <3>1. t \in seen /\ Owner[t] \notin Exited /\ Owner[t] \in collecting
      BY <2>1 DEF Moved, Owned
    <3>2. Owner[t] \in Now
      BY <3>1, Presence
    <3> QED
      BY <1>2, <2>1, <3>1, <3>2
  <2>2. CASE events[t] = NoRing
    <3>1. Opened(t) => t \in alive
      BY DEF Opened
    <3> QED
      BY <1>2, <1>3, <2>2, <3>1
  <2> QED
    BY <2>1, <2>2
<1>6. events' \in [Tids -> RingSet \cup {NoRing}]
  <2>1. \A t \in Tids : events[t] \in RingSet \cup {NoRing}
    BY DEF Types
  <2>2. \A t \in Tids : events'[t] \in RingSet \cup {NoRing}
    BY <1>4, <1>5, <2>1
  <2>3. DOMAIN events' = Tids /\ events' = [t \in Tids |-> events'[t]]
    BY <1>1
  <2> QED
    BY <2>2, <2>3
<1> QED
  BY <1>2, <1>4, <1>5, <1>6

LEMMA MovedIs ==
    ASSUME Types, Owned
    PROVE  /\ \A p \in Exited : \A t : t \in Open(p) <=> t \in Moved /\ Owner[t] = p
           /\ \A p \in collecting \ Exited : \A t : t \in Gone(p) <=> t \in Moved /\ Owner[t] = p
  BY DEF Open, Threads, Gone, Moved

(* The collectors of exited processes, as they are retired.                *)
RetiredOf(p) == [process |-> p, rings |-> {events[t] : t \in Open(p)} \cup leftover[p],
                 waiting |-> waiting[p], forced |-> forced[p]]

LEMMA ReconcileSets ==
    ASSUME Types, Owned, Reconcile
    PROVE  /\ \A p \in Processes : p \notin collecting \ Exited => leftover'[p] = {}
           /\ \A p \in collecting \ Exited : leftover'[p] = leftover[p] \cup {events[t] : t \in Gone(p)}
           /\ \A p \in Processes : waiting'[p] = IF p \in Exited THEN {} ELSE waiting[p]
           /\ \A p \in Processes : forced'[p] = IF p \in Exited THEN 0 ELSE forced[p]
           /\ retired' = retired \cup {RetiredOf(p) : p \in Exited}
           /\ \A p \in Processes \ collecting : leftover[p] = {} /\ waiting[p] = {} /\ forced[p] = 0
           /\ Exited \in SUBSET Processes /\ collecting \in SUBSET Processes
<1>1. Exited \in SUBSET Processes /\ collecting \in SUBSET Processes
  BY Presence DEF Types
<1>2. \A p \in Processes \ collecting : leftover[p] = {} /\ waiting[p] = {} /\ forced[p] = 0
  BY DEF Owned
<1>3. /\ leftover' = [p \in Processes |-> IF p \in collecting \ Exited THEN KeepLeftover(p) ELSE {}]
      /\ waiting' = [p \in Processes |-> IF p \in Exited THEN {} ELSE waiting[p]]
      /\ forced' = [p \in Processes |-> IF p \in Exited THEN 0 ELSE forced[p]]
  BY ReconcileEffect
<1>4. retired' = retired \cup {RetiredOf(p) : p \in Exited}
  BY ReconcileEffect DEF RetiredOf
<1>5. \A p \in Processes : leftover'[p] = IF p \in collecting \ Exited THEN KeepLeftover(p) ELSE {}
  BY <1>3
<1>6. \A p : KeepLeftover(p) = leftover[p] \cup {events[t] : t \in Gone(p)}
  BY DEF KeepLeftover
<1> QED
  BY <1>1, <1>2, <1>3, <1>4, <1>5, <1>6

LEMMA ReconcileClosed ==
    ASSUME Types, Owned, Reconcile
    PROVE  Closed' = Closed \cup {events[t] : t \in Moved}
<1>1. ASSUME NEW r
      PROVE  r \in Closed' <=> (\E p \in Processes : r \in leftover'[p]) \/ (\E c \in retired' : r \in c.rings)
  <2> DEFINE A == UNION {leftover'[p] : p \in Processes}
             B == UNION {c.rings : c \in retired'}
  <2>1. r \in A <=> \E p \in Processes : r \in leftover'[p]
    OBVIOUS
  <2>2. r \in B <=> \E c \in retired' : r \in c.rings
    OBVIOUS
  <2>3. Closed' = A \cup B
    BY DEF Closed
  <2> HIDE DEF A, B
  <2> QED
    BY <2>1, <2>2, <2>3
<1>2. ASSUME NEW r
      PROVE  (\E p \in Processes : r \in leftover'[p])
             <=> \E p \in collecting \ Exited : r \in leftover[p] \/ \E t \in Moved : Owner[t] = p /\ r = events[t]
  <2>1. \A p \in collecting \ Exited : r \in leftover'[p] <=> r \in leftover[p] \/ \E t \in Moved : Owner[t] = p /\ r = events[t]
    BY ReconcileSets, MovedIs
  <2>2. \A p \in Processes : p \notin collecting \ Exited => r \notin leftover'[p]
    BY ReconcileSets
  <2>3. collecting \in SUBSET Processes
    BY ReconcileSets
  <2> QED
    BY <2>1, <2>2, <2>3
<1>3. ASSUME NEW r
      PROVE  (\E c \in retired' : r \in c.rings)
             <=> \/ \E c \in retired : r \in c.rings
                 \/ \E p \in Exited : r \in leftover[p] \/ \E t \in Moved : Owner[t] = p /\ r = events[t]
  <2>1. \A p \in Exited : RetiredOf(p).rings = {events[t] : t \in Open(p)} \cup leftover[p]
    BY DEF RetiredOf
  <2>2. \A p \in Exited : r \in RetiredOf(p).rings <=> r \in leftover[p] \/ \E t \in Moved : Owner[t] = p /\ r = events[t]
    BY <2>1, MovedIs
  <2>3. (\E c \in retired' : r \in c.rings) <=> (\E c \in retired : r \in c.rings) \/ (\E p \in Exited : r \in RetiredOf(p).rings)
    BY ReconcileSets
  <2> QED
    BY <2>2, <2>3
<1>4. \A t \in Moved : Owner[t] \in collecting
  BY Presence
<1>5. /\ \A p \in Processes \ collecting : leftover[p] = {}
      /\ Exited \in SUBSET Processes /\ collecting \in SUBSET Processes /\ Exited \in SUBSET collecting
  BY ReconcileSets, Presence
<1>6. ASSUME NEW r
      PROVE  r \in Closed' <=> r \in Closed \/ \E t \in Moved : r = events[t]
  <2>1. r \in Closed <=> (\E p \in Processes : r \in leftover[p]) \/ (\E c \in retired : r \in c.rings)
    BY ClosedIs
  <2>2. (\E p \in Processes : r \in leftover[p]) <=> (\E p \in collecting \ Exited : r \in leftover[p]) \/ (\E p \in Exited : r \in leftover[p])
    BY <1>5
  <2>3. (\E t \in Moved : r = events[t]) <=> \/ \E p \in collecting \ Exited : \E t \in Moved : Owner[t] = p /\ r = events[t]
                                             \/ \E p \in Exited : \E t \in Moved : Owner[t] = p /\ r = events[t]
    BY <1>4
  <2> DEFINE A == \E p \in collecting \ Exited : r \in leftover[p]
             B == \E p \in Exited : r \in leftover[p]
             C == \E p \in collecting \ Exited : \E t \in Moved : Owner[t] = p /\ r = events[t]
             D == \E p \in Exited : \E t \in Moved : Owner[t] = p /\ r = events[t]
             E == \E c \in retired : r \in c.rings
  <2>4. (\E p \in Processes : r \in leftover'[p]) <=> A \/ C
    BY <1>2
  <2>5. (\E c \in retired' : r \in c.rings) <=> E \/ B \/ D
    BY <1>3
  <2>6. r \in Closed <=> (A \/ B) \/ E
    BY <2>1, <2>2
  <2>7. (\E t \in Moved : r = events[t]) <=> C \/ D
    BY <2>3
  <2>8. r \in Closed' <=> (A \/ C) \/ (E \/ B \/ D)
    BY <1>1, <2>4, <2>5
  <2> HIDE DEF A, B, C, D, E
  <2> QED
    BY <2>6, <2>7, <2>8
<1> QED
  BY <1>6

LEMMA ReconcilePlaced ==
    ASSUME Types, Owned, Reconcile, NEW s
    PROVE  /\ \A t \in Tids : s \in Ringed(t)' <=> s \in Ringed(t) /\ t \notin Moved
           /\ \A p \in Processes : s \in Behind(p)' <=>
                 p \notin Exited /\ (s \in Behind(p) \/ \E t \in Moved : Owner[t] = p /\ s \in Ringed(t))
           /\ s \in OfRetired' <=>
                 s \in OfRetired \/ \E p \in Exited : s \in Behind(p) \/ \E t \in Moved : Owner[t] = p /\ s \in Ringed(t)
<1>1. ASSUME NEW t \in Tids
      PROVE  s \in Ringed(t)' <=> s \in Ringed(t) /\ t \notin Moved
  <2>1. Ringed(t)' = events'[t].samples /\ Ringed(t) = events[t].samples
    BY DEF Ringed
  <2>2. Empty(t).samples = {} /\ NoRing.samples = {}
    BY NoRingIs DEF Empty
  <2> QED
    BY <2>1, <2>2, ReconcileRings
<1>2. \A x : s \in Held(x) <=> \E r \in x : s \in r.samples
  BY DEF Held
<1>3. ASSUME NEW p \in Processes
      PROVE  s \in Behind(p)' <=>
                p \notin Exited /\ (s \in Behind(p) \/ \E t \in Moved : Owner[t] = p /\ s \in Ringed(t))
  <2>1. Behind(p)' = Held(leftover'[p]) \cup waiting'[p] /\ Behind(p) = Held(leftover[p]) \cup waiting[p]
    BY DEF Behind, Held
  <2>2. CASE p \in Exited
    <3>1. leftover'[p] = {} /\ waiting'[p] = {}
      BY <2>2, ReconcileSets
    <3> QED
      BY <1>2, <2>1, <2>2, <3>1
  <2>3. CASE p \notin Exited /\ p \in collecting
    <3>1. leftover'[p] = leftover[p] \cup {events[t] : t \in Gone(p)} /\ waiting'[p] = waiting[p]
      BY <2>3, ReconcileSets
    <3>2. \A t : t \in Gone(p) <=> t \in Moved /\ Owner[t] = p
      BY <2>3, MovedIs
    <3>3. s \in Held(leftover'[p]) <=> s \in Held(leftover[p]) \/ \E t \in Moved : Owner[t] = p /\ s \in Ringed(t)
      <4>1. \A r : r \in leftover'[p] <=> r \in leftover[p] \/ \E t \in Moved : Owner[t] = p /\ r = events[t]
        BY <3>1, <3>2
      <4> QED
        BY <1>2, <4>1 DEF Ringed
    <3> QED
      BY <2>1, <2>3, <3>1, <3>3
  <2>4. CASE p \notin collecting
    <3>1. leftover'[p] = {} /\ leftover[p] = {} /\ waiting[p] = {} /\ waiting'[p] = {}
      BY <2>4, ReconcileSets
    <3>2. \A t \in Moved : Owner[t] # p
      BY <2>4, Presence
    <3> QED
      BY <1>2, <2>1, <3>1, <3>2
  <2> QED
    BY <2>2, <2>3, <2>4
<1>4. s \in OfRetired' <=>
         s \in OfRetired \/ \E p \in Exited : s \in Behind(p) \/ \E t \in Moved : Owner[t] = p /\ s \in Ringed(t)
  <2>1. (s \in OfRetired' <=> \E c \in retired' : s \in Held(c.rings) \/ s \in c.waiting)
    BY DEF OfRetired, Held
  <2>2. (s \in OfRetired <=> \E c \in retired : s \in Held(c.rings) \/ s \in c.waiting)
    BY DEF OfRetired
  <2>3. ASSUME NEW p \in Exited
        PROVE  (s \in Held(RetiredOf(p).rings) \/ s \in RetiredOf(p).waiting)
               <=> (s \in Behind(p) \/ \E t \in Moved : Owner[t] = p /\ s \in Ringed(t))
    <3>1. RetiredOf(p).rings = {events[t] : t \in Open(p)} \cup leftover[p] /\ RetiredOf(p).waiting = waiting[p]
      BY DEF RetiredOf
    <3>2. \A r : r \in RetiredOf(p).rings <=> r \in leftover[p] \/ \E t \in Moved : Owner[t] = p /\ r = events[t]
      BY <3>1, MovedIs
    <3>3. s \in Held(RetiredOf(p).rings) <=> s \in Held(leftover[p]) \/ \E t \in Moved : Owner[t] = p /\ s \in Ringed(t)
      BY <1>2, <3>2 DEF Ringed
    <3> QED
      BY <3>1, <3>3 DEF Behind
  <2>4. \A c : c \in retired' <=> c \in retired \/ \E p \in Exited : c = RetiredOf(p)
    BY ReconcileSets
  <2> QED
    BY <2>1, <2>2, <2>3, <2>4
<1> QED
  BY <1>1, <1>3, <1>4

LEMMA ReconcileSums ==
    ASSUME Types, Owned, Reconcile
    PROVE  /\ IsFiniteSet(Closed')
           /\ LossesOf(Tids)' + Losses(Closed)' = LossesOf(Tids) + Losses(Closed)
           /\ MissedIn(Tids)' + MissedOf(Closed)' = MissedIn(Tids) + MissedOf(Closed)
<1> DEFINE hl == [r \in Closed |-> r.lost]
           gl == [r \in Closed' |-> r.lost]
           hm == [r \in Closed |-> r.missed]
           gm == [r \in Closed' |-> r.missed]
<1>1. Closed' = Closed \cup {events[t] : t \in Moved}
  BY ReconcileClosed
<1>2. IsFiniteSet(Tids) /\ IsFiniteSet(Closed) /\ Moved \in SUBSET Tids
  BY Constants DEF Types, Moved
<1>3. Counts(Lost, Tids) /\ Counts(Missed, Tids) /\ Counts(hl, Closed) /\ Counts(hm, Closed)
  BY SumsAre
<1>4. ASSUME NEW t \in Moved
      PROVE  /\ Lost'[t] = 0 /\ Missed'[t] = 0
             /\ events[t] \notin Closed /\ gl[events[t]] = Lost[t] /\ gm[events[t]] = Missed[t]
             /\ events[t].tid = t
  <2>1. t \in Tids /\ events[t] # NoRing /\ events'[t] = NoRing
    BY ReconcileRings DEF Moved
  <2>2. Lost'[t] = 0 /\ Missed'[t] = 0
    BY <2>1, NoRingIs DEF Lost, Missed
  <2>3. events[t].tid = t
    BY <2>1 DEF Owned
  <2>4. events[t] \notin Closed
    BY <2>3 DEF Owned
  <2>5. events[t] \in Closed'
    BY <1>1
  <2> QED
    BY <2>1, <2>2, <2>3, <2>4, <2>5 DEF Lost, Missed
<1>5. ASSUME NEW t \in Tids \ Moved
      PROVE  Lost'[t] = Lost[t] /\ Missed'[t] = Missed[t]
  <2>1. events'[t].lost = events[t].lost /\ events'[t].missed = events[t].missed
    <3>1. Empty(t).lost = 0 /\ Empty(t).missed = 0
      BY DEF Empty
    <3>2. events'[t] = events[t] \/ (events[t] = NoRing /\ events'[t] = Empty(t))
      BY ReconcileRings
    <3> QED
      BY <3>1, <3>2, NoRingIs
  <2> QED
    BY <2>1 DEF Lost, Missed
<1>6. \A r \in Closed : gl[r] = hl[r] /\ gm[r] = hm[r]
  BY <1>1
<1>7. \A t, u \in Moved : events[t] = events[u] => t = u
  BY <1>4
<1> HIDE DEF hl, gl, hm, gm
<1>8. /\ IsFiniteSet(Closed \cup {events[t] : t \in Moved})
      /\ Sigma(Lost', Tids) + Sigma(gl, Closed \cup {events[t] : t \in Moved}) = Sigma(Lost, Tids) + Sigma(hl, Closed)
  <2>1. (\A t \in Moved : Lost'[t] = 0) /\ (\A t \in Tids \ Moved : Lost'[t] = Lost[t])
    BY <1>4, <1>5
  <2>2. (\A t \in Moved : events[t] \notin Closed /\ gl[events[t]] = Lost[t]) /\ (\A r \in Closed : gl[r] = hl[r])
    BY <1>4, <1>6
  <2> QED
    BY <1>2, <1>3, <1>7, <2>1, <2>2, SumsMove
<1>9. Sigma(Missed', Tids) + Sigma(gm, Closed \cup {events[t] : t \in Moved}) = Sigma(Missed, Tids) + Sigma(hm, Closed)
  <2>1. (\A t \in Moved : Missed'[t] = 0) /\ (\A t \in Tids \ Moved : Missed'[t] = Missed[t])
    BY <1>4, <1>5
  <2>2. (\A t \in Moved : events[t] \notin Closed /\ gm[events[t]] = Missed[t]) /\ (\A r \in Closed : gm[r] = hm[r])
    BY <1>4, <1>6
  <2> QED
    BY <1>2, <1>3, <1>7, <2>1, <2>2, SumsMove
<1>11. IsFiniteSet(Closed')
  BY <1>1, <1>8
<1>10. /\ Sigma(Lost', Tids) + Sigma(gl, Closed') = Sigma(Lost, Tids) + Sigma(hl, Closed)
       /\ Sigma(Missed', Tids) + Sigma(gm, Closed') = Sigma(Missed, Tids) + Sigma(hm, Closed)
  BY <1>1, <1>8, <1>9
<1> QED
  BY <1>10, <1>11, SumsRead DEF hl, gl, hm, gm

(* The sums of the next state are numbers, too.                            *)
SumsTyped ==
    Types => /\ LossesOf(Tids) \in Nat /\ MissedIn(Tids) \in Nat
             /\ Losses(Closed) \in Nat /\ MissedOf(Closed) \in Nat

LEMMA SumsTypedNow == SumsTyped
  BY SumsAre DEF SumsTyped

LEMMA SumsNext ==
    ASSUME Types'
    PROVE  /\ LossesOf(Tids)' \in Nat /\ MissedIn(Tids)' \in Nat
           /\ Losses(Closed)' \in Nat /\ MissedOf(Closed)' \in Nat
<1>1. SumsTyped'
  BY SumsTypedNow, PTL
<1> QED
  BY <1>1 DEF SumsTyped

(* Samples change their place, and none leaves.                            *)
LEMMA ReconcileMoves ==
    ASSUME Sound, Reconcile
    PROVE  OnTheWay' = OnTheWay
<1> USE DEF Sound
<1>1. Exited \in SUBSET Processes /\ \A t \in Moved : t \in Tids /\ Owner[t] \in Processes
  BY ReconcileSets, Constants DEF Moved
<1>2. ASSUME NEW s
      PROVE  s \in OnTheWay' <=> s \in OnTheWay
  <2>1. /\ \A t \in Tids : s \in Ringed(t)' <=> s \in Ringed(t) /\ t \notin Moved
        /\ \A p \in Processes : s \in Behind(p)' <=>
              p \notin Exited /\ (s \in Behind(p) \/ \E t \in Moved : Owner[t] = p /\ s \in Ringed(t))
        /\ s \in OfRetired' <=>
              s \in OfRetired \/ \E p \in Exited : s \in Behind(p) \/ \E t \in Moved : Owner[t] = p /\ s \in Ringed(t)
    BY ReconcilePlaced
  <2> QED
    BY <1>1, <2>1, OnTheWayIs, OnTheWayNext
<1> QED
  BY <1>2

LEMMA ReconcileSound ==
    ASSUME Sound, Reconcile
    PROVE  Sound'
<1> USE DEF Sound
<1>0. /\ pc = "reconcile" /\ pc' = "loop" /\ collecting' = Now
      /\ UNCHANGED <<cgroup, gen, alive, seen, mode, cur, win, taken, counted, unrecorded, discarded, flushes, reported>>
  BY ReconcileEffect
<1>1. /\ events' \in [Tids -> RingSet \cup {NoRing}]
      /\ \A t \in Moved : events'[t] = NoRing
      /\ \A t \in Tids \ Moved : \/ events'[t] = events[t]
                                 \/ events[t] = NoRing /\ t \in alive /\ events'[t] = Empty(t) /\ Empty(t) \in RingSet
      /\ \A t \in Tids : events'[t] # NoRing => Owner[t] \in Now
  BY ReconcileRings
<1>2. Closed' = Closed \cup {events[t] : t \in Moved}
  BY ReconcileClosed
<1>3. \A t : Empty(t).tid = t /\ Empty(t).gen = gen[t] /\ Empty(t).samples = {}
  BY DEF Empty
<1>4. OnTheWay' = OnTheWay
  BY ReconcileMoves
<1>5. Types'
  <2>1. \A p \in Processes : leftover'[p] \in SUBSET RingSet /\ waiting'[p] \in SUBSET SampleSet
                             /\ Cardinality(waiting'[p]) <= MaxPending /\ forced'[p] \in Nat
    <3>1. \A p \in Processes : waiting'[p] = IF p \in Exited THEN {} ELSE waiting[p]
      BY ReconcileSets
    <3>2. Cardinality({}) = 0 /\ 0 <= MaxPending
      BY FS_EmptySet, Constants
    <3>3. \A p \in Processes : leftover'[p] \in SUBSET Closed'
      BY DEF Closed
    <3>4. Closed \in SUBSET RingSet /\ \A t \in Moved : events[t] \in RingSet
      BY ClosedRings DEF Moved, Types
    <3>5. \A p \in Processes : leftover'[p] \in SUBSET RingSet
      BY <1>2, <3>3, <3>4
    <3>6. \A p \in Processes : forced'[p] \in Nat
      BY ReconcileSets DEF Types
    <3> QED
      BY <3>1, <3>2, <3>5, <3>6 DEF Types
  <2>2. leftover' \in [Processes -> SUBSET RingSet] /\ waiting' \in [Processes -> SUBSET SampleSet] /\ forced' \in [Processes -> Nat]
    <3>1. /\ leftover' = [p \in Processes |-> leftover'[p]] /\ waiting' = [p \in Processes |-> waiting'[p]]
          /\ forced' = [p \in Processes |-> forced'[p]]
      BY ReconcileEffect
    <3> QED
      BY <2>1, <3>1
  <2>3. \A t \in Tids : Cardinality(events'[t].samples) <= RingCap
    <3>1. NoRing.samples = {} /\ Cardinality({}) = 0 /\ 0 <= RingCap
      BY NoRingIs, FS_EmptySet, Constants
    <3> QED
      BY <1>1, <1>3, <3>1 DEF Types
  <2>4. \A c \in retired' : c.rings \in SUBSET RingSet /\ c.waiting \in SUBSET SampleSet
    <3>1. ASSUME NEW p \in Exited
          PROVE  RetiredOf(p).rings \in SUBSET RingSet /\ RetiredOf(p).waiting \in SUBSET SampleSet
      <4>1. p \in Processes /\ leftover[p] \in SUBSET RingSet /\ waiting[p] \in SUBSET SampleSet
        BY ReconcileSets DEF Types
      <4>2. \A t \in Open(p) : events[t] \in RingSet
        BY MovedIs DEF Moved, Types
      <4> QED
        BY <4>1, <4>2 DEF RetiredOf
    <3> QED
      BY <3>1, ReconcileSets DEF Types
  <2>5. collecting' \in SUBSET Processes
    BY <1>0, Presence
  <2>6. IsFiniteSet(Closed') /\ IsFiniteSet(OnTheWay')
    BY <1>4, ReconcileSums DEF Types
  <2> QED
    BY <1>0, <1>1, <2>1, <2>2, <2>3, <2>4, <2>5, <2>6 DEF Types
<1>6. Owned'
  <2>1. ASSUME NEW t \in Tids, events'[t] # NoRing
        PROVE  events'[t].tid = t /\ events'[t].gen <= gen'[t] /\ Owner[t] \in collecting'
    <3>1. gen[t] \in Nat
      BY Constants DEF Types
    <3> QED
      BY <1>0, <1>1, <1>3, <2>1, <3>1 DEF Owned
  <2>2. ASSUME NEW r \in Closed'
        PROVE  r.gen <= gen'[r.tid] /\ (r.tid \in alive' => r.gen # gen'[r.tid]) /\ events'[r.tid].gen # r.gen
    <3>1. CASE r \in Closed
      <4>1. r \in RingSet /\ r.tid \in Tids /\ r.gen \in Nat \ {0}
        BY <3>1, ClosedRings, RingIs
      <4>2. r.gen <= gen[r.tid] /\ (r.tid \in alive => r.gen # gen[r.tid]) /\ events[r.tid].gen # r.gen
        BY <3>1 DEF Owned
      <4>3. events'[r.tid].gen # r.gen
        BY <1>1, <1>3, <4>1, <4>2, NoRingIs
      <4> QED
        BY <1>0, <4>2, <4>3
    <3>2. CASE \E t \in Moved : r = events[t]
      <4>1. PICK t \in Moved : r = events[t]
        BY <3>2
      <4>2. t \in Tids /\ r # NoRing /\ r.tid = t /\ r.gen <= gen[t] /\ t \notin seen /\ r \in RingSet
        BY <4>1, Presence DEF Moved, Owned, Types
      <4>3. t \in alive => r.gen # gen[t]
        BY <1>0, <4>1, <4>2 DEF Owned
      <4>4. events'[t].gen # r.gen
        BY <1>1, <4>2, NoRingIs, RingIs
      <4> QED
        BY <1>0, <4>2, <4>3, <4>4
    <3> QED
      BY <1>2, <3>1, <3>2
  <2>3. ASSUME NEW p \in Processes \ collecting'
        PROVE  leftover'[p] = {} /\ waiting'[p] = {} /\ forced'[p] = 0
    <3>1. p \in Exited \/ p \notin collecting
      BY <1>0, Presence
    <3> QED
      BY <3>1, ReconcileSets
  <2>4. ~cgroup' => retired' = {} /\ collecting' \subseteq {Main}
    <3>1. ~cgroup => Exited = {} /\ Now \in SUBSET {Main} /\ retired = {}
      BY Presence DEF Owned
    <3> QED
      BY <1>0, <3>1, ReconcileSets
  <2> QED
    BY <1>0, <2>1, <2>2, <2>3, <2>4 DEF Owned
<1>7. Places'
  <2>1. ASSUME NEW s
        PROVE  /\ \A t \in Tids : s \in Ringed(t)' <=> s \in Ringed(t) /\ t \notin Moved
               /\ \A p \in Processes : s \in Behind(p)' <=>
                     p \notin Exited /\ (s \in Behind(p) \/ \E t \in Moved : Owner[t] = p /\ s \in Ringed(t))
               /\ s \in OfRetired' <=>
                     s \in OfRetired \/ \E p \in Exited : s \in Behind(p) \/ \E t \in Moved : Owner[t] = p /\ s \in Ringed(t)
    BY ReconcilePlaced
  <2>2. Exited \in SUBSET Processes /\ Moved \in SUBSET Tids
    BY ReconcileSets DEF Moved
  <2>3. ASSUME NEW s
        PROVE  /\ \A t, u \in Tids : t # u => ~(s \in Ringed(t) /\ s \in Ringed(u))
               /\ \A t \in Tids : \A p \in Processes : ~(s \in Ringed(t) /\ s \in Behind(p))
               /\ \A p, q \in Processes : p # q => ~(s \in Behind(p) /\ s \in Behind(q))
               /\ \A t \in Tids : ~(s \in OfRetired /\ s \in Ringed(t))
               /\ \A p \in Processes : ~(s \in OfRetired /\ s \in Behind(p))
    BY DEF Places
  <2>4. ASSUME NEW s
        PROVE  /\ \A t, u \in Tids : t # u => ~(s \in Ringed(t)' /\ s \in Ringed(u)')
               /\ \A t \in Tids : \A p \in Processes : ~(s \in Ringed(t)' /\ s \in Behind(p)')
               /\ \A p, q \in Processes : p # q => ~(s \in Behind(p)' /\ s \in Behind(q)')
               /\ \A t \in Tids : ~(s \in OfRetired' /\ s \in Ringed(t)')
               /\ \A p \in Processes : ~(s \in OfRetired' /\ s \in Behind(p)')
    <3>1. \A t, u \in Tids : t # u => ~(s \in Ringed(t)' /\ s \in Ringed(u)')
      BY <2>1, <2>3
    <3>2. \A t \in Tids : \A p \in Processes : ~(s \in Ringed(t)' /\ s \in Behind(p)')
      BY <2>1, <2>2, <2>3
    <3>3. \A p, q \in Processes : p # q => ~(s \in Behind(p)' /\ s \in Behind(q)')
      BY <2>1, <2>2, <2>3
    <3>4. \A t \in Tids : ~(s \in OfRetired' /\ s \in Ringed(t)')
      BY <2>1, <2>2, <2>3
    <3>5. \A p \in Processes : ~(s \in OfRetired' /\ s \in Behind(p)')
      BY <2>1, <2>2, <2>3
    <3> QED
      BY <3>1, <3>2, <3>3, <3>4, <3>5
  <2>5. /\ \A t, u \in Tids : t # u => Ringed(t)' \cap Ringed(u)' = {}
        /\ \A t \in Tids : \A p \in Processes : Ringed(t)' \cap Behind(p)' = {}
        /\ \A p, q \in Processes : p # q => Behind(p)' \cap Behind(q)' = {}
        /\ \A t \in Tids : OfRetired' \cap Ringed(t)' = {}
        /\ \A p \in Processes : OfRetired' \cap Behind(p)' = {}
    BY <2>4
  <2> QED
    BY <2>5 DEF Places
<1>8. Numbers'
  BY <1>0, <1>4 DEF Numbers
<1>9. EverySampleCounted'
  <2>1. Told' = Told
    BY <1>0 DEF All, Told
  <2>2. /\ LossesOf(Tids)' + Losses(Closed)' = LossesOf(Tids) + Losses(Closed)
        /\ MissedIn(Tids)' + MissedOf(Closed)' = MissedIn(Tids) + MissedOf(Closed)
    BY ReconcileSums
  <2>3. /\ Told \in Nat /\ Cardinality(OnTheWay) \in Nat /\ taken \in Nat
        /\ Losses(Closed) \in Nat /\ MissedOf(Closed) \in Nat
        /\ LossesOf(Tids) \in Nat /\ MissedIn(Tids) \in Nat
    BY CountsAre, SumsAre DEF Types
  <2>4. Types'
    BY <1>5
  <2>5. LossesOf(Tids)' \in Nat /\ MissedIn(Tids)' \in Nat /\ Losses(Closed)' \in Nat /\ MissedOf(Closed)' \in Nat
    BY <2>4, SumsNext
  <2>6. taken = Told + Cardinality(OnTheWay)
                + LossesOf(Tids) + MissedIn(Tids) + Losses(Closed) + MissedOf(Closed)
    BY DEF EverySampleCounted, Told
  <2>7. taken = Told + Cardinality(OnTheWay)
                + LossesOf(Tids)' + MissedIn(Tids)' + Losses(Closed)' + MissedOf(Closed)'
    <3> HIDE DEF Sound
    <3> QED
      BY <2>2, <2>3, <2>5, <2>6
  <2> QED
    BY <1>0, <1>4, <2>1, <2>7 DEF EverySampleCounted, Told
<1> QED
  BY <1>5, <1>6, <1>7, <1>8, <1>9

-----------------------------------------------------------------------------
(* A window takes samples and losses in.                                   *)

LEMMA Parted ==
    ASSUME NEW S, IsFiniteSet(S), NEW A \in SUBSET S
    PROVE  /\ IsFiniteSet(A) /\ IsFiniteSet(S \ A)
           /\ Cardinality(A) \in Nat /\ Cardinality(S \ A) \in Nat /\ Cardinality(S) \in Nat
           /\ Cardinality(S) = Cardinality(A) + Cardinality(S \ A)
<1>1. IsFiniteSet(A) /\ IsFiniteSet(S \ A)
  BY FS_Subset
<1>2. Cardinality(A) \in Nat /\ Cardinality(S \ A) \in Nat /\ Cardinality(S) \in Nat
  BY <1>1, FS_CardinalityType
<1>3. Cardinality(S \ A) = Cardinality(S) - Cardinality(S \cap A)
  BY FS_Difference
<1>4. S \cap A = A
  OBVIOUS
<1> QED
  BY <1>1, <1>2, <1>3, <1>4

LEMMA IngestedIs ==
    ASSUME Types, NEW ready \in SUBSET SampleSet, IsFiniteSet(ready), NEW lost \in Nat,
           NEW admitted \in Admitted(win, ready), win' = Ingested(win, ready, lost, admitted)
    PROVE  /\ win' \in WindowType /\ IsFiniteSet(win'.keys) /\ Cardinality(win'.keys) <= MaxStacks
           /\ All(win)' + win'.lost = All(win) + win.lost + Cardinality(ready) + lost
           /\ All(win)' \in Nat /\ win'.lost \in Nat
<1> DEFINE valid == {s \in ready : s.key # Bad}
           used == {s \in valid : s.key \in win.keys \cup admitted}
           new == {s.key : s \in ready} \ (win.keys \cup {Bad})
<1>1. /\ win'.usable = win.usable + Cardinality(used)
      /\ win'.rejected = win.rejected + Cardinality(ready \ valid)
      /\ win'.omitted = win.omitted + Cardinality(valid \ used)
      /\ win'.lost = win.lost + lost
      /\ win'.keys = win.keys \cup admitted
      /\ win' = [usable |-> win'.usable, rejected |-> win'.rejected, omitted |-> win'.omitted, lost |-> win'.lost, keys |-> win'.keys]
  BY DEF Ingested
<1>2. admitted \in SUBSET new /\ Cardinality(admitted) = AtMost(Cardinality(new), Minus(MaxStacks, Cardinality(win.keys)))
  BY DEF Admitted
<1>3. new \in SUBSET Keys
  BY DEF SampleSet
<1>4. /\ Cardinality(ready) = Cardinality(valid) + Cardinality(ready \ valid)
      /\ Cardinality(valid) = Cardinality(used) + Cardinality(valid \ used)
      /\ Cardinality(valid) \in Nat /\ Cardinality(ready \ valid) \in Nat
      /\ Cardinality(used) \in Nat /\ Cardinality(valid \ used) \in Nat
  <2>1. valid \in SUBSET ready /\ used \in SUBSET valid
    OBVIOUS
  <2> HIDE DEF valid, used
  <2>2. IsFiniteSet(valid) /\ Cardinality(ready) = Cardinality(valid) + Cardinality(ready \ valid)
        /\ Cardinality(valid) \in Nat /\ Cardinality(ready \ valid) \in Nat
    BY <2>1, Parted
  <2>3. Cardinality(valid) = Cardinality(used) + Cardinality(valid \ used)
        /\ Cardinality(used) \in Nat /\ Cardinality(valid \ used) \in Nat
    BY <2>1, <2>2, Parted
  <2> QED
    BY <2>2, <2>3
<1> HIDE DEF valid, used, new
<1>5. /\ win.usable \in Nat /\ win.rejected \in Nat /\ win.omitted \in Nat /\ win.lost \in Nat /\ win.keys \in SUBSET Keys
      /\ IsFiniteSet(win.keys) /\ Cardinality(win.keys) <= MaxStacks
  BY CountsAre DEF Types
<1>6. IsFiniteSet(win'.keys) /\ Cardinality(win'.keys) <= MaxStacks
  <2>1. IsFiniteSet(new) /\ IsFiniteSet(admitted)
    BY <1>2, <1>3, Constants, FS_Subset
  <2>2. Cardinality(new) \in Nat /\ Cardinality(admitted) \in Nat /\ Cardinality(win.keys) \in Nat /\ MaxStacks \in Nat
    BY <1>5, <2>1, FS_CardinalityType, Constants
  <2>3. Cardinality(admitted) <= MaxStacks - Cardinality(win.keys)
    BY <1>2, <1>5, <2>2 DEF AtMost, Minus
  <2>4. /\ IsFiniteSet(win.keys \cup admitted)
        /\ Cardinality(win.keys \cup admitted) = Cardinality(win.keys) + Cardinality(admitted) - Cardinality(win.keys \cap admitted)
    BY <1>5, <2>1, FS_Union
  <2>5. Cardinality(win.keys \cap admitted) \in Nat
    BY <2>1, FS_Subset, FS_CardinalityType
  <2>6. Cardinality(win.keys \cup admitted) <= MaxStacks
    BY <2>2, <2>3, <2>4, <2>5
  <2> QED
    BY <1>1, <2>4, <2>6
<1>7. win'.usable \in Nat /\ win'.rejected \in Nat /\ win'.omitted \in Nat /\ win'.lost \in Nat /\ win'.keys \in SUBSET Keys
  BY <1>1, <1>2, <1>3, <1>4, <1>5
<1>8. win' \in WindowType
  BY <1>1, <1>7 DEF WindowType
<1>9. All(win)' = win'.usable + win'.rejected + win'.omitted
  BY DEF All
<1>10. All(win)' + win'.lost = All(win) + win.lost + Cardinality(ready) + lost
  BY <1>1, <1>4, <1>5, <1>9 DEF All
<1> QED
  BY <1>6, <1>7, <1>8, <1>9, <1>10

-----------------------------------------------------------------------------
(* Draining: the samples of the drained rings and those behind them go to  *)
(* the window, save what the sorters keep.                                 *)
Batch(p, d)    == Held(Rings(p, d)) \cup waiting[p]
Ready(d, keep) == (UNION {Batch(p, d) \ keep[p] : p \in collecting}) \cup OfRetired
Keeps(d, keep) == \A p \in collecting : keep[p] \in Kept(Batch(p, d))

LEMMA BatchIs ==
    ASSUME Types, NEW d \in SUBSET Tids, NEW p \in Processes, NEW s
    PROVE  s \in Batch(p, d) <=> s \in Behind(p) \/ \E t \in d : Owner[t] = p /\ s \in Ringed(t)
<1> DEFINE A == {events[t] : t \in Open(p) \cap d}
<1>1. \A x : s \in Held(x) <=> \E r \in x : s \in r.samples
  BY DEF Held
<1>2. (\E r \in A : s \in r.samples) <=> \E t \in d : Owner[t] = p /\ s \in Ringed(t)
  BY NoRingIs DEF Open, Threads, Ringed
<1>3. Rings(p, d) = leftover[p] \cup A
  BY DEF Rings
<1> HIDE DEF A
<1>4. s \in Held(Rings(p, d)) <=> s \in Held(leftover[p]) \/ \E r \in A : s \in r.samples
  BY <1>1, <1>3
<1> QED
  BY <1>2, <1>4 DEF Batch, Behind

LEMMA BatchesApart ==
    ASSUME Types, Places, NEW d \in SUBSET Tids, NEW p \in Processes, NEW s \in Batch(p, d)
    PROVE  /\ s \notin OfRetired
           /\ \A t \in Tids \ d : s \notin Ringed(t)
           /\ \A q \in Processes : s \in Batch(q, d) => q = p
           /\ s \in OnTheWay
<1>1. /\ \A t, u \in Tids : t # u => ~(s \in Ringed(t) /\ s \in Ringed(u))
      /\ \A t \in Tids : \A q \in Processes : ~(s \in Ringed(t) /\ s \in Behind(q))
      /\ \A q, r \in Processes : q # r => ~(s \in Behind(q) /\ s \in Behind(r))
      /\ \A t \in Tids : ~(s \in OfRetired /\ s \in Ringed(t))
      /\ \A q \in Processes : ~(s \in OfRetired /\ s \in Behind(q))
  BY DEF Places
<1>2. \A q \in Processes : s \in Batch(q, d) <=> s \in Behind(q) \/ \E t \in d : Owner[t] = q /\ s \in Ringed(t)
  BY BatchIs
<1>3. s \in Behind(p) \/ \E t \in d : Owner[t] = p /\ s \in Ringed(t)
  BY <1>2
<1>4. \A q \in Processes : s \in Batch(q, d) => q = p
  BY <1>1, <1>2, <1>3
<1>5. s \notin OfRetired /\ \A t \in Tids \ d : s \notin Ringed(t)
  BY <1>1, <1>3
<1>6. s \in OnTheWay
  BY <1>3, OnTheWayIs
<1> QED
  BY <1>4, <1>5, <1>6

LEMMA CollectEffect ==
    ASSUME NEW d \in SUBSET Tids, NEW keep, Collect(d, keep)
    PROVE  /\ \E admitted \in Admitted(win, Ready(d, keep)) :
                win' = Ingested(win, Ready(d, keep), Losses(Closed) + LossesOf(d), admitted)
           /\ waiting' = [p \in Processes |-> IF p \in collecting THEN keep[p] ELSE waiting[p]]
           /\ \E more \in [collecting -> Nat], last \in Nat :
                /\ last <= Total([c \in retired |-> Minus(Cardinality(Held(c.rings) \cup c.waiting), MaxPending)], retired)
                /\ forced' = [p \in Processes |-> IF p \in collecting THEN forced[p] + more[p] ELSE forced[p]]
                /\ flushes' = flushes + Total(more, collecting) + last
           /\ events' = [t \in Tids |-> IF t \in d /\ events[t] # NoRing THEN Drained(events[t]) ELSE events[t]]
           /\ unrecorded' = unrecorded + MissedOf(Closed)
           /\ leftover' = [p \in Processes |-> {}] /\ retired' = {}
<1>1. /\ \E admitted \in Admitted(win, Ready(d, keep)) :
                win' = Ingested(win, Ready(d, keep), Losses(Closed) + LossesOf(d), admitted)
      /\ waiting' = [p \in Processes |-> IF p \in collecting THEN keep[p] ELSE waiting[p]]
      /\ events' = [t \in Tids |-> IF t \in d /\ events[t] # NoRing THEN Drained(events[t]) ELSE events[t]]
      /\ unrecorded' = unrecorded + MissedOf(Closed)
      /\ leftover' = [p \in Processes |-> {}] /\ retired' = {}
  BY DEF Collect, Ready, Batch
<1>2. PICK more \in [collecting -> 0..MaxSamples], last \in 0..MaxSamples :
        /\ last <= Total([c \in retired |-> Minus(Cardinality(Held(c.rings) \cup c.waiting), MaxPending)], retired)
        /\ forced' = [p \in Processes |-> IF p \in collecting THEN forced[p] + more[p] ELSE forced[p]]
        /\ flushes' = flushes + Total(more, collecting) + last
  BY DEF Collect
<1>3. more \in [collecting -> Nat] /\ last \in Nat
  BY <1>2
<1> QED
  BY <1>1, <1>2, <1>3

LEMMA CollectRings ==
    ASSUME Types, Owned, NEW d \in SUBSET Tids, NEW keep, Collect(d, keep)
    PROVE  /\ events' \in [Tids -> RingSet \cup {NoRing}]
           /\ \A t \in Tids : /\ events'[t] # NoRing => events[t] # NoRing
                              /\ events'[t].tid = events[t].tid /\ events'[t].gen = events[t].gen
                              /\ events'[t].missed = events[t].missed
           /\ \A t \in d : events'[t].samples = {} /\ events'[t].lost = 0
           /\ \A t \in Tids \ d : events'[t] = events[t]
<1>1. events' = [t \in Tids |-> IF t \in d /\ events[t] # NoRing THEN Drained(events[t]) ELSE events[t]]
  BY CollectEffect
<1>2. ASSUME NEW r \in RingSet
      PROVE  /\ Drained(r) \in RingSet /\ Drained(r).tid = r.tid /\ Drained(r).gen = r.gen
             /\ Drained(r).missed = r.missed /\ Drained(r).samples = {} /\ Drained(r).lost = 0
  BY <1>2 DEF Drained, RingSet
<1>3. \A t \in Tids : events[t] \in RingSet \cup {NoRing}
  BY DEF Types
<1>4. ASSUME NEW t \in Tids
      PROVE  /\ events'[t] \in RingSet \cup {NoRing}
             /\ events'[t] # NoRing => events[t] # NoRing
             /\ events'[t].tid = events[t].tid /\ events'[t].gen = events[t].gen
             /\ events'[t].missed = events[t].missed
             /\ t \in d => events'[t].samples = {} /\ events'[t].lost = 0
             /\ t \notin d => events'[t] = events[t]
  <2>1. CASE events[t] = NoRing
    <3>1. events'[t] = NoRing
      BY <1>1, <2>1
    <3> QED
      BY <2>1, <3>1, NoRingIs
  <2>2. CASE events[t] # NoRing /\ t \in d
    <3>1. events[t] \in RingSet /\ events'[t] = Drained(events[t])
      BY <1>1, <1>3, <2>2
    <3> QED
      BY <1>2, <2>2, <3>1
  <2>3. CASE t \notin d
    <3>1. events'[t] = events[t]
      BY <1>1, <2>3
    <3> QED
      BY <1>3, <2>3, <3>1
  <2> QED
    BY <2>1, <2>2, <2>3
<1>5. events' = [t \in Tids |-> events'[t]]
  BY <1>1
<1> QED
  BY <1>4, <1>5

LEMMA CollectPlaced ==
    ASSUME Types, Owned, NEW d \in SUBSET Tids, NEW keep, Keeps(d, keep), Collect(d, keep), NEW s
    PROVE  /\ \A t \in Tids : s \in Ringed(t)' <=> s \in Ringed(t) /\ t \notin d
           /\ \A p \in Processes : s \in Behind(p)' <=> p \in collecting /\ s \in keep[p]
           /\ s \notin OfRetired'
           /\ s \in Ready(d, keep) <=> s \in OfRetired \/ \E p \in collecting : s \in Batch(p, d) /\ s \notin keep[p]
           /\ \A p \in collecting : s \in keep[p] => s \in Batch(p, d)
<1>1. \A t \in Tids : s \in Ringed(t)' <=> s \in Ringed(t) /\ t \notin d
  <2>1. \A t \in Tids : /\ t \in d => events'[t].samples = {}
                        /\ t \notin d => events'[t] = events[t]
    BY CollectRings
  <2>2. \A t \in Tids : Ringed(t) = events[t].samples /\ Ringed(t)' = events'[t].samples
    BY DEF Ringed
  <2> QED
    BY <2>1, <2>2
<1>2. \A p \in Processes : s \in Behind(p)' <=> p \in collecting /\ s \in keep[p]
  <2>1. \A p \in Processes : leftover'[p] = {} /\ waiting'[p] = IF p \in collecting THEN keep[p] ELSE waiting[p]
    <3>1. /\ leftover' = [p \in Processes |-> {}]
          /\ waiting' = [p \in Processes |-> IF p \in collecting THEN keep[p] ELSE waiting[p]]
      BY CollectEffect
    <3> QED
      BY <3>1
  <2>2. \A p \in Processes \ collecting : waiting[p] = {}
    BY DEF Owned
  <2> QED
    BY <2>1, <2>2 DEF Behind, Held
<1>3. s \notin OfRetired'
  BY CollectEffect DEF OfRetired
<1>4. s \in Ready(d, keep) <=> s \in OfRetired \/ \E p \in collecting : s \in Batch(p, d) /\ s \notin keep[p]
  BY DEF Ready
<1>5. \A p \in collecting : s \in keep[p] => s \in Batch(p, d)
  BY DEF Keeps, Kept
<1> QED
  BY <1>1, <1>2, <1>3, <1>4, <1>5

(* The samples that are ready are no longer on their way.                  *)
LEMMA CollectMoves ==
    ASSUME Types, Owned, Places, NEW d \in SUBSET Tids, NEW keep, Keeps(d, keep), Collect(d, keep)
    PROVE  Ready(d, keep) \in SUBSET OnTheWay /\ OnTheWay' = OnTheWay \ Ready(d, keep)
<1>1. ASSUME NEW s
      PROVE  /\ s \in Ready(d, keep) => s \in OnTheWay
             /\ s \in OnTheWay' <=> s \in OnTheWay /\ s \notin Ready(d, keep)
  <2>1. /\ \A t \in Tids : s \in Ringed(t)' <=> s \in Ringed(t) /\ t \notin d
        /\ \A p \in Processes : s \in Behind(p)' <=> p \in collecting /\ s \in keep[p]
        /\ s \notin OfRetired'
        /\ s \in Ready(d, keep) <=> s \in OfRetired \/ \E p \in collecting : s \in Batch(p, d) /\ s \notin keep[p]
        /\ \A p \in collecting : s \in keep[p] => s \in Batch(p, d)
    BY CollectPlaced
  <2>2. collecting \in SUBSET Processes
    BY DEF Types
  <2>3. \A p \in Processes : s \in Batch(p, d) => /\ s \notin OfRetired
                                                  /\ \A t \in Tids \ d : s \notin Ringed(t)
                                                  /\ \A q \in Processes : s \in Batch(q, d) => q = p
                                                  /\ s \in OnTheWay
    BY BatchesApart
  <2>4. s \in OnTheWay <=> (\E t \in Tids : s \in Ringed(t)) \/ (\E p \in Processes : s \in Behind(p)) \/ s \in OfRetired
    BY OnTheWayIs
  <2>5. s \in OnTheWay' <=> (\E t \in Tids : s \in Ringed(t)') \/ (\E p \in Processes : s \in Behind(p)') \/ s \in OfRetired'
    BY OnTheWayNext
  <2>6. s \in Ready(d, keep) => s \in OnTheWay
    BY <2>1, <2>2, <2>3, <2>4
  <2>7. ASSUME s \in OnTheWay'
        PROVE  s \in OnTheWay /\ s \notin Ready(d, keep)
    <3>1. CASE \E t \in Tids \ d : s \in Ringed(t)
      <4>1. s \in OnTheWay
        BY <2>4, <3>1
      <4>2. s \notin OfRetired
        BY <3>1 DEF Places
      <4> QED
        BY <2>1, <2>2, <2>3, <3>1, <4>1, <4>2
    <3>2. CASE \E p \in collecting : s \in keep[p]
      BY <2>1, <2>2, <2>3, <3>2
    <3> QED
      BY <2>1, <2>5, <2>7, <3>1, <3>2
  <2>8. ASSUME s \in OnTheWay, s \notin Ready(d, keep)
        PROVE  s \in OnTheWay'
    <3>1. CASE \E p \in collecting : s \in Batch(p, d)
      BY <2>1, <2>2, <2>5, <2>8, <3>1
    <3>2. CASE \E t \in Tids : s \in Ringed(t)
      <4>1. PICK t \in Tids : s \in Ringed(t)
        BY <3>2
      <4>2. t \in d => \E p \in collecting : s \in Batch(p, d)
        <5>1. Owner[t] \in collecting
          BY <4>1, NoRingIs DEF Ringed, Owned
        <5>2. Owner[t] \in Processes
          BY Constants
        <5>3. t \in d => s \in Batch(Owner[t], d)
          BY <4>1, <5>2, BatchIs
        <5> QED
          BY <5>1, <5>3
      <4> QED
        BY <2>1, <2>5, <3>1, <4>1, <4>2
    <3>3. CASE \E p \in Processes : s \in Behind(p)
      <4>1. PICK p \in Processes : s \in Behind(p)
        BY <3>3
      <4>2. p \in collecting
        BY <4>1 DEF Behind, Held, Owned
      <4>3. s \in Batch(p, d)
        BY <4>1, BatchIs
      <4> QED
        BY <3>1, <4>2, <4>3
    <3> QED
      BY <2>1, <2>4, <2>8, <3>2, <3>3
  <2> QED
    BY <2>6, <2>7, <2>8
<1> QED
  BY <1>1

LEMMA CollectSums ==
    ASSUME Types, Owned, NEW d \in SUBSET Tids, NEW keep, Collect(d, keep)
    PROVE  /\ Closed' = {} /\ Losses(Closed)' = 0 /\ MissedOf(Closed)' = 0
           /\ LossesOf(d) \in Nat /\ LossesOf(Tids)' \in Nat
           /\ LossesOf(Tids) = LossesOf(d) + LossesOf(Tids)'
           /\ MissedIn(Tids)' = MissedIn(Tids)
<1>1. Closed' = {}
  <2>1. leftover' = [p \in Processes |-> {}] /\ retired' = {}
    BY CollectEffect
  <2>2. \A p \in Processes : leftover'[p] = {}
    BY <2>1
  <2>3. (UNION {leftover'[p] : p \in Processes}) = {}
    BY <2>2
  <2> QED
    BY <2>1, <2>3 DEF Closed
<1>2. Losses(Closed)' = 0 /\ MissedOf(Closed)' = 0
  BY <1>1, SumsRead, SigmaEmpty
<1>3. /\ \A t \in d : Lost'[t] = 0
      /\ \A t \in Tids \ d : Lost'[t] = Lost[t]
      /\ Missed' = Missed
  BY CollectRings DEF Lost, Missed
<1>4. IsFiniteSet(Tids) /\ IsFiniteSet(d) /\ IsFiniteSet(Tids \ d)
  BY Constants, FS_Subset
<1>5. Counts(Lost, Tids) /\ Counts(Lost, d) /\ Counts(Lost, Tids \ d) /\ Counts(Lost', Tids)
  <2>1. Counts(Lost, Tids)
    BY SumsAre
  <2> QED
    BY <1>3, <2>1 DEF Counts
<1>6. LossesOf(d) = Sigma(Lost, d) /\ LossesOf(Tids) = Sigma(Lost, Tids) /\ LossesOf(Tids)' = Sigma(Lost', Tids)
  BY SumsAre, SumsRead
<1>7. Sigma(Lost', d) = 0 /\ Sigma(Lost', Tids \ d) = Sigma(Lost, Tids \ d)
  <2>1. Sigma(Lost', d) = 0
    BY <1>3, <1>4, SigmaZero
  <2>2. Sigma(Lost, Tids \ d) = Sigma(Lost', Tids \ d)
    <3>1. \A t \in Tids \ d : Lost[t] = Lost'[t]
      BY <1>3
    <3> QED
      BY <1>4, <1>5, <3>1, SigmaSame
  <2> QED
    BY <2>1, <2>2
<1>8. /\ Sigma(Lost, Tids) = Sigma(Lost, d) + Sigma(Lost, Tids \ d)
      /\ Sigma(Lost', Tids) = Sigma(Lost', d) + Sigma(Lost', Tids \ d)
  BY <1>4, <1>5, SigmaSplit
<1>9. Sigma(Lost, d) \in Nat /\ Sigma(Lost, Tids \ d) \in Nat
  BY <1>4, <1>5, SigmaFacts
<1>10. MissedIn(Tids)' = MissedIn(Tids)
  BY <1>3, SumsRead
<1> QED
  BY <1>1, <1>2, <1>6, <1>7, <1>8, <1>9, <1>10

(* The sorters' counters and the histories stay numbers.                   *)
LEMMA CollectCounts ==
    ASSUME Types, NEW d \in SUBSET Tids, NEW keep, Collect(d, keep)
    PROVE  forced' \in [Processes -> Nat] /\ flushes' \in Nat /\ unrecorded' \in Nat
<1>1. PICK more \in [collecting -> Nat], last \in Nat :
        /\ forced' = [p \in Processes |-> IF p \in collecting THEN forced[p] + more[p] ELSE forced[p]]
        /\ flushes' = flushes + Total(more, collecting) + last
  BY CollectEffect
<1>2. IsFiniteSet(collecting) /\ Counts(more, collecting)
  BY Constants, FS_Subset DEF Types, Counts
<1>3. Total(more, collecting) \in Nat
  BY <1>2, SigmaFacts, TotalIs
<1>4. unrecorded' = unrecorded + MissedOf(Closed) /\ MissedOf(Closed) \in Nat
  BY CollectEffect, SumsAre
<1> QED
  BY <1>1, <1>3, <1>4 DEF Types

Collected(d, keep) ==
    /\ Keeps(d, keep) /\ Collect(d, keep) /\ pc = "loop"
    /\ UNCHANGED <<cgroup, gen, alive, collecting, seen, mode, taken, counted, discarded, reported>>
    /\ \/ cur' = cur /\ pc' = "loop"
       \/ /\ cur' = (IF cur < MaxWindows THEN cur + 1 ELSE 1) /\ pc' = "report"
          /\ d = Tids /\ \A p \in collecting : keep[p] = {}

LEMMA CollectSound ==
    ASSUME Sound, NEW d \in SUBSET Tids, NEW keep, Collected(d, keep)
    PROVE  Sound'
<1>0. /\ Types /\ Owned /\ Places /\ Numbers /\ Keeps(d, keep) /\ Collect(d, keep) /\ pc = "loop"
      /\ UNCHANGED <<cgroup, gen, alive, collecting, seen, mode, taken, counted, discarded, reported>>
  BY DEF Sound, Collected
<1>1. Ready(d, keep) \in SUBSET OnTheWay /\ OnTheWay' = OnTheWay \ Ready(d, keep)
  BY <1>0, CollectMoves
<1>2. /\ Closed' = {} /\ Losses(Closed)' = 0 /\ MissedOf(Closed)' = 0
      /\ LossesOf(d) \in Nat /\ LossesOf(Tids)' \in Nat
      /\ LossesOf(Tids) = LossesOf(d) + LossesOf(Tids)'
      /\ MissedIn(Tids)' = MissedIn(Tids)
  BY <1>0, CollectSums
<1>3. /\ IsFiniteSet(OnTheWay) /\ Cardinality(OnTheWay) \in Nat /\ OnTheWay \in SUBSET SampleSet
      /\ IsFiniteSet(Ready(d, keep)) /\ Cardinality(Ready(d, keep)) \in Nat
      /\ IsFiniteSet(OnTheWay') /\ Cardinality(OnTheWay') \in Nat
      /\ Cardinality(OnTheWay) = Cardinality(Ready(d, keep)) + Cardinality(OnTheWay')
  <2>1. IsFiniteSet(OnTheWay) /\ OnTheWay \in SUBSET SampleSet
    BY <1>0 DEF Types, Numbers
  <2> QED
    BY <1>1, <2>1, Parted
<1>4. /\ win' \in WindowType /\ IsFiniteSet(win'.keys) /\ Cardinality(win'.keys) <= MaxStacks
      /\ All(win)' + win'.lost = All(win) + win.lost + Cardinality(Ready(d, keep)) + (Losses(Closed) + LossesOf(d))
      /\ All(win)' \in Nat /\ win'.lost \in Nat
  <2>1. PICK admitted \in Admitted(win, Ready(d, keep)) :
                win' = Ingested(win, Ready(d, keep), Losses(Closed) + LossesOf(d), admitted)
    BY <1>0, CollectEffect
  <2>2. Losses(Closed) + LossesOf(d) \in Nat
    BY <1>0, <1>2, SumsAre
  <2>3. Ready(d, keep) \in SUBSET SampleSet
    BY <1>1, <1>3
  <2> QED
    BY <1>0, <1>3, <2>1, <2>2, <2>3, IngestedIs
<1>5. /\ leftover' = [p \in Processes |-> {}] /\ retired' = {}
      /\ waiting' = [p \in Processes |-> IF p \in collecting THEN keep[p] ELSE waiting[p]]
  BY <1>0, CollectEffect
<1>6. \A p \in collecting : keep[p] \in SUBSET SampleSet /\ Cardinality(keep[p]) <= MaxPending
  <2>1. collecting \in SUBSET Processes
    BY <1>0 DEF Types
  <2>2. \A p \in collecting : Batch(p, d) \in SUBSET OnTheWay
    BY <1>0, <2>1, BatchesApart
  <2> QED
    BY <1>0, <1>3, <2>2 DEF Keeps, Kept
<1>7. /\ events' \in [Tids -> RingSet \cup {NoRing}]
      /\ \A t \in Tids : /\ events'[t] # NoRing => events[t] # NoRing
                         /\ events'[t].tid = events[t].tid /\ events'[t].gen = events[t].gen
                         /\ events'[t].missed = events[t].missed
      /\ \A t \in d : events'[t].samples = {} /\ events'[t].lost = 0
      /\ \A t \in Tids \ d : events'[t] = events[t]
  BY <1>0, CollectRings
<1>8. cur' \in 1..MaxWindows /\ pc' \in {"loop", "report"}
  BY <1>0, Constants DEF Types, Collected
<1>9. Types'
  <2>1. waiting' \in [Processes -> SUBSET SampleSet] /\ \A p \in Processes : Cardinality(waiting'[p]) <= MaxPending
    BY <1>0, <1>5, <1>6 DEF Types
  <2>2. leftover' \in [Processes -> SUBSET RingSet] /\ \A c \in retired' : c.rings \in SUBSET RingSet /\ c.waiting \in SUBSET SampleSet
    BY <1>5
  <2>3. \A t \in Tids : Cardinality(events'[t].samples) <= RingCap
    <3>1. Cardinality({}) = 0 /\ 0 <= RingCap
      BY FS_EmptySet, Constants
    <3> QED
      BY <1>0, <1>7, <3>1 DEF Types
  <2>4. forced' \in [Processes -> Nat] /\ flushes' \in Nat /\ unrecorded' \in Nat
    BY <1>0, CollectCounts
  <2>5. IsFiniteSet(Closed')
    BY <1>2, FS_EmptySet
  <2> QED
    BY <1>0, <1>3, <1>4, <1>7, <1>8, <2>1, <2>2, <2>3, <2>4, <2>5 DEF Types
<1>10. Owned'
  <2>1. \A t \in Tids : events'[t] # NoRing => events'[t].tid = t /\ events'[t].gen <= gen'[t] /\ Owner[t] \in collecting'
    BY <1>0, <1>7 DEF Owned
  <2>2. \A p \in Processes \ collecting' : leftover'[p] = {} /\ waiting'[p] = {} /\ forced'[p] = 0
    <3>1. PICK more, last : forced' = [p \in Processes |-> IF p \in collecting THEN forced[p] + more[p] ELSE forced[p]]
      BY <1>0, CollectEffect
    <3> QED
      BY <1>0, <1>5, <3>1 DEF Owned
  <2>3. pc' = "report" => \A p \in Processes : leftover'[p] = {} /\ waiting'[p] = {}
    <3>1. pc' = "report" => \A p \in collecting : keep[p] = {}
      BY DEF Collected
    <3> QED
      BY <1>0, <1>5, <3>1 DEF Owned
  <2> QED
    BY <1>0, <1>2, <1>5, <1>8, <2>1, <2>2, <2>3 DEF Owned
<1>11. ASSUME NEW s
       PROVE  /\ \A t \in Tids : s \in Ringed(t)' <=> s \in Ringed(t) /\ t \notin d
              /\ \A p \in Processes : s \in Behind(p)' <=> p \in collecting /\ s \in keep[p]
              /\ s \notin OfRetired'
              /\ \A p \in collecting : s \in keep[p] => s \in Batch(p, d)
  BY <1>0, CollectPlaced
<1>12. Places'
  <2>1. ASSUME NEW s
        PROVE  /\ \A t, u \in Tids : t # u => ~(s \in Ringed(t)' /\ s \in Ringed(u)')
               /\ \A t \in Tids : \A p \in Processes : ~(s \in Ringed(t)' /\ s \in Behind(p)')
               /\ \A p, q \in Processes : p # q => ~(s \in Behind(p)' /\ s \in Behind(q)')
               /\ s \notin OfRetired'
    <3>1. \A t, u \in Tids : t # u => ~(s \in Ringed(t) /\ s \in Ringed(u))
      BY <1>0 DEF Places
    <3>2. \A p \in Processes : s \in Batch(p, d) => /\ \A t \in Tids \ d : s \notin Ringed(t)
                                                    /\ \A q \in Processes : s \in Batch(q, d) => q = p
      BY <1>0, BatchesApart
    <3> QED
      BY <1>11, <3>1, <3>2
  <2>2. /\ \A t, u \in Tids : t # u => Ringed(t)' \cap Ringed(u)' = {}
        /\ \A t \in Tids : \A p \in Processes : Ringed(t)' \cap Behind(p)' = {}
        /\ \A p, q \in Processes : p # q => Behind(p)' \cap Behind(q)' = {}
        /\ \A t \in Tids : OfRetired' \cap Ringed(t)' = {}
        /\ \A p \in Processes : OfRetired' \cap Behind(p)' = {}
    BY <2>1
  <2> QED
    BY <2>2 DEF Places
<1>13. Numbers'
  <2>1. CASE cur' = cur
    BY <1>0, <1>1, <2>1 DEF Numbers
  <2>2. CASE cur' # cur
    <3>1. d = Tids /\ \A p \in collecting : keep[p] = {}
      BY <2>2 DEF Collected
    <3>2. \A s : s \notin OnTheWay'
      BY <1>11, <3>1, OnTheWayNext
    <3> QED
      BY <3>2 DEF Numbers
  <2> QED
    BY <2>1, <2>2
<1>14. EverySampleCounted'
  <2>1. unrecorded' = unrecorded + MissedOf(Closed)
    BY <1>0, CollectEffect
  <2>2. /\ win.lost \in Nat /\ All(win) \in Nat /\ taken \in Nat /\ counted \in Nat /\ unrecorded \in Nat /\ discarded \in Nat
        /\ Losses(Closed) \in Nat /\ MissedOf(Closed) \in Nat /\ MissedIn(Tids) \in Nat
    BY <1>0, CountsAre, SumsAre DEF Types
  <2>3. taken = counted + All(win) + win.lost + unrecorded + discarded + Cardinality(OnTheWay)
                + LossesOf(Tids) + MissedIn(Tids) + Losses(Closed) + MissedOf(Closed)
    BY DEF Sound, EverySampleCounted
  <2>4. All(win) + win.lost + Cardinality(OnTheWay) + LossesOf(Tids) + Losses(Closed)
            = All(win)' + win'.lost + Cardinality(OnTheWay') + LossesOf(Tids)'
    BY <1>2, <1>3, <1>4, <2>2
  <2>5. /\ LossesOf(Tids) \in Nat /\ LossesOf(Tids)' \in Nat /\ Cardinality(OnTheWay) \in Nat
        /\ Cardinality(OnTheWay') \in Nat /\ All(win)' \in Nat /\ win'.lost \in Nat
    BY <1>0, <1>2, <1>3, <1>4, SumsAre
  <2> DEFINE here  == All(win) + win.lost + Cardinality(OnTheWay) + LossesOf(Tids) + Losses(Closed)
             there == All(win)' + win'.lost + Cardinality(OnTheWay') + LossesOf(Tids)'
             rest  == counted + discarded + MissedIn(Tids)
  <2>6. taken = rest + here + unrecorded + MissedOf(Closed)
    BY <2>2, <2>3, <2>5
  <2>7. here = there /\ there \in Nat /\ rest \in Nat
    BY <2>2, <2>4, <2>5
  <2>8. taken = rest + there + unrecorded'
    <3> HIDE DEF here, there, rest
    <3> QED
      BY <2>1, <2>2, <2>6, <2>7
  <2>9. unrecorded' \in Nat
    BY <2>1, <2>2
  <2>10. taken = counted + All(win)' + win'.lost + unrecorded' + discarded + Cardinality(OnTheWay')
                + LossesOf(Tids)' + MissedIn(Tids) + 0 + 0
    BY <2>2, <2>5, <2>8, <2>9
  <2> QED
    BY <1>0, <1>2, <2>10 DEF EverySampleCounted
<1> QED
  BY <1>9, <1>10, <1>12, <1>13, <1>14 DEF Sound

LEMMA PollSound ==
    ASSUME Sound, Poll
    PROVE  Sound'
<1>1. PICK skipped \in {{}} \cup {Threads(p) : p \in collecting},
           keep \in [collecting -> SUBSET (UNION {Held(Rings(p, Tids)) \cup waiting[p] : p \in collecting})] :
             /\ \A p \in collecting : keep[p] \in Kept(Held(Rings(p, Tids \ skipped)) \cup waiting[p])
             /\ Collect(Tids \ skipped, keep)
  BY DEF Poll
<1>2. /\ pc = "loop" /\ pc' = "loop" /\ cur' = cur
      /\ UNCHANGED <<cgroup, gen, alive, collecting, seen, mode, taken, counted, discarded, reported>>
  BY DEF Poll, threadVars
<1>3. Keeps(Tids \ skipped, keep)
  BY <1>1 DEF Keeps, Batch
<1>4. Collected(Tids \ skipped, keep)
  BY <1>1, <1>2, <1>3 DEF Collected
<1> QED
  BY <1>4, CollectSound

LEMMA EndWindowSound ==
    ASSUME Sound, EndWindow
    PROVE  Sound'
<1> DEFINE keep == [p \in collecting |-> Flushed(p)]
<1>1. /\ pc = "loop" /\ pc' = "report" /\ cur' = (IF cur < MaxWindows THEN cur + 1 ELSE 1) /\ Collect(Tids, keep)
      /\ UNCHANGED <<cgroup, gen, alive, collecting, seen, mode, taken, counted, discarded, reported>>
  BY DEF EndWindow, threadVars
<1>2. \A p \in collecting : keep[p] = {}
  BY DEF Flushed
<1>3. Keeps(Tids, keep)
  <2>1. Cardinality({}) = 0 /\ 0 <= MaxPending
    BY FS_EmptySet, Constants
  <2> QED
    BY <1>2, <2>1 DEF Keeps, Kept
<1> HIDE DEF keep
<1>4. Collected(Tids, keep)
  BY <1>1, <1>2, <1>3 DEF Collected
<1> QED
  BY <1>4, CollectSound

-----------------------------------------------------------------------------
(* The report: a switch of the mode drops what the rings hold.             *)

LEMMA ReportEffect ==
    ASSUME Types, Owned, Report
    PROVE  /\ pc = "report" /\ Closed = {} /\ OnTheWay = InRings /\ OfRetired = {}
           /\ \A p \in Processes : leftover[p] = {} /\ waiting[p] = {} /\ Behind(p) = {}
           /\ retired = {} /\ reported' = reported + Total(forced, collecting) /\ reported' \in Nat
           /\ forced' = [p \in Processes |-> 0]
           /\ counted' = counted + All(win) + win.lost /\ win' = NewWindow
           /\ UNCHANGED <<cgroup, gen, alive, leftover, waiting, retired, seen, cur, taken, unrecorded, flushes>>
           /\ \/ /\ mode' = "dwarf" /\ pc' = "start" /\ collecting' = {}
                 /\ events' = [t \in Tids |-> NoRing]
                 /\ discarded' = discarded + Cardinality(InRings) + LossesOf(Tids) + MissedIn(Tids)
              \/ pc' = "loop" /\ UNCHANGED <<mode, collecting, events, discarded>>
<1>1. /\ pc = "report" /\ retired = {} /\ \A p \in Processes : leftover[p] = {} /\ waiting[p] = {}
  BY DEF Report, Owned
<1>2. Closed = {}
  <2>1. (UNION {leftover[p] : p \in Processes}) = {}
    BY <1>1
  <2> QED
    BY <1>1, <2>1 DEF Closed
<1>3. OfRetired = {} /\ \A p \in Processes : Behind(p) = {}
  BY <1>1 DEF OfRetired, Behind, Held
<1>4. OnTheWay = InRings
  <2>1. \A s : s \in InRings <=> \E t \in Tids : s \in Ringed(t)
    BY DEF InRings, Held, Ringed
  <2>2. \A s : s \in OnTheWay <=> s \in InRings
    BY <1>3, <2>1, OnTheWayIs
  <2> QED
    BY <2>2
<1>5. /\ reported' = reported + Total(forced, collecting) + Total([c \in retired |-> c.forced], retired)
      /\ forced' = [p \in Processes |-> 0]
      /\ counted' = counted + All(win) + win.lost /\ win' = NewWindow
      /\ UNCHANGED <<cgroup, gen, alive, leftover, waiting, retired, seen, cur, taken, unrecorded, flushes>>
      /\ \/ /\ mode' = "dwarf" /\ pc' = "start" /\ collecting' = {}
            /\ events' = [t \in Tids |-> NoRing]
            /\ discarded' = discarded + Cardinality(InRings) + LossesOf(Tids) + MissedIn(Tids)
         \/ pc' = "loop" /\ UNCHANGED <<mode, collecting, events, discarded>>
  BY DEF Report, AfterStats, threadVars
<1>6. Total([c \in retired |-> c.forced], retired) = 0
  BY <1>1, TotalIs, SigmaEmpty
<1>7. Total(forced, collecting) \in Nat /\ reported \in Nat
  <2>1. IsFiniteSet(collecting) /\ Counts(forced, collecting)
    BY Constants, FS_Subset DEF Types, Counts
  <2> QED
    BY <2>1, SigmaFacts, TotalIs DEF Types
<1>8. reported' = reported + Total(forced, collecting) /\ reported' \in Nat
  BY <1>5, <1>6, <1>7
<1> QED
  BY <1>1, <1>2, <1>3, <1>4, <1>5, <1>8

LEMMA ReportSound ==
    ASSUME Sound, Report
    PROVE  Sound'
<1>0. Types /\ Owned /\ Places /\ Numbers /\ EverySampleCounted
  BY DEF Sound
<1>1. /\ pc = "report" /\ Closed = {} /\ OnTheWay = InRings /\ OfRetired = {}
      /\ \A p \in Processes : leftover[p] = {} /\ waiting[p] = {} /\ Behind(p) = {}
      /\ retired = {} /\ reported' \in Nat
      /\ forced' = [p \in Processes |-> 0]
      /\ counted' = counted + All(win) + win.lost /\ win' = NewWindow
      /\ UNCHANGED <<cgroup, gen, alive, leftover, waiting, retired, seen, cur, taken, unrecorded, flushes>>
  BY <1>0, ReportEffect
<1>2. /\ win' \in WindowType /\ IsFiniteSet(win'.keys) /\ Cardinality(win'.keys) <= MaxStacks
      /\ All(win)' = 0 /\ win'.lost = 0
  BY <1>1, FS_EmptySet, Constants DEF NewWindow, WindowType, All
<1>3. /\ win.lost \in Nat /\ All(win) \in Nat /\ Cardinality(OnTheWay) \in Nat /\ taken \in Nat /\ counted \in Nat
      /\ unrecorded \in Nat /\ discarded \in Nat /\ Losses(Closed) \in Nat /\ MissedOf(Closed) \in Nat
      /\ LossesOf(Tids) \in Nat /\ MissedIn(Tids) \in Nat
  BY <1>0, CountsAre, SumsAre DEF Types
<1>4. Losses(Closed) = 0 /\ MissedOf(Closed) = 0
  BY <1>1, SumsRead, SigmaEmpty
<1>5. taken = counted + All(win) + win.lost + unrecorded + discarded + Cardinality(OnTheWay)
              + LossesOf(Tids) + MissedIn(Tids) + Losses(Closed) + MissedOf(Closed)
  BY <1>0 DEF EverySampleCounted
<1>6. ASSUME pc' = "loop", UNCHANGED <<mode, collecting, events, discarded>>
      PROVE  Sound'
  <2>1. /\ Closed' = Closed /\ OnTheWay' = OnTheWay
        /\ LossesOf(Tids)' = LossesOf(Tids) /\ MissedIn(Tids)' = MissedIn(Tids)
        /\ Losses(Closed)' = Losses(Closed) /\ MissedOf(Closed)' = MissedOf(Closed)
    BY <1>1, <1>6, Still
  <2>2. Types'
    BY <1>0, <1>1, <1>2, <1>3, <1>6, <2>1 DEF Types
  <2>3. Owned'
    BY <1>0, <1>1, <1>6, <2>1 DEF Owned
  <2>4. Places'
    BY <1>0, <1>1, <1>6, PlacesStill
  <2>5. Numbers'
    BY <1>0, <1>1, <2>1 DEF Numbers
  <2>6. EverySampleCounted'
    <3>1. taken = (counted + All(win) + win.lost) + 0 + 0 + unrecorded + discarded + Cardinality(OnTheWay)
                  + LossesOf(Tids) + MissedIn(Tids) + Losses(Closed) + MissedOf(Closed)
      BY <1>3, <1>5
    <3> QED
      BY <1>1, <1>2, <1>6, <2>1, <3>1 DEF EverySampleCounted
  <2> QED
    BY <2>2, <2>3, <2>4, <2>5, <2>6 DEF Sound
<1>7. ASSUME mode' = "dwarf", pc' = "start", collecting' = {}, events' = [t \in Tids |-> NoRing],
             discarded' = discarded + Cardinality(InRings) + LossesOf(Tids) + MissedIn(Tids)
      PROVE  Sound'
  <2>1. \A t \in Tids : events'[t] = NoRing /\ Ringed(t)' = {}
    BY <1>7, NoRingIs DEF Ringed
  <2>2. Closed' = Closed /\ OfRetired' = OfRetired /\ Losses(Closed)' = 0 /\ MissedOf(Closed)' = 0
        /\ \A p \in Processes : Behind(p)' = {}
    BY <1>1, <1>4, BehindStill
  <2>3. OnTheWay' = {}
    <3>1. \A s : s \notin OnTheWay'
      BY <1>1, <2>1, <2>2, OnTheWayNext
    <3> QED
      BY <3>1
  <2>4. LossesOf(Tids)' = 0 /\ MissedIn(Tids)' = 0
    <3>1. \A t \in Tids : Lost'[t] = 0 /\ Missed'[t] = 0
      BY <2>1, NoRingIs DEF Lost, Missed
    <3> QED
      BY <3>1, Constants, SigmaZero, SumsRead
  <2>5. Types'
    <3>1. Cardinality({}) = 0 /\ IsFiniteSet({}) /\ 0 <= RingCap
      BY FS_EmptySet, Constants
    <3>2. discarded' \in Nat /\ counted' \in Nat
      BY <1>1, <1>3, <1>7
    <3>3. \A t \in Tids : Cardinality(events'[t].samples) <= RingCap
      BY <2>1, <3>1, NoRingIs
    <3> QED
      BY <1>0, <1>1, <1>2, <1>7, <2>2, <2>3, <3>1, <3>2, <3>3 DEF Types
  <2>6. Owned'
    BY <1>1, <1>7, <2>1, <2>2 DEF Owned
  <2>7. Places'
    BY <1>1, <2>1, <2>2 DEF Places
  <2>8. Numbers'
    BY <2>3 DEF Numbers
  <2>9. EverySampleCounted'
    <3>1. Cardinality(OnTheWay') = 0
      BY <2>3, FS_EmptySet
    <3>2. taken = (counted + All(win) + win.lost) + 0 + 0 + unrecorded + (discarded + Cardinality(InRings) + LossesOf(Tids) + MissedIn(Tids))
                  + 0 + 0 + 0 + 0 + 0
      BY <1>1, <1>3, <1>4, <1>5
    <3> QED
      BY <1>1, <1>2, <1>7, <2>2, <2>4, <3>1, <3>2 DEF EverySampleCounted
  <2> QED
    BY <2>5, <2>6, <2>7, <2>8, <2>9 DEF Sound
<1> QED
  BY <1>0, <1>6, <1>7, ReportEffect

-----------------------------------------------------------------------------
(* Sound is an invariant.                                                  *)

LEMMA InitSound == Init => Sound
<1> SUFFICES ASSUME Init PROVE Sound
  OBVIOUS
<1>0. /\ cgroup \in BOOLEAN /\ gen = [t \in Tids |-> 0] /\ alive = {}
      /\ events = [t \in Tids |-> NoRing] /\ leftover = [p \in Processes |-> {}]
      /\ collecting = {} /\ waiting = [p \in Processes |-> {}] /\ forced = [p \in Processes |-> 0]
      /\ retired = {} /\ seen = {} /\ pc = "start" /\ mode = "fp" /\ cur = 1 /\ win = NewWindow
      /\ taken = 0 /\ counted = 0 /\ unrecorded = 0 /\ discarded = 0 /\ flushes = 0 /\ reported = 0
  BY DEF Init
<1>1. \A t \in Tids : events[t] = NoRing /\ Ringed(t) = {} /\ Lost[t] = 0 /\ Missed[t] = 0
  BY <1>0, NoRingIs DEF Ringed, Lost, Missed
<1>2. Closed = {} /\ OfRetired = {} /\ \A p \in Processes : Behind(p) = {}
  <2>1. \A p \in Processes : leftover[p] = {} /\ waiting[p] = {}
    BY <1>0
  <2>2. (UNION {leftover[p] : p \in Processes}) = {}
    BY <2>1
  <2> QED
    BY <1>0, <2>1, <2>2 DEF Closed, OfRetired, Behind, Held
<1>3. OnTheWay = {}
  <2>1. \A s : s \notin OnTheWay
    BY <1>1, <1>2, OnTheWayIs
  <2> QED
    BY <2>1
<1>4. Cardinality({}) = 0 /\ IsFiniteSet({})
  BY FS_EmptySet
<1>5. Types
  <2>1. win \in WindowType /\ IsFiniteSet(win.keys) /\ Cardinality(win.keys) <= MaxStacks
    BY <1>0, <1>4, Constants DEF NewWindow, WindowType
  <2>2. \A t \in Tids : Cardinality(events[t].samples) <= RingCap
    BY <1>1, <1>4, NoRingIs, Constants
  <2>3. \A p \in Processes : Cardinality(waiting[p]) <= MaxPending
    BY <1>0, <1>4, Constants
  <2> QED
    BY <1>0, <1>2, <1>3, <1>4, <2>1, <2>2, <2>3, Constants DEF Types
<1>6. Owned
  BY <1>0, <1>1, <1>2 DEF Owned
<1>7. Places
  BY <1>1, <1>2 DEF Places
<1>8. Numbers
  BY <1>3 DEF Numbers
<1>9. EverySampleCounted
  <2>1. LossesOf(Tids) = 0 /\ MissedIn(Tids) = 0 /\ Losses(Closed) = 0 /\ MissedOf(Closed) = 0
    BY <1>1, <1>2, Constants, SumsRead, SigmaZero, SigmaEmpty
  <2>2. All(win) = 0 /\ win.lost = 0
    BY <1>0 DEF NewWindow, All
  <2> QED
    BY <1>0, <1>3, <1>4, <2>1, <2>2 DEF EverySampleCounted
<1> QED
  BY <1>5, <1>6, <1>7, <1>8, <1>9 DEF Sound

LEMMA StutterSound ==
    ASSUME Sound, UNCHANGED vars
    PROVE  Sound'
<1>1. UNCHANGED <<cgroup, gen, alive, events, leftover, collecting, waiting, forced, retired, seen, pc, mode, cur, win,
                  taken, counted, unrecorded, discarded, flushes, reported>>
  BY DEF vars, threadVars, collectorVars, recorderVars, historyVars
<1>2. /\ Closed' = Closed /\ OnTheWay' = OnTheWay
      /\ LossesOf(Tids)' = LossesOf(Tids) /\ MissedIn(Tids)' = MissedIn(Tids)
      /\ Losses(Closed)' = Losses(Closed) /\ MissedOf(Closed)' = MissedOf(Closed)
  BY <1>1, Still
<1>3. Places'
  BY <1>1, PlacesStill DEF Sound
<1>4. All(win)' = All(win)
  BY <1>1 DEF All
<1> QED
  BY <1>1, <1>2, <1>3, <1>4 DEF Sound, Types, Owned, Numbers, EverySampleCounted

LEMMA StepSound == Sound /\ [Next]_vars => Sound'
<1> SUFFICES ASSUME Sound, [Next]_vars PROVE Sound'
  OBVIOUS
<1>1. CASE \E t \in Tids : Spawn(t) \/ Exit(t) \/ Sample(t)
  BY <1>1, SpawnSound, ExitSound, SampleSound
<1>2. CASE ReadThreads
  BY <1>2, ReadThreadsSound
<1>3. CASE Reconcile
  BY <1>3, ReconcileSound
<1>4. CASE Poll
  BY <1>4, PollSound
<1>5. CASE EndWindow
  BY <1>5, EndWindowSound
<1>6. CASE Report
  BY <1>6, ReportSound
<1>7. CASE UNCHANGED vars
  BY <1>7, StutterSound
<1> QED
  BY <1>1, <1>2, <1>3, <1>4, <1>5, <1>6, <1>7 DEF Next, Target, Recorder

LEMMA AlwaysSound == Spec => []Sound
  BY InitSound, StepSound, PTL DEF Spec

(* Every sample is counted once, in the window it was taken in, however    *)
(* threads and processes come and go and whichever polls are interrupted,  *)
(* but for what the mode switch drops and the losses that a full ring      *)
(* never came to record of a thread or process found gone (record.rs,      *)
(* wait_and_ingest, drain_and_ingest and ingest_cpu_batch).                *)
THEOREM SamplesAccounted == Spec => []SamplesInWindows
<1>1. Sound => SamplesInWindows
  BY DEF Sound, Types, Numbers, SamplesInWindows, SwitchDiscards, WindowComplete
<1> QED
  BY <1>1, AlwaysSound, PTL

-----------------------------------------------------------------------------
(* Forced flushes, when there is no cgroup: no collector is retired, and   *)
(* there is at most that of Main.                                          *)
Pressure == ~cgroup => flushes = reported + Total(forced, Processes)

LEMMA PressureIs ==
    ASSUME Types, Owned
    PROVE  Pressure <=> ProcessPressure
<1>1. ~cgroup => Total([c \in retired |-> c.forced], retired) = 0
  BY TotalIs, SigmaEmpty DEF Owned
<1>2. Total(forced, Processes) \in Nat
  BY Constants, SigmaFacts, TotalIs DEF Types, Counts
<1> QED
  BY <1>1, <1>2 DEF Pressure, ProcessPressure, PressureReported, Types

LEMMA TotalNext == Total(forced, Processes)' = Total(forced', Processes)
  OBVIOUS

LEMMA PressureKept ==
    ASSUME Pressure, UNCHANGED <<cgroup, forced, flushes, reported>>
    PROVE  Pressure'
  BY DEF Pressure

(* What the sorter of Main forces out is added to its counter.             *)
LEMMA PressureCollected ==
    ASSUME Types, Owned, Pressure, NEW d \in SUBSET Tids, NEW keep, Collect(d, keep), UNCHANGED <<cgroup, reported>>
    PROVE  Pressure'
<1> SUFFICES ASSUME ~cgroup PROVE flushes' = reported + Total(forced', Processes)
  BY DEF Pressure
<1>1. PICK more \in [collecting -> Nat], last \in Nat :
        /\ last <= Total([c \in retired |-> Minus(Cardinality(Held(c.rings) \cup c.waiting), MaxPending)], retired)
        /\ forced' = [p \in Processes |-> IF p \in collecting THEN forced[p] + more[p] ELSE forced[p]]
        /\ flushes' = flushes + Total(more, collecting) + last
  BY CollectEffect
<1>2. retired = {} /\ collecting \subseteq {Main}
  BY DEF Owned
<1>3. last = 0
  <2>1. Total([c \in retired |-> Minus(Cardinality(Held(c.rings) \cup c.waiting), MaxPending)], retired) = 0
    BY <1>2, TotalIs, SigmaEmpty
  <2> QED
    BY <1>1, <2>1
<1>4. IsFiniteSet(Processes) /\ Counts(forced, Processes) /\ Main \in Processes
  BY Constants DEF Types, Counts
<1>5. flushes = reported + Sigma(forced, Processes)
  BY TotalIs DEF Pressure
<1>6. Sigma(forced', Processes) = Sigma(forced, Processes) + Sigma(more, collecting) /\ Sigma(more, collecting) \in Nat
  <2>1. CASE collecting = {}
    <3>1. forced' = forced
      BY <1>1, <2>1 DEF Types
    <3>2. Sigma(more, collecting) = 0
      BY <2>1, SigmaEmpty
    <3> QED
      BY <1>4, <3>1, <3>2, SigmaFacts
  <2>2. CASE collecting = {Main}
    <3>1. forced'[Main] = forced[Main] + more[Main] /\ more[Main] \in Nat
      BY <1>1, <1>4, <2>2
    <3>2. \A q \in Processes \ {Main} : forced'[q] = forced[q]
      BY <1>1, <2>2
    <3>3. forced'[Main] \in Nat
      BY <1>4, <3>1 DEF Counts
    <3>4. /\ Sigma(forced, Processes) = forced[Main] + Sigma(forced, Processes \ {Main})
          /\ Sigma(forced', Processes) = forced'[Main] + Sigma(forced, Processes \ {Main})
          /\ Sigma(forced, Processes \ {Main}) \in Nat /\ forced[Main] \in Nat
      BY <1>4, <3>2, <3>3, SigmaChange
    <3>5. Sigma(more, {Main}) = more[Main]
      <4>1. IsFiniteSet({Main}) /\ Counts(more, {Main})
        BY <3>1, FS_Singleton DEF Counts
      <4>2. Sigma(more, {Main}) = more[Main] + Sigma(more, {Main} \ {Main})
        BY <4>1, SigmaFacts
      <4>3. {Main} \ {Main} = {}
        OBVIOUS
      <4>4. Sigma(more, {Main} \ {Main}) = 0
        BY <4>3, SigmaEmpty
      <4> QED
        BY <3>1, <4>2, <4>4
    <3> QED
      BY <2>2, <3>1, <3>4, <3>5
  <2> QED
    BY <1>2, <2>1, <2>2
<1>7. Sigma(forced, Processes) \in Nat /\ reported \in Nat
  BY <1>4, SigmaFacts DEF Types
<1>8. flushes' = reported + Sigma(forced', Processes)
  BY <1>1, <1>3, <1>5, <1>6, <1>7, TotalIs
<1> QED
  BY <1>8, TotalIs

LEMMA PressureNext ==
    ASSUME Sound, Pressure, [Next]_vars
    PROVE  Pressure'
<1>0. Types /\ Owned
  BY DEF Sound
<1>1. CASE \E t \in Tids : Spawn(t) \/ Exit(t) \/ Sample(t)
  BY <1>1, PressureKept DEF Spawn, Exit, Sample, threadVars, collectorVars, historyVars
<1>2. CASE ReadThreads
  BY <1>2, PressureKept DEF ReadThreads, threadVars, collectorVars, historyVars
<1>3. CASE Reconcile
  <2>1. UNCHANGED <<cgroup, flushes, reported>>
    BY <1>0, <1>3, ReconcileEffect
  <2>2. ~cgroup => forced' = forced
    <3>1. ~cgroup => Exited = {}
      BY <1>0, Presence
    <3>2. forced' = [p \in Processes |-> IF p \in Exited THEN 0 ELSE forced[p]]
      BY <1>0, <1>3, ReconcileEffect
    <3> QED
      BY <1>0, <3>1, <3>2 DEF Types
  <2> QED
    BY <2>1, <2>2 DEF Pressure
<1>4. CASE Poll
  <2>1. PICK skipped \in {{}} \cup {Threads(p) : p \in collecting} : \E keep : Collect(Tids \ skipped, keep)
    BY <1>4 DEF Poll
  <2>2. UNCHANGED <<cgroup, reported>> /\ Tids \ skipped \in SUBSET Tids
    BY <1>4 DEF Poll, threadVars
  <2> QED
    BY <1>0, <2>1, <2>2, PressureCollected
<1>5. CASE EndWindow
  BY <1>0, <1>5, PressureCollected DEF EndWindow, threadVars
<1>6. CASE Report
  <2>1. /\ retired = {} /\ reported' = reported + Total(forced, collecting)
        /\ forced' = [p \in Processes |-> 0] /\ UNCHANGED <<cgroup, flushes>>
    BY <1>0, <1>6, ReportEffect
  <2>2. /\ IsFiniteSet(Processes) /\ Counts(forced, Processes) /\ collecting \in SUBSET Processes
        /\ IsFiniteSet(Processes \ collecting)
    BY <1>0, Constants, FS_Subset DEF Types, Counts
  <2>3. Sigma(forced, Processes) = Sigma(forced, collecting) + Sigma(forced, Processes \ collecting)
    BY <2>2, SigmaSplit
  <2>4. Sigma(forced, Processes \ collecting) = 0
    BY <1>0, <2>2, SigmaZero DEF Owned
  <2>5. Sigma(forced', Processes) = 0
    BY <2>1, <2>2, SigmaZero
  <2>6. Sigma(forced, collecting) \in Nat
    <3>1. IsFiniteSet(collecting) /\ Counts(forced, collecting)
      BY <2>2, FS_Subset DEF Counts
    <3> QED
      BY <3>1, SigmaFacts
  <2>7. ~cgroup => flushes = reported + Sigma(forced, Processes)
    BY TotalIs DEF Pressure
  <2>8. reported \in Nat /\ reported' = reported + Sigma(forced, collecting)
    BY <1>0, <2>1, TotalIs DEF Types
  <2>9. ~cgroup' => flushes' = reported' + Sigma(forced', Processes)
    BY <2>1, <2>3, <2>4, <2>5, <2>6, <2>7, <2>8
  <2> QED
    BY <2>9, TotalIs DEF Pressure
<1>7. CASE UNCHANGED vars
  BY <1>7, PressureKept DEF vars, threadVars, collectorVars, historyVars
<1> QED
  BY <1>1, <1>2, <1>3, <1>4, <1>5, <1>6, <1>7 DEF Next, Target, Recorder

(* Without a cgroup the diagnostics tell every forced flush (record.rs,    *)
(* take_sorter_stats): at most one collector is there to ask, and it is    *)
(* never retired.                                                          *)
THEOREM ProcessPressureTold == Spec => []ProcessPressure
<1>1. Init => Pressure
  <2> SUFFICES ASSUME Init PROVE Pressure
    OBVIOUS
  <2>1. flushes = 0 /\ reported = 0 /\ \A p \in Processes : forced[p] = 0
    BY DEF Init
  <2>2. Total(forced, Processes) = 0
    BY <2>1, Constants, SigmaZero, TotalIs
  <2> QED
    BY <2>1, <2>2 DEF Pressure
<1>2. Sound /\ Pressure /\ [Next]_vars => Pressure'
  BY PressureNext
<1>3. Sound /\ Pressure => ProcessPressure
  BY PressureIs DEF Sound
<1> QED
  BY <1>1, <1>2, <1>3, AlwaysSound, PTL DEF Spec

-----------------------------------------------------------------------------
(* Why the mode is switched.  Tally compares the window with the stacks    *)
(* that threads put into rings: while it is open, what is counted and what *)
(* is on its way; when it has ended, what is counted, and what is on its   *)
(* way belongs to the next one.                                            *)
Valid(S)   == {s \in S : s.key # Bad}
Rejects(S) == S \ Valid(S)

Records ==
    /\ looked \in BOOLEAN /\ heap \in HeapCounts
    /\ stacks \in [valid : Nat, bad : Nat]
    /\ evidence \in [valid : Nat, bad : Nat, omitted : Nat, heap : HeapCounts]

OpenTally ==
    /\ win.usable + win.omitted + Cardinality(Valid(OnTheWay)) = stacks.valid
    /\ win.rejected + Cardinality(Rejects(OnTheWay)) = stacks.bad

EndedTally ==
    /\ win.usable + win.omitted = evidence.valid /\ win.omitted = evidence.omitted
    /\ win.rejected = evidence.bad /\ heap = evidence.heap
    /\ Cardinality(Valid(OnTheWay)) = stacks.valid /\ Cardinality(Rejects(OnTheWay)) = stacks.bad

Tally == mode = "fp" => IF pc = "report" THEN EndedTally ELSE OpenTally

LEMMA Sorted ==
    ASSUME NEW S, IsFiniteSet(S), NEW A \in SUBSET S
    PROVE  /\ Cardinality(Valid(S)) \in Nat /\ Cardinality(Rejects(S)) \in Nat
           /\ Cardinality(Valid(A)) \in Nat /\ Cardinality(Rejects(A)) \in Nat
           /\ Cardinality(Valid(S \ A)) \in Nat /\ Cardinality(Rejects(S \ A)) \in Nat
           /\ Cardinality(Valid(S)) = Cardinality(Valid(A)) + Cardinality(Valid(S \ A))
           /\ Cardinality(Rejects(S)) = Cardinality(Rejects(A)) + Cardinality(Rejects(S \ A))
<1>1. /\ Valid(S) \in SUBSET S /\ Rejects(S) \in SUBSET S
      /\ Valid(A) \in SUBSET Valid(S) /\ Rejects(A) \in SUBSET Rejects(S)
      /\ Valid(S) \ Valid(A) = Valid(S \ A) /\ Rejects(S) \ Rejects(A) = Rejects(S \ A)
  BY DEF Valid, Rejects
<1>2. IsFiniteSet(Valid(S)) /\ IsFiniteSet(Rejects(S))
  BY <1>1, FS_Subset
<1>3. /\ Cardinality(Valid(S)) = Cardinality(Valid(A)) + Cardinality(Valid(S) \ Valid(A))
      /\ Cardinality(Valid(S)) \in Nat /\ Cardinality(Valid(A)) \in Nat /\ Cardinality(Valid(S) \ Valid(A)) \in Nat
  BY <1>1, <1>2, Parted
<1>4. /\ Cardinality(Rejects(S)) = Cardinality(Rejects(A)) + Cardinality(Rejects(S) \ Rejects(A))
      /\ Cardinality(Rejects(S)) \in Nat /\ Cardinality(Rejects(A)) \in Nat /\ Cardinality(Rejects(S) \ Rejects(A)) \in Nat
  BY <1>1, <1>2, Parted
<1> QED
  BY <1>1, <1>3, <1>4

LEMMA NoneSorted == Cardinality(Valid({})) = 0 /\ Cardinality(Rejects({})) = 0
<1>1. Valid({}) = {} /\ Rejects({}) = {}
  BY DEF Valid, Rejects
<1> QED
  BY <1>1, FS_EmptySet

(* One sample more is one stack more.                                      *)
LEMMA OneSorted ==
    ASSUME NEW S, IsFiniteSet(S), NEW new, new \notin S, Records
    PROVE  \/ /\ Cardinality(Valid(S \cup {new})) = Cardinality(Valid(S))
              /\ Cardinality(Rejects(S \cup {new})) = Cardinality(Rejects(S)) + 1
              /\ Counted(new.key).valid = stacks.valid /\ Counted(new.key).bad = stacks.bad + 1
           \/ /\ Cardinality(Valid(S \cup {new})) = Cardinality(Valid(S)) + 1
              /\ Cardinality(Rejects(S \cup {new})) = Cardinality(Rejects(S))
              /\ Counted(new.key).valid = stacks.valid + 1 /\ Counted(new.key).bad = stacks.bad
<1>1. /\ IsFiniteSet(Valid(S)) /\ IsFiniteSet(Rejects(S)) /\ new \notin Valid(S) /\ new \notin Rejects(S)
      /\ Cardinality(Valid(S)) \in Nat /\ Cardinality(Rejects(S)) \in Nat
  <2>1. Valid(S) \in SUBSET S /\ Rejects(S) \in SUBSET S
    BY DEF Valid, Rejects
  <2>2. IsFiniteSet(Valid(S)) /\ IsFiniteSet(Rejects(S))
    BY <2>1, FS_Subset
  <2> QED
    BY <2>1, <2>2, FS_CardinalityType
<1>2. stacks.valid \in Nat /\ stacks.bad \in Nat /\ stacks = [valid |-> stacks.valid, bad |-> stacks.bad]
  BY DEF Records
<1>3. CASE new.key = Bad
  <2>1. Valid(S \cup {new}) = Valid(S) /\ Rejects(S \cup {new}) = Rejects(S) \cup {new}
    BY <1>3 DEF Valid, Rejects
  <2>2. Counted(new.key).valid = stacks.valid /\ Counted(new.key).bad = stacks.bad + 1
    BY <1>2, <1>3 DEF Counted
  <2>3. Cardinality(Rejects(S \cup {new})) = Cardinality(Rejects(S)) + 1
    BY <1>1, <2>1, FS_AddElement
  <2> QED
    BY <2>1, <2>2, <2>3
<1>4. CASE new.key # Bad
  <2>1. Valid(S \cup {new}) = Valid(S) \cup {new} /\ Rejects(S \cup {new}) = Rejects(S)
    BY <1>1, <1>4 DEF Valid, Rejects
  <2>2. Counted(new.key).bad = stacks.bad /\ Counted(new.key).valid = stacks.valid + 1
    BY <1>2, <1>4 DEF Counted
  <2>3. Cardinality(Valid(S \cup {new})) = Cardinality(Valid(S)) + 1
    BY <1>1, <2>1, FS_AddElement
  <2> QED
    BY <2>1, <2>2, <2>3
<1> QED
  BY <1>3, <1>4

(* What is ingested leaves the rings for the window, as it was taken.      *)
LEMMA IngestedSorts ==
    ASSUME Types, NEW ready \in SUBSET SampleSet, IsFiniteSet(ready), NEW lost, NEW admitted,
           win' = Ingested(win, ready, lost, admitted)
    PROVE  /\ win'.usable + win'.omitted = win.usable + win.omitted + Cardinality(Valid(ready))
           /\ win'.rejected = win.rejected + Cardinality(Rejects(ready))
           /\ win'.omitted \in Nat
<1> DEFINE used == {s \in Valid(ready) : s.key \in win.keys \cup admitted}
<1>1. /\ win'.usable = win.usable + Cardinality(used)
      /\ win'.rejected = win.rejected + Cardinality(Rejects(ready))
      /\ win'.omitted = win.omitted + Cardinality(Valid(ready) \ used)
  BY DEF Ingested, Valid, Rejects
<1>2. Valid(ready) \in SUBSET ready /\ used \in SUBSET Valid(ready)
  BY DEF Valid
<1> HIDE DEF used
<1>3. /\ Cardinality(Valid(ready)) = Cardinality(used) + Cardinality(Valid(ready) \ used)
      /\ Cardinality(used) \in Nat /\ Cardinality(Valid(ready) \ used) \in Nat
  <2>1. IsFiniteSet(Valid(ready))
    BY <1>2, FS_Subset
  <2> QED
    BY <1>2, <2>1, Parted
<1>4. win.usable \in Nat /\ win.omitted \in Nat
  BY CountsAre
<1> QED
  BY <1>1, <1>3, <1>4

LEMMA CollectTally ==
    ASSUME Sound, NEW d \in SUBSET Tids, NEW keep, Keeps(d, keep), Collect(d, keep)
    PROVE  /\ win'.usable + win'.omitted + Cardinality(Valid(OnTheWay'))
                = win.usable + win.omitted + Cardinality(Valid(OnTheWay))
           /\ win'.rejected + Cardinality(Rejects(OnTheWay')) = win.rejected + Cardinality(Rejects(OnTheWay))
           /\ win'.omitted \in Nat
<1>1. Ready(d, keep) \in SUBSET OnTheWay /\ OnTheWay' = OnTheWay \ Ready(d, keep)
  BY CollectMoves DEF Sound
<1>2. IsFiniteSet(OnTheWay) /\ OnTheWay \in SUBSET SampleSet
  BY DEF Sound, Types, Numbers
<1>3. IsFiniteSet(Ready(d, keep)) /\ Ready(d, keep) \in SUBSET SampleSet
  BY <1>1, <1>2, FS_Subset
<1>4. PICK admitted : win' = Ingested(win, Ready(d, keep), Losses(Closed) + LossesOf(d), admitted)
  BY CollectEffect
<1>5. /\ win'.usable + win'.omitted = win.usable + win.omitted + Cardinality(Valid(Ready(d, keep)))
      /\ win'.rejected = win.rejected + Cardinality(Rejects(Ready(d, keep)))
      /\ win'.omitted \in Nat
  BY <1>3, <1>4, IngestedSorts DEF Sound
<1>6. /\ Cardinality(Valid(OnTheWay)) = Cardinality(Valid(Ready(d, keep))) + Cardinality(Valid(OnTheWay'))
      /\ Cardinality(Rejects(OnTheWay)) = Cardinality(Rejects(Ready(d, keep))) + Cardinality(Rejects(OnTheWay'))
      /\ Cardinality(Valid(Ready(d, keep))) \in Nat /\ Cardinality(Rejects(Ready(d, keep))) \in Nat
      /\ Cardinality(Valid(OnTheWay')) \in Nat /\ Cardinality(Rejects(OnTheWay')) \in Nat
  BY <1>1, <1>2, Sorted
<1>7. win.usable \in Nat /\ win.omitted \in Nat /\ win.rejected \in Nat
  BY CountsAre DEF Sound
<1>8. win'.usable + win'.omitted + Cardinality(Valid(OnTheWay'))
        = win.usable + win.omitted + Cardinality(Valid(OnTheWay))
  BY <1>5, <1>6, <1>7
<1>9. win'.rejected + Cardinality(Rejects(OnTheWay')) = win.rejected + Cardinality(Rejects(OnTheWay))
  BY <1>5, <1>6, <1>7
<1> QED
  BY <1>5, <1>8, <1>9

-----------------------------------------------------------------------------
(* The steps.                                                              *)

(* Steps that move no samples into a window or on their way.               *)
LEMMA TallyStill ==
    ASSUME Records, Tally, FallbackJustified, OnTheWay' = OnTheWay,
           UNCHANGED <<mode, win, heap, stacks, evidence>>, looked' \in BOOLEAN,
           pc = "report" <=> pc' = "report"
    PROVE  (Records /\ Tally /\ FallbackJustified)'
<1>1. Records'
  BY DEF Records
<1>2. Tally'
  BY DEF Tally, OpenTally, EndedTally
<1>3. FallbackJustified'
  BY DEF FallbackJustified, Justified, HeapPoor
<1> QED
  BY <1>1, <1>2, <1>3

LEMMA SampleTally ==
    ASSUME Sound, Records, Tally, FallbackJustified, NEW t \in Tids, Sample(t)
    PROVE  (Records /\ Tally /\ FallbackJustified)'
<1>1. UNCHANGED <<mode, pc, win, looked, heap, evidence>>
  BY DEF Sample, recorderVars
<1>2. FallbackJustified'
  BY <1>1 DEF FallbackJustified, Justified, HeapPoor
<1>3. CASE \E new : /\ new \notin OnTheWay /\ OnTheWay' = OnTheWay \cup {new}
                    /\ stacks' = Counted(new.key)
  <2>1. PICK new : /\ new \notin OnTheWay /\ OnTheWay' = OnTheWay \cup {new}
                   /\ stacks' = Counted(new.key)
    BY <1>3
  <2>2. \/ /\ Cardinality(Valid(OnTheWay')) = Cardinality(Valid(OnTheWay))
           /\ Cardinality(Rejects(OnTheWay')) = Cardinality(Rejects(OnTheWay)) + 1
           /\ stacks'.valid = stacks.valid /\ stacks'.bad = stacks.bad + 1
        \/ /\ Cardinality(Valid(OnTheWay')) = Cardinality(Valid(OnTheWay)) + 1
           /\ Cardinality(Rejects(OnTheWay')) = Cardinality(Rejects(OnTheWay))
           /\ stacks'.valid = stacks.valid + 1 /\ stacks'.bad = stacks.bad
    <3>1. IsFiniteSet(OnTheWay)
      BY DEF Sound, Types
    <3> QED
      BY <2>1, <3>1, OneSorted
  <2>3. /\ win.usable \in Nat /\ win.omitted \in Nat /\ win.rejected \in Nat
        /\ Cardinality(Valid(OnTheWay)) \in Nat /\ Cardinality(Rejects(OnTheWay)) \in Nat
        /\ stacks.valid \in Nat /\ stacks.bad \in Nat
    <3>1. IsFiniteSet(OnTheWay) /\ {} \in SUBSET OnTheWay
      BY DEF Sound, Types
    <3> QED
      BY <3>1, CountsAre, Sorted DEF Sound, Records
  <2>4. Records'
    <3>1. stacks' \in [valid : Nat, bad : Nat]
      BY <2>1 DEF Records, Counted
    <3> QED
      BY <1>1, <3>1 DEF Records
  <2>5. EndedTally => EndedTally'
    BY <1>1, <2>2, <2>3 DEF EndedTally
  <2>6. OpenTally => OpenTally'
    BY <1>1, <2>2, <2>3 DEF OpenTally
  <2> QED
    BY <1>1, <1>2, <2>4, <2>5, <2>6 DEF Tally
<1>4. CASE OnTheWay' = OnTheWay /\ stacks' = stacks
  BY <1>1, <1>4, TallyStill DEF Records
<1>5. \/ \E new : new \notin OnTheWay /\ OnTheWay' = OnTheWay \cup {new} /\ stacks' = Counted(new.key)
      \/ OnTheWay' = OnTheWay /\ stacks' = stacks
  <2>1. CASE \E key \in Keys \cup {Bad} :
                /\ events'[t].samples = events[t].samples \cup {[number |-> taken + 1, window |-> cur, key |-> key]}
                /\ stacks' = Counted(key)
    <3>1. PICK key \in Keys \cup {Bad} :
                /\ events'[t].samples = events[t].samples \cup {[number |-> taken + 1, window |-> cur, key |-> key]}
                /\ stacks' = Counted(key)
      BY <2>1
    <3> DEFINE new == [number |-> taken + 1, window |-> cur, key |-> key]
    <3>2. new.number = taken + 1 /\ new.key = key
      OBVIOUS
    <3>3. events'[t].samples = events[t].samples \cup {new} /\ stacks' = Counted(new.key)
      BY <3>1, <3>2
    <3> HIDE DEF new
    <3>4. new \notin OnTheWay /\ OnTheWay' = OnTheWay \cup {new}
      BY <3>2, <3>3, SampleMoves
    <3> QED
      BY <3>3, <3>4
  <2>2. CASE events'[t].samples = events[t].samples /\ stacks' = stacks
    <3>1. /\ UNCHANGED <<leftover, waiting, retired>>
          /\ \A u \in Tids : events'[u].samples = events[u].samples
      BY <2>2, SampleEffect
    <3>2. /\ \A u \in Tids : Ringed(u)' = Ringed(u)
          /\ OfRetired' = OfRetired /\ \A p : Behind(p)' = Behind(p)
      BY <3>1, BehindStill DEF Ringed
    <3>3. \A s : s \in OnTheWay' <=> s \in OnTheWay
      BY <3>2, OnTheWayIs, OnTheWayNext
    <3> QED
      BY <2>2, <3>3
  <2> QED
    BY <2>1, <2>2, SampleEffect
<1> QED
  BY <1>3, <1>4, <1>5

LEMMA PollTally ==
    ASSUME Sound, Records, Tally, FallbackJustified, Poll
    PROVE  (Records /\ Tally /\ FallbackJustified)'
<1>1. PICK skipped \in {{}} \cup {Threads(p) : p \in collecting},
           keep \in [collecting -> SUBSET (UNION {Held(Rings(p, Tids)) \cup waiting[p] : p \in collecting})] :
             /\ \A p \in collecting : keep[p] \in Kept(Held(Rings(p, Tids \ skipped)) \cup waiting[p])
             /\ Collect(Tids \ skipped, keep)
  BY DEF Poll
<1>2. pc = "loop" /\ UNCHANGED <<mode, pc, looked, heap, stacks, evidence>>
  BY DEF Poll
<1>3. Keeps(Tids \ skipped, keep)
  BY <1>1 DEF Keeps, Batch
<1>4. /\ win'.usable + win'.omitted + Cardinality(Valid(OnTheWay'))
            = win.usable + win.omitted + Cardinality(Valid(OnTheWay))
      /\ win'.rejected + Cardinality(Rejects(OnTheWay')) = win.rejected + Cardinality(Rejects(OnTheWay))
  BY <1>1, <1>3, CollectTally
<1>5. Records'
  BY <1>2 DEF Records
<1>6. Tally'
  BY <1>2, <1>4 DEF Tally, OpenTally
<1>7. FallbackJustified'
  BY <1>2 DEF FallbackJustified, Justified, HeapPoor
<1> QED
  BY <1>5, <1>6, <1>7

(* The window has all that was taken in it, and nothing is on its way.     *)
LEMMA EndWindowTally ==
    ASSUME Sound, Records, Tally, FallbackJustified, EndWindow
    PROVE  (Records /\ Tally /\ FallbackJustified)'
<1> DEFINE keep == [p \in collecting |-> Flushed(p)]
<1>1. /\ pc = "loop" /\ pc' = "report" /\ looked' = FALSE /\ mode' = mode /\ heap' \in HeapCounts
      /\ stacks' = [valid |-> 0, bad |-> 0] /\ Collect(Tids, keep)
      /\ evidence' = IF mode = "fp"
                     THEN [valid |-> stacks.valid, bad |-> stacks.bad, omitted |-> win'.omitted, heap |-> heap']
                     ELSE evidence
  BY DEF EndWindow, NoStacks
<1>2. \A p \in collecting : keep[p] = {}
  BY DEF Flushed
<1> HIDE DEF keep
<1>3. Keeps(Tids, keep)
  <2>1. Cardinality({}) = 0 /\ 0 <= MaxPending
    BY FS_EmptySet, Constants
  <2> QED
    BY <1>2, <2>1 DEF Keeps, Kept
<1>4. OnTheWay' = {}
  <2>1. ASSUME NEW s
        PROVE  s \notin OnTheWay'
    <3>1. /\ \A t \in Tids : s \notin Ringed(t)'
          /\ \A p \in Processes : s \in Behind(p)' => p \in collecting /\ s \in keep[p]
          /\ s \notin OfRetired'
      BY <1>1, <1>3, CollectPlaced DEF Sound
    <3> QED
      BY <1>2, <3>1, OnTheWayNext
  <2> QED
    BY <2>1
<1>5. /\ win'.usable + win'.omitted + Cardinality(Valid(OnTheWay'))
            = win.usable + win.omitted + Cardinality(Valid(OnTheWay))
      /\ win'.rejected + Cardinality(Rejects(OnTheWay')) = win.rejected + Cardinality(Rejects(OnTheWay))
      /\ win'.omitted \in Nat
  BY <1>1, <1>3, CollectTally
<1>6. Cardinality(Valid(OnTheWay')) = 0 /\ Cardinality(Rejects(OnTheWay')) = 0
  BY <1>4, NoneSorted
<1>7. win'.usable \in Nat /\ win'.rejected \in Nat
  <2>1. Sound'
    BY EndWindowSound
  <2> QED
    BY <2>1 DEF Sound, Types, WindowType
<1>8. Records'
  BY <1>1, <1>5 DEF Records
<1>9. Tally'
  <2>1. mode = "fp" => OpenTally
    BY <1>1 DEF Tally
  <2>2. mode = "fp" => EndedTally'
    BY <1>1, <1>5, <1>6, <1>7, <2>1 DEF OpenTally, EndedTally
  <2> QED
    BY <1>1, <2>2 DEF Tally
<1>10. FallbackJustified'
  BY <1>1 DEF FallbackJustified, Justified, HeapPoor
<1> QED
  BY <1>8, <1>9, <1>10

(* What the window counts is what was taken in it, and so the recorder     *)
(* decides by the stacks themselves.                                       *)
LEMMA ReportTally ==
    ASSUME Sound, Records, Tally, FallbackJustified, Report
    PROVE  (Records /\ Tally /\ FallbackJustified)'
<1>0. Types /\ Owned
  BY DEF Sound
<1>1. /\ pc = "report" /\ UNCHANGED <<leftover, waiting, retired, looked, stacks, evidence>>
      /\ win' = NewWindow /\ heap' = NoHeap
      /\ IF mode = "fp" /\ LowQuality(win, heap)
         THEN mode' = "dwarf" /\ pc' = "start"
         ELSE pc' = "loop" /\ UNCHANGED <<mode, events>>
  BY DEF Report
<1>2. NoHeap \in HeapCounts
  BY SamplingAssumption DEF SamplingAssumption
<1>3. Records'
  BY <1>1, <1>2 DEF Records
<1>4. ASSUME mode = "fp"
      PROVE  LowQuality(win, heap) <=> Justified
  <2>1. EndedTally
    BY <1>1, <1>4 DEF Tally
  <2>2. /\ win.usable \in Nat /\ win.omitted \in Nat /\ win.rejected \in Nat
        /\ evidence.valid \in Nat /\ evidence.bad \in Nat /\ evidence.omitted \in Nat
    BY CountsAre DEF Sound, Records
  <2>3. win.usable = evidence.valid - evidence.omitted /\ All(win) = evidence.valid + evidence.bad
    BY <2>1, <2>2 DEF EndedTally, All
  <2> QED
    BY <2>1, <2>3 DEF EndedTally, LowQuality, Justified, HeapPoor
<1>5. Justified' <=> Justified
  BY <1>1 DEF Justified, HeapPoor
<1>6. CASE mode = "fp" /\ LowQuality(win, heap)
  BY <1>1, <1>3, <1>4, <1>5, <1>6 DEF Tally, FallbackJustified
<1>7. CASE ~(mode = "fp" /\ LowQuality(win, heap))
  <2>1. OnTheWay' = OnTheWay
    BY <1>1, <1>7, Still
  <2>2. FallbackJustified'
    BY <1>1, <1>4, <1>5, <1>7 DEF FallbackJustified
  <2>3. mode = "fp" => OpenTally'
    <3>1. win'.usable = 0 /\ win'.omitted = 0 /\ win'.rejected = 0
      BY <1>1 DEF NewWindow
    <3>2. IsFiniteSet(OnTheWay) /\ {} \in SUBSET OnTheWay
      BY <1>0 DEF Types
    <3>3. Cardinality(Valid(OnTheWay)) \in Nat /\ Cardinality(Rejects(OnTheWay)) \in Nat
      BY <3>2, Sorted
    <3>4. mode = "fp" => Cardinality(Valid(OnTheWay)) = stacks.valid /\ Cardinality(Rejects(OnTheWay)) = stacks.bad
      BY <1>1 DEF Tally, EndedTally
    <3> QED
      BY <1>1, <2>1, <3>1, <3>3, <3>4 DEF OpenTally
  <2>4. Tally'
    BY <1>1, <1>7, <2>3 DEF Tally
  <2> QED
    BY <1>3, <2>2, <2>4
<1> QED
  BY <1>6, <1>7

LEMMA InitTally == Init => Records /\ Tally /\ FallbackJustified
<1> SUFFICES ASSUME Init PROVE Records /\ Tally /\ FallbackJustified
  OBVIOUS
<1>1. /\ looked = FALSE /\ heap = NoHeap /\ stacks = [valid |-> 0, bad |-> 0] /\ mode = "fp" /\ pc = "start"
      /\ win = NewWindow /\ evidence = [valid |-> 0, bad |-> 0, omitted |-> 0, heap |-> NoHeap]
  BY DEF Init, NoStacks
<1>2. NoHeap \in HeapCounts
  BY SamplingAssumption DEF SamplingAssumption
<1>3. Records
  BY <1>1, <1>2 DEF Records
<1>4. OnTheWay = {}
  <2>1. /\ events = [t \in Tids |-> NoRing] /\ leftover = [p \in Processes |-> {}] /\ retired = {}
        /\ waiting = [p \in Processes |-> {}]
    BY DEF Init
  <2>2. \A t \in Tids : Ringed(t) = {}
    BY <2>1, NoRingIs DEF Ringed
  <2>3. OfRetired = {} /\ \A p \in Processes : Behind(p) = {}
    BY <2>1 DEF OfRetired, Behind, Held
  <2>4. \A s : s \notin OnTheWay
    BY <2>2, <2>3, OnTheWayIs
  <2> QED
    BY <2>4
<1>5. Tally
  BY <1>1, <1>4, NoneSorted DEF Tally, OpenTally, NewWindow
<1>6. FallbackJustified
  BY <1>1 DEF FallbackJustified, Justified, HeapPoor, Poor, NoHeap
<1> QED
  BY <1>3, <1>5, <1>6

LEMMA StepTally ==
    ASSUME Sound, Records, Tally, FallbackJustified, [Next]_vars
    PROVE  (Records /\ Tally /\ FallbackJustified)'
<1>1. CASE \E t \in Tids : Spawn(t) \/ Exit(t)
  <2>1. UNCHANGED <<events, leftover, waiting, retired, mode, pc, win, looked, heap, stacks, evidence>>
    BY <1>1 DEF Spawn, Exit, collectorVars, recorderVars, historyVars
  <2> QED
    BY <2>1, Still, TallyStill DEF Records
<1>2. CASE \E t \in Tids : Sample(t)
  BY <1>2, SampleTally
<1>3. CASE ReadThreads
  <2>1. /\ pc # "report" /\ pc' # "report" /\ looked' \in BOOLEAN
        /\ UNCHANGED <<events, leftover, waiting, retired, mode, win, heap, stacks, evidence>>
    BY <1>3 DEF ReadThreads, collectorVars, historyVars
  <2> QED
    BY <2>1, Still, TallyStill
<1>4. CASE Reconcile
  <2>1. /\ pc # "report" /\ pc' # "report" /\ UNCHANGED <<mode, win, looked, heap, stacks, evidence>>
    BY <1>4 DEF Reconcile, historyVars
  <2> QED
    BY <1>4, <2>1, ReconcileMoves, TallyStill DEF Records
<1>5. CASE Poll
  BY <1>5, PollTally
<1>6. CASE EndWindow
  BY <1>6, EndWindowTally
<1>7. CASE Report
  BY <1>7, ReportTally
<1>8. CASE UNCHANGED vars
  <2>1. UNCHANGED <<events, leftover, waiting, retired, mode, pc, win, looked, heap, stacks, evidence>>
    BY <1>8 DEF vars, collectorVars, recorderVars, historyVars
  <2> QED
    BY <2>1, Still, TallyStill DEF Records
<1> QED
  BY <1>1, <1>2, <1>3, <1>4, <1>5, <1>6, <1>7, <1>8 DEF Next, Target, Recorder

LEMMA AlwaysTally == Spec => [](Records /\ Tally /\ FallbackJustified)
<1>1. Sound /\ (Records /\ Tally /\ FallbackJustified) /\ [Next]_vars => (Records /\ Tally /\ FallbackJustified)'
  BY StepTally
<1> QED
  BY <1>1, InitTally, AlwaysSound, PTL DEF Spec

LEMMA LengthStays == Spec => [](long \in BOOLEAN)
<1>1. Init => long \in BOOLEAN
  BY DEF Init
<1>2. long \in BOOLEAN /\ [Next]_vars => (long \in BOOLEAN)'
  <2>1. ASSUME [Next]_vars
        PROVE  long' = long
    BY <2>1 DEF Next, Target, Recorder, Spawn, Exit, Sample, ReadThreads, Reconcile, Poll, EndWindow, Report,
                vars, threadVars
  <2> QED
    BY <2>1
<1> QED
  BY <1>1, <1>2, PTL DEF Spec

(* Rings, sorters and the window stay within their limits, and every       *)
(* variable keeps its kind (perf.rs, PerfCollector; record.rs, CpuWindow). *)
THEOREM SamplingTyped == Spec => []TypeOK
<1>1. Sound /\ Records /\ long \in BOOLEAN => TypeOK
  BY DEF Sound, Types, Records, TypeOK, WindowType
<1> QED
  BY <1>1, AlwaysSound, AlwaysTally, LengthStays, PTL

(* The recording is in DWARF mode exactly when a window of the FP mode     *)
(* ended with too few usable stacks among those that threads put into      *)
(* rings in it, or among those of the heap (record.rs, low_fp_quality):    *)
(* the window's counters, which the recorder decides by, are those of the  *)
(* stacks, however they came to it.                                        *)
THEOREM FallbackHasReason == Spec => []FallbackJustified
  BY AlwaysTally, PTL
=============================================================================
