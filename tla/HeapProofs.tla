------------------------------- MODULE HeapProofs -------------------------------
(***************************************************************************)
(* Theorems about both halves of heap sampling, for every set of addresses *)
(* and stacks and every capacity and limit, and about the two run as one.  *)
(*                                                                         *)
(* HeapState's books: the maps keep their types, the totals in use are     *)
(* those of the live allocations, a window's totals are what was observed  *)
(* in it, and a snapshot reports or counts as dropped everything it stands *)
(* for.  The totals are sums over finite sets (FoldTheorems): one          *)
(* allocation changes one address, and what is in use of a stack is what   *)
(* the other addresses hold and the share of that one.                     *)
(*                                                                         *)
(* HeapPipeline: who may use an address is never ambiguous, it is the      *)
(* program's, the allocator's, or in the hands of one call (Separate).     *)
(* From this, the types; for one thread, that no eviction goes uncounted;  *)
(* and, as long as nothing is lost, that the kernel's map and the          *)
(* collector's agree with the target's memory, up to the events on their   *)
(* way.                                                                    *)
(***************************************************************************)
EXTENDS MCHeap, FoldTheorems

Live == [stack : Stacks, objects : Nat \ {0}, space : 1..MaxU64]

LEMMA Constants ==
    /\ IsFiniteSet(Addresses) /\ IsFiniteSet(Stacks)
    /\ MaxStacks \in Nat /\ MaxU64 \in Nat \ {0} /\ MaxI64 \in Nat /\ MaxAllocs \in Nat
    /\ \A n \in Sizes \cup Weights : n \in Nat /\ n # 0
  BY HeapAssumption

LEMMA SumOfIs ==
    ASSUME NEW t, NEW S
    PROVE  /\ SumOf(t, S).objects = Sigma(Objects(t), S)
           /\ SumOf(t, S).space = Sigma(Space(t), S)
           /\ SumOf(t, S) = [objects |-> Sigma(Objects(t), S), space |-> Sigma(Space(t), S)]
  BY DEF SumOf, Sigma

(* What a map holds can be summed.                                         *)
LEMMA SumsCount ==
    ASSUME NEW S, IsFiniteSet(S), NEW t, S \subseteq DOMAIN t,
           \A x \in S : t[x].objects \in Nat /\ t[x].space \in Nat
    PROVE  Counts(Objects(t), S) /\ Counts(Space(t), S) /\ SumOf(t, S) \in Totals
<1>1. Counts(Objects(t), S) /\ Counts(Space(t), S)
  BY DEF Counts, Objects, Space
<1>2. Sigma(Objects(t), S) \in Nat /\ Sigma(Space(t), S) \in Nat
  BY <1>1, SigmaFacts
<1> QED
  BY <1>1, <1>2, SumOfIs DEF Totals

LEMMA LiveValues ==
    ASSUME NEW a \in Live \cup {None}
    PROVE  a.objects \in Nat /\ a.space \in Nat
  BY Constants DEF Live, None

(* What is in use of a stack.                                              *)
Of(l, s) == {p \in Addresses : l[p].stack = s}

LEMMA InUseCounts ==
    ASSUME NEW l \in [Addresses -> Live \cup {None}], NEW s
    PROVE  /\ IsFiniteSet(Of(l, s)) /\ Of(l, s) \subseteq Addresses
           /\ Counts(Objects(l), Of(l, s)) /\ Counts(Space(l), Of(l, s))
           /\ InUse(l, s) = SumOf(l, Of(l, s)) /\ InUse(l, s) \in Totals
<1>1. IsFiniteSet(Of(l, s)) /\ Of(l, s) \subseteq Addresses
  BY Constants, FS_Subset DEF Of
<1>2. InUse(l, s) = SumOf(l, Of(l, s))
  BY DEF InUse, Of
<1>3. \A p \in Addresses : l[p].objects \in Nat /\ l[p].space \in Nat
  BY LiveValues
<1>4. DOMAIN l = Addresses
  OBVIOUS
<1> QED
  BY <1>1, <1>2, <1>3, <1>4, SumsCount

-----------------------------------------------------------------------------
(* Types.                                                                  *)

LEMMA MinusNat ==
    ASSUME NEW n \in Nat, NEW m \in Nat
    PROVE  Minus(n, m) \in Nat /\ (n >= m => Minus(n, m) = n - m)
  BY DEF Minus

LEMMA AddI64Type ==
    ASSUME NEW t \in Totals, NEW u \in Totals
    PROVE  AddI64(t, u) \in Entries /\ Plus(t, u) \in Totals /\ ToI64(t) \in Entries
  BY Constants DEF Totals, Entries, AddI64, Plus, ToI64, AtMost, Zero

LEMMA EntriesAreTotals == Entries \subseteq Totals /\ Zero \in Entries
  BY Constants DEF Entries, Totals, Zero

LEMMA WithoutType ==
    ASSUME NEW t \in [Stacks -> Totals], NEW a \in Live \cup {None}
    PROVE  Without(t, a) \in [Stacks -> Totals]
<1>1. CASE a = None
  BY <1>1 DEF Without
<1>2. CASE a # None
  <2>1. a \in Live /\ a.stack \in Stacks /\ a.objects \in Nat /\ a.space \in Nat
    BY <1>2, LiveValues DEF Live
  <2>2. t[a.stack].objects \in Nat /\ t[a.stack].space \in Nat
    BY <2>1 DEF Totals
  <2>3. Minus(t[a.stack].objects, a.objects) \in Nat /\ Minus(t[a.stack].space, a.space) \in Nat
    BY <2>1, <2>2, MinusNat
  <2> QED
    BY <1>2, <2>1, <2>3 DEF Without, Totals
<1> QED
  BY <1>1, <1>2

LEMMA SampledLive ==
    ASSUME NEW s \in Stacks, NEW size \in Sizes, NEW weight \in Weights
    PROVE  [stack |-> s, objects |-> weight, space |-> AtMost(size * weight, MaxU64)] \in Live
<1>1. size \in Nat /\ weight \in Nat /\ size >= 1 /\ weight >= 1
  BY Constants
<1>2. size * weight \in Nat /\ size * weight >= 1
  <2>1. \E n \in Nat : size = n + 1
    <3>1. size - 1 \in Nat /\ size = (size - 1) + 1
      BY <1>1
    <3> QED
      BY <3>1
  <2>2. PICK n \in Nat : size = n + 1
    BY <2>1
  <2>3. size * weight = n * weight + weight /\ n * weight \in Nat
    BY <1>1, <2>2
  <2> QED
    BY <1>1, <2>3
<1>3. AtMost(size * weight, MaxU64) \in 1..MaxU64
  BY <1>2, Constants DEF AtMost
<1> QED
  BY <1>1, <1>3 DEF Live

(* One sampled allocation, and what it does to the window.                 *)
Sample(s, size, weight) ==
    [stack |-> s, objects |-> weight, space |-> AtMost(size * weight, MaxU64)]

Allocated(p, s, a) ==
    /\ IF HasRoom(s)
       THEN /\ windowAllocations' = [windowAllocations EXCEPT ![s] = AddI64(@, ToI64(a))]
            /\ UNCHANGED aggregationDrops
       ELSE /\ aggregationDrops' = AddI64(aggregationDrops, ToI64(a))
            /\ UNCHANGED windowAllocations
    /\ liveAllocations' = [liveAllocations EXCEPT ![p] = a]
    /\ liveTotals' = [Without(liveTotals, Replaced(p)) EXCEPT ![s] = Plus(@, a)]
    /\ observed' = Plus(observed, a)
    /\ applied' = applied + 1 /\ applied < MaxAllocs
    /\ UNCHANGED snapshot

LEMMA AllocatedOne ==
    ASSUME ApplyAllocate
    PROVE  \E p \in Addresses, s \in Stacks, a \in Live : a.stack = s /\ Allocated(p, s, a)
<1>1. PICK p \in Addresses, s \in Stacks, size \in Sizes, weight \in Weights :
          LET a == Sample(s, size, weight)
          IN  /\ IF HasRoom(s)
                 THEN /\ windowAllocations' = [windowAllocations EXCEPT ![s] = AddI64(@, ToI64(a))]
                      /\ UNCHANGED aggregationDrops
                 ELSE /\ aggregationDrops' = AddI64(aggregationDrops, ToI64(a))
                      /\ UNCHANGED windowAllocations
              /\ liveAllocations' = [liveAllocations EXCEPT ![p] = a]
              /\ liveTotals' = [Without(liveTotals, Replaced(p)) EXCEPT ![s] = Plus(@, a)]
              /\ observed' = Plus(observed, a)
  BY Zenon DEF ApplyAllocate, Sample
<1>3. Allocated(p, s, Sample(s, size, weight))
  BY <1>1 DEF Allocated, ApplyAllocate
<1>2. Sample(s, size, weight) \in Live /\ Sample(s, size, weight).stack = s
  BY SampledLive DEF Sample
<1> QED
  BY <1>2, <1>3

(* An allocation is a pair of totals, too.                                 *)
LEMMA LiveAdds ==
    ASSUME NEW t \in Totals, NEW a \in Live
    PROVE  Plus(t, a) \in Totals /\ ToI64(a) \in Entries
<1>1. a.objects \in Nat /\ a.space \in Nat
  BY LiveValues
<1> QED
  BY <1>1, Constants DEF Totals, Entries, Plus, ToI64, AddI64, AtMost, Zero

LEMMA RebuiltType ==
    ASSUME NEW l \in [Addresses -> Live \cup {None}]
    PROVE  Rebuilt(l) \in [Stacks -> Totals]
  BY InUseCounts DEF Rebuilt

LEMMA TypedStart == StateInit => StateTyped
<1> SUFFICES ASSUME StateInit PROVE StateTyped
  OBVIOUS
<1>1. Zero \in Entries /\ Zero \in Totals
  BY EntriesAreTotals
<1>2. snapshot = [alloc |-> [s \in Stacks |-> Zero], inuse |-> [s \in Stacks |-> Zero],
                  allocDrops |-> Zero, inuseDrops |-> Zero]
  BY DEF StateInit
<1>3. applied \in 0..MaxAllocs
  BY Constants DEF StateInit
<1> QED
  BY <1>1, <1>2, <1>3 DEF StateInit, StateTyped

LEMMA TypedAllocate ==
    ASSUME StateTyped, ApplyAllocate
    PROVE  StateTyped'
<1>1. PICK p \in Addresses, s \in Stacks, a \in Live : Allocated(p, s, a)
  BY AllocatedOne
<1>2. liveAllocations' \in [Addresses -> Live \cup {None}]
  BY <1>1 DEF StateTyped, Allocated, Live
<1>3. windowAllocations' \in [Stacks -> Entries] /\ aggregationDrops' \in Entries
  <2>1. ToI64(a) \in Entries /\ ToI64(a) \in Totals
    BY LiveAdds, EntriesAreTotals
  <2>2. \A e \in Entries : AddI64(e, ToI64(a)) \in Entries
    BY <2>1, EntriesAreTotals, AddI64Type
  <2> QED
    BY <1>1, <2>2 DEF StateTyped, Allocated
<1>4. liveTotals' \in [Stacks -> Totals]
  <2>1. Replaced(p) \in Live \cup {None}
    BY DEF Replaced, StateTyped, Live
  <2>2. Without(liveTotals, Replaced(p)) \in [Stacks -> Totals]
    BY <2>1, WithoutType DEF StateTyped
  <2> QED
    BY <1>1, <2>2, LiveAdds DEF Allocated
<1>5. observed' \in Totals
  BY <1>1, LiveAdds DEF Allocated, StateTyped
<1>6. applied' \in 0..MaxAllocs /\ snapshot' = snapshot
  BY <1>1, Constants DEF Allocated, StateTyped
<1> QED
  BY <1>2, <1>3, <1>4, <1>5, <1>6 DEF StateTyped, Live

LEMMA TypedSnapshot ==
    ASSUME StateTyped, SnapshotWindow
    PROVE  StateTyped'
<1>1. PICK shown \in SUBSET Stacks :
         snapshot' =
            [alloc      |-> windowAllocations,
             inuse      |-> [s \in Stacks |-> IF s \in shown THEN ToI64(liveTotals[s]) ELSE Zero],
             allocDrops |-> aggregationDrops,
             inuseDrops |-> ToI64(SumOf([s \in Stacks |-> ToI64(liveTotals[s])], Stacks \ shown))]
  BY DEF SnapshotWindow, Admitted, Waiting, Listed
<1>2. Zero \in Entries /\ Zero \in Totals
  BY EntriesAreTotals
<1>3. \A s \in Stacks : ToI64(liveTotals[s]) \in Entries
  BY AddI64Type DEF StateTyped
<1>4. SumOf([s \in Stacks |-> ToI64(liveTotals[s])], Stacks \ shown) \in Totals
  <2> DEFINE t == [s \in Stacks |-> ToI64(liveTotals[s])]
  <2>1. IsFiniteSet(Stacks \ shown) /\ Stacks \ shown \subseteq DOMAIN t
    BY Constants, FS_Subset
  <2>2. \A x \in Stacks \ shown : t[x].objects \in Nat /\ t[x].space \in Nat
    BY <1>3, EntriesAreTotals DEF Totals
  <2> HIDE DEF t
  <2>3. SumOf(t, Stacks \ shown) \in Totals
    BY <2>1, <2>2, SumsCount
  <2> QED
    BY <2>3 DEF t
<1>5. ToI64(SumOf([s \in Stacks |-> ToI64(liveTotals[s])], Stacks \ shown)) \in Entries
  BY <1>4, AddI64Type
<1>6. [s \in Stacks |-> IF s \in shown THEN ToI64(liveTotals[s]) ELSE Zero] \in [Stacks -> Entries]
  BY <1>2, <1>3
<1>7. snapshot' \in [alloc : [Stacks -> Entries], inuse : [Stacks -> Entries],
                     allocDrops : Entries, inuseDrops : Entries]
  BY <1>1, <1>5, <1>6 DEF StateTyped
<1>8. windowAllocations' \in [Stacks -> Entries] /\ aggregationDrops' \in Entries
      /\ observed' \in Totals /\ applied' \in 0..MaxAllocs
  BY <1>2, Constants DEF SnapshotWindow
<1> QED
  BY <1>7, <1>8 DEF StateTyped, SnapshotWindow

LEMMA TypedStep == StateTyped /\ [StateNext]_stateVars => StateTyped'
<1> SUFFICES ASSUME StateTyped, [StateNext]_stateVars PROVE StateTyped'
  OBVIOUS
<1>1. CASE ApplyAllocate
  BY <1>1, TypedAllocate
<1>2. CASE ApplyFree
  <2>1. PICK p \in Addresses : /\ liveTotals' = Without(liveTotals, liveAllocations[p])
                              /\ liveAllocations' = [liveAllocations EXCEPT ![p] = None]
    BY <1>2 DEF ApplyFree
  <2>2. liveAllocations[p] \in Live \cup {None}
    BY DEF StateTyped, Live
  <2>3. liveTotals' \in [Stacks -> Totals]
    BY <2>1, <2>2, WithoutType DEF StateTyped
  <2>4. liveAllocations' \in [Addresses -> Live \cup {None}]
    BY <2>1 DEF StateTyped, Live
  <2> QED
    BY <1>2, <2>3, <2>4 DEF StateTyped, ApplyFree, Live
<1>3. CASE RetainLivePointers
  <2>1. liveAllocations' \in [Addresses -> Live \cup {None}]
    BY <1>3 DEF RetainLivePointers, StateTyped, Live
  <2>2. liveTotals' \in [Stacks -> Totals]
    BY <1>3, <2>1, RebuiltType DEF RetainLivePointers
  <2> QED
    BY <1>3, <2>1, <2>2 DEF StateTyped, RetainLivePointers, Live
<1>4. CASE ClearLive
  BY <1>4, EntriesAreTotals DEF StateTyped, ClearLive
<1>5. CASE SnapshotWindow
  BY <1>5, TypedSnapshot
<1>6. CASE UNCHANGED stateVars
  BY <1>6 DEF StateTyped, stateVars
<1> QED
  BY <1>1, <1>2, <1>3, <1>4, <1>5, <1>6 DEF StateNext

-----------------------------------------------------------------------------
(* The totals in use.                                                      *)

(* What one address holds of a stack.                                      *)
Share(a, s) == IF a.stack = s THEN [objects |-> a.objects, space |-> a.space] ELSE Zero

LEMMA ShareType ==
    ASSUME NEW a \in Live \cup {None}, NEW s
    PROVE  Share(a, s) \in Totals /\ Share(None, s) = Zero
<1>1. Zero \in Totals
  BY EntriesAreTotals
<1> QED
  BY <1>1, LiveValues DEF Share, Totals, None, Zero

LEMMA OneAddress ==
    ASSUME NEW l \in [Addresses -> Live \cup {None}], NEW p \in Addresses, NEW s
    PROVE  /\ SumOf(l, Of(l, s) \ {p}) \in Totals
           /\ InUse(l, s) = Plus(SumOf(l, Of(l, s) \ {p}), Share(l[p], s))
<1> DEFINE S == Of(l, s)
<1>1. /\ IsFiniteSet(S) /\ Counts(Objects(l), S) /\ Counts(Space(l), S)
      /\ InUse(l, s) = SumOf(l, S) /\ SumOf(l, S) \in Totals
  BY InUseCounts
<1>2. IsFiniteSet(S \ {p}) /\ Counts(Objects(l), S \ {p}) /\ Counts(Space(l), S \ {p})
  BY <1>1, FS_Subset DEF Counts
<1>3. SumOf(l, S \ {p}) \in Totals
  BY <1>2, SigmaFacts, SumOfIs DEF Totals
<1>4. CASE l[p].stack = s
  <2>1. p \in S
    BY <1>4 DEF Of
  <2>2. /\ Sigma(Objects(l), S) = Objects(l)[p] + Sigma(Objects(l), S \ {p})
        /\ Sigma(Space(l), S) = Space(l)[p] + Sigma(Space(l), S \ {p})
    BY <1>1, <2>1, SigmaFacts
  <2>3. Objects(l)[p] = l[p].objects /\ Space(l)[p] = l[p].space
    BY DEF Objects, Space
  <2>4. l[p].objects \in Nat /\ l[p].space \in Nat
    BY LiveValues
  <2>5. /\ Sigma(Objects(l), S) = Sigma(Objects(l), S \ {p}) + l[p].objects
        /\ Sigma(Space(l), S) = Sigma(Space(l), S \ {p}) + l[p].space
    <3>1. Sigma(Objects(l), S \ {p}) \in Nat /\ Sigma(Space(l), S \ {p}) \in Nat
      BY <1>2, SigmaFacts
    <3> HIDE DEF S
    <3> QED
      BY <2>2, <2>3, <2>4, <3>1
  <2>6. Plus(SumOf(l, S \ {p}), Share(l[p], s)) =
          [objects |-> Sigma(Objects(l), S), space |-> Sigma(Space(l), S)]
    <3> HIDE DEF S
    <3> QED
      BY <1>4, <2>5, SumOfIs DEF Plus, Share
  <2> QED
    BY <1>1, <1>3, <2>6, SumOfIs
<1>5. CASE l[p].stack # s
  <2>1. S \ {p} = S
    BY <1>5 DEF Of
  <2>2. Share(l[p], s) = Zero
    BY <1>5 DEF Share
  <2>3. \A t \in Totals : Plus(t, Zero) = t
    BY DEF Plus, Totals, Zero
  <2> HIDE DEF S
  <2>4. SumOf(l, S \ {p}) = SumOf(l, S)
    BY <2>1, Zenon
  <2>5. InUse(l, s) = Plus(SumOf(l, S \ {p}), Share(l[p], s))
    BY <1>1, <2>2, <2>3, <2>4, Zenon
  <2> QED
    BY <1>3, <2>5 DEF S
<1> HIDE DEF S
<1> QED
  BY <1>3, <1>4, <1>5 DEF S

(* One address changes, from old to new: the rest of what is in use stays. *)
Rest(l, m, old, new, s, r) == InUse(l, s) = Plus(r, Share(old, s)) /\ InUse(m, s) = Plus(r, Share(new, s))
RestStays(l, m, old, new, s) == \E r \in Totals : Rest(l, m, old, new, s, r)

LEMMA OneChanged ==
    ASSUME NEW l \in [Addresses -> Live \cup {None}], NEW p \in Addresses,
           NEW a \in Live \cup {None}, NEW s
    PROVE  RestStays(l, [l EXCEPT ![p] = a], l[p], a, s)
<1> DEFINE m == [l EXCEPT ![p] = a]
<1>1. m \in [Addresses -> Live \cup {None}] /\ m[p] = a /\ \A q \in Addresses \ {p} : m[q] = l[q]
  OBVIOUS
<1> HIDE DEF m
<1>2. Of(m, s) \ {p} = Of(l, s) \ {p}
  BY <1>1 DEF Of
<1>3. /\ \A x \in Of(l, s) \ {p} : Objects(l)[x] = Objects(m)[x]
      /\ \A x \in Of(l, s) \ {p} : Space(l)[x] = Space(m)[x]
  BY <1>1 DEF Objects, Space, Of
<1>4. /\ IsFiniteSet(Of(l, s) \ {p})
      /\ Counts(Objects(l), Of(l, s) \ {p}) /\ Counts(Space(l), Of(l, s) \ {p})
  BY InUseCounts, FS_Subset DEF Counts
<1>5. SumOf(m, Of(m, s) \ {p}) = SumOf(l, Of(l, s) \ {p})
  <2>1. /\ Sigma(Objects(l), Of(l, s) \ {p}) = Sigma(Objects(m), Of(l, s) \ {p})
        /\ Sigma(Space(l), Of(l, s) \ {p}) = Sigma(Space(m), Of(l, s) \ {p})
    BY <1>3, <1>4, SigmaSame
  <2>2. SumOf(m, Of(l, s) \ {p}) = SumOf(l, Of(l, s) \ {p})
    BY <2>1, SumOfIs
  <2> QED
    BY <1>2, <2>2, Zenon
<1>6. /\ SumOf(l, Of(l, s) \ {p}) \in Totals
      /\ InUse(l, s) = Plus(SumOf(l, Of(l, s) \ {p}), Share(l[p], s))
      /\ InUse(m, s) = Plus(SumOf(m, Of(m, s) \ {p}), Share(m[p], s))
  BY <1>1, OneAddress
<1>7. Rest(l, m, l[p], a, s, SumOf(l, Of(l, s) \ {p}))
  BY <1>1, <1>5, <1>6 DEF Rest
<1> QED
  BY <1>6, <1>7 DEF m, RestStays

(* What an allocation that goes had added is taken off again.              *)
LEMMA TakenOff ==
    ASSUME NEW t \in [Stacks -> Totals], NEW a \in Live \cup {None}, NEW s \in Stacks,
           NEW r \in Totals, t[s] = Plus(r, Share(a, s))
    PROVE  Without(t, a)[s] = r
<1>1. r.objects \in Nat /\ r.space \in Nat /\ r = [objects |-> r.objects, space |-> r.space]
  BY DEF Totals
<1>2. CASE a = None \/ a.stack # s
  <2>1. Share(a, s) = Zero
    BY <1>2, ShareType DEF Share
  <2>2. t[s] = r
    BY <1>1, <2>1 DEF Plus, Zero
  <2> QED
    BY <1>2, <2>2 DEF Without
<1>3. CASE a # None /\ a.stack = s
  <2>1. a.objects \in Nat /\ a.space \in Nat
    BY LiveValues
  <2>2. t[s] = [objects |-> r.objects + a.objects, space |-> r.space + a.space]
    BY <1>3 DEF Plus, Share
  <2>3. /\ Minus(r.objects + a.objects, a.objects) = r.objects
        /\ Minus(r.space + a.space, a.space) = r.space
    BY <1>1, <2>1 DEF Minus
  <2>4. Without(t, a)[s] = [objects |-> Minus(t[s].objects, a.objects), space |-> Minus(t[s].space, a.space)]
    BY <1>3 DEF Without
  <2> QED
    BY <1>1, <2>2, <2>3, <2>4
<1> QED
  BY <1>2, <1>3

(* An empty process has nothing in use.                                    *)
LEMMA NothingInUse ==
    ASSUME NEW s
    PROVE  InUse([p \in Addresses |-> None], s) = Zero
<1> DEFINE l == [p \in Addresses |-> None]
<1>1. l \in [Addresses -> Live \cup {None}]
  OBVIOUS
<1>2. \A x \in Of(l, s) : Objects(l)[x] = 0 /\ Space(l)[x] = 0
  BY DEF Objects, Space, Of, None
<1> HIDE DEF l
<1>3. IsFiniteSet(Of(l, s)) /\ InUse(l, s) = SumOf(l, Of(l, s))
  BY <1>1, InUseCounts
<1>4. Sigma(Objects(l), Of(l, s)) = 0 /\ Sigma(Space(l), Of(l, s)) = 0
  BY <1>2, <1>3, SigmaZero
<1> QED
  BY <1>3, <1>4, SumOfIs DEF Zero, l

LEMMA TotalsStart == StateInit => TotalsMatchLive
  BY NothingInUse DEF StateInit, TotalsMatchLive

LEMMA TotalsAllocate ==
    ASSUME StateTyped, TotalsMatchLive, ApplyAllocate
    PROVE  TotalsMatchLive'
<1>1. PICK p \in Addresses, s \in Stacks, a \in Live : a.stack = s /\ Allocated(p, s, a)
  BY AllocatedOne
<1>2. /\ liveAllocations \in [Addresses -> Live \cup {None}] /\ liveTotals \in [Stacks -> Totals]
      /\ liveAllocations' = [liveAllocations EXCEPT ![p] = a]
      /\ liveAllocations[p] \in Live \cup {None}
      /\ liveTotals' = [Without(liveTotals, liveAllocations[p]) EXCEPT ![s] = Plus(@, a)]
  BY <1>1 DEF StateTyped, Allocated, Replaced, Live
<1>3. ASSUME NEW x \in Stacks
      PROVE  liveTotals'[x] = InUse(liveAllocations', x)
  <2>1. PICK r \in Totals : /\ InUse(liveAllocations, x) = Plus(r, Share(liveAllocations[p], x))
                           /\ InUse([liveAllocations EXCEPT ![p] = a], x) = Plus(r, Share(a, x))
    <3> DEFINE old == liveAllocations  new == [liveAllocations EXCEPT ![p] = a]
    <3>1. old \in [Addresses -> Live \cup {None}] /\ a \in Live \cup {None}
      BY <1>2
    <3>2. RestStays(old, new, old[p], a, x)
      BY <3>1, OneChanged
    <3> HIDE DEF old, new
    <3>3. PICK r \in Totals : Rest(old, new, old[p], a, x, r)
      BY <3>2 DEF RestStays
    <3> QED
      BY <3>3 DEF Rest, old, new
  <2>2. Without(liveTotals, liveAllocations[p])[x] = r
    BY <1>2, <2>1, TakenOff DEF TotalsMatchLive
  <2>3. Without(liveTotals, liveAllocations[p]) \in [Stacks -> Totals]
    BY <1>2, WithoutType
  <2>4. liveTotals'[x] = IF x = s THEN Plus(r, a) ELSE r
    BY <1>2, <2>2, <2>3
  <2>5. Plus(r, Share(a, x)) = IF x = s THEN Plus(r, a) ELSE r
    <3>1. CASE x = s
      BY <1>1, <3>1 DEF Plus, Share
    <3>2. CASE x # s
      <4>1. Share(a, x) = Zero
        BY <1>1, <3>2 DEF Share
      <4> QED
        BY <3>2, <4>1 DEF Plus, Totals, Zero
    <3> QED
      BY <3>1, <3>2
  <2> QED
    BY <1>2, <2>1, <2>4, <2>5
<1> QED
  BY <1>3 DEF TotalsMatchLive

LEMMA TotalsFree ==
    ASSUME StateTyped, TotalsMatchLive, ApplyFree
    PROVE  TotalsMatchLive'
<1>1. PICK p \in Addresses : /\ liveTotals' = Without(liveTotals, liveAllocations[p])
                            /\ liveAllocations' = [liveAllocations EXCEPT ![p] = None]
  BY DEF ApplyFree
<1>2. /\ liveAllocations \in [Addresses -> Live \cup {None}] /\ liveTotals \in [Stacks -> Totals]
      /\ liveAllocations[p] \in Live \cup {None}
  BY DEF StateTyped, Live
<1>3. ASSUME NEW x \in Stacks
      PROVE  liveTotals'[x] = InUse(liveAllocations', x)
  <2>1. PICK r \in Totals : /\ InUse(liveAllocations, x) = Plus(r, Share(liveAllocations[p], x))
                           /\ InUse([liveAllocations EXCEPT ![p] = None], x) = Plus(r, Share(None, x))
    <3> DEFINE old == liveAllocations  new == [liveAllocations EXCEPT ![p] = None]
    <3>1. old \in [Addresses -> Live \cup {None}] /\ None \in Live \cup {None}
      BY <1>2
    <3>2. RestStays(old, new, old[p], None, x)
      BY <3>1, OneChanged
    <3> HIDE DEF old, new
    <3>3. PICK r \in Totals : Rest(old, new, old[p], None, x, r)
      BY <3>2 DEF RestStays
    <3> QED
      BY <3>3 DEF Rest, old, new
  <2>2. Without(liveTotals, liveAllocations[p])[x] = r
    BY <1>2, <2>1, TakenOff DEF TotalsMatchLive
  <2>3. Plus(r, Share(None, x)) = r
    <3>1. Share(None, x) = Zero
      BY ShareType
    <3> QED
      BY <3>1 DEF Plus, Totals, Zero
  <2> QED
    BY <1>1, <2>1, <2>2, <2>3
<1> QED
  BY <1>3 DEF TotalsMatchLive

LEMMA TotalsStep == StateTyped /\ TotalsMatchLive /\ [StateNext]_stateVars => TotalsMatchLive'
<1> SUFFICES ASSUME StateTyped, TotalsMatchLive, [StateNext]_stateVars PROVE TotalsMatchLive'
  OBVIOUS
<1>1. CASE ApplyAllocate
  BY <1>1, TotalsAllocate
<1>2. CASE ApplyFree
  BY <1>2, TotalsFree
<1>3. CASE RetainLivePointers
  BY <1>3 DEF RetainLivePointers, Rebuilt, TotalsMatchLive
<1>4. CASE ClearLive
  BY <1>4, NothingInUse DEF ClearLive, TotalsMatchLive
<1>5. CASE SnapshotWindow \/ UNCHANGED stateVars
  <2>1. liveTotals' = liveTotals /\ liveAllocations' = liveAllocations
    BY <1>5 DEF SnapshotWindow, stateVars
  <2> QED
    BY <2>1, Zenon DEF TotalsMatchLive
<1> QED
  BY <1>1, <1>2, <1>3, <1>4, <1>5 DEF StateNext

-----------------------------------------------------------------------------
(* The totals of a window.                                                 *)

LEMMA WindowCounts ==
    ASSUME NEW w \in [Stacks -> Totals]
    PROVE  /\ Counts(Objects(w), Stacks) /\ Counts(Space(w), Stacks) /\ SumOf(w, Stacks) \in Totals
           /\ \A s \in Stacks : /\ Objects(w)[s] = w[s].objects /\ Space(w)[s] = w[s].space
                                /\ w[s].objects \in Nat /\ w[s].space \in Nat
                                /\ w[s].objects <= SumOf(w, Stacks).objects
                                /\ w[s].space <= SumOf(w, Stacks).space
<1>1. \A s \in Stacks : /\ Objects(w)[s] = w[s].objects /\ Space(w)[s] = w[s].space
                        /\ w[s].objects \in Nat /\ w[s].space \in Nat
  BY DEF Objects, Space, Totals
<1>2. Counts(Objects(w), Stacks) /\ Counts(Space(w), Stacks) /\ SumOf(w, Stacks) \in Totals
  <2>1. Stacks \subseteq DOMAIN w
    OBVIOUS
  <2> QED
    BY <1>1, <2>1, Constants, SumsCount
<1>3. ASSUME NEW s \in Stacks
      PROVE  w[s].objects <= Sigma(Objects(w), Stacks) /\ w[s].space <= Sigma(Space(w), Stacks)
  <2>1. IsFiniteSet(Stacks \ {s}) /\ Counts(Objects(w), Stacks \ {s}) /\ Counts(Space(w), Stacks \ {s})
    BY <1>2, Constants, FS_Subset DEF Counts
  <2>2. Sigma(Objects(w), Stacks \ {s}) \in Nat /\ Sigma(Space(w), Stacks \ {s}) \in Nat
    BY <2>1, SigmaFacts
  <2>3. /\ Sigma(Objects(w), Stacks) = Objects(w)[s] + Sigma(Objects(w), Stacks \ {s})
        /\ Sigma(Space(w), Stacks) = Space(w)[s] + Sigma(Space(w), Stacks \ {s})
    BY <1>2, Constants, SigmaFacts
  <2> QED
    BY <1>1, <2>2, <2>3
<1> QED
  BY <1>1, <1>2, <1>3, SumOfIs

(* What fits an i64 is added exactly.                                      *)
LEMMA AddFits ==
    ASSUME NEW t \in Totals, NEW a \in Live,
           t.objects + a.objects <= MaxI64, t.space + a.space <= MaxI64
    PROVE  AddI64(t, ToI64(a)) = Plus(t, a)
<1>1. t.objects \in Nat /\ t.space \in Nat /\ a.objects \in Nat /\ a.space \in Nat
  BY LiveValues DEF Totals
<1>2. a.objects <= MaxI64 /\ a.space <= MaxI64
  BY <1>1, Constants
<1>3. ToI64(a) = [objects |-> a.objects, space |-> a.space]
  BY <1>1, <1>2 DEF ToI64, AddI64, AtMost, Zero
<1> QED
  BY <1>1, <1>3 DEF AddI64, Plus, AtMost

LEMMA OneStackMore ==
    ASSUME NEW w \in [Stacks -> Totals], NEW s \in Stacks, NEW a \in Live
    PROVE  SumOf([w EXCEPT ![s] = Plus(w[s], a)], Stacks) = Plus(SumOf(w, Stacks), a)
<1> DEFINE v == [w EXCEPT ![s] = Plus(w[s], a)]
<1>1. Plus(w[s], a) \in Totals
  BY LiveAdds
<1>2. v \in [Stacks -> Totals] /\ v[s] = Plus(w[s], a) /\ \A x \in Stacks \ {s} : v[x] = w[x]
  BY <1>1
<1> HIDE DEF v
<1>3. /\ Counts(Objects(w), Stacks) /\ Counts(Space(w), Stacks)
      /\ \A x \in Stacks : /\ Objects(w)[x] = w[x].objects /\ Space(w)[x] = w[x].space
                           /\ Objects(v)[x] = v[x].objects /\ Space(v)[x] = v[x].space
                           /\ v[x].objects \in Nat /\ v[x].space \in Nat
  BY <1>2, WindowCounts
<1>4. /\ Objects(v)[s] \in Nat /\ \A x \in Stacks \ {s} : Objects(v)[x] = Objects(w)[x]
      /\ Space(v)[s] \in Nat /\ \A x \in Stacks \ {s} : Space(v)[x] = Space(w)[x]
  BY <1>2, <1>3
<1> DEFINE R == Stacks \ {s}
<1>5. /\ Sigma(Objects(w), Stacks) = Objects(w)[s] + Sigma(Objects(w), R)
      /\ Sigma(Objects(v), Stacks) = Objects(v)[s] + Sigma(Objects(w), R)
      /\ Sigma(Objects(w), R) \in Nat
  BY <1>3, <1>4, Constants, SigmaChange
<1>6. /\ Sigma(Space(w), Stacks) = Space(w)[s] + Sigma(Space(w), R)
      /\ Sigma(Space(v), Stacks) = Space(v)[s] + Sigma(Space(w), R)
      /\ Sigma(Space(w), R) \in Nat
  BY <1>3, <1>4, Constants, SigmaChange
<1> HIDE DEF R
<1>7. /\ Objects(v)[s] = w[s].objects + a.objects /\ Objects(w)[s] = w[s].objects
      /\ Space(v)[s] = w[s].space + a.space /\ Space(w)[s] = w[s].space
  BY <1>2, <1>3 DEF Plus
<1>8. w[s].objects \in Nat /\ w[s].space \in Nat /\ a.objects \in Nat /\ a.space \in Nat
  BY LiveValues DEF Totals
<1>9. /\ Sigma(Objects(v), Stacks) = Sigma(Objects(w), Stacks) + a.objects
      /\ Sigma(Space(v), Stacks) = Sigma(Space(w), Stacks) + a.space
  BY <1>5, <1>6, <1>7, <1>8
<1> QED
  BY <1>9, SumOfIs DEF Plus, v

LEMMA WindowAllocate ==
    ASSUME StateTyped, WindowAccounted, ApplyAllocate
    PROVE  WindowAccounted'
<1>1. PICK p \in Addresses, s \in Stacks, a \in Live : a.stack = s /\ Allocated(p, s, a)
  BY AllocatedOne
<1> DEFINE w == windowAllocations
    all == SumOf(windowAllocations, Stacks)
<1>2. /\ w \in [Stacks -> Totals] /\ all \in Totals /\ observed \in Totals /\ aggregationDrops \in Totals
      /\ w[s] \in Totals /\ w[s].objects <= all.objects /\ w[s].space <= all.space
  <2>1. /\ w \in [Stacks -> Totals] /\ observed \in Totals /\ aggregationDrops \in Totals
        /\ w[s] \in Totals
    BY EntriesAreTotals DEF StateTyped
  <2> QED
    BY <2>1, WindowCounts
<1>3. observed' = Plus(observed, a)
  BY <1>1 DEF Allocated
<1> SUFFICES ASSUME observed'.objects <= MaxI64, observed'.space <= MaxI64
             PROVE  Plus(SumOf(windowAllocations', Stacks), aggregationDrops') = observed'
  BY DEF WindowAccounted
<1>4. a.objects \in Nat /\ a.space \in Nat
  BY LiveValues
<1>5. /\ observed.objects + a.objects <= MaxI64 /\ observed.space + a.space <= MaxI64
      /\ observed.objects \in Nat /\ observed.space \in Nat
  BY <1>2, <1>3 DEF Plus, Totals
<1>6. observed.objects <= MaxI64 /\ observed.space <= MaxI64
  BY <1>4, <1>5, Constants
<1>7. Plus(all, aggregationDrops) = observed
  BY <1>6 DEF WindowAccounted
<1>8. /\ observed.objects = all.objects + aggregationDrops.objects
      /\ observed.space = all.space + aggregationDrops.space
      /\ all.objects \in Nat /\ all.space \in Nat
      /\ aggregationDrops.objects \in Nat /\ aggregationDrops.space \in Nat
  BY <1>2, <1>7 DEF Plus, Totals
<1>9. CASE HasRoom(s)
  <2>1. w[s].objects \in Nat /\ w[s].space \in Nat
    BY <1>2 DEF Totals
  <2> HIDE DEF w, all
  <2>2. w[s].objects + a.objects <= MaxI64 /\ w[s].space + a.space <= MaxI64
    BY <1>2, <1>4, <1>5, <1>8, <2>1, Constants
  <2>3. AddI64(w[s], ToI64(a)) = Plus(w[s], a)
    BY <1>2, <2>2, AddFits
  <2>4. windowAllocations' = [w EXCEPT ![s] = Plus(w[s], a)] /\ aggregationDrops' = aggregationDrops
    BY <1>1, <1>9, <2>3 DEF Allocated, w
  <2>5. SumOf([w EXCEPT ![s] = Plus(w[s], a)], Stacks) = Plus(all, a)
    BY <1>2, OneStackMore DEF all, w
  <2>6. SumOf(windowAllocations', Stacks) = Plus(all, a)
    BY <2>4, <2>5, Zenon
  <2>7. Plus(Plus(all, a), aggregationDrops) = Plus(Plus(all, aggregationDrops), a)
    BY <1>4, <1>8 DEF Plus
  <2> QED
    BY <1>3, <1>7, <2>4, <2>6, <2>7
<1>10. CASE ~HasRoom(s)
  <2> HIDE DEF w, all
  <2>1. aggregationDrops.objects + a.objects <= MaxI64 /\ aggregationDrops.space + a.space <= MaxI64
    BY <1>4, <1>5, <1>8, Constants
  <2>2. AddI64(aggregationDrops, ToI64(a)) = Plus(aggregationDrops, a)
    BY <1>2, <2>1, AddFits
  <2>3. windowAllocations' = windowAllocations /\ aggregationDrops' = Plus(aggregationDrops, a)
    BY <1>1, <1>10, <2>2 DEF Allocated
  <2>4. SumOf(windowAllocations', Stacks) = all
    BY <2>3, Zenon DEF all
  <2>5. Plus(all, Plus(aggregationDrops, a)) = Plus(Plus(all, aggregationDrops), a)
    BY <1>4, <1>8 DEF Plus
  <2> QED
    BY <1>3, <1>7, <2>3, <2>4, <2>5
<1> QED
  BY <1>9, <1>10

(* A new window is empty.                                                  *)
LEMMA NothingInWindow == SumOf([s \in Stacks |-> Zero], Stacks) = Zero
<1> DEFINE w == [s \in Stacks |-> Zero]
<1>1. \A x \in Stacks : Objects(w)[x] = 0 /\ Space(w)[x] = 0
  BY DEF Objects, Space, Zero
<1> HIDE DEF w
<1>2. Sigma(Objects(w), Stacks) = 0 /\ Sigma(Space(w), Stacks) = 0
  BY <1>1, Constants, SigmaZero
<1> QED
  BY <1>2, SumOfIs DEF Zero, w

LEMMA WindowStart == StateInit => WindowAccounted
<1>1. Plus(Zero, Zero) = Zero
  BY DEF Plus, Zero
<1> QED
  BY <1>1, NothingInWindow DEF StateInit, WindowAccounted

LEMMA WindowStep == StateTyped /\ WindowAccounted /\ [StateNext]_stateVars => WindowAccounted'
<1> SUFFICES ASSUME StateTyped, WindowAccounted, [StateNext]_stateVars PROVE WindowAccounted'
  OBVIOUS
<1>1. CASE ApplyAllocate
  BY <1>1, WindowAllocate
<1>2. CASE SnapshotWindow
  <2>1. Plus(Zero, Zero) = Zero
    BY DEF Plus, Zero
  <2> QED
    BY <1>2, <2>1, NothingInWindow DEF SnapshotWindow, WindowAccounted
<1>3. CASE ApplyFree \/ RetainLivePointers \/ ClearLive \/ UNCHANGED stateVars
  <2>1. /\ windowAllocations' = windowAllocations /\ aggregationDrops' = aggregationDrops
        /\ observed' = observed
    BY <1>3 DEF ApplyFree, RetainLivePointers, ClearLive, stateVars
  <2> QED
    BY <2>1, Zenon DEF WindowAccounted
<1> QED
  BY <1>1, <1>2, <1>3 DEF StateNext

-----------------------------------------------------------------------------
(* The stacks of a window.                                                 *)

WithinRoom == Cardinality(Listed(windowAllocations)) <= MaxStacks

LEMMA ListedFinite ==
    ASSUME NEW t
    PROVE  Listed(t) \subseteq Stacks /\ IsFiniteSet(Listed(t)) /\ Cardinality(Listed(t)) \in Nat
<1>1. Listed(t) \subseteq Stacks
  BY DEF Listed
<1> QED
  BY <1>1, Constants, FS_Subset, FS_CardinalityType

LEMMA RoomStep == StateTyped /\ WithinRoom /\ [StateNext]_stateVars => WithinRoom'
<1> SUFFICES ASSUME StateTyped, WithinRoom, [StateNext]_stateVars PROVE WithinRoom'
  OBVIOUS
<1>0. windowAllocations \in [Stacks -> Entries]
  BY DEF StateTyped
<1>1. CASE ApplyAllocate
  <2>1. PICK p \in Addresses, s \in Stacks, a \in Live : a.stack = s /\ Allocated(p, s, a)
    BY <1>1, AllocatedOne
  <2>2. CASE HasRoom(s)
    <3> DEFINE L == Listed(windowAllocations)
        M == Listed(windowAllocations')
    <3>1. M \subseteq L \cup {s}
      BY <1>0, <2>1, <2>2 DEF Allocated, Listed
    <3>2. IsFiniteSet(L) /\ Cardinality(L) \in Nat /\ Cardinality(M) \in Nat
      BY ListedFinite
    <3>3. s \in L \/ Cardinality(L) < MaxStacks
      BY <2>2 DEF HasRoom
    <3>4. Cardinality(L) <= MaxStacks
      BY DEF WithinRoom
    <3> HIDE DEF L, M
    <3>5. CASE s \in L
      <4>1. M \subseteq L
        BY <3>1, <3>5
      <4>2. Cardinality(M) <= Cardinality(L)
        BY <3>2, <4>1, FS_Subset
      <4> QED
        BY <3>2, <3>4, <4>2, Constants DEF WithinRoom, M
    <3>6. CASE s \notin L
      <4>1. IsFiniteSet(L \cup {s}) /\ Cardinality(L \cup {s}) = Cardinality(L) + 1
        BY <3>2, <3>6, FS_AddElement
      <4>2. Cardinality(M) <= Cardinality(L \cup {s})
        BY <3>1, <4>1, FS_Subset
      <4>3. Cardinality(M) <= MaxStacks
        BY <3>2, <3>3, <3>6, <4>1, <4>2, Constants
      <4> QED
        BY <4>3 DEF WithinRoom, M
    <3> QED
      BY <3>5, <3>6
  <2>3. CASE ~HasRoom(s)
    <3>1. windowAllocations' = windowAllocations
      BY <2>1, <2>3 DEF Allocated
    <3> QED
      BY <3>1, Zenon DEF WithinRoom
  <2> QED
    BY <2>2, <2>3
<1>2. CASE SnapshotWindow
  <2>1. Listed(windowAllocations') = {}
    BY <1>2 DEF SnapshotWindow, Listed
  <2> QED
    BY <2>1, FS_EmptySet, Constants DEF WithinRoom
<1>3. CASE ApplyFree \/ RetainLivePointers \/ ClearLive \/ UNCHANGED stateVars
  <2>1. windowAllocations' = windowAllocations
    BY <1>3 DEF ApplyFree, RetainLivePointers, ClearLive, stateVars
  <2> QED
    BY <2>1, Zenon DEF WithinRoom
<1> QED
  BY <1>1, <1>2, <1>3 DEF StateNext

(* A stack of the window or an admitted one: at most MaxStacks.            *)
LEMMA ShownFit ==
    ASSUME WithinRoom, NEW admitted \in Admitted
    PROVE  LET shown == admitted \cup Listed(windowAllocations) IN
           shown \subseteq Stacks /\ IsFiniteSet(shown) /\ Cardinality(shown) <= MaxStacks
<1> DEFINE L == Listed(windowAllocations)
    W == Listed(liveTotals)
<1>1. /\ L \subseteq Stacks /\ IsFiniteSet(L) /\ Cardinality(L) \in Nat
      /\ W \subseteq Stacks
  BY ListedFinite
<1>2. admitted \subseteq W /\ admitted \cap L = {}
      /\ Cardinality(admitted) = AtMost(Cardinality(Waiting), Room)
  BY DEF Admitted, Waiting
<1>3. Waiting \subseteq Stacks /\ IsFiniteSet(Waiting) /\ Cardinality(Waiting) \in Nat
  <2>1. Waiting \subseteq Stacks
    BY <1>1 DEF Waiting
  <2> QED
    BY <2>1, Constants, FS_Subset, FS_CardinalityType
<1>4. admitted \subseteq Stacks /\ IsFiniteSet(admitted)
  <2>1. admitted \subseteq Stacks
    BY <1>1, <1>2
  <2> QED
    BY <2>1, Constants, FS_Subset
<1>5. Cardinality(L) <= MaxStacks
  BY DEF WithinRoom
<1>6. Room = MaxStacks - Cardinality(L)
  BY <1>1, <1>5, Constants DEF Room, Minus
<1>7. Cardinality(admitted) <= MaxStacks - Cardinality(L) /\ Cardinality(admitted) \in Nat
  <2>1. Cardinality(admitted) \in Nat
    BY <1>4, FS_CardinalityType
  <2> HIDE DEF L
  <2> QED
    BY <1>1, <1>2, <1>3, <1>5, <1>6, <2>1, Constants DEF AtMost
<1> HIDE DEF L, W
<1>8. IsFiniteSet(admitted \cup L) /\ Cardinality(admitted \cup L) =
         Cardinality(admitted) + Cardinality(L) - Cardinality(admitted \cap L)
  BY <1>1, <1>4, FS_Union
<1>9. Cardinality(admitted \cap L) = 0
  BY <1>2, FS_EmptySet
<1>10. Cardinality(admitted \cup L) <= MaxStacks
  BY <1>1, <1>7, <1>8, <1>9, Constants
<1> QED
  BY <1>1, <1>4, <1>8, <1>10 DEF L

-----------------------------------------------------------------------------
(* A snapshot.                                                             *)

Reportable == [s \in Stacks |-> ToI64(liveTotals[s])]
Shown(shown) == [s \in Stacks |-> IF s \in shown THEN ToI64(liveTotals[s]) ELSE Zero]

(* When what is in use fits an i64, a stack's share of it does.            *)
LEMMA HeldExactly ==
    ASSUME NEW t \in [Stacks -> Totals],
           SumOf(t, Stacks).objects <= MaxI64, SumOf(t, Stacks).space <= MaxI64,
           NEW s \in Stacks
    PROVE  ToI64(t[s]) = t[s]
<1>1. /\ t[s].objects \in Nat /\ t[s].space \in Nat
      /\ t[s].objects <= SumOf(t, Stacks).objects /\ t[s].space <= SumOf(t, Stacks).space
      /\ SumOf(t, Stacks) \in Totals
  BY WindowCounts
<1>2. t[s] = [objects |-> t[s].objects, space |-> t[s].space]
  BY DEF Totals
<1>3. SumOf(t, Stacks).objects \in Nat /\ SumOf(t, Stacks).space \in Nat
  BY <1>1 DEF Totals
<1>4. t[s].objects <= MaxI64 /\ t[s].space <= MaxI64
  BY <1>1, <1>3, Constants
<1> QED
  BY <1>1, <1>2, <1>4 DEF ToI64, AddI64, AtMost, Zero

(* What a snapshot shows of the memory in use, and what it leaves out.     *)
LEMMA ShownAndDropped ==
    ASSUME NEW t \in [Stacks -> Totals], NEW shown \in SUBSET Stacks,
           SumOf(t, Stacks).objects <= MaxI64, SumOf(t, Stacks).space <= MaxI64
    PROVE  Plus(SumOf([s \in Stacks |-> IF s \in shown THEN ToI64(t[s]) ELSE Zero], Stacks),
                ToI64(SumOf([s \in Stacks |-> ToI64(t[s])], Stacks \ shown)))
             = SumOf(t, Stacks)
<1> DEFINE in  == [s \in Stacks |-> IF s \in shown THEN ToI64(t[s]) ELSE Zero]
    out == [s \in Stacks |-> ToI64(t[s])]
    rest == Stacks \ shown
<1>1. /\ Counts(Objects(t), Stacks) /\ Counts(Space(t), Stacks) /\ SumOf(t, Stacks) \in Totals
      /\ \A s \in Stacks : /\ Objects(t)[s] = t[s].objects /\ Space(t)[s] = t[s].space
                           /\ t[s].objects \in Nat /\ t[s].space \in Nat
  BY WindowCounts
<1>2. \A s \in Stacks : ToI64(t[s]) = t[s]
  BY HeldExactly
<1>3. /\ \A s \in shown : Objects(in)[s] = Objects(t)[s] /\ Space(in)[s] = Space(t)[s]
      /\ \A s \in rest : Objects(in)[s] = 0 /\ Space(in)[s] = 0
      /\ \A s \in rest : Objects(out)[s] = Objects(t)[s] /\ Space(out)[s] = Space(t)[s]
  BY <1>1, <1>2 DEF Objects, Space, Zero
<1>4. \A s \in Stacks : /\ Objects(in)[s] \in Nat /\ Space(in)[s] \in Nat
  <2>1. \A s \in Stacks : s \in shown \/ s \in rest
    OBVIOUS
  <2> HIDE DEF in, rest
  <2> QED
    BY <1>1, <1>3, <2>1
<1> HIDE DEF in, out
<1>5. /\ IsFiniteSet(Stacks) /\ IsFiniteSet(shown) /\ IsFiniteSet(rest) /\ rest \in SUBSET Stacks
      /\ Counts(Objects(in), Stacks) /\ Counts(Space(in), Stacks)
  BY <1>4, Constants, FS_Subset DEF Counts
<1>6. /\ Counts(Objects(t), shown) /\ Counts(Space(t), shown)
      /\ Counts(Objects(t), rest) /\ Counts(Space(t), rest)
  BY <1>1 DEF Counts
<1>7. /\ Sigma(Objects(in), Stacks) = Sigma(Objects(in), shown) + Sigma(Objects(in), rest)
      /\ Sigma(Space(in), Stacks) = Sigma(Space(in), shown) + Sigma(Space(in), rest)
      /\ Sigma(Objects(t), Stacks) = Sigma(Objects(t), shown) + Sigma(Objects(t), rest)
      /\ Sigma(Space(t), Stacks) = Sigma(Space(t), shown) + Sigma(Space(t), rest)
  BY <1>1, <1>5, SigmaSplit
<1> HIDE DEF rest
<1>8. /\ Sigma(Objects(t), shown) = Sigma(Objects(in), shown)
      /\ Sigma(Space(t), shown) = Sigma(Space(in), shown)
      /\ Sigma(Objects(t), rest) = Sigma(Objects(out), rest)
      /\ Sigma(Space(t), rest) = Sigma(Space(out), rest)
  BY <1>3, <1>5, <1>6, SigmaSame
<1>9. Sigma(Objects(in), rest) = 0 /\ Sigma(Space(in), rest) = 0
  BY <1>3, <1>5, SigmaZero
<1> DEFINE oShown == Sigma(Objects(t), shown)
    oRest == Sigma(Objects(t), rest)
    pShown == Sigma(Space(t), shown)
    pRest == Sigma(Space(t), rest)
<1>10. oShown \in Nat /\ oRest \in Nat /\ pShown \in Nat /\ pRest \in Nat
  BY <1>5, <1>6, SigmaFacts
<1>11. SumOf(out, rest) = [objects |-> oRest, space |-> pRest]
  BY <1>8, SumOfIs
<1>12. SumOf(t, Stacks) = [objects |-> oShown + oRest, space |-> pShown + pRest]
  BY <1>7, SumOfIs
<1>13. SumOf(in, Stacks) = [objects |-> oShown, space |-> pShown]
  <2>1. Sigma(Objects(in), Stacks) = oShown /\ Sigma(Space(in), Stacks) = pShown
    BY <1>7, <1>8, <1>9, <1>10
  <2> QED
    BY <2>1, SumOfIs
<1> HIDE DEF oShown, oRest, pShown, pRest
<1>14. oRest <= MaxI64 /\ pRest <= MaxI64
  BY <1>10, <1>12, Constants
<1>15. ToI64(SumOf(out, rest)) = [objects |-> oRest, space |-> pRest]
  BY <1>10, <1>11, <1>14 DEF ToI64, AddI64, AtMost, Zero
<1>16. Plus(SumOf(in, Stacks), ToI64(SumOf(out, rest))) = SumOf(t, Stacks)
  BY <1>12, <1>13, <1>15 DEF Plus
<1> QED
  BY <1>16 DEF in, out, rest

LEMMA SnapshotStep ==
    ASSUME StateTyped, WindowAccounted, WithinRoom, SnapshotWindow
    PROVE  LET used == SumOf(liveTotals, Stacks) IN
           /\ Cardinality(Listed(snapshot'.alloc) \cup Listed(snapshot'.inuse)) <= MaxStacks
           /\ observed.objects <= MaxI64 /\ observed.space <= MaxI64 =>
                 Plus(SumOf(snapshot'.alloc, Stacks), snapshot'.allocDrops) = observed
           /\ used.objects <= MaxI64 /\ used.space <= MaxI64 =>
                 Plus(SumOf(snapshot'.inuse, Stacks), snapshot'.inuseDrops) = used
           /\ SumOf(liveTotals', Stacks) = used
<1>1. PICK admitted \in Admitted :
         snapshot' =
            [alloc      |-> windowAllocations,
             inuse      |-> Shown(admitted \cup Listed(windowAllocations)),
             allocDrops |-> aggregationDrops,
             inuseDrops |-> ToI64(SumOf(Reportable, Stacks \ (admitted \cup Listed(windowAllocations))))]
  BY DEF SnapshotWindow, Shown, Reportable
<1> DEFINE shown == admitted \cup Listed(windowAllocations)
<1>2. shown \subseteq Stacks /\ IsFiniteSet(shown) /\ Cardinality(shown) <= MaxStacks
  BY ShownFit
<1> HIDE DEF shown
<1>3. /\ snapshot'.alloc = windowAllocations /\ snapshot'.allocDrops = aggregationDrops
      /\ snapshot'.inuse = Shown(shown) /\ snapshot'.inuseDrops = ToI64(SumOf(Reportable, Stacks \ shown))
  BY <1>1 DEF shown
<1>4. Cardinality(Listed(snapshot'.alloc) \cup Listed(snapshot'.inuse)) <= MaxStacks
  <2> DEFINE R == Listed(snapshot'.alloc) \cup Listed(snapshot'.inuse)
  <2>1. Listed(Shown(shown)) \subseteq shown
    BY DEF Listed, Shown
  <2>2. R \subseteq shown
    BY <1>3, <2>1 DEF shown
  <2> HIDE DEF R
  <2>3. Cardinality(R) <= Cardinality(shown) /\ Cardinality(R) \in Nat /\ Cardinality(shown) \in Nat
    BY <1>2, <2>2, FS_Subset, FS_CardinalityType
  <2>4. Cardinality(R) <= MaxStacks
    BY <1>2, <2>3, Constants
  <2> QED
    BY <2>4 DEF R
<1>5. observed.objects <= MaxI64 /\ observed.space <= MaxI64 =>
        Plus(SumOf(snapshot'.alloc, Stacks), snapshot'.allocDrops) = observed
  BY <1>3, Zenon DEF WindowAccounted
<1>6. SumOf(liveTotals, Stacks).objects <= MaxI64 /\ SumOf(liveTotals, Stacks).space <= MaxI64 =>
        Plus(SumOf(snapshot'.inuse, Stacks), snapshot'.inuseDrops) = SumOf(liveTotals, Stacks)
  <2>1. liveTotals \in [Stacks -> Totals] /\ shown \in SUBSET Stacks
    BY <1>2 DEF StateTyped
  <2>2. SumOf(liveTotals, Stacks).objects <= MaxI64 /\ SumOf(liveTotals, Stacks).space <= MaxI64 =>
          Plus(SumOf(Shown(shown), Stacks), ToI64(SumOf(Reportable, Stacks \ shown))) = SumOf(liveTotals, Stacks)
    BY <2>1, ShownAndDropped, Zenon DEF Shown, Reportable
  <2> QED
    BY <1>3, <2>2, Zenon
<1>7. SumOf(liveTotals', Stacks) = SumOf(liveTotals, Stacks)
  <2>1. liveTotals' = liveTotals
    BY DEF SnapshotWindow
  <2> QED
    BY <2>1, Zenon
<1> QED
  BY <1>4, <1>5, <1>6, <1>7, Zenon

-----------------------------------------------------------------------------
Books == StateTyped /\ TotalsMatchLive /\ WindowAccounted /\ WithinRoom

LEMMA BooksStart == StateInit => Books
<1>1. StateInit => WithinRoom
  <2> SUFFICES ASSUME StateInit PROVE WithinRoom
    OBVIOUS
  <2>1. Listed(windowAllocations) = {}
    BY DEF StateInit, Listed
  <2> QED
    BY <2>1, FS_EmptySet, Constants DEF WithinRoom
<1> QED
  BY <1>1, TypedStart, TotalsStart, WindowStart DEF Books

LEMMA BooksStep == Books /\ [StateNext]_stateVars => Books'
  BY TypedStep, TotalsStep, WindowStep, RoomStep DEF Books

(* Every behaviour of HeapState keeps its types (heap/state.rs: maps of    *)
(* live allocations and of totals, counters that saturate at i64).         *)
THEOREM StateTypesOK == StateSpec => []StateTyped
<1>1. Books => StateTyped
  BY DEF Books
<1> QED
  BY <1>1, BooksStart, BooksStep, PTL DEF StateSpec

(* live_totals, updated event by event in allocate and remove_live_totals, *)
(* equals what rebuild_live_totals would compute, and the window's totals  *)
(* and drops add up to what allocate was given, while nothing saturates.   *)
THEOREM TotalsAreExact == StateSpec => []TotalsExact
<1>1. Books => TotalsExact
  BY DEF Books, TotalsExact
<1> QED
  BY <1>1, BooksStart, BooksStep, PTL DEF StateSpec

(* snapshot_window_with_drops: at most max_stacks stacks, and what is not  *)
(* among them is in the drop counters.                                     *)
THEOREM SnapshotsAccount == StateSpec => SnapshotAccounted
<1> DEFINE Accounts ==
        SnapshotWindow =>
            LET used == SumOf(liveTotals, Stacks) IN
            /\ Cardinality(Listed(snapshot'.alloc) \cup Listed(snapshot'.inuse)) <= MaxStacks
            /\ observed.objects <= MaxI64 /\ observed.space <= MaxI64 =>
                  Plus(SumOf(snapshot'.alloc, Stacks), snapshot'.allocDrops) = observed
            /\ used.objects <= MaxI64 /\ used.space <= MaxI64 =>
                  Plus(SumOf(snapshot'.inuse, Stacks), snapshot'.inuseDrops) = used
            /\ SumOf(liveTotals', Stacks) = used
<1>1. Books => Accounts
  BY SnapshotStep DEF Books
<1>2. StateSpec => [][Accounts]_stateVars
  <2> HIDE DEF Accounts
  <2> QED
    BY <1>1, BooksStart, BooksStep, PTL DEF StateSpec
<1> QED
  BY <1>2 DEF SnapshotAccounted

-----------------------------------------------------------------------------
(* HeapPipeline.                                                           *)

USE DEF targetVars, threadVars, kernelVars, collectorVars, NoToken

LEMMA Limits ==
    /\ IsFiniteSet(Pointers) /\ NoPointer \notin Pointers
    /\ MaxTokens \in Nat /\ RingCap \in Nat \ {0} /\ QueueCap \in Nat \ {0} /\ LiveCap \in Nat \ {0}
    /\ StackCap \in Nat \ {0} /\ Frames \subseteq {"stack", "broken"}
    /\ Calls \subseteq {"malloc", "nested", "realloc", "shrink", "free"}
  BY PipelineAssumption

-----------------------------------------------------------------------------
(* The shape of a call, and the addresses it holds.                        *)

Kinds == {"malloc", "realloc", "shrink", "free"}

Shape(pc, c) ==
    /\ pc = "run" => c = NoCall
    /\ pc # "run" => c.kind \in Kinds
    /\ pc \in {"forget", "release"} <=> c.kind = "free"
    /\ c.kind = "malloc" => c.old = NoPointer
    /\ c.kind \in {"realloc", "shrink", "free"} => c.old \in Pointers
    /\ c.kind \in {"shrink", "free"} => c.token = NoToken /\ c.ptr = NoPointer
    /\ pc = "allocate" => c.ptr = NoPointer
    /\ c.tracked => c.old \in Pointers
    /\ pc = "untrack" => c.tracked /\ ReallocSucceeded(c)
    /\ pc \in {"track", "announce"} => Tracks(c)

HeldBy(pc, c) ==
    (IF pc # "allocate" /\ Moved(c) THEN {c.ptr} ELSE {c.ptr, c.old}) \ {NoPointer}
Held(t) == HeldBy(tpc[t], call[t])

Shapes == \A t \in Threads : Shape(tpc[t], call[t])
Separate ==
    /\ \A t \in Threads : Held(t) \cap (owned \cup available) = {}
    /\ \A t, u \in Threads : t # u => Held(t) \cap Held(u) = {}

LEMMA NothingHeld == HeldBy("run", NoCall) = {} /\ Shape("run", NoCall) /\ NoCall \in CallRecords
  BY DEF HeldBy, Shape, NoCall, Call, Moved, Tracks, Kinds, CallRecords

LEMMA HeldPointers ==
    ASSUME NEW c \in CallRecords, NEW pc
    PROVE  HeldBy(pc, c) \subseteq Pointers
  BY DEF HeldBy, CallRecords

Owners ==
    /\ owned \subseteq Pointers /\ available \subseteq Pointers \ owned
    /\ tpc \in [Threads -> Labels] /\ call \in [Threads -> CallRecords]
    /\ Shapes /\ Separate

(* What one thread does to the owners of addresses.                        *)
LEMMA Regrouped ==
    ASSUME Owners, NEW t \in Threads, NEW pc \in Labels, NEW c \in CallRecords,
           tpc' = [tpc EXCEPT ![t] = pc], call' = [call EXCEPT ![t] = c], Shape(pc, c),
           HeldBy(pc, c) \cup owned' \cup available' \subseteq Held(t) \cup owned \cup available,
           HeldBy(pc, c) \cap (owned' \cup available') = {}, owned' \cap available' = {}
    PROVE  Owners'
<1>1. tpc' \in [Threads -> Labels] /\ call' \in [Threads -> CallRecords]
  BY DEF Owners
<1>2. /\ tpc'[t] = pc /\ call'[t] = c
      /\ \A u \in Threads \ {t} : tpc'[u] = tpc[u] /\ call'[u] = call[u]
  BY DEF Owners
<1>3. Shapes'
  BY <1>2 DEF Shapes, Owners
<1>4. Held(t)' = HeldBy(pc, c) /\ \A u \in Threads \ {t} : Held(u)' = Held(u)
  BY <1>2 DEF Held
<1>5. Separate'
  <2>1. \A u \in Threads \ {t} : Held(u)' \cap (owned' \cup available') = {}
    BY <1>4 DEF Separate, Owners
  <2>2. \A u \in Threads \ {t} : Held(u)' \cap Held(t)' = {}
    BY <1>4 DEF Separate, Owners
  <2>3. \A u, v \in Threads \ {t} : u # v => Held(u)' \cap Held(v)' = {}
    BY <1>4 DEF Separate, Owners
  <2> QED
    BY <1>4, <2>1, <2>2, <2>3 DEF Separate
<1>6. owned' \subseteq Pointers /\ available' \subseteq Pointers \ owned'
  <2>1. Held(t) \subseteq Pointers
    BY HeldPointers DEF Held, Owners
  <2> QED
    BY <2>1 DEF Owners
<1> QED
  BY <1>1, <1>3, <1>5, <1>6 DEF Owners

(* A step that only moves the thread on.                                   *)
LEMMA MovedOn ==
    ASSUME Owners, NEW t \in Threads, NEW pc \in Labels, Goto(t, pc), UNCHANGED <<call, owned, available>>,
           Shape(pc, call[t]), tpc[t] # "allocate", pc # "allocate"
    PROVE  Owners'
<1>1. tpc' = [tpc EXCEPT ![t] = pc] /\ call' = [call EXCEPT ![t] = call[t]] /\ call[t] \in CallRecords
  BY DEF Goto, Owners
<1>2. HeldBy(pc, call[t]) = Held(t)
  BY DEF Held, HeldBy
<1>3. HeldBy(pc, call[t]) \cap (owned \cup available) = {} /\ owned \cap available = {}
  BY <1>2 DEF Owners, Separate
<1>4. owned' = owned /\ available' = available
  OBVIOUS
<1> QED
  BY <1>1, <1>2, <1>3, <1>4, Regrouped

(* The end of a call.                                                      *)
LEMMA Delivered ==
    ASSUME Owners, NEW t \in Threads, Deliver(t), UNCHANGED available, tpc[t] # "allocate"
    PROVE  Owners'
<1>1. tpc' = [tpc EXCEPT ![t] = "run"] /\ call' = [call EXCEPT ![t] = NoCall] /\ "run" \in Labels
  BY DEF Deliver, Goto, Labels
<1>2. owned' = owned \cup Held(t)
  BY DEF Deliver, Held, HeldBy
<1>3. HeldBy("run", NoCall) = {} /\ Shape("run", NoCall) /\ NoCall \in CallRecords
  BY NothingHeld
<1>4. Held(t) \cap available = {} /\ owned \cap available = {}
  BY DEF Owners, Separate
<1> QED
  BY <1>1, <1>2, <1>3, <1>4, Regrouped

LEMMA Entered ==
    ASSUME Owners, NEW t \in Threads, MallocEnter(t) \/ ReallocEnter(t)
    PROVE  \E kind \in {"malloc", "realloc", "shrink"}, old \in {NoPointer} \cup owned :
              /\ Begin(t, kind, old) /\ Goto(t, "allocate") /\ tpc[t] = "run"
              /\ kind \in Calls
              /\ owned' = owned \ {old} /\ UNCHANGED <<available, sampled, liveSamples>>
              /\ kind = "malloc" <=> old = NoPointer
<1>1. CASE MallocEnter(t)
  <2>1. owned = owned \ {NoPointer}
    BY Limits DEF Owners
  <2> QED
    BY <1>1, <2>1 DEF MallocEnter
<1>2. CASE ReallocEnter(t)
  <2>1. NoPointer \notin owned
    BY Limits DEF Owners
  <2> QED
    BY <1>2, <2>1 DEF ReallocEnter
<1> QED
  BY <1>1, <1>2

LEMMA OwnersEnter ==
    ASSUME Owners, nextToken \in 0..MaxTokens, NEW t \in Threads, MallocEnter(t) \/ ReallocEnter(t)
    PROVE  Owners'
<1>2. PICK kind \in {"malloc", "realloc", "shrink"}, old \in {NoPointer} \cup owned :
         /\ Begin(t, kind, old) /\ Goto(t, "allocate") /\ tpc[t] = "run"
         /\ owned' = owned \ {old} /\ UNCHANGED available
         /\ kind = "malloc" <=> old = NoPointer
  BY Entered
<1>3. PICK token \in Tokens \cup {NoToken} :
         /\ call' = [call EXCEPT ![t] = Call(kind, token, old, OldTracked(old))]
         /\ kind = "shrink" => token = NoToken
  <2>1. nextToken < MaxTokens => nextToken + 1 \in Tokens
    BY Limits DEF Tokens
  <2> QED
    BY <1>2, <2>1, Zenon DEF Begin, Unsampled, Sampled
<1> DEFINE c == Call(kind, token, old, OldTracked(old))
<1>4. /\ c.kind = kind /\ c.old = old /\ c.token = token /\ c.ptr = NoPointer
      /\ c.tracked = OldTracked(old) /\ OldTracked(old) \in BOOLEAN
      /\ c \in CallRecords /\ old \in Pointers \cup {NoPointer}
  <2>1. old \in Pointers \cup {NoPointer}
    BY DEF Owners
  <2>2. OldTracked(old) \in BOOLEAN
    BY DEF OldTracked
  <2> QED
    BY <2>1, <2>2 DEF Call, CallRecords
<1>5. OldTracked(old) => old \in Pointers
  BY DEF OldTracked, Keys
<1> HIDE DEF c
<1>6. Shape("allocate", c)
  <2>1. c.kind \in {"realloc", "shrink"} => c.old \in Pointers
    BY <1>2, <1>4
  <2>2. c.tracked => c.old \in Pointers
    BY <1>4, <1>5, Zenon
  <2>3. c.kind = "shrink" => c.token = NoToken
    BY <1>3, <1>4
  <2>4. c.kind \in Kinds \ {"free"} /\ (c.kind = "malloc" => c.old = NoPointer) /\ c.ptr = NoPointer
    BY <1>2, <1>4 DEF Kinds
  <2> QED
    BY <2>1, <2>2, <2>3, <2>4 DEF Shape, Kinds
<1>7. HeldBy("allocate", c) = {old} \ {NoPointer} /\ Held(t) = {}
  <2>1. call[t] = NoCall
    BY <1>2 DEF Owners, Shapes, Shape
  <2> QED
    BY <1>2, <1>4, <2>1, NothingHeld DEF HeldBy, Held
<1>8. old # NoPointer => old \in owned /\ old \notin available
  BY DEF Owners
<1>9. tpc' = [tpc EXCEPT ![t] = "allocate"] /\ call' = [call EXCEPT ![t] = c] /\ "allocate" \in Labels
  <2>1. call' = [call EXCEPT ![t] = c]
    BY <1>3, Zenon DEF c
  <2> QED
    BY <1>2, <2>1 DEF Goto, Labels
<1>10. /\ HeldBy("allocate", c) \cup owned' \cup available' \subseteq Held(t) \cup owned \cup available
       /\ HeldBy("allocate", c) \cap (owned' \cup available') = {} /\ owned' \cap available' = {}
  BY <1>2, <1>7, <1>8 DEF Owners
<1> QED
  BY <1>4, <1>6, <1>9, <1>10, Regrouped

(* The inner call of a malloc holds no address, like the outer one.        *)
LEMMA OwnersNested ==
    ASSUME Owners, nextToken \in 0..MaxTokens, NEW t \in Threads, NestedEnter(t)
    PROVE  Owners'
<1> DEFINE c == Call("malloc", nextToken + 1, NoPointer, OldTracked(NoPointer))
<1>1. /\ tpc[t] = "allocate" /\ call[t].kind = "malloc" /\ nextToken < MaxTokens
      /\ UNCHANGED <<owned, available, tpc>> /\ call' = [call EXCEPT ![t] = c]
  BY DEF NestedEnter, Sampled
<1>2. nextToken + 1 \in Tokens
  BY <1>1, Limits DEF Tokens
<1>3. OldTracked(NoPointer) = FALSE
  BY Limits DEF OldTracked, Keys
<1>4. /\ c \in CallRecords /\ c.kind = "malloc" /\ c.old = NoPointer /\ c.ptr = NoPointer /\ ~c.tracked
  BY <1>2, <1>3 DEF Call, CallRecords
<1>5. tpc' = [tpc EXCEPT ![t] = "allocate"] /\ "allocate" \in Labels
  BY <1>1 DEF Owners, Labels
<1> HIDE DEF c
<1>6. Shape("allocate", c) /\ HeldBy("allocate", c) = {}
  BY <1>4 DEF Shape, Kinds, HeldBy
<1>7. owned \cap available = {}
  BY DEF Owners
<1> QED
  BY <1>1, <1>4, <1>5, <1>6, <1>7, Regrouped

-----------------------------------------------------------------------------
(* What a queue of events does to the collector.                           *)

StackSets == {w \in SUBSET Tokens : Cardinality(w) <= StackCap}
Knowns    == [stacks : StackSets, live : Tracked, failures : Nat]
Result(k, q) == FoldLeft(ApplyEvent, k, q)

LEMMA KnownFields ==
    ASSUME NEW k \in Knowns
    PROVE  /\ k.stacks \in SUBSET Tokens /\ k.live \in [Pointers -> Tokens \cup {NoToken}] /\ k.failures \in Nat
           /\ k.stacks \in StackSets
           /\ k = [stacks |-> k.stacks, live |-> k.live, failures |-> k.failures]
  BY DEF Knowns, Tracked, StackSets

LEMMA TokenSets ==
    ASSUME NEW w \in SUBSET Tokens
    PROVE  IsFiniteSet(w) /\ Cardinality(w) \in Nat
<1>1. IsFiniteSet(Tokens)
  BY Limits, FS_Interval DEF Tokens
<1> QED
  BY <1>1, FS_Subset, FS_CardinalityType

(* One stack too many, and the least token goes: no token is below it.     *)
LEMMA NewerFits ==
    ASSUME NEW w \in SUBSET Tokens, Cardinality(w) = StackCap + 1
    PROVE  Newer(w) \in StackSets /\ Newer(w) \subseteq w
<1>1. w # {} /\ w \in SUBSET Nat
  <2>1. Cardinality({}) = 0
    BY FS_EmptySet
  <2> QED
    BY <2>1, Limits DEF Tokens
<1>2. PICK n \in w : \A m \in w : n <= m
  BY <1>1, LeastNumber
<1>3. Newer(w) \subseteq w \ {n}
  <2> DEFINE Below(x) == {m \in w : m < x}
      half == Cardinality(w) \div 2
  <2>1. Below(n) = {}
    <3>1. ASSUME NEW m \in w PROVE ~(m < n)
      BY <1>1, <1>2
    <3> QED
      BY <3>1
  <2>2. Cardinality(Below(n)) = 0
    <3> HIDE DEF Below
    <3> QED
      BY <2>1, FS_EmptySet
  <2>3. half \in Nat /\ half >= 1
    <3>1. PICK c \in Nat : c = Cardinality(w)
      BY TokenSets
    <3>2. c >= 2
      BY <3>1, Limits
    <3>3. c \div 2 \in Nat /\ c \div 2 >= 1
      BY <3>2
    <3> QED
      BY <3>1, <3>3
  <2>4. Newer(w) = {x \in w : Cardinality(Below(x)) >= half}
    BY DEF Newer
  <2> HIDE DEF Below, half
  <2>5. ~(Cardinality(Below(n)) >= half)
    BY <2>2, <2>3
  <2> QED
    BY <2>4, <2>5
<1>4. Cardinality(Newer(w)) <= Cardinality(w \ {n}) /\ Cardinality(w \ {n}) = Cardinality(w) - 1
  <2>1. IsFiniteSet(w) /\ IsFiniteSet(w \ {n})
    BY TokenSets
  <2> QED
    BY <1>2, <1>3, <2>1, FS_Subset, FS_RemoveElement
<1>5. Cardinality(Newer(w)) \in Nat /\ Cardinality(w \ {n}) \in Nat
  <2>1. Newer(w) \in SUBSET Tokens /\ w \ {n} \in SUBSET Tokens
    BY <1>3
  <2> QED
    BY <2>1, TokenSets
<1>6. Cardinality(Newer(w)) <= StackCap
  BY <1>4, <1>5, Limits
<1> QED
  BY <1>3, <1>6 DEF StackSets

(* A stack either waits for its allocation or is counted as a failure.     *)
Waits(k, n) == n \in k.stacks \/ k.failures > 0

LEMMA StackApplied ==
    ASSUME NEW k \in Knowns, NEW token \in Tokens
    PROVE  /\ ApplyStack(k, token) \in Knowns
           /\ ApplyStack(k, token).live = k.live /\ ApplyStack(k, token).failures >= k.failures
           /\ \A n \in k.stacks \cup {token} : Waits(ApplyStack(k, token), n)
<1> DEFINE all  == k.stacks \cup {token}
           kept == IF Cardinality(all) > StackCap THEN Newer(all) ELSE all
           gone == Cardinality(all \ kept)
<1>1. /\ k.stacks \in StackSets /\ all \in SUBSET Tokens /\ k.failures \in Nat /\ k.live \in Tracked
      /\ k = [stacks |-> k.stacks, live |-> k.live, failures |-> k.failures]
  BY KnownFields DEF Tracked
<1>2. ApplyStack(k, token) = [stacks |-> kept, live |-> k.live, failures |-> k.failures + gone]
  <2>1. ApplyStack(k, token) = [k EXCEPT !.stacks = kept, !.failures = @ + gone]
    BY DEF ApplyStack
  <2> HIDE DEF kept, gone
  <2> QED
    BY <1>1, <2>1
<1> HIDE DEF all
<1>3. kept \in StackSets /\ kept \subseteq all
  <2>1. CASE Cardinality(all) > StackCap
    <3>1. Cardinality(all) <= StackCap + 1
      <4>1. CASE token \in k.stacks
        <5>1. all = k.stacks
          BY <4>1 DEF all
        <5> QED
          BY <1>1, <5>1, Limits, TokenSets DEF StackSets
      <4>2. CASE token \notin k.stacks
        <5>1. Cardinality(k.stacks \cup {token}) = Cardinality(k.stacks) + 1
          BY <1>1, <4>2, TokenSets, FS_AddElement DEF StackSets
        <5>2. Cardinality(k.stacks) \in Nat /\ Cardinality(k.stacks) <= StackCap
          BY <1>1, TokenSets DEF StackSets
        <5> QED
          BY <5>1, <5>2, Limits DEF all
      <4> QED
        BY <4>1, <4>2
    <3>2. Cardinality(all) = StackCap + 1
      BY <1>1, <2>1, <3>1, TokenSets, Limits
    <3> QED
      BY <1>1, <2>1, <3>2, NewerFits
  <2>2. CASE ~(Cardinality(all) > StackCap)
    BY <1>1, <2>2, TokenSets, Limits DEF StackSets
  <2> QED
    BY <2>1, <2>2
<1> HIDE DEF kept
<1>4. gone \in Nat /\ (all \ kept # {} => gone > 0)
  <2>1. all \ kept \in SUBSET Tokens
    BY <1>1
  <2>2. IsFiniteSet(all \ kept) /\ gone \in Nat
    BY <2>1, TokenSets
  <2>3. gone = 0 => all \ kept = {}
    BY <2>2, FS_EmptySet
  <2> QED
    BY <2>2, <2>3
<1> HIDE DEF gone
<1>5. ApplyStack(k, token) \in Knowns
  BY <1>1, <1>2, <1>3, <1>4 DEF Knowns
<1>6. ASSUME NEW n \in all
      PROVE  Waits(ApplyStack(k, token), n)
  BY <1>1, <1>2, <1>4 DEF Waits
<1> QED
  BY <1>1, <1>2, <1>4, <1>5, <1>6 DEF all

LEMMA EventApplied ==
    ASSUME NEW k \in Knowns, NEW e \in Events
    PROVE  /\ ApplyEvent(k, e) \in Knowns /\ ApplyEvent(k, e).failures >= k.failures
           /\ e.kind \in {"stack", "broken"} =>
                /\ ApplyEvent(k, e).live = k.live
                /\ \A n \in k.stacks \cup {e.token} : Waits(ApplyEvent(k, e), n)
           /\ e.kind = "free" => ApplyEvent(k, e) =
                [stacks |-> k.stacks, live |-> [k.live EXCEPT ![e.ptr] = NoToken], failures |-> k.failures]
           /\ e.kind = "alloc" /\ e.token \in k.stacks => ApplyEvent(k, e) =
                [stacks   |-> k.stacks \ {e.token}, live |-> [k.live EXCEPT ![e.ptr] = e.token],
                 failures |-> k.failures]
           /\ e.kind = "alloc" /\ e.token \notin k.stacks => ApplyEvent(k, e) =
                [stacks |-> k.stacks, live |-> k.live, failures |-> k.failures + 1]
<1>1. /\ k.stacks \in SUBSET Tokens /\ k.live \in [Pointers -> Tokens \cup {NoToken}] /\ k.failures \in Nat
      /\ k.stacks \in StackSets
      /\ k = [stacks |-> k.stacks, live |-> k.live, failures |-> k.failures]
  BY KnownFields
<1>2. e.kind \in {"stack", "broken", "alloc", "free"} /\ e.token \in Tokens
  BY DEF Events
<1>3. CASE e.kind = "stack"
  <2>1. ApplyEvent(k, e) = ApplyStack(k, e.token)
    BY <1>3 DEF ApplyEvent
  <2> QED
    BY <1>2, <1>3, <2>1, StackApplied
<1>7. CASE e.kind = "broken"
  <2>1. ApplyEvent(k, e) = [stacks |-> k.stacks, live |-> k.live, failures |-> k.failures + 1]
    BY <1>1, <1>7 DEF ApplyEvent
  <2> QED
    BY <1>1, <1>7, <2>1 DEF Knowns, Tracked, Waits
<1>4. CASE e.kind = "free"
  <2>1. ApplyEvent(k, e) =
          [stacks |-> k.stacks, live |-> [k.live EXCEPT ![e.ptr] = NoToken], failures |-> k.failures]
    BY <1>1, <1>4 DEF ApplyEvent
  <2>2. [k.live EXCEPT ![e.ptr] = NoToken] \in [Pointers -> Tokens \cup {NoToken}]
    BY <1>1
  <2> HIDE DEF NoToken
  <2>3. ApplyEvent(k, e) \in Knowns
    BY <1>1, <2>1, <2>2 DEF Knowns, Tracked
  <2> QED
    BY <1>1, <1>4, <2>1, <2>3
<1>5. CASE e.kind = "alloc" /\ e.token \in k.stacks
  <2>1. ApplyEvent(k, e) =
          [stacks   |-> k.stacks \ {e.token}, live |-> [k.live EXCEPT ![e.ptr] = e.token],
           failures |-> k.failures]
    BY <1>1, <1>5 DEF ApplyEvent
  <2>2. [k.live EXCEPT ![e.ptr] = e.token] \in [Pointers -> Tokens \cup {NoToken}]
    BY <1>1, <1>2
  <2>3. k.stacks \ {e.token} \in StackSets
    <3>1. IsFiniteSet(k.stacks) /\ Cardinality(k.stacks) \in Nat /\ Cardinality(k.stacks) <= StackCap
      BY <1>1, TokenSets DEF StackSets
    <3>2. Cardinality(k.stacks \ {e.token}) = Cardinality(k.stacks) - 1
      BY <1>5, <3>1, FS_RemoveElement
    <3> QED
      BY <1>1, <3>1, <3>2, Limits DEF StackSets
  <2>4. ApplyEvent(k, e) \in Knowns
    BY <1>1, <2>1, <2>2, <2>3 DEF Knowns, Tracked
  <2> QED
    BY <1>1, <1>5, <2>1, <2>4
<1>6. CASE e.kind = "alloc" /\ e.token \notin k.stacks
  <2>1. ApplyEvent(k, e) = [stacks |-> k.stacks, live |-> k.live, failures |-> k.failures + 1]
    BY <1>1, <1>6 DEF ApplyEvent
  <2> QED
    BY <1>1, <1>6, <2>1 DEF Knowns, Tracked
<1> QED
  BY <1>2, <1>3, <1>4, <1>5, <1>6, <1>7

(* The values that FoldLeft goes through.                                  *)
Path(p, k, q) ==
    /\ p \in [0..Len(q) -> Knowns] /\ p[0] = k
    /\ \A i \in 1..Len(q) : p[i] = ApplyEvent(p[i - 1], q[i])

LEMMA Folded ==
    ASSUME NEW k \in Knowns, NEW q \in Seq(Events)
    PROVE  \E p : Path(p, k, q) /\ p[Len(q)] = Result(k, q)
<1> DEFINE n == Len(q)
    F(g) == [s \in SUBSET (DOMAIN q) |-> IF s = {} THEN k ELSE ApplyEvent(g[s \ {Max(s)}], q[Max(s)])]
    iter == CHOOSE g : g = F(g)
    step == [ke \in Knowns \X Events |-> ApplyEvent(ke[1], ke[2])]
<1>1. n \in Nat /\ DOMAIN q = 1..n /\ q \in [1..n -> Events]
  OBVIOUS
<1>2. Result(k, q) = iter[DOMAIN q]
  BY DEF Result, FoldLeft, MapThenFoldSet
<1>3. step \in [Knowns \X Events -> Knowns]
  <2>1. \A ke \in Knowns \X Events : ApplyEvent(ke[1], ke[2]) \in Knowns
    BY EventApplied
  <2> QED
    BY <2>1
<1>4. PICK f \in [SUBSET (1..n) -> Knowns] :
         f = [s \in SUBSET (1..n) |-> IF s = {} THEN k ELSE step[<<f[s \ {Max(s)}], q[Max(s)]>>]]
  <2> DEFINE C == Knowns
      E == Events
  <2>1. k \in C /\ n \in Nat /\ q \in [1..n -> E] /\ step \in [C \X E -> C]
    BY <1>1, <1>3
  <2> HIDE DEF step, n, C, E
  <2>2. \E f \in [SUBSET (1..n) -> C] : Iterates(f, step, k, n, q)
    BY <2>1, IndexRecursion
  <2> QED
    BY <2>2 DEF C, Iterates
<1>5. f = F(f)
  <2>1. ASSUME NEW s \in SUBSET (1..n), s # {}
        PROVE  step[<<f[s \ {Max(s)}], q[Max(s)]>>] = ApplyEvent(f[s \ {Max(s)}], q[Max(s)])
    <3>1. Max(s) \in s
      BY <1>1, <2>1, MaxIs
    <3>2. s \ {Max(s)} \in SUBSET (1..n) /\ Max(s) \in 1..n
      BY <3>1
    <3>3. f[s \ {Max(s)}] \in Knowns /\ q[Max(s)] \in Events
      BY <1>1, <3>2
    <3>4. <<f[s \ {Max(s)}], q[Max(s)]>> \in Knowns \X Events
      BY <3>3
    <3> QED
      BY <3>4
  <2>2. \A s \in SUBSET (1..n) : f[s] = IF s = {} THEN k ELSE ApplyEvent(f[s \ {Max(s)}], q[Max(s)])
    <3> HIDE DEF step
    <3> QED
      BY <1>4, <2>1
  <2>3. f = [s \in SUBSET (1..n) |-> f[s]]
    OBVIOUS
  <2>4. f = [s \in SUBSET (1..n) |-> IF s = {} THEN k ELSE ApplyEvent(f[s \ {Max(s)}], q[Max(s)])]
    BY <2>2, <2>3
  <2> QED
    BY <1>1, <2>4
<1> HIDE DEF F
<1>6. iter = F(iter)
  BY <1>5
<1> HIDE DEF iter
<1>7. iter = [s \in SUBSET (1..n) |-> IF s = {} THEN k ELSE ApplyEvent(iter[s \ {Max(s)}], q[Max(s)])]
  BY <1>1, <1>6 DEF F
<1> DEFINE p == [i \in 0..n |-> iter[1..i]]
<1>8. /\ p[0] = k /\ \A i \in 1..n : p[i] = ApplyEvent(p[i - 1], q[i])
      /\ p[n] = iter[1..n]
  <2>1. 1..0 = {} /\ 1..0 \in SUBSET (1..n) /\ 0 \in 0..n /\ n \in 0..n
    OBVIOUS
  <2>2. p[0] = k
    BY <1>7, <2>1
  <2>3. ASSUME NEW i \in 1..n
        PROVE  p[i] = ApplyEvent(p[i - 1], q[i])
    <3>1. i \in Nat /\ i >= 1 /\ i \in 0..n /\ i - 1 \in 0..n
      OBVIOUS
    <3>3. 1..i \in SUBSET (1..n) /\ 1..i # {} /\ (1..i) \ {i} = 1..(i - 1) /\ Max(1..i) = i
      <4> HIDE DEF n
      <4> QED
        BY <1>1, Initials
    <3>4. iter[1..i] = ApplyEvent(iter[(1..i) \ {i}], q[i])
      BY <1>7, <3>3
    <3> QED
      BY <3>1, <3>3, <3>4
  <2> QED
    BY <2>1, <2>2, <2>3
<1> HIDE DEF p, n
<1>9. p \in [0..n -> Knowns]
  <2> DEFINE T == {i \in 0..n : p[i] \in Knowns}
  <2>1. 0 \in T
    BY <1>1, <1>8
  <2>2. ASSUME NEW i \in 0..n, i \in T, i < n
        PROVE  i + 1 \in T
    <3>1. i + 1 \in 1..n /\ (i + 1) - 1 = i /\ q[i + 1] \in Events
      BY <1>1, <2>2
    <3>2. p[i + 1] = ApplyEvent(p[i], q[i + 1]) /\ p[i] \in Knowns
      BY <1>8, <2>2, <3>1
    <3> QED
      BY <1>1, <3>1, <3>2, EventApplied
  <2>3. \A i \in 0..n : i \in T
    <3> HIDE DEF T
    <3> QED
      BY <1>1, <2>1, <2>2, BoundedInduction
  <2>4. p = [i \in 0..n |-> p[i]]
    BY DEF p
  <2> QED
    BY <2>3, <2>4
<1> QED
  BY <1>1, <1>2, <1>8, <1>9 DEF Path, n

LEMMA ResultType ==
    ASSUME NEW k \in Knowns, NEW q \in Seq(Events)
    PROVE  Result(k, q) \in Knowns /\ Result(k, <<>>) = k
<1>1. PICK p : Path(p, k, q) /\ p[Len(q)] = Result(k, q)
  BY Folded
<1>2. Len(q) \in 0..Len(q)
  OBVIOUS
<1>3. Result(k, q) \in Knowns
  BY <1>1, <1>2 DEF Path
<1>4. <<>> \in Seq(Events) /\ Len(<<>>) = 0
  OBVIOUS
<1>5. PICK r : Path(r, k, <<>>) /\ r[Len(<<>>)] = Result(k, <<>>)
  BY <1>4, Folded
<1> QED
  BY <1>3, <1>4, <1>5 DEF Path

(* One event more.                                                         *)
LEMMA ResultAppend ==
    ASSUME NEW k \in Knowns, NEW q \in Seq(Events), NEW e \in Events
    PROVE  Result(k, Append(q, e)) = ApplyEvent(Result(k, q), e)
<1> DEFINE n == Len(q)
    b == Append(q, e)
<1>1. /\ b \in Seq(Events) /\ Len(b) = n + 1 /\ n \in Nat /\ b[n + 1] = e
      /\ \A i \in 1..n : b[i] = q[i]
  OBVIOUS
<1> HIDE DEF b
<1>2. PICK p : Path(p, k, q) /\ p[n] = Result(k, q)
  BY Folded
<1>3. PICK r : Path(r, k, b) /\ r[n + 1] = Result(k, b)
  BY <1>1, Folded
<1> HIDE DEF n
<1>4. \A i \in 0..n : p[i] = r[i]
  <2> DEFINE T == {i \in 0..n : p[i] = r[i]}
  <2>1. 0 \in T
    BY <1>1, <1>2, <1>3 DEF Path
  <2>2. ASSUME NEW i \in 0..n, i \in T, i < n
        PROVE  i + 1 \in T
    <3>1. i + 1 \in 1..n /\ i + 1 \in 1..(n + 1) /\ (i + 1) - 1 = i
      BY <1>1, <2>2
    <3>2. p[i + 1] = ApplyEvent(p[i], q[i + 1])
      BY <1>2, <3>1 DEF Path, n
    <3>3. r[i + 1] = ApplyEvent(r[i], b[i + 1])
      BY <1>1, <1>3, <3>1 DEF Path
    <3> QED
      BY <1>1, <2>2, <3>1, <3>2, <3>3
  <2>3. \A i \in 0..n : i \in T
    <3> HIDE DEF T
    <3> QED
      BY <1>1, <2>1, <2>2, BoundedInduction
  <2> QED
    BY <2>3
<1>5. r[n + 1] = ApplyEvent(r[n], e)
  <2>1. n + 1 \in 1..(n + 1) /\ (n + 1) - 1 = n
    BY <1>1
  <2> QED
    BY <1>1, <1>3, <2>1 DEF Path
<1>6. n \in 0..n
  BY <1>1
<1>7. Result(k, b) = ApplyEvent(Result(k, q), e)
  BY <1>2, <1>3, <1>4, <1>5, <1>6
<1> QED
  BY <1>7 DEF b

-----------------------------------------------------------------------------
(* Every step keeps the owners apart.                                      *)

LEMMA OwnersAllocate ==
    ASSUME Owners, NEW t \in Threads, Allocate(t)
    PROVE  Owners'
<1> DEFINE o == call[t]
    released == {o.old} \ {NoPointer}
<1>1. /\ o \in CallRecords /\ Shape("allocate", o) /\ o.ptr = NoPointer /\ Held(t) = released
      /\ tpc[t] = "allocate"
  <2>1. tpc[t] = "allocate"
    BY DEF Allocate
  <2>2. o \in CallRecords /\ Shape("allocate", o) /\ o.ptr = NoPointer
    BY <2>1 DEF Owners, Shapes, Shape
  <2> QED
    BY <2>1, <2>2 DEF Held, HeldBy
<1>2. /\ tpc' = [tpc EXCEPT ![t] = "return"] /\ "return" \in Labels /\ owned' = owned
  BY DEF Allocate, Goto, Labels
<1>3. released \cap (owned \cup available) = {} /\ owned \cap available = {}
  BY <1>1 DEF Owners, Separate
<1>4. CASE UNCHANGED <<available, sampled, call>> /\ o.kind # "shrink"
  <2>1. Shape("return", o)
    BY <1>1 DEF Shape
  <2>2. HeldBy("return", o) = released
    BY <1>1, <1>4 DEF HeldBy, Moved
  <2>3. call' = [call EXCEPT ![t] = o] /\ available' = available
    BY <1>4 DEF Owners
  <2> QED
    BY <1>1, <1>2, <1>3, <2>1, <2>2, <2>3, Regrouped
<1>5. CASE o.kind = "shrink" /\ available' = available \cup released /\ UNCHANGED call
  <2>1. Shape("return", o)
    BY <1>1 DEF Shape
  <2>2. HeldBy("return", o) = {}
    BY <1>1, <1>5 DEF HeldBy, Moved
  <2>3. call' = [call EXCEPT ![t] = o] /\ available' = available \cup released
    BY <1>5 DEF Owners
  <2> QED
    BY <1>1, <1>2, <1>3, <2>1, <2>2, <2>3, Regrouped
<1>6. ASSUME NEW p \in available \cup released, o.kind # "shrink",
             available' = (available \cup released) \ {p}, call' = [call EXCEPT ![t].ptr = p]
      PROVE  Owners'
  <2> DEFINE c == [o EXCEPT !.ptr = p]
  <2>0. p \in Pointers /\ p # NoPointer
    BY <1>1, <1>6, Limits DEF Owners, CallRecords
  <2>1. call' = [call EXCEPT ![t] = c]
    BY <1>6 DEF Owners
  <2>2. /\ c \in CallRecords /\ c.kind = o.kind /\ c.old = o.old /\ c.ptr = p /\ c.token = o.token
        /\ c.tracked = o.tracked
    BY <1>1, <2>0 DEF CallRecords
  <2> HIDE DEF c
  <2>3. o.kind # "free"
    BY <1>1 DEF Shape
  <2>4. Shape("return", c)
    BY <1>1, <1>6, <2>2, <2>3 DEF Shape
  <2>5. HeldBy("return", c) = {p}
    <3>1. CASE o.kind = "realloc"
      BY <2>0, <2>2, <3>1 DEF HeldBy, Moved
    <3>2. CASE o.kind = "malloc"
      <4>1. o.old = NoPointer
        BY <1>1, <3>2 DEF Shape
      <4> QED
        BY <2>0, <2>2, <3>2, <4>1 DEF HeldBy, Moved
    <3>3. o.kind \in {"malloc", "realloc"}
      BY <1>1, <1>6, <2>3 DEF Shape, Kinds
    <3> QED
      BY <3>1, <3>2, <3>3
  <2>6. /\ {p} \cup owned' \cup available' \subseteq Held(t) \cup owned \cup available
        /\ {p} \cap (owned' \cup available') = {} /\ owned' \cap available' = {}
    BY <1>1, <1>2, <1>3, <1>6
  <2> QED
    BY <1>2, <2>1, <2>2, <2>4, <2>5, <2>6, Regrouped
<1>7. \/ UNCHANGED <<available, sampled, call>> /\ o.kind # "shrink"
      \/ o.kind = "shrink" /\ available' = available \cup released /\ UNCHANGED call
      \/ o.kind # "shrink" /\ \E p \in available \cup released :
            available' = (available \cup released) \ {p} /\ call' = [call EXCEPT ![t].ptr = p]
  BY DEF Allocate
<1> QED
  BY <1>4, <1>5, <1>6, <1>7

LEMMA OwnersReturn ==
    ASSUME Owners, NEW t \in Threads, Return(t)
    PROVE  Owners'
<1>1. tpc[t] = "return" /\ UNCHANGED available /\ Shape("return", call[t])
  BY DEF Return, Owners, Shapes
<1>2. CASE Goto(t, "untrack") /\ UNCHANGED <<owned, call>> /\ call[t].tracked /\ ReallocSucceeded(call[t])
  <2>1. Shape("untrack", call[t]) /\ "untrack" \in Labels
    BY <1>1, <1>2 DEF Shape, Labels
  <2> QED
    BY <1>1, <1>2, <2>1, MovedOn
<1>3. CASE Goto(t, "track") /\ UNCHANGED <<owned, call>> /\ Tracks(call[t])
  <2>1. Shape("track", call[t]) /\ "track" \in Labels
    BY <1>1, <1>3 DEF Shape, Labels
  <2> QED
    BY <1>1, <1>3, <2>1, MovedOn
<1>4. CASE Deliver(t)
  BY <1>1, <1>4, Delivered
<1> QED
  BY <1>2, <1>3, <1>4 DEF Return

LEMMA OwnersUntrack ==
    ASSUME Owners, NEW t \in Threads, Untrack(t)
    PROVE  Owners'
<1>1. tpc[t] = "untrack" /\ UNCHANGED available /\ Shape("untrack", call[t])
  BY DEF Untrack, Owners, Shapes
<1>2. CASE Goto(t, "track") /\ UNCHANGED <<owned, call>> /\ Tracks(call[t])
  <2>1. Shape("track", call[t]) /\ "track" \in Labels
    BY <1>1, <1>2 DEF Shape, Labels
  <2> QED
    BY <1>1, <1>2, <2>1, MovedOn
<1>3. CASE Deliver(t)
  BY <1>1, <1>3, Delivered
<1> QED
  BY <1>2, <1>3 DEF Untrack

LEMMA OwnersFree ==
    ASSUME Owners, NEW t \in Threads, FreeEnter(t)
    PROVE  Owners'
<1>1. PICK p \in owned :
         /\ owned' = owned \ {p} /\ call' = [call EXCEPT ![t] = Call("free", NoToken, p, FALSE)]
         /\ Goto(t, "forget") \/ Goto(t, "release")
  BY DEF FreeEnter
<1> DEFINE c == Call("free", NoToken, p, FALSE)
<1>2. /\ p \in Pointers /\ p # NoPointer /\ p \notin available
      /\ available' = available /\ tpc[t] = "run"
  BY Limits DEF Owners, FreeEnter
<1>3. c \in CallRecords /\ c.kind = "free" /\ c.old = p /\ c.ptr = NoPointer /\ ~c.tracked /\ c.token = NoToken
  BY <1>2 DEF Call, CallRecords
<1>4. PICK pc \in {"forget", "release"} : tpc' = [tpc EXCEPT ![t] = pc]
  BY <1>1 DEF Goto
<1> HIDE DEF c
<1>5. pc \in Labels /\ Shape(pc, c) /\ HeldBy(pc, c) = {p}
  BY <1>2, <1>3, <1>4 DEF Shape, Labels, HeldBy, Moved, Kinds
<1>6. Held(t) = {}
  <2>1. call[t] = NoCall
    BY <1>2 DEF Owners, Shapes, Shape
  <2> QED
    BY <1>2, <2>1, NothingHeld DEF Held
<1>7. /\ HeldBy(pc, c) \cup owned' \cup available' \subseteq Held(t) \cup owned \cup available
      /\ HeldBy(pc, c) \cap (owned' \cup available') = {} /\ owned' \cap available' = {}
  BY <1>1, <1>2, <1>5 DEF Owners
<1>8. call' = [call EXCEPT ![t] = c]
  BY <1>1 DEF c
<1> QED
  BY <1>3, <1>4, <1>5, <1>7, <1>8, Regrouped

LEMMA OwnersThread ==
    ASSUME Owners, nextToken \in 0..MaxTokens, NEW t \in Threads, Thread(t)
    PROVE  Owners'
<1>1. CASE MallocEnter(t) \/ ReallocEnter(t)
  BY <1>1, OwnersEnter
<1>2. CASE FreeEnter(t)
  BY <1>2, OwnersFree
<1>3. CASE Allocate(t)
  BY <1>3, OwnersAllocate
<1>4. CASE Return(t)
  BY <1>4, OwnersReturn
<1>5. CASE Untrack(t)
  BY <1>5, OwnersUntrack
<1>6. CASE Track(t)
  <2>1. tpc[t] = "track" /\ Goto(t, "announce") /\ UNCHANGED <<call, owned, available>>
    BY <1>6 DEF Track
  <2>2. Shape("announce", call[t]) /\ "announce" \in Labels
    BY <2>1 DEF Owners, Shapes, Shape, Labels
  <2> QED
    BY <2>1, <2>2, MovedOn
<1>7. CASE Announce(t)
  <2>1. tpc[t] = "announce" /\ Deliver(t) /\ UNCHANGED available
    BY <1>7 DEF Announce
  <2> QED
    BY <2>1, Delivered
<1>8. CASE Forget(t)
  <2>1. tpc[t] = "forget" /\ Goto(t, "release") /\ UNCHANGED <<call, owned, available>>
    BY <1>8 DEF Forget
  <2>2. Shape("release", call[t]) /\ "release" \in Labels
    BY <2>1 DEF Owners, Shapes, Shape, Labels
  <2> QED
    BY <2>1, <2>2, MovedOn
<1>10. CASE NestedEnter(t)
  BY <1>10, OwnersNested
<1>9. CASE Release(t)
  <2>1. /\ tpc[t] = "release" /\ tpc' = [tpc EXCEPT ![t] = "run"] /\ call' = [call EXCEPT ![t] = NoCall]
        /\ available' = available \cup {call[t].old} /\ owned' = owned /\ "run" \in Labels
    BY <1>9 DEF Release, Goto, Labels
  <2>2. call[t].old \in Held(t)
    <3>1. call[t].kind = "free" /\ call[t].old \in Pointers
      BY <2>1 DEF Owners, Shapes, Shape
    <3> QED
      BY <2>1, <3>1, Limits DEF Held, HeldBy, Moved
  <2>3. call[t].old \notin owned /\ owned \cap available = {}
    BY <2>2 DEF Owners, Separate
  <2> QED
    BY <2>1, <2>2, <2>3, NothingHeld, Regrouped
<1> QED
  BY <1>1, <1>2, <1>3, <1>4, <1>5, <1>6, <1>7, <1>8, <1>9, <1>10 DEF Thread

-----------------------------------------------------------------------------
(* Types.                                                                  *)

Kernel ==
    /\ sampled \in Tracked /\ nextToken \in 0..MaxTokens
    /\ liveSamples \in Tracked /\ liveCount \in 0..LiveCap
    /\ ring \in Seq(Events) /\ Len(ring) <= RingCap
    /\ drops \in Nat /\ evictions \in Nat /\ evicted \in Nat
Collected ==
    /\ cpc \in {"drain", "stats", "reconcile", "report"}
    /\ queue \in Seq(Events) /\ Len(queue) <= QueueCap
    /\ stacks \subseteq Tokens /\ Cardinality(stacks) <= StackCap /\ live \in Tracked /\ failures \in Nat
    /\ previous \in Nat /\ queueDrops \in Nat
Typing == Owners /\ Kernel /\ Collected

LEMMA TypingTypes == Typing => TypeOK
  BY DEF Typing, Owners, Kernel, Collected, TypeOK

LEMMA Emitted ==
    ASSUME ring \in Seq(Events), Len(ring) <= RingCap, drops \in Nat, NEW e \in Events, Emit(e)
    PROVE  /\ ring' \in Seq(Events) /\ Len(ring') <= RingCap /\ drops' \in Nat
           /\ drops' >= drops
           /\ drops' = 0 => drops = 0 /\ ring' = Append(ring, e)
<1>1. CASE RingHasRoom
  BY <1>1, Limits DEF Emit, RingHasRoom
<1>2. CASE ~RingHasRoom
  BY <1>2 DEF Emit
<1> QED
  BY <1>1, <1>2

LEMMA MadeEvents ==
    /\ \A n \in Tokens : \A stack \in {"stack", "broken"} : Event(stack, n, NoPointer) \in Events
    /\ \A n \in Tokens, p \in Pointers \cup {NoPointer} :
          Event("free", n, p) \in Events /\ Event("alloc", n, p) \in Events
  BY DEF Event, Events

(* An update evicts one address or none.                                   *)
LEMMA FewVictims ==
    ASSUME NEW W, NEW victims \in {{}} \cup {{q} : q \in W}
    PROVE  /\ Cardinality(victims) = 0 \/ Cardinality(victims) = 1
           /\ Cardinality(victims) = 0 => victims = {}
<1>1. victims = {} \/ \E q : victims = {q}
  OBVIOUS
<1>2. CASE victims = {}
  BY <1>2, FS_EmptySet
<1>3. ASSUME NEW q, victims = {q} PROVE Cardinality(victims) = 1
  BY <1>3, FS_Singleton
<1> QED
  BY <1>1, <1>2, <1>3

LEMMA OthersFewer ==
    ASSUME NEW p \in Pointers
    PROVE  Cardinality(Pointers \ {p}) = Cardinality(Pointers) - 1
<1>1. IsFiniteSet(Pointers)
  BY Limits
<1> QED
  BY <1>1, FS_RemoveElement

(* What is tracked at an address has a token.                              *)
LEMMA KeyTokens ==
    ASSUME NEW map \in Tracked, NEW p \in Keys(map)
    PROVE  map[p] \in Tokens /\ p \in Pointers
  BY DEF Tracked, Keys

LEMMA Deleted ==
    ASSUME Kernel, NEW p, Delete(p)
    PROVE  liveSamples' \in Tracked /\ liveCount' \in 0..LiveCap
<1>1. liveSamples' \in Tracked
  BY DEF Delete, Kernel, Tracked
<1>2. liveCount' \in 0..LiveCap
  BY Limits DEF Delete, Kernel
<1> QED
  BY <1>1, <1>2

(* A sampled call has a new token, and its stack is on its way.            *)
LEMMA Asked ==
    ASSUME nextToken \in 0..MaxTokens, NEW t, NEW kind, NEW old, Sampled(t, kind, old)
    PROVE  /\ nextToken' = nextToken + 1 /\ nextToken + 1 \in Tokens /\ nextToken' \in 0..MaxTokens
           /\ \E e \in Events : e.kind \in {"stack", "broken"} /\ e.token = nextToken + 1 /\ Emit(e)
<1>1. nextToken' = nextToken + 1 /\ nextToken + 1 \in Tokens /\ nextToken' \in 0..MaxTokens
  BY Limits DEF Sampled, Tokens
<1>2. PICK stack \in Frames : Emit(Event(stack, nextToken + 1, NoPointer))
  BY <1>1 DEF Sampled
<1> DEFINE e == Event(stack, nextToken + 1, NoPointer)
<1>3. stack \in {"stack", "broken"}
  BY Limits
<1>4. e \in Events /\ e.kind = stack /\ e.token = nextToken + 1
  BY <1>1, <1>3, MadeEvents DEF Event
<1> HIDE DEF e
<1>5. Emit(e)
  BY <1>2 DEF e
<1> QED
  BY <1>1, <1>3, <1>4, <1>5

LEMMA Begun ==
    ASSUME Kernel, NEW t, NEW kind, NEW old, Unsampled(t, kind, old) \/ Sampled(t, kind, old)
    PROVE  nextToken' \in 0..MaxTokens /\ ring' \in Seq(Events) /\ Len(ring') <= RingCap /\ drops' \in Nat
<1>1. CASE Unsampled(t, kind, old)
  BY <1>1 DEF Kernel, Unsampled
<1>2. CASE Sampled(t, kind, old)
  <2>1. nextToken' \in 0..MaxTokens /\ \E e \in Events : Emit(e)
    BY <1>2, Asked DEF Kernel
  <2> QED
    BY <2>1, Emitted DEF Kernel
<1> QED
  BY <1>1, <1>2

LEMMA KernelThread ==
    ASSUME Owners, Kernel, NEW t \in Threads, Thread(t)
    PROVE  Kernel'
<1>0. call[t] \in CallRecords /\ Shape(tpc[t], call[t])
  BY DEF Owners, Shapes
<1>1. CASE MallocEnter(t) \/ NestedEnter(t) \/ ReallocEnter(t)
  <2>1. PICK kind, old : Unsampled(t, kind, old) \/ Sampled(t, kind, old)
    BY <1>1 DEF MallocEnter, NestedEnter, ReallocEnter, Begin
  <2>2. UNCHANGED <<sampled, liveSamples, liveCount, evictions, evicted>>
    BY <1>1 DEF MallocEnter, NestedEnter, ReallocEnter
  <2> QED
    BY <2>1, <2>2, Begun DEF Kernel
<1>2. CASE FreeEnter(t)
  <2>1. UNCHANGED <<sampled, nextToken, liveSamples, liveCount, evictions, evicted>>
    BY <1>2 DEF FreeEnter
  <2>2. \/ UNCHANGED <<ring, drops>>
        \/ \E p \in Keys(liveSamples) : Emit(Event("free", liveSamples[p], p))
    BY <1>2 DEF FreeEnter
  <2>3. CASE UNCHANGED <<ring, drops>>
    BY <2>1, <2>3 DEF Kernel
  <2>4. ASSUME NEW p \in Keys(liveSamples), Emit(Event("free", liveSamples[p], p))
        PROVE  Kernel'
    <3>1. Event("free", liveSamples[p], p) \in Events
      BY KeyTokens, MadeEvents DEF Kernel
    <3> QED
      BY <2>1, <2>4, <3>1, Emitted DEF Kernel
  <2> QED
    BY <2>2, <2>3, <2>4
<1>3. CASE Allocate(t)
  <2>1. UNCHANGED <<nextToken, liveSamples, liveCount, ring, drops, evictions, evicted>>
    BY <1>3 DEF Allocate
  <2>2. sampled' \in Tracked
    <3>1. call[t].token \in Tokens \cup {NoToken}
      BY <1>0 DEF CallRecords
    <3>2. CASE sampled' = sampled \/ sampled' = [sampled EXCEPT ![call[t].old] = NoToken]
      BY <3>2 DEF Kernel, Tracked
    <3> DEFINE After(p) ==
            [q \in Pointers |->
                CASE q = p -> call[t].token [] q \in ({call[t].old} \ {NoPointer}) \ {p} -> NoToken
                  [] OTHER -> sampled[q]]
    <3>3. \A p : After(p) \in Tracked
      BY <3>1 DEF Kernel, Tracked
    <3>4. \/ sampled' = sampled \/ sampled' = [sampled EXCEPT ![call[t].old] = NoToken]
          \/ \E p : sampled' = After(p)
      BY <1>3 DEF Allocate
    <3> HIDE DEF After
    <3> QED
      BY <3>2, <3>3, <3>4
  <2> QED
    BY <2>1, <2>2 DEF Kernel
<1>4. CASE Return(t)
  <2>1. UNCHANGED <<sampled, nextToken, liveSamples, liveCount, evictions, evicted>>
    BY <1>4 DEF Return
  <2>2. \/ UNCHANGED <<ring, drops>>
        \/ call[t].old \in Keys(liveSamples) /\ Emit(Event("free", liveSamples[call[t].old], call[t].old))
    BY <1>4 DEF Return
  <2>3. CASE UNCHANGED <<ring, drops>>
    BY <2>1, <2>3 DEF Kernel
  <2>4. CASE call[t].old \in Keys(liveSamples) /\ Emit(Event("free", liveSamples[call[t].old], call[t].old))
    <3>1. Event("free", liveSamples[call[t].old], call[t].old) \in Events
      BY <2>4, KeyTokens, MadeEvents DEF Kernel
    <3> QED
      BY <2>1, <2>4, <3>1, Emitted DEF Kernel
  <2> QED
    BY <2>2, <2>3, <2>4
<1>5. CASE Untrack(t) \/ Forget(t)
  <2>1. UNCHANGED <<sampled, nextToken, ring, drops, evictions, evicted>> /\ Delete(call[t].old)
    BY <1>5 DEF Untrack, Forget
  <2> QED
    BY <2>1, Deleted DEF Kernel
<1>6. CASE Track(t)
  <2>1. UNCHANGED <<sampled, nextToken, liveCount, ring, drops, evictions>>
    BY <1>6 DEF Track
  <2>2. PICK victims \in {{}} \cup {{q} : q \in Keys(liveSamples) \ {call[t].ptr}} :
          /\ evicted' = evicted + Cardinality(victims)
          /\ liveSamples' = [q \in Pointers |->
                CASE q = call[t].ptr -> call[t].token [] q \in victims -> NoToken [] OTHER -> liveSamples[q]]
    BY <1>6 DEF Track
  <2>3. Cardinality(victims) \in Nat
    BY <2>2, FewVictims
  <2>4. call[t].token \in Tokens \cup {NoToken}
    BY <1>0 DEF CallRecords
  <2>5. liveSamples' \in Tracked
    BY <2>2, <2>4 DEF Kernel, Tracked
  <2> QED
    BY <2>1, <2>2, <2>3, <2>5 DEF Kernel
<1>7. CASE Announce(t)
  <2>1. UNCHANGED <<sampled, nextToken, liveSamples, evicted>>
    BY <1>7 DEF Announce
  <2>2. Event("alloc", call[t].token, call[t].ptr) \in Events
    <3>1. tpc[t] = "announce"
      BY <1>7 DEF Announce
    <3>2. call[t].token \in Tokens /\ call[t].ptr \in Pointers
      BY <1>0, <3>1 DEF Shape, Tracks, CallRecords
    <3> QED
      BY <3>2, MadeEvents
  <2>3. liveCount' \in 0..LiveCap /\ evictions' \in Nat
    BY <1>7, Limits DEF Announce, AtCap, Kernel
  <2>4. Emit(Event("alloc", call[t].token, call[t].ptr))
    BY <1>7 DEF Announce
  <2> QED
    BY <2>1, <2>2, <2>3, <2>4, Emitted DEF Kernel
<1>8. CASE Release(t)
  <2>1. UNCHANGED <<nextToken, liveSamples, liveCount, ring, drops, evictions, evicted>>
        /\ sampled' = [sampled EXCEPT ![call[t].old] = NoToken]
    BY <1>8 DEF Release
  <2> QED
    BY <2>1 DEF Kernel, Tracked
<1> QED
  BY <1>1, <1>2, <1>3, <1>4, <1>5, <1>6, <1>7, <1>8 DEF Thread

LEMMA ThreadFrame ==
    ASSUME NEW t \in Threads, Thread(t)
    PROVE  UNCHANGED <<cpc, queue, stacks, live, failures, previous, queueDrops>>
  BY DEF Thread, MallocEnter, NestedEnter, ReallocEnter, FreeEnter, Allocate, Return, Untrack, Track, Announce, Forget, Release

LEMMA CollectorFrame ==
    ASSUME Collector
    PROVE  UNCHANGED <<owned, available, sampled, tpc, call, nextToken, liveSamples, liveCount, drops, evictions, evicted>>
  BY DEF Collector, Consume, Drained, ReadStats, Reconcile, Report

LEMMA KnownTyped == Collected => Known \in Knowns
  BY DEF Collected, Known, Knowns, StackSets

LEMMA CollectorTyped ==
    ASSUME Kernel, Collected, Collector
    PROVE  Kernel' /\ Collected'
<1>1. UNCHANGED <<sampled, nextToken, liveSamples, liveCount, drops, evictions, evicted>>
  BY CollectorFrame
<1>2. CASE Consume
  <2>1. /\ ring # <<>> /\ ring' = Tail(ring) /\ UNCHANGED <<cpc, stacks, live, failures, previous>>
        /\ \/ Len(queue) < QueueCap /\ queue' = Append(queue, Head(ring)) /\ UNCHANGED queueDrops
           \/ queueDrops' = queueDrops + 1 /\ UNCHANGED queue
    BY <1>2 DEF Consume
  <2>2. Head(ring) \in Events /\ ring' \in Seq(Events) /\ Len(ring') <= RingCap
    BY <2>1, Limits DEF Kernel
  <2>3. queue' \in Seq(Events) /\ Len(queue') <= QueueCap /\ queueDrops' \in Nat
    <3>1. CASE Len(queue) < QueueCap /\ queue' = Append(queue, Head(ring)) /\ UNCHANGED queueDrops
      <4> DEFINE e == Head(ring)
      <4>1. queue \in Seq(Events) /\ e \in Events /\ queue' = Append(queue, e)
        BY <2>2, <3>1 DEF Collected
      <4> HIDE DEF e
      <4> QED
        BY <3>1, <4>1, Limits DEF Collected
    <3>2. CASE queueDrops' = queueDrops + 1 /\ UNCHANGED queue
      BY <3>2 DEF Collected
    <3> QED
      BY <2>1, <3>1, <3>2
  <2> QED
    BY <1>1, <2>1, <2>2, <2>3 DEF Kernel, Collected
<1>3. CASE Drained
  <2>1. ApplyAll(queue) \in Knowns
    <3>1. ApplyAll(queue) = Result(Known, queue)
      BY DEF ApplyAll, Result, Known
    <3> QED
      BY <3>1, KnownTyped, ResultType DEF Collected
  <2>2. stacks' \in StackSets /\ live' \in Tracked /\ failures' \in Nat
    BY <1>3, <2>1 DEF Drained, Knowns
  <2>3. queue' = <<>> /\ <<>> \in Seq(Events) /\ Len(<<>>) = 0
    BY <1>3 DEF Drained
  <2>4. cpc' \in {"drain", "stats"} /\ UNCHANGED <<ring, previous, queueDrops>>
    BY <1>3 DEF Drained
  <2> QED
    BY <1>1, <2>2, <2>3, <2>4, Limits DEF Kernel, Collected, StackSets
<1>4. CASE ReadStats
  BY <1>1, <1>4 DEF ReadStats, Kernel, Collected
<1>5. CASE Reconcile
  <2>1. live' \in Tracked
    BY <1>5 DEF Reconcile, Collected, Tracked
  <2> QED
    BY <1>1, <1>5, <2>1 DEF Reconcile, Kernel, Collected
<1>6. CASE Report
  BY <1>1, <1>6 DEF Report, Kernel, Collected
<1> QED
  BY <1>2, <1>3, <1>4, <1>5, <1>6 DEF Collector

LEMMA OwnersFrame ==
    ASSUME Owners, UNCHANGED <<owned, available, tpc, call>>
    PROVE  Owners'
  BY DEF Owners, Shapes, Separate, Held

LEMMA TypingInit == Init => Typing
<1> SUFFICES ASSUME Init PROVE Typing
  OBVIOUS
<1>1. \A t \in Threads : tpc[t] = "run" /\ call[t] = NoCall /\ Held(t) = {}
  BY NothingHeld DEF Init, Held
<1>2. Owners
  <2>1. tpc \in [Threads -> Labels] /\ call \in [Threads -> CallRecords]
    BY NothingHeld DEF Init, Labels
  <2> QED
    BY <1>1, <2>1, NothingHeld DEF Init, Owners, Shapes, Separate
<1>3. <<>> \in Seq(Events) /\ Len(<<>>) = 0
  OBVIOUS
<1>4. Kernel
  BY <1>3, Limits DEF Init, Kernel, Tracked
<1>5. Collected
  <2>1. stacks = {} /\ Cardinality({}) = 0
    BY FS_EmptySet DEF Init
  <2> QED
    BY <1>3, <2>1, Limits DEF Init, Collected, Tracked
<1> QED
  BY <1>2, <1>4, <1>5 DEF Typing

LEMMA TypingNext == Typing /\ [Next]_vars => Typing'
<1> SUFFICES ASSUME Typing, [Next]_vars PROVE Typing'
  OBVIOUS
<1>1. ASSUME NEW t \in Threads, Thread(t) PROVE Typing'
  <2>1. Owners'
    BY <1>1, OwnersThread DEF Typing, Kernel
  <2>2. Kernel'
    BY <1>1, KernelThread DEF Typing
  <2>3. Collected'
    BY <1>1, ThreadFrame DEF Typing, Collected
  <2> QED
    BY <2>1, <2>2, <2>3 DEF Typing
<1>2. CASE Collector
  <2>1. Owners'
    BY <1>2, CollectorFrame, OwnersFrame DEF Typing
  <2> QED
    BY <1>2, <2>1, CollectorTyped DEF Typing
<1>3. CASE UNCHANGED vars
  <2>1. Owners'
    BY <1>3, OwnersFrame DEF Typing, vars
  <2> QED
    BY <1>3, <2>1 DEF Typing, vars, Kernel, Collected
<1> QED
  BY <1>1, <1>2, <1>3 DEF Next

(* Every variable of HeapPipeline keeps its type and every buffer its      *)
(* capacity, however many threads call what (heap.bpf.c, heap.rs); and an  *)
(* address belongs to the program or to the allocator, never to both.      *)
THEOREM PipelineTyped == Spec => []TypeOK
  BY TypingInit, TypingNext, TypingTypes, PTL DEF Spec

-----------------------------------------------------------------------------
(* Evictions.  The kernel keeps its own count of what it tracks; for one   *)
(* thread it is never below, but while an address is tracked and not       *)
(* announced yet, and an eviction happens only when it is at its limit.    *)

Alone == \A t, u \in Threads : t = u

Size(map)  == Cardinality(Keys(map))
Announcing == \E t \in Threads : tpc[t] = "announce"
Counted ==
    /\ Size(liveSamples) <= LiveCap
    /\ ~Announcing => evicted <= evictions /\ Size(liveSamples) <= liveCount
    /\ Announcing => \/ evicted <= evictions /\ Size(liveSamples) <= liveCount + 1
                     \/ evicted <= evictions + 1 /\ AtCap

LEMMA KeysFinite ==
    ASSUME NEW map
    PROVE  IsFiniteSet(Keys(map)) /\ Keys(map) \subseteq Pointers /\ Size(map) \in Nat
<1>1. Keys(map) \subseteq Pointers
  BY DEF Keys
<1> QED
  BY <1>1, Limits, FS_Subset, FS_CardinalityType DEF Size

LEMMA CountedDelete ==
    ASSUME Kernel, Counted, NEW p, Delete(p), ~Announcing, ~Announcing', UNCHANGED <<evictions, evicted>>
    PROVE  Counted'
<1> DEFINE K == Keys(liveSamples)
<1>1. Size(liveSamples) \in Nat /\ liveCount \in Nat /\ IsFiniteSet(K) /\ K \subseteq Pointers
      /\ LiveCap \in Nat /\ Size(liveSamples) <= LiveCap /\ evicted <= evictions
      /\ Size(liveSamples) <= liveCount /\ Size(liveSamples) = Cardinality(K)
  BY KeysFinite, Limits DEF Kernel, Counted, Size
<1>2. Keys(liveSamples') = K \ {p}
  BY DEF Delete, Keys, Kernel, Tracked
<1> HIDE DEF K
<1>3. CASE p \in K
  <2>1. Size(liveSamples)' = Size(liveSamples) - 1 /\ Cardinality(K \ {p}) = Cardinality(K) - 1
    BY <1>1, <1>2, <1>3, FS_RemoveElement DEF Size
  <2>2. Cardinality(K \ {p}) \in Nat
    BY <1>1, FS_Subset, FS_CardinalityType
  <2>3. liveCount' = liveCount - 1
    BY <1>1, <1>3, <2>1, <2>2 DEF Delete, K
  <2> QED
    BY <1>1, <2>1, <2>3 DEF Counted
<1>4. CASE p \notin K
  <2>1. K \ {p} = K
    BY <1>4
  <2>2. Size(liveSamples)' = Size(liveSamples)
    BY <1>1, <1>2, <2>1 DEF Size
  <2>3. liveCount' = liveCount
    BY <1>4 DEF Delete, K
  <2> QED
    BY <1>1, <2>2, <2>3 DEF Counted
<1> QED
  BY <1>3, <1>4

LEMMA CountedTrack ==
    ASSUME Owners, Kernel, Counted, NEW t \in Threads, Track(t), ~Announcing, Announcing'
    PROVE  Counted'
<1> DEFINE K == Keys(liveSamples)
    p == call[t].ptr
    others == K \ {p}
<1>1. p \in Pointers /\ call[t].token # NoToken
  <2>1. tpc[t] = "track" /\ call[t] \in CallRecords /\ Shape("track", call[t])
    BY DEF Track, Owners, Shapes
  <2> QED
    BY <2>1 DEF Shape, Tracks, CallRecords
<1>2. PICK victims \in {{}} \cup {{q} : q \in others} :
         /\ victims = {} <=> p \in K \/ Cardinality(others) < LiveCap
         /\ evicted' = evicted + Cardinality(victims)
         /\ liveSamples' = [q \in Pointers |->
               CASE q = p -> call[t].token [] q \in victims -> NoToken [] OTHER -> liveSamples[q]]
  BY DEF Track
<1>3. /\ Size(liveSamples) \in Nat /\ liveCount \in Nat /\ liveCount <= LiveCap
      /\ IsFiniteSet(K) /\ K \subseteq Pointers /\ LiveCap \in Nat
      /\ Size(liveSamples) <= LiveCap /\ evicted <= evictions
      /\ Size(liveSamples) <= liveCount /\ Size(liveSamples) = Cardinality(K)
      /\ evicted \in Nat /\ evictions \in Nat
  BY KeysFinite, Limits DEF Kernel, Counted, Size
<1>4. Keys(liveSamples') = (others \ victims) \cup {p}
  BY <1>1, <1>2 DEF Keys
<1>5. liveCount' = liveCount /\ evictions' = evictions
  BY DEF Track
<1> HIDE DEF K, p
<1>6. IsFiniteSet(others) /\ Cardinality(others) \in Nat
  BY <1>3, FS_Subset, FS_CardinalityType
<1>7. CASE victims = {}
  <2>1. others \ victims = others /\ (others \ victims) \cup {p} = K \cup {p}
    BY <1>7
  <2>2. evicted' = evicted
    BY <1>2, <1>3, <1>7, FS_EmptySet
  <2>3. CASE p \in K
    <3>1. K \cup {p} = K
      BY <2>3
    <3>2. Size(liveSamples)' = Size(liveSamples)
      BY <1>3, <1>4, <2>1, <3>1 DEF Size
    <3> QED
      BY <1>3, <1>5, <2>2, <3>2 DEF Counted
  <2>4. CASE p \notin K
    <3>1. others = K
      BY <2>4
    <3>2. Cardinality(K) < LiveCap
      BY <1>2, <1>7, <2>4, <3>1
    <3>3. Cardinality(K \cup {p}) = Cardinality(K) + 1
      BY <1>3, <2>4, FS_AddElement
    <3>4. Size(liveSamples)' = Size(liveSamples) + 1
      BY <1>3, <1>4, <2>1, <3>3 DEF Size
    <3> QED
      BY <1>3, <1>5, <2>2, <3>2, <3>4 DEF Counted
  <2> QED
    BY <2>3, <2>4
<1>8. CASE victims # {}
  <2>1. PICK q \in others : victims = {q}
    BY <1>2, <1>8
  <2>2. p \notin K /\ Cardinality(others) >= LiveCap
    BY <1>2, <1>3, <1>6, <1>8
  <2>3. others = K
    BY <2>2
  <2>4. evicted' = evicted + 1
    BY <1>2, <2>1, FS_Singleton
  <2>5. liveCount >= LiveCap
    BY <1>3, <2>2, <2>3
  <2>6. Cardinality((others \ victims) \cup {p}) = Cardinality(K)
    <3>1. IsFiniteSet(K \ {q}) /\ Cardinality(K \ {q}) = Cardinality(K) - 1
      BY <1>3, <2>1, <2>3, FS_RemoveElement, FS_Subset
    <3>2. p \notin K \ {q}
      BY <2>2
    <3>3. Cardinality((K \ {q}) \cup {p}) = Cardinality(K \ {q}) + 1
      BY <3>1, <3>2, FS_AddElement
    <3>4. (others \ victims) \cup {p} = (K \ {q}) \cup {p}
      BY <2>1, <2>3
    <3>5. Cardinality(K) \in Nat
      BY <1>3, FS_CardinalityType
    <3>6. Cardinality((others \ victims) \cup {p}) = Cardinality((K \ {q}) \cup {p})
      BY <3>4, Zenon
    <3> HIDE DEF others
    <3> QED
      BY <3>1, <3>3, <3>5, <3>6
  <2>7. Size(liveSamples)' = Size(liveSamples)
    BY <1>3, <1>4, <2>6 DEF Size
  <2> QED
    BY <1>3, <1>5, <2>4, <2>5, <2>7 DEF Counted, AtCap
<1> QED
  BY <1>7, <1>8

LEMMA CountedThread ==
    ASSUME Alone, Owners, Kernel, Counted, NEW t \in Threads, Thread(t)
    PROVE  Counted'
<1>0. tpc \in [Threads -> Labels]
  BY DEF Owners
<1>1. /\ Announcing <=> tpc[t] = "announce"
      /\ Announcing' <=> tpc'[t] = "announce"
  BY DEF Announcing, Alone
<1>2. CASE Track(t)
  <2>1. tpc[t] = "track" /\ tpc'[t] = "announce"
    <3>1. tpc[t] = "track" /\ Goto(t, "announce")
      BY <1>2 DEF Track
    <3> QED
      BY <1>0, <3>1 DEF Goto
  <2>2. ~Announcing /\ Announcing'
    BY <1>1, <2>1
  <2> QED
    BY <1>2, <2>2, CountedTrack
<1>3. CASE Announce(t)
  <2>1. tpc[t] = "announce" /\ tpc'[t] = "run"
    BY <1>0, <1>3 DEF Announce, Deliver, Goto
  <2>2. /\ liveSamples' = liveSamples /\ evicted' = evicted
        /\ \/ AtCap /\ evictions' = evictions + 1 /\ liveCount' = liveCount
           \/ ~AtCap /\ evictions' = evictions /\ liveCount' = liveCount + 1
    BY <1>3 DEF Announce
  <2>3. Size(liveSamples)' = Size(liveSamples) /\ Size(liveSamples) \in Nat
    BY <2>2, KeysFinite, Zenon
  <2>4. /\ Size(liveSamples) <= LiveCap
        /\ \/ evicted <= evictions /\ Size(liveSamples) <= liveCount + 1
           \/ evicted <= evictions + 1 /\ AtCap
    BY <1>1, <2>1 DEF Counted
  <2>5. evicted' <= evictions' /\ Size(liveSamples) <= liveCount'
    BY <2>2, <2>3, <2>4, Limits DEF Kernel, AtCap
  <2>6. ~Announcing'
    BY <1>1, <2>1
  <2> QED
    BY <2>3, <2>4, <2>5, <2>6 DEF Counted
<1>4. CASE Untrack(t) \/ Forget(t)
  <2>1. tpc[t] # "announce" /\ tpc'[t] # "announce"
    <3>1. tpc[t] \in {"untrack", "forget"} /\ (Goto(t, "track") \/ Goto(t, "run") \/ Goto(t, "release"))
      BY <1>4 DEF Untrack, Forget, Deliver
    <3> QED
      BY <1>0, <3>1 DEF Goto
  <2>2. Delete(call[t].old) /\ UNCHANGED <<evictions, evicted>>
    BY <1>4 DEF Untrack, Forget
  <2>3. ~Announcing /\ ~Announcing'
    BY <1>1, <2>1
  <2> QED
    BY <2>2, <2>3, CountedDelete
<1>6. CASE NestedEnter(t)
  <2>1. ~Announcing /\ ~Announcing' /\ UNCHANGED <<liveSamples, liveCount, evictions, evicted>>
    BY <1>1, <1>6 DEF NestedEnter
  <2>2. Size(liveSamples)' = Size(liveSamples)
    BY <2>1, Zenon
  <2> QED
    BY <2>1, <2>2 DEF Counted
<1>5. CASE MallocEnter(t) \/ ReallocEnter(t) \/ FreeEnter(t) \/ Allocate(t) \/ Return(t) \/ Release(t)
  <2>1. tpc[t] # "announce" /\ tpc'[t] # "announce"
    <3>1. /\ tpc[t] \in {"run", "allocate", "return", "release"}
          /\ \E pc \in Labels \ {"announce"} : Goto(t, pc)
      BY <1>5 DEF MallocEnter, ReallocEnter, FreeEnter, Allocate, Return, Release, Deliver, Labels
    <3> QED
      BY <1>0, <3>1 DEF Goto
  <2>2. UNCHANGED <<liveSamples, liveCount, evictions, evicted>>
    BY <1>5 DEF MallocEnter, ReallocEnter, FreeEnter, Allocate, Return, Release
  <2>3. ~Announcing /\ ~Announcing'
    BY <1>1, <2>1
  <2>4. Size(liveSamples)' = Size(liveSamples)
    BY <2>2, Zenon
  <2> QED
    BY <2>2, <2>3, <2>4 DEF Counted
<1> QED
  BY <1>2, <1>3, <1>4, <1>5, <1>6 DEF Thread

LEMMA CountedInit == Init => Counted
<1> SUFFICES ASSUME Init PROVE Counted
  OBVIOUS
<1>1. Keys(liveSamples) = {}
  BY DEF Init, Keys
<1>2. Size(liveSamples) = 0
  BY <1>1, FS_EmptySet DEF Size
<1>3. ~Announcing
  BY DEF Init, Announcing
<1> QED
  BY <1>2, <1>3, Limits DEF Init, Counted

LEMMA CountedNext == Alone /\ Typing /\ Counted /\ [Next]_vars => Counted'
<1> SUFFICES ASSUME Alone, Typing, Counted, [Next]_vars PROVE Counted'
  OBVIOUS
<1>1. ASSUME NEW t \in Threads, Thread(t) PROVE Counted'
  BY <1>1, CountedThread DEF Typing
<1>2. CASE Collector \/ UNCHANGED vars
  <2>1. UNCHANGED <<tpc, liveSamples, liveCount, evictions, evicted>>
    BY <1>2, CollectorFrame DEF vars
  <2> QED
    BY <2>1 DEF Counted, Announcing, AtCap, Size, Keys
<1> QED
  BY <1>1, <1>2 DEF Next

(* One thread's evictions are all counted: finish_allocation compares      *)
(* live_count with the capacity of live_samples only after the update that *)
(* evicted, and nothing but its own steps can change either in between.    *)
THEOREM NoEvictionMissed == ASSUME Alone PROVE Spec => []EvictionsReported
<1>1. Typing /\ Counted => EvictionsReported
  BY DEF Typing, Kernel, Counted, Announcing, EvictionsReported
<1>2. Init => Typing /\ Counted
  BY TypingInit, CountedInit
<1>3. Typing /\ Counted /\ [Next]_vars => (Typing /\ Counted)'
  BY TypingNext, CountedNext
<1> QED
  BY <1>1, <1>2, <1>3, PTL DEF Spec

-----------------------------------------------------------------------------
(* Exactness.  As long as nothing is lost, what the collector will know    *)
(* once it has applied the events on their way (Told) follows the kernel's *)
(* map, and both follow the target's memory, but for the addresses in the  *)
(* hands of a call, which Local describes step by step.                    *)

Told    == ApplyAll(queue \o ring)
Mine(t) == {call[t].ptr, call[t].old} \ {NoPointer}

(* The collector's token l is the token s, or it is missing and a failure  *)
(* is counted.                                                             *)
Failed     == Told.failures > 0
Fits(l, s) == l = s \/ (l = NoToken /\ Failed)

(* The kernel's token k, the target's token s and the collector's token l  *)
(* at the new and at the old address of a call.                            *)
AtPtr(pc, c, k, s, l) ==
    /\ s = c.token
    /\ pc = "return" /\ c.ptr # c.old => k = NoToken /\ l = NoToken
    /\ pc = "untrack"  => l = NoToken /\ (c.ptr # c.old => k = NoToken)
    /\ pc = "track"    => k = NoToken /\ l = NoToken
    /\ pc = "announce" => k = c.token /\ l = NoToken
AtOld(pc, c, k, s, l) ==
    /\ pc = "allocate" => k = s /\ Fits(l, s) /\ (c.tracked <=> k # NoToken)
    /\ pc = "return"   =>
          /\ Fits(l, k) /\ (c.tracked <=> k # NoToken)
          /\ c.ptr # c.old => s = IF Moved(c) THEN NoToken ELSE k
    /\ pc = "untrack"  => l = NoToken /\ (c.ptr # c.old => s = NoToken)
    /\ pc \in {"track", "announce"} /\ c.ptr # c.old => k = NoToken /\ s = NoToken /\ l = NoToken
    /\ pc = "forget"   => l = NoToken
    /\ pc = "release"  => k = NoToken /\ l = NoToken
NewExact(pc, c) == c.ptr # NoPointer => AtPtr(pc, c, liveSamples[c.ptr], sampled[c.ptr], Told.live[c.ptr])
OldExact(pc, c) == c.old # NoPointer => AtOld(pc, c, liveSamples[c.old], sampled[c.old], Told.live[c.old])
Local(t) == NewExact(tpc[t], call[t]) /\ OldExact(tpc[t], call[t])
Agreed(p) ==
    /\ liveSamples[p] = sampled[p] /\ Fits(Told.live[p], sampled[p])
    /\ p \in available => sampled[p] = NoToken
Placing ==
    /\ \A p \in Pointers : (\A t \in Threads : p \notin Mine(t)) => Agreed(p)
    /\ \A t \in Threads : Local(t)
(* The stack of a sampled call arrives before its allocation.              *)
Awaited ==
    /\ \A t \in Threads : call[t].token # NoToken => Waits(Told, call[t].token) /\ call[t].token <= nextToken
    /\ \A t, u \in Threads : t # u /\ call[t].token # NoToken => call[t].token # call[u].token
Exact    == cpc # "reconcile" /\ previous = 0 /\ Placing /\ Awaited
Lossless == drops = 0 /\ evictions = 0 /\ queueDrops = 0 /\ evicted = 0

(* Threads that make other calls than these, and evictions by several      *)
(* threads, lose track without a loss that is counted.                     *)
Quiet == Alone \/ (Calls \subseteq {"malloc", "nested", "free"} /\ Cardinality(Pointers) <= LiveCap)
CallsMade == \A t \in Threads : call[t].kind \in Calls \cup {"none"}

LEMMA ToldIs ==
    ASSUME Collected, ring \in Seq(Events)
    PROVE  /\ Told = Result(Known, queue \o ring) /\ Told \in Knowns
           /\ Known \in Knowns /\ queue \o ring \in Seq(Events)
<1>1. queue \o ring \in Seq(Events) /\ Known \in Knowns
  BY KnownTyped DEF Collected
<1>2. Told = Result(Known, queue \o ring)
  BY DEF Told, ApplyAll, Result, Known
<1> QED
  BY <1>1, <1>2, ResultType

LEMMA AppendConcat ==
    ASSUME NEW q \in Seq(Events), NEW r \in Seq(Events), NEW e \in Events
    PROVE  q \o Append(r, e) = Append(q \o r, e)
  OBVIOUS

LEMMA MoveHead ==
    ASSUME NEW q \in Seq(Events), NEW r \in Seq(Events), r # <<>>
    PROVE  Append(q, Head(r)) \o Tail(r) = q \o r
  OBVIOUS

(* An event more is an event applied to what the collector will know.      *)
LEMMA Spoken ==
    ASSUME Collected, ring \in Seq(Events), UNCHANGED <<queue, stacks, live, failures>>,
           NEW e \in Events, ring' = Append(ring, e)
    PROVE  Told' = ApplyEvent(Told, e)
<1>1. Told = Result(Known, queue \o ring) /\ Known \in Knowns /\ queue \o ring \in Seq(Events)
  BY ToldIs
<1>2. Told' = Result(Known, queue \o Append(ring, e))
  BY DEF Told, ApplyAll, Result, Known
<1>3. queue \o Append(ring, e) = Append(queue \o ring, e)
  BY AppendConcat DEF Collected
<1>4. Told' = Result(Known, Append(queue \o ring, e))
  BY <1>2, <1>3
<1> QED
  BY <1>1, <1>4, ResultAppend

(* What is on its way stays on its way until it is applied.                *)
LEMMA ToldKept ==
    ASSUME Kernel, Collected, Collector, cpc # "reconcile", queueDrops' = 0
    PROVE  Told' = Told
<1>0. ring \in Seq(Events) /\ queue \in Seq(Events)
  BY DEF Kernel, Collected
<1>1. CASE Consume
  <2>1. /\ UNCHANGED <<stacks, live, failures>> /\ ring # <<>> /\ ring' = Tail(ring)
        /\ queue' = Append(queue, Head(ring))
    BY <1>1 DEF Consume, Collected
  <2>2. queue' \o ring' = queue \o ring
    BY <1>0, <2>1, MoveHead
  <2> QED
    BY <2>1, <2>2 DEF Told, ApplyAll, Known
<1>2. CASE Drained
  <2>1. /\ ring = <<>> /\ ring' = <<>> /\ queue' = <<>> /\ stacks' = ApplyAll(queue).stacks
        /\ live' = ApplyAll(queue).live /\ failures' = ApplyAll(queue).failures
    BY <1>2 DEF Drained
  <2>2. queue \o ring = queue /\ queue' \o ring' = <<>>
    BY <1>0, <2>1
  <2>3. Told = ApplyAll(queue) /\ Told \in Knowns
    BY <1>0, <2>2, ToldIs DEF Told
  <2>4. Known' = Told
    BY <2>1, <2>3, KnownFields DEF Known
  <2>5. Told' = Result(Known', <<>>)
    BY <2>2 DEF Told, ApplyAll, Result, Known
  <2>6. Result(Told, <<>>) = Told
    <3>1. <<>> \in Seq(Events)
      OBVIOUS
    <3> QED
      BY <2>3, <3>1, ResultType
  <2> QED
    BY <2>4, <2>5, <2>6
<1>3. CASE ReadStats \/ Report
  <2>1. UNCHANGED <<ring, queue, stacks, live, failures>>
    BY <1>3 DEF ReadStats, Report
  <2> QED
    BY <2>1 DEF Told, ApplyAll, Known
<1>4. CASE Reconcile
  BY <1>4 DEF Reconcile
<1> QED
  BY <1>1, <1>2, <1>3, <1>4 DEF Collector

-----------------------------------------------------------------------------
(* The addresses of the other calls are out of a step's reach.             *)

Others(t) == UNION {Mine(u) : u \in Threads \ {t}}

LEMMA MinePointers ==
    ASSUME Owners, NEW t \in Threads
    PROVE  Mine(t) \subseteq Pointers
  BY DEF Owners, CallRecords, Mine

LEMMA Apart ==
    ASSUME Quiet, CallsMade, Owners, NEW t \in Threads
    PROVE  Others(t) \cap (Mine(t) \cup owned \cup available) = {}
<1>1. CASE Alone
  <2>1. Threads \ {t} = {}
    BY <1>1 DEF Alone
  <2> QED
    BY <2>1 DEF Others
<1>2. CASE Calls \subseteq {"malloc", "nested", "free"}
  <2>1. \A u \in Threads : Mine(u) = Held(u)
    BY <1>2 DEF CallsMade, Mine, Held, HeldBy, Moved
  <2> QED
    BY <2>1 DEF Others, Owners, Separate
<1> QED
  BY <1>1, <1>2 DEF Quiet

(* A step of a call, at its own addresses.                                 *)
LEMMA Framed ==
    ASSUME Quiet, CallsMade, Owners, Placing, NEW t \in Threads,
           \A u \in Threads \ {t} : tpc'[u] = tpc[u] /\ call'[u] = call[u],
           Mine(t)' \subseteq Mine(t) \cup owned \cup available,
           \A p \in Pointers \ (Mine(t) \cup Mine(t)') :
              /\ liveSamples'[p] = liveSamples[p] /\ sampled'[p] = sampled[p] /\ Told.live'[p] = Told.live[p]
              /\ p \in available' => p \in available,
           \A p \in Mine(t) \ Mine(t)' : Agreed(p)',
           Local(t)', Failed => Failed'
    PROVE  Placing'
<1> DEFINE M == Mine(t)
    N == Mine(t)'
<1>1. \A u \in Threads \ {t} : tpc'[u] = tpc[u] /\ call'[u] = call[u] /\ Mine(u)' = Mine(u)
  BY DEF Mine
<1>2. Others(t) \cap (M \cup N) = {}
  BY Apart
<1> HIDE DEF M, N
<1>3. ASSUME NEW p \in Pointers, \A u \in Threads : p \notin Mine(u)'
      PROVE  Agreed(p)'
  <2>1. p \notin N /\ \A u \in Threads \ {t} : p \notin Mine(u)
    BY <1>1, <1>3 DEF N
  <2>2. CASE p \in M
    BY <2>1, <2>2 DEF M, N
  <2>3. CASE p \notin M
    <3>1. Agreed(p)
      BY <2>1, <2>3 DEF Placing, M
    <3>2. /\ liveSamples'[p] = liveSamples[p] /\ sampled'[p] = sampled[p] /\ Told.live'[p] = Told.live[p]
          /\ p \in available' => p \in available
      BY <2>1, <2>3 DEF M, N
    <3> QED
      BY <3>1, <3>2 DEF Agreed, Fits
  <2> QED
    BY <2>2, <2>3
<1>4. ASSUME NEW u \in Threads \ {t}
      PROVE  Local(u)'
  <2>1. tpc'[u] = tpc[u] /\ call'[u] = call[u] /\ Local(u)
    BY <1>1 DEF Placing
  <2>2. ASSUME NEW p \in {call[u].ptr, call[u].old} \ {NoPointer}
        PROVE  liveSamples'[p] = liveSamples[p] /\ sampled'[p] = sampled[p] /\ Told.live'[p] = Told.live[p]
    <3>1. p \in Mine(u) /\ p \in Pointers
      BY MinePointers DEF Mine
    <3>2. p \notin M \cup N
      BY <1>2, <3>1 DEF Others
    <3> QED
      BY <3>1, <3>2 DEF M, N
  <2>3. NewExact(tpc[u], call[u])'
    <3> SUFFICES ASSUME call[u].ptr # NoPointer
                 PROVE  AtPtr(tpc[u], call[u], liveSamples[call[u].ptr], sampled[call[u].ptr], Told.live[call[u].ptr])'
      BY <2>1 DEF NewExact
    <3>1. AtPtr(tpc[u], call[u], liveSamples[call[u].ptr], sampled[call[u].ptr], Told.live[call[u].ptr])
      BY <2>1 DEF Local, NewExact
    <3>2. UNCHANGED <<liveSamples[call[u].ptr], sampled[call[u].ptr], Told.live[call[u].ptr]>>
      BY <2>1, <2>2
    <3> QED
      BY <2>1, <3>1, <3>2 DEF AtPtr
  <2>4. OldExact(tpc[u], call[u])'
    <3> SUFFICES ASSUME call[u].old # NoPointer
                 PROVE  AtOld(tpc[u], call[u], liveSamples[call[u].old], sampled[call[u].old], Told.live[call[u].old])'
      BY <2>1 DEF OldExact
    <3>1. AtOld(tpc[u], call[u], liveSamples[call[u].old], sampled[call[u].old], Told.live[call[u].old])
      BY <2>1 DEF Local, OldExact
    <3>2. UNCHANGED <<liveSamples[call[u].old], sampled[call[u].old], Told.live[call[u].old]>>
      BY <2>1, <2>2
    <3> QED
      BY <2>1, <3>1, <3>2 DEF AtOld, Moved, Fits
  <2> QED
    BY <2>3, <2>4 DEF Local
<1> QED
  BY <1>3, <1>4 DEF Placing

Settled == Quiet /\ CallsMade /\ Typing /\ Exact

LEMMA SettledParts ==
    ASSUME Settled
    PROVE  /\ Quiet /\ CallsMade /\ Owners /\ Kernel /\ Collected /\ Placing /\ Awaited
           /\ Told \in Knowns /\ sampled \in Tracked /\ liveSamples \in Tracked
<1>1. Quiet /\ CallsMade /\ Owners /\ Kernel /\ Collected /\ Placing /\ Awaited
  BY DEF Settled, Typing, Exact
<1> QED
  BY <1>1, ToldIs DEF Kernel

LEMMA Sent ==
    ASSUME Settled, UNCHANGED <<queue, stacks, live, failures>>, NEW e \in Events, Emit(e), drops' = 0
    PROVE  Told' = ApplyEvent(Told, e) /\ (Failed => Failed')
<1>1. ring \in Seq(Events) /\ ring' = Append(ring, e) /\ Collected
  <2>1. Kernel /\ Collected
    BY SettledParts
  <2> QED
    BY <2>1, Emitted DEF Kernel
<1>2. Told' = ApplyEvent(Told, e)
  BY <1>1, Spoken
<1>3. ApplyEvent(Told, e).failures >= Told.failures /\ ApplyEvent(Told, e) \in Knowns
  BY SettledParts, EventApplied
<1>4. ApplyEvent(Told, e).failures \in Nat /\ Told.failures \in Nat
  BY <1>3, SettledParts, KnownFields
<1> QED
  BY <1>2, <1>3, <1>4 DEF Failed

LEMMA Unsaid ==
    ASSUME UNCHANGED <<ring, queue, stacks, live, failures>>
    PROVE  Told' = Told /\ (Failed => Failed')
  BY DEF Told, ApplyAll, Known, Failed

LEMMA FreeSent ==
    ASSUME Settled, UNCHANGED <<queue, stacks, live, failures>>, NEW p \in Keys(liveSamples),
           Emit(Event("free", liveSamples[p], p)), drops' = 0
    PROVE  /\ Told' = [stacks   |-> Told.stacks, live |-> [Told.live EXCEPT ![p] = NoToken],
                       failures |-> Told.failures]
           /\ Failed => Failed'
<1> DEFINE e == Event("free", liveSamples[p], p)
<1>1. e \in Events /\ e.kind = "free" /\ e.ptr = p
  BY SettledParts, KeyTokens, MadeEvents DEF Event
<1>2. Told' = ApplyEvent(Told, e) /\ (Failed => Failed')
  BY <1>1, Sent
<1> HIDE DEF e
<1> QED
  BY <1>1, <1>2, SettledParts, EventApplied

(* The tokens of calls: a call keeps its own or drops it.                  *)
LEMMA AwaitedKept ==
    ASSUME Awaited, NEW t \in Threads, nextToken' = nextToken,
           \A u \in Threads \ {t} : call'[u] = call[u],
           call'[t].token \in {call[t].token, NoToken},
           \A u \in Threads : call'[u].token # NoToken /\ call[u].token \in Told.stacks => call[u].token \in Told'.stacks,
           Failed => Failed'
    PROVE  Awaited'
<1>1. \A u \in Threads : call'[u].token # NoToken => call'[u].token = call[u].token
  OBVIOUS
<1>2. \A u \in Threads : call'[u].token # NoToken => Waits(Told', call'[u].token) /\ call'[u].token <= nextToken'
  BY <1>1 DEF Awaited, Waits, Failed
<1>3. \A u, v \in Threads : u # v /\ call'[u].token # NoToken => call'[u].token # call'[v].token
  BY <1>1 DEF Awaited
<1> QED
  BY <1>2, <1>3 DEF Awaited

LEMMA ThreadState ==
    ASSUME Settled, NEW t \in Threads
    PROVE  /\ call[t] \in CallRecords /\ Shape(tpc[t], call[t]) /\ Local(t)
           /\ tpc \in [Threads -> Labels] /\ call \in [Threads -> CallRecords]
           /\ Mine(t) \subseteq Pointers
           /\ \A p \in owned \cup available : p \notin Mine(t) => Agreed(p) /\ p \in Pointers
<1>1. /\ call[t] \in CallRecords /\ Shape(tpc[t], call[t]) /\ Local(t)
      /\ tpc \in [Threads -> Labels] /\ call \in [Threads -> CallRecords]
      /\ Mine(t) \subseteq Pointers
  BY SettledParts, MinePointers DEF Owners, Shapes, Placing
<1>2. ASSUME NEW p \in owned \cup available, p \notin Mine(t)
      PROVE  Agreed(p) /\ p \in Pointers
  <2>1. p \in Pointers /\ p \notin Others(t)
    BY SettledParts, Apart DEF Owners
  <2>2. \A u \in Threads : p \notin Mine(u)
    BY <1>2, <2>1 DEF Others
  <2> QED
    BY <2>1, <2>2, SettledParts DEF Placing
<1> QED
  BY <1>1, <1>2

LEMMA ExactFree ==
    ASSUME Settled, Lossless', NEW t \in Threads, FreeEnter(t), UNCHANGED collectorVars
    PROVE  Placing' /\ Awaited'
<1>1. PICK p \in owned :
        /\ owned' = owned \ {p} /\ call' = [call EXCEPT ![t] = Call("free", NoToken, p, FALSE)]
        /\ IF p \in Keys(liveSamples)
           THEN Emit(Event("free", liveSamples[p], p)) /\ Goto(t, "forget")
           ELSE Goto(t, "release") /\ UNCHANGED <<ring, drops>>
  BY DEF FreeEnter
<1>2. /\ tpc[t] = "run" /\ UNCHANGED <<available, sampled, nextToken, liveSamples>> /\ call[t] = NoCall
      /\ tpc \in [Threads -> Labels] /\ call \in [Threads -> CallRecords]
  BY ThreadState DEF FreeEnter, Shape
<1>3. Mine(t) = {} /\ call[t].token = NoToken
  BY <1>2 DEF Mine, NoCall, Call
<1>4. Agreed(p) /\ p \in Pointers /\ p # NoPointer
  BY <1>3, ThreadState, Limits
<1>5. /\ call'[t].ptr = NoPointer /\ call'[t].old = p /\ call'[t].token = NoToken
      /\ \A u \in Threads \ {t} : call'[u] = call[u] /\ tpc'[u] = tpc[u]
  BY <1>1, <1>2 DEF Call, Goto
<1>6. Mine(t)' = {p}
  BY <1>4, <1>5 DEF Mine
<1>7. /\ \A q \in Pointers \ {p} : Told'.live[q] = Told.live[q]
      /\ Told'.stacks = Told.stacks /\ (Failed => Failed')
      /\ tpc'[t] = "forget" => Told'.live[p] = NoToken
      /\ tpc'[t] = "release" => Told'.live[p] = NoToken /\ liveSamples[p] = NoToken
      /\ tpc'[t] \in {"forget", "release"}
  <2>1. Told.live \in [Pointers -> Tokens \cup {NoToken}]
    BY SettledParts, KnownFields
  <2>2. CASE p \in Keys(liveSamples)
    <3>1. Emit(Event("free", liveSamples[p], p)) /\ drops' = 0
      BY <1>1, <2>2 DEF Lossless
    <3>2. /\ Told' = [stacks |-> Told.stacks, live |-> [Told.live EXCEPT ![p] = NoToken], failures |-> Told.failures]
          /\ Failed => Failed'
      BY <2>2, <3>1, FreeSent
    <3>3. tpc'[t] = "forget"
      BY <1>1, <1>2, <2>2 DEF Goto
    <3> QED
      BY <1>4, <2>1, <3>2, <3>3
  <2>3. CASE p \notin Keys(liveSamples)
    <3>1. Told' = Told /\ (Failed => Failed')
      BY <1>1, <2>3, Unsaid
    <3>2. tpc'[t] = "release"
      BY <1>1, <1>2, <2>3 DEF Goto
    <3>3. liveSamples[p] = NoToken /\ Told.live[p] = NoToken
      BY <1>4, <2>3 DEF Keys, Agreed, Fits
    <3> QED
      BY <3>1, <3>2, <3>3
  <2> QED
    BY <2>2, <2>3
<1>8. Local(t)'
  BY <1>2, <1>5, <1>7 DEF Local, NewExact, OldExact, AtOld
<1>9. Placing'
  BY <1>2, <1>3, <1>5, <1>6, <1>7, <1>8, SettledParts, Framed
<1>10. Awaited'
  BY <1>2, <1>3, <1>5, <1>7, SettledParts, AwaitedKept
<1> QED
  BY <1>9, <1>10

(* A call that is sampled has a token of its own, and its stack is sent.   *)
LEMMA AskedAwaited ==
    ASSUME Settled, Lossless', NEW t \in Threads, NEW kind, NEW old, Sampled(t, kind, old), UNCHANGED collectorVars
    PROVE  Told'.live = Told.live /\ Awaited' /\ (Failed => Failed')
<1> DEFINE n == nextToken + 1
<1>1. PICK e \in Events : e.kind \in {"stack", "broken"} /\ e.token = n /\ Emit(e)
  BY SettledParts, Asked DEF Kernel
<1>2. nextToken \in Nat /\ n \in Tokens /\ nextToken' = n
  BY SettledParts, Limits, Asked DEF Kernel
<1>3. /\ call \in [Threads -> CallRecords] /\ call'[t].token = n
      /\ \A u \in Threads \ {t} : call'[u] = call[u]
  BY <1>2, ThreadState DEF Sampled, Call
<1>4. Told' = ApplyEvent(Told, e) /\ (Failed => Failed')
  BY <1>1, Sent DEF Lossless
<1>5. Told'.live = Told.live /\ \A m \in Told.stacks \cup {n} : Waits(Told', m)
  BY <1>1, <1>4, SettledParts, EventApplied
<1> HIDE DEF n
<1>6. ASSUME NEW u \in Threads, call'[u].token # NoToken
      PROVE  Waits(Told', call'[u].token) /\ call'[u].token <= nextToken'
  <2>1. CASE u = t
    BY <1>2, <1>3, <1>5, <2>1 DEF n
  <2>2. CASE u # t
    <3>1. call'[u] = call[u] /\ Waits(Told, call[u].token) /\ call[u].token <= nextToken
      BY <1>3, <1>6, <2>2, SettledParts DEF Awaited
    <3>2. call[u].token \in Nat
      <4>1. call[u].token \in Tokens \cup {NoToken}
        BY <1>3 DEF CallRecords
      <4> QED
        BY <4>1, Limits DEF Tokens
    <3>3. Waits(Told', call[u].token)
      BY <1>4, <1>5, <3>1 DEF Waits, Failed
    <3> QED
      BY <1>2, <3>1, <3>2, <3>3 DEF n
  <2> QED
    BY <2>1, <2>2
<1>7. ASSUME NEW u \in Threads, NEW v \in Threads, u # v, call'[u].token # NoToken
      PROVE  call'[u].token # call'[v].token
  <2>1. \A w \in Threads \ {t} : call'[w] = call[w] /\ call[w].token # n
    <3>1. \A w \in Threads : call[w].token # NoToken => call[w].token <= nextToken
      BY SettledParts DEF Awaited
    <3>2. n > nextToken /\ n # NoToken
      BY <1>2 DEF n
    <3>3. \A w \in Threads : call[w].token \in Tokens \cup {NoToken}
      BY <1>3 DEF CallRecords
    <3> QED
      BY <1>2, <1>3, <3>1, <3>2, <3>3 DEF Tokens
  <2>2. CASE u # t /\ v # t
    BY <1>7, <2>1, <2>2, SettledParts DEF Awaited
  <2> QED
    BY <1>3, <1>7, <2>1, <2>2
<1>8. Awaited'
  BY <1>6, <1>7 DEF Awaited
<1> QED
  BY <1>4, <1>5, <1>8

LEMMA ExactEnter ==
    ASSUME Settled, Lossless', NEW t \in Threads, MallocEnter(t) \/ ReallocEnter(t), UNCHANGED collectorVars
    PROVE  Placing' /\ Awaited'
<1>1. PICK kind \in {"malloc", "realloc", "shrink"}, old \in {NoPointer} \cup owned :
         /\ Begin(t, kind, old) /\ Goto(t, "allocate") /\ tpc[t] = "run"
         /\ UNCHANGED <<available, sampled, liveSamples>>
  BY SettledParts, Entered
<1>2. /\ call[t] = NoCall /\ tpc \in [Threads -> Labels] /\ call \in [Threads -> CallRecords]
      /\ tpc'[t] = "allocate" /\ \A u \in Threads \ {t} : tpc'[u] = tpc[u]
  BY <1>1, ThreadState DEF Goto, Shape
<1>3. Mine(t) = {} /\ call[t].token = NoToken
  BY <1>2 DEF Mine, NoCall, Call
<1>4. old # NoPointer => Agreed(old) /\ old \in Pointers
  BY <1>3, ThreadState
<1>5. /\ call'[t].ptr = NoPointer /\ call'[t].old = old /\ call'[t].tracked = OldTracked(old)
      /\ \A u \in Threads \ {t} : call'[u] = call[u]
  BY <1>1, <1>2 DEF Begin, Unsampled, Sampled, Call
<1>6. Told'.live = Told.live /\ Awaited' /\ (Failed => Failed')
  <2>1. CASE Unsampled(t, kind, old)
    <3>1. Told' = Told /\ (Failed => Failed')
      BY <2>1, Unsaid DEF Unsampled
    <3>2. nextToken' = nextToken /\ call'[t].token = NoToken
      BY <1>2, <2>1 DEF Unsampled, Call
    <3> QED
      BY <1>5, <3>1, <3>2, SettledParts, AwaitedKept
  <2>2. CASE Sampled(t, kind, old)
    BY <2>2, AskedAwaited
  <2> QED
    BY <1>1, <2>1, <2>2 DEF Begin
<1>7. Mine(t)' = {old} \ {NoPointer}
  BY <1>5 DEF Mine
<1>8. Local(t)'
  <2>1. OldTracked(old) <=> old \in Pointers /\ liveSamples[old] # NoToken
    BY DEF OldTracked, Keys
  <2>2. OldExact(tpc[t], call[t])'
    BY <1>1, <1>2, <1>4, <1>5, <1>6, <2>1 DEF OldExact, AtOld, Agreed, Fits
  <2> QED
    BY <1>5, <2>2 DEF Local, NewExact
<1>9. Placing'
  BY <1>1, <1>2, <1>3, <1>5, <1>6, <1>7, <1>8, SettledParts, Framed
<1> QED
  BY <1>6, <1>9

(* A call that nests: another token, and still no address.                 *)
LEMMA ExactNested ==
    ASSUME Settled, Lossless', NEW t \in Threads, NestedEnter(t), UNCHANGED collectorVars
    PROVE  Placing' /\ Awaited'
<1>1. /\ Sampled(t, "malloc", NoPointer) /\ UNCHANGED <<tpc, owned, available, sampled, liveSamples>>
      /\ tpc[t] = "allocate" /\ call[t].kind = "malloc"
  BY DEF NestedEnter
<1>2. Told'.live = Told.live /\ Awaited' /\ (Failed => Failed')
  BY <1>1, AskedAwaited
<1>3. call[t].ptr = NoPointer /\ call[t].old = NoPointer /\ call \in [Threads -> CallRecords]
  BY <1>1, ThreadState DEF Shape
<1>4. /\ call'[t].ptr = NoPointer /\ call'[t].old = NoPointer
      /\ \A u \in Threads \ {t} : call'[u] = call[u]
  BY <1>1, <1>3 DEF Sampled, Call
<1>5. Mine(t) = {} /\ Mine(t)' = {} /\ Local(t)'
  BY <1>3, <1>4 DEF Mine, Local, NewExact, OldExact
<1>6. Placing'
  BY <1>1, <1>2, <1>4, <1>5, SettledParts, Framed
<1> QED
  BY <1>2, <1>6

LEMMA ExactAllocate ==
    ASSUME Settled, NEW t \in Threads, Allocate(t), UNCHANGED collectorVars
    PROVE  Placing' /\ Awaited'
<1> DEFINE o == call[t]
    released == {o.old} \ {NoPointer}
<1>1. /\ o \in CallRecords /\ Shape("allocate", o) /\ o.ptr = NoPointer /\ Mine(t) = released
      /\ tpc[t] = "allocate" /\ Local(t) /\ released \subseteq Pointers
      /\ tpc \in [Threads -> Labels] /\ call \in [Threads -> CallRecords]
  <2>1. tpc[t] = "allocate"
    BY DEF Allocate
  <2> QED
    BY <2>1, ThreadState DEF Shape, Mine
<1>2. /\ tpc'[t] = "return" /\ \A u \in Threads \ {t} : tpc'[u] = tpc[u]
      /\ nextToken' = nextToken /\ liveSamples' = liveSamples /\ owned' = owned
  BY <1>1 DEF Allocate, Goto
<1>3. Told' = Told /\ (Failed => Failed')
  BY Unsaid DEF Allocate
<1>4. o.old # NoPointer =>
        /\ liveSamples[o.old] = sampled[o.old] /\ Fits(Told.live[o.old], sampled[o.old])
        /\ o.tracked <=> liveSamples[o.old] # NoToken
  BY <1>1 DEF Local, OldExact, AtOld
<1>5. CASE UNCHANGED <<available, sampled, call>> /\ o.kind # "shrink"
  <2>1. Mine(t)' = Mine(t)
    BY <1>5 DEF Mine
  <2>2. ~Moved(o)
    BY <1>1, <1>5 DEF Moved
  <2>3. Local(t)'
    BY <1>1, <1>2, <1>3, <1>4, <1>5, <2>2 DEF Local, NewExact, OldExact, AtOld, Fits
  <2>4. Placing'
    BY <1>1, <1>2, <1>3, <1>5, <2>1, <2>3, SettledParts, Framed
  <2> QED
    BY <1>2, <1>3, <1>5, <2>4, SettledParts, AwaitedKept
<1>6. CASE /\ o.kind = "shrink" /\ available' = available \cup released /\ UNCHANGED call
           /\ sampled' = [sampled EXCEPT ![o.old] = NoToken]
  <2>1. Mine(t)' = Mine(t)
    BY <1>6 DEF Mine
  <2>2. Moved(o) /\ o.old \in Pointers /\ o.old # NoPointer
    BY <1>1, <1>6, Limits DEF Moved, Shape
  <2>3. /\ sampled'[o.old] = NoToken /\ \A p \in Pointers \ released : sampled'[p] = sampled[p]
    BY <1>6, <2>2, SettledParts DEF Tracked
  <2>4. Local(t)'
    BY <1>1, <1>2, <1>3, <1>4, <1>6, <2>2, <2>3 DEF Local, NewExact, OldExact, AtOld, Fits
  <2>5. Placing'
    BY <1>1, <1>2, <1>3, <1>6, <2>1, <2>3, <2>4, SettledParts, Framed
  <2> QED
    BY <1>2, <1>3, <1>6, <2>5, SettledParts, AwaitedKept
<1>7. ASSUME NEW p \in available \cup released, o.kind # "shrink",
             available' = (available \cup released) \ {p}, call' = [call EXCEPT ![t].ptr = p],
             sampled' = [q \in Pointers |->
                CASE q = p -> o.token [] q \in released \ {p} -> NoToken [] OTHER -> sampled[q]]
      PROVE  Placing' /\ Awaited'
  <2>1. /\ call'[t].ptr = p /\ call'[t].old = o.old /\ call'[t].token = o.token
        /\ call'[t].tracked = o.tracked /\ call'[t].kind = o.kind
        /\ \A u \in Threads \ {t} : call'[u] = call[u]
    BY <1>1, <1>7 DEF CallRecords
  <2>2. p \in Pointers /\ p # NoPointer
    BY <1>1, <1>7, Limits, SettledParts DEF Owners
  <2>3. Mine(t)' = {p} \cup released
    BY <2>1, <2>2 DEF Mine
  <2>4. p # o.old => liveSamples[p] = NoToken /\ Told.live[p] = NoToken
    <3> SUFFICES ASSUME p # o.old PROVE liveSamples[p] = NoToken /\ Told.live[p] = NoToken
      OBVIOUS
    <3>1. p \in available /\ p \notin Mine(t)
      BY <1>1, <1>7
    <3> QED
      BY <3>1, ThreadState DEF Agreed, Fits
  <2>5. /\ sampled'[p] = o.token
        /\ o.old \notin {NoPointer, p} => sampled'[o.old] = NoToken
        /\ \A q \in Pointers \ ({p} \cup released) : sampled'[q] = sampled[q]
    BY <1>1, <1>7, <2>2
  <2>6. o.old # NoPointer => Moved(call'[t])
    <3>1. o.old # NoPointer => o.kind = "realloc"
      BY <1>1, <1>7 DEF Shape, Kinds
    <3> QED
      BY <2>1, <2>2, <3>1 DEF Moved
  <2>7. NewExact(tpc[t], call[t])'
    BY <1>2, <1>3, <2>1, <2>4, <2>5 DEF NewExact, AtPtr
  <2>8. OldExact(tpc[t], call[t])'
    BY <1>2, <1>3, <1>4, <2>1, <2>5, <2>6 DEF OldExact, AtOld, Fits
  <2>9. Local(t)'
    BY <2>7, <2>8 DEF Local
  <2>10. Placing'
    <3>1. Mine(t)' \subseteq Mine(t) \cup owned \cup available
      BY <1>1, <1>7, <2>3
    <3>2. \A q \in Pointers \ (Mine(t) \cup Mine(t)') :
            /\ liveSamples'[q] = liveSamples[q] /\ sampled'[q] = sampled[q] /\ Told.live'[q] = Told.live[q]
            /\ q \in available' => q \in available
      BY <1>1, <1>2, <1>3, <1>7, <2>3, <2>5
    <3>3. Mine(t) \ Mine(t)' = {}
      BY <1>1, <2>3
    <3> QED
      BY <1>2, <1>3, <2>1, <2>9, <3>1, <3>2, <3>3, SettledParts, Framed
  <2> QED
    BY <1>2, <1>3, <2>1, <2>10, SettledParts, AwaitedKept
<1>8. \/ UNCHANGED <<available, sampled, call>> /\ o.kind # "shrink"
      \/ /\ o.kind = "shrink" /\ available' = available \cup released /\ UNCHANGED call
         /\ sampled' = [sampled EXCEPT ![o.old] = NoToken]
      \/ o.kind # "shrink" /\ \E p \in available \cup released :
            /\ available' = (available \cup released) \ {p} /\ call' = [call EXCEPT ![t].ptr = p]
            /\ sampled' = [q \in Pointers |->
                 CASE q = p -> o.token [] q \in released \ {p} -> NoToken [] OTHER -> sampled[q]]
  BY DEF Allocate
<1> QED
  BY <1>5, <1>6, <1>7, <1>8

(* The end of a call: the kernel's map, the target's memory and what the   *)
(* collector will know must agree again on its addresses.                  *)
LEMMA ExactDeliver ==
    ASSUME Settled, NEW t \in Threads, Deliver(t), UNCHANGED <<available, nextToken>>,
           \A p \in Pointers \ Mine(t) :
              liveSamples'[p] = liveSamples[p] /\ sampled'[p] = sampled[p] /\ Told.live'[p] = Told.live[p],
           \A p \in Mine(t) : Agreed(p)',
           \A u \in Threads \ {t} :
              call[u].token # NoToken /\ call[u].token \in Told.stacks => call[u].token \in Told'.stacks,
           Failed => Failed'
    PROVE  Placing' /\ Awaited'
<1>1. /\ call'[t] = NoCall /\ tpc'[t] = "run"
      /\ \A u \in Threads \ {t} : tpc'[u] = tpc[u] /\ call'[u] = call[u]
  BY ThreadState DEF Deliver, Goto
<1>2. /\ call'[t].ptr = NoPointer /\ call'[t].old = NoPointer /\ call'[t].token = NoToken
  BY <1>1 DEF NoCall, Call
<1>3. Mine(t)' = {} /\ Local(t)'
  BY <1>2 DEF Mine, Local, NewExact, OldExact
<1>4. Placing'
  BY <1>1, <1>3, SettledParts, Framed
<1>5. Awaited'
  BY <1>1, <1>2, SettledParts, AwaitedKept
<1> QED
  BY <1>4, <1>5

LEMMA SameCall ==
    ASSUME Settled, NEW t \in Threads, NEW pc, Goto(t, pc), UNCHANGED <<call, nextToken>>, Told'.stacks = Told.stacks,
           Failed => Failed'
    PROVE  /\ tpc'[t] = pc /\ call' = call /\ Mine(t)' = Mine(t) /\ Awaited'
           /\ \A u \in Threads \ {t} : tpc'[u] = tpc[u] /\ call'[u] = call[u]
<1>1. /\ tpc'[t] = pc /\ call' = call /\ Mine(t)' = Mine(t)
      /\ \A u \in Threads \ {t} : tpc'[u] = tpc[u] /\ call'[u] = call[u]
  BY ThreadState DEF Goto, Mine
<1> QED
  BY <1>1, SettledParts, AwaitedKept

(* What a returning call that tracked an address knows of it.              *)
LEMMA Succeeded ==
    ASSUME NEW c \in CallRecords, Shape("return", c), c.old # NoPointer
    PROVE  Moved(c) <=> ReallocSucceeded(c)
  BY DEF Shape, Kinds, Moved, ReallocSucceeded

LEMMA ExactReturn ==
    ASSUME Settled, Lossless', NEW t \in Threads, Return(t), UNCHANGED collectorVars
    PROVE  Placing' /\ Awaited'
<1> DEFINE c == call[t]
    leaves == c.tracked /\ ReallocSucceeded(c) /\ c.old \in Keys(liveSamples)
<1>1. /\ tpc[t] = "return" /\ c \in CallRecords /\ Shape("return", c) /\ Local(t)
      /\ Mine(t) \subseteq Pointers /\ UNCHANGED <<available, sampled, nextToken, liveSamples>>
      /\ Told.live \in [Pointers -> Tokens \cup {NoToken}]
  BY ThreadState, SettledParts, KnownFields DEF Return
<1>2. /\ c.ptr # NoPointer => /\ c.ptr \in Pointers /\ sampled[c.ptr] = c.token
                              /\ c.ptr # c.old => liveSamples[c.ptr] = NoToken /\ Told.live[c.ptr] = NoToken
      /\ c.old # NoPointer =>
            /\ c.old \in Pointers /\ Fits(Told.live[c.old], liveSamples[c.old])
            /\ c.tracked <=> liveSamples[c.old] # NoToken
            /\ c.ptr # c.old => sampled[c.old] = IF Moved(c) THEN NoToken ELSE liveSamples[c.old]
  BY <1>1 DEF Local, NewExact, OldExact, AtPtr, AtOld, CallRecords
<1>3. c.old # NoPointer => (Moved(c) <=> ReallocSucceeded(c))
  BY <1>1, Succeeded
<1>4. CASE leaves
  <2>1. Emit(Event("free", liveSamples[c.old], c.old)) /\ drops' = 0 /\ Goto(t, "untrack") /\ UNCHANGED call
    BY <1>4 DEF Return, Lossless
  <2>2. /\ Told' = [stacks |-> Told.stacks, live |-> [Told.live EXCEPT ![c.old] = NoToken], failures |-> Told.failures]
        /\ Failed => Failed'
    BY <1>4, <2>1, FreeSent
  <2>3. c.old \in Pointers /\ c.old # NoPointer /\ Moved(c)
    BY <1>3, <1>4, Limits DEF Keys
  <2>4. /\ Told'.live[c.old] = NoToken /\ Told'.stacks = Told.stacks
        /\ \A p \in Pointers \ {c.old} : Told'.live[p] = Told.live[p]
    BY <1>1, <2>2, <2>3
  <2>5. /\ tpc'[t] = "untrack" /\ call' = call /\ Mine(t)' = Mine(t) /\ Awaited'
        /\ \A u \in Threads \ {t} : tpc'[u] = tpc[u] /\ call'[u] = call[u]
    BY <1>1, <2>1, <2>2, <2>4, SameCall
  <2>6. Local(t)'
    BY <1>1, <1>2, <2>3, <2>4, <2>5 DEF Local, NewExact, OldExact, AtPtr, AtOld
  <2>7. c.old \in Mine(t)
    BY <2>3 DEF Mine
  <2>8. Placing'
    BY <1>1, <2>2, <2>4, <2>5, <2>6, <2>7, SettledParts, Framed
  <2> QED
    BY <2>5, <2>8
<1>5. CASE ~leaves
  <2>1. Told' = Told /\ (Failed => Failed')
    BY <1>5, Unsaid DEF Return
  <2>2. c.old # NoPointer /\ Moved(c) => liveSamples[c.old] = NoToken
    BY <1>2, <1>3, <1>5 DEF Keys
  <2>3. c.ptr # NoPointer => liveSamples[c.ptr] = NoToken /\ Told.live[c.ptr] = NoToken
    BY <1>2, <1>3, <1>5 DEF Keys, ReallocSucceeded, Fits
  <2>4. CASE Tracks(c)
    <3>1. Goto(t, "track") /\ UNCHANGED call
      BY <1>5, <2>4 DEF Return
    <3>2. /\ tpc'[t] = "track" /\ call' = call /\ Mine(t)' = Mine(t) /\ Awaited'
          /\ \A u \in Threads \ {t} : tpc'[u] = tpc[u] /\ call'[u] = call[u]
      BY <1>1, <2>1, <3>1, SameCall
    <3>3. c.old # NoPointer => Moved(c)
      BY <1>3, <2>4 DEF Tracks, ReallocSucceeded
    <3>4. Local(t)'
      BY <1>1, <1>2, <2>1, <2>2, <2>3, <3>2, <3>3 DEF Local, NewExact, OldExact, AtPtr, AtOld, Fits
    <3>5. Placing'
      BY <1>1, <2>1, <3>2, <3>4, SettledParts, Framed
    <3> QED
      BY <3>2, <3>5
  <2>5. CASE ~Tracks(c)
    <3>1. Deliver(t)
      BY <1>5, <2>5 DEF Return
    <3>2. ASSUME NEW p \in Mine(t), p = c.ptr
          PROVE  Agreed(p)'
      BY <1>1, <1>2, <2>1, <2>3, <2>5, <3>2 DEF Tracks, Agreed, Mine, Fits
    <3>3. ASSUME NEW p \in Mine(t), p = c.old, p # c.ptr
          PROVE  Agreed(p)'
      <4>1. ~Moved(c) => p \in Held(t)
        BY <1>1, <3>3 DEF Held, HeldBy, Mine
      <4>2. ~Moved(c) => p \notin available
        BY <4>1, SettledParts DEF Owners, Separate
      <4>3. p # NoPointer
        BY DEF Mine
      <4> QED
        BY <1>1, <1>2, <2>1, <2>2, <3>3, <4>2, <4>3 DEF Agreed, Fits
    <3>4. \A p \in Mine(t) : Agreed(p)'
      <4>1. \A p \in Mine(t) : p = c.ptr \/ (p = c.old /\ p # c.ptr)
        BY DEF Mine
      <4> QED
        BY <3>2, <3>3, <4>1
    <3> QED
      BY <1>1, <2>1, <3>1, <3>4, ExactDeliver
  <2> QED
    BY <2>4, <2>5
<1> QED
  BY <1>4, <1>5

LEMMA ExactUntrack ==
    ASSUME Settled, NEW t \in Threads, Untrack(t), UNCHANGED collectorVars
    PROVE  Placing' /\ Awaited'
<1> DEFINE c == call[t]
<1>1. /\ tpc[t] = "untrack" /\ c \in CallRecords /\ Shape("untrack", c) /\ Local(t)
      /\ Mine(t) \subseteq Pointers /\ UNCHANGED <<available, sampled, nextToken>>
      /\ liveSamples' = [liveSamples EXCEPT ![c.old] = NoToken]
  BY ThreadState DEF Untrack, Delete
<1>2. Told' = Told /\ (Failed => Failed')
  BY Unsaid DEF Untrack
<1>3. /\ c.old \in Pointers /\ c.old # NoPointer
      /\ Told.live[c.old] = NoToken /\ (c.ptr # c.old => sampled[c.old] = NoToken)
  BY <1>1, Limits DEF Local, OldExact, AtOld, Shape
<1>4. c.ptr # NoPointer =>
        /\ c.ptr \in Pointers /\ sampled[c.ptr] = c.token /\ Told.live[c.ptr] = NoToken
        /\ c.ptr # c.old => liveSamples[c.ptr] = NoToken
  BY <1>1 DEF Local, NewExact, AtPtr, CallRecords
<1>5. /\ liveSamples'[c.old] = NoToken
      /\ \A p \in Pointers \ {c.old} : liveSamples'[p] = liveSamples[p]
  BY <1>1, <1>3, SettledParts DEF Tracked
<1>6. c.old \in Mine(t)
  BY <1>3 DEF Mine
<1>7. CASE Tracks(c)
  <2>1. Goto(t, "track") /\ UNCHANGED call
    BY <1>7 DEF Untrack
  <2>2. /\ tpc'[t] = "track" /\ call' = call /\ Mine(t)' = Mine(t) /\ Awaited'
        /\ \A u \in Threads \ {t} : tpc'[u] = tpc[u] /\ call'[u] = call[u]
    BY <1>1, <1>2, <2>1, SameCall
  <2>3. Local(t)'
    BY <1>1, <1>2, <1>3, <1>4, <1>5, <2>2 DEF Local, NewExact, OldExact, AtPtr, AtOld
  <2>4. Placing'
    BY <1>1, <1>2, <1>5, <1>6, <2>2, <2>3, SettledParts, Framed
  <2> QED
    BY <2>2, <2>4
<1>8. CASE ~Tracks(c)
  <2>1. Deliver(t)
    BY <1>8 DEF Untrack
  <2>2. ASSUME NEW p \in Mine(t)
        PROVE  Agreed(p)'
    <3>1. p \in {c.ptr, c.old} /\ p # NoPointer
      BY DEF Mine
    <3>2. sampled[p] = NoToken /\ Told.live[p] = NoToken /\ liveSamples'[p] = NoToken
      BY <1>3, <1>4, <1>5, <1>8, <3>1 DEF Tracks
    <3> QED
      BY <1>1, <1>2, <3>2 DEF Agreed, Fits
  <2> QED
    BY <1>1, <1>2, <1>5, <1>6, <2>1, <2>2, ExactDeliver
<1> QED
  BY <1>7, <1>8

LEMMA ExactTrack ==
    ASSUME Settled, Lossless, Lossless', NEW t \in Threads, Track(t), UNCHANGED collectorVars
    PROVE  Placing' /\ Awaited'
<1> DEFINE c == call[t]
<1>1. /\ tpc[t] = "track" /\ c \in CallRecords /\ Shape("track", c) /\ Local(t)
      /\ Mine(t) \subseteq Pointers /\ UNCHANGED <<available, sampled, nextToken, call>>
      /\ Goto(t, "announce") /\ c.ptr \in Pointers /\ c.ptr # NoPointer
  BY ThreadState, Limits DEF Track, Shape, Tracks, CallRecords
<1>2. Told' = Told /\ (Failed => Failed')
  BY Unsaid DEF Track
<1>3. PICK victims \in {{}} \cup {{q} : q \in Keys(liveSamples) \ {c.ptr}} :
        /\ evicted' = evicted + Cardinality(victims)
        /\ liveSamples' = [q \in Pointers |->
              CASE q = c.ptr -> c.token [] q \in victims -> NoToken [] OTHER -> liveSamples[q]]
  BY DEF Track
<1>4. victims = {}
  <2>1. Cardinality(victims) = 0 \/ Cardinality(victims) = 1
    BY FewVictims
  <2>2. Cardinality(victims) = 0
    BY <1>3, <2>1 DEF Lossless
  <2> QED
    BY <2>2, FewVictims
<1>5. /\ liveSamples'[c.ptr] = c.token
      /\ \A p \in Pointers \ {c.ptr} : liveSamples'[p] = liveSamples[p]
  BY <1>1, <1>3, <1>4
<1>6. /\ tpc'[t] = "announce" /\ call' = call /\ Mine(t)' = Mine(t) /\ Awaited'
      /\ \A u \in Threads \ {t} : tpc'[u] = tpc[u] /\ call'[u] = call[u]
  BY <1>1, <1>2, SameCall
<1>7. sampled[c.ptr] = c.token /\ Told.live[c.ptr] = NoToken
  BY <1>1 DEF Local, NewExact, AtPtr
<1>8. c.old # NoPointer /\ c.ptr # c.old =>
        /\ c.old \in Pointers
        /\ liveSamples[c.old] = NoToken /\ sampled[c.old] = NoToken /\ Told.live[c.old] = NoToken
  BY <1>1 DEF Local, OldExact, AtOld, CallRecords
<1>9. Local(t)'
  BY <1>1, <1>2, <1>5, <1>6, <1>7, <1>8 DEF Local, NewExact, OldExact, AtPtr, AtOld
<1>10. c.ptr \in Mine(t)
  BY <1>1 DEF Mine
<1>11. Placing'
  BY <1>1, <1>2, <1>5, <1>6, <1>9, <1>10, SettledParts, Framed
<1> QED
  BY <1>6, <1>11

LEMMA ExactAnnounce ==
    ASSUME Settled, Lossless', NEW t \in Threads, Announce(t), UNCHANGED collectorVars
    PROVE  Placing' /\ Awaited'
<1> DEFINE c == call[t]
    e == Event("alloc", c.token, c.ptr)
<1>1. /\ tpc[t] = "announce" /\ c \in CallRecords /\ Shape("announce", c) /\ Local(t)
      /\ Mine(t) \subseteq Pointers /\ UNCHANGED <<available, sampled, nextToken, liveSamples>>
      /\ Deliver(t) /\ c.ptr \in Pointers /\ c.ptr # NoPointer /\ c.token \in Tokens
  BY ThreadState, Limits DEF Announce, Shape, Tracks, CallRecords
<1>2. Waits(Told, c.token) /\ \A u \in Threads \ {t} : call[u].token # c.token
  <2>1. c.token # NoToken
    BY <1>1 DEF Shape, Tracks
  <2> QED
    BY <2>1, SettledParts DEF Awaited
<1>3. e \in Events /\ e.kind = "alloc" /\ e.token = c.token /\ e.ptr = c.ptr
  BY <1>1, MadeEvents DEF Event
<1>4. Emit(e) /\ drops' = 0
  BY DEF Announce, Lossless
<1>5. Told' = ApplyEvent(Told, e) /\ (Failed => Failed')
  BY <1>3, <1>4, Sent
<1> HIDE DEF e
<1>6. Told \in Knowns /\ Told.live \in [Pointers -> Tokens \cup {NoToken}] /\ Told.failures \in Nat
  BY SettledParts, KnownFields
<1>7. /\ Told'.live[c.ptr] = c.token \/ (Told'.live[c.ptr] = Told.live[c.ptr] /\ Failed')
      /\ \A n \in Told.stacks \ {c.token} : n \in Told'.stacks
      /\ \A p \in Pointers \ {c.ptr} : Told'.live[p] = Told.live[p]
  <2>1. CASE c.token \in Told.stacks
    <3>1. Told' = [stacks |-> Told.stacks \ {c.token}, live |-> [Told.live EXCEPT ![c.ptr] = c.token],
                   failures |-> Told.failures]
      BY <1>3, <1>5, <1>6, <2>1, EventApplied
    <3> QED
      BY <1>1, <1>6, <3>1
  <2>2. CASE c.token \notin Told.stacks
    <3>1. Told' = [stacks |-> Told.stacks, live |-> Told.live, failures |-> Told.failures + 1]
      BY <1>3, <1>5, <1>6, <2>2, EventApplied
    <3>2. Failed'
      BY <1>6, <3>1 DEF Failed
    <3> QED
      BY <3>1, <3>2
  <2> QED
    BY <2>1, <2>2
<1>8. sampled[c.ptr] = c.token /\ liveSamples[c.ptr] = c.token /\ Told.live[c.ptr] = NoToken
  BY <1>1 DEF Local, NewExact, AtPtr
<1>9. c.old # NoPointer /\ c.ptr # c.old =>
        /\ c.old \in Pointers
        /\ liveSamples[c.old] = NoToken /\ sampled[c.old] = NoToken /\ Told.live[c.old] = NoToken
  BY <1>1 DEF Local, OldExact, AtOld, CallRecords
<1>10. c.ptr \notin available
  <2>1. c.ptr \in Held(t)
    BY <1>1 DEF Held, HeldBy
  <2> QED
    BY <2>1, SettledParts DEF Owners, Separate
<1>11. ASSUME NEW p \in Mine(t)
       PROVE  Agreed(p)'
  <2>1. p \in {c.ptr, c.old} /\ p # NoPointer
    BY DEF Mine
  <2>2. CASE p = c.ptr
    BY <1>1, <1>7, <1>8, <1>10, <2>2 DEF Agreed, Fits
  <2>3. CASE p = c.old /\ p # c.ptr
    BY <1>1, <1>7, <1>9, <2>1, <2>3 DEF Agreed, Fits
  <2> QED
    BY <2>1, <2>2, <2>3
<1>12. c.ptr \in Mine(t)
  BY <1>1 DEF Mine
<1> QED
  BY <1>1, <1>2, <1>5, <1>7, <1>11, <1>12, ExactDeliver

LEMMA ExactForget ==
    ASSUME Settled, NEW t \in Threads, Forget(t), UNCHANGED collectorVars
    PROVE  Placing' /\ Awaited'
<1> DEFINE c == call[t]
<1>1. /\ tpc[t] = "forget" /\ c \in CallRecords /\ Shape("forget", c) /\ Local(t)
      /\ Mine(t) \subseteq Pointers /\ UNCHANGED <<available, sampled, nextToken, call>>
      /\ liveSamples' = [liveSamples EXCEPT ![c.old] = NoToken] /\ Goto(t, "release")
  BY ThreadState DEF Forget, Delete
<1>2. Told' = Told /\ (Failed => Failed')
  BY Unsaid DEF Forget
<1>3. c.old \in Pointers /\ c.old # NoPointer /\ c.ptr = NoPointer
  BY <1>1, Limits DEF Shape
<1>4. Told.live[c.old] = NoToken
  BY <1>1, <1>3 DEF Local, OldExact, AtOld
<1>5. /\ liveSamples'[c.old] = NoToken
      /\ \A p \in Pointers \ {c.old} : liveSamples'[p] = liveSamples[p]
  BY <1>1, <1>3, SettledParts DEF Tracked
<1>6. /\ tpc'[t] = "release" /\ call' = call /\ Mine(t)' = Mine(t) /\ Awaited'
      /\ \A u \in Threads \ {t} : tpc'[u] = tpc[u] /\ call'[u] = call[u]
  BY <1>1, <1>2, SameCall
<1>7. Local(t)'
  BY <1>2, <1>3, <1>4, <1>5, <1>6 DEF Local, NewExact, OldExact, AtOld
<1>8. c.old \in Mine(t)
  BY <1>3 DEF Mine
<1>9. Placing'
  BY <1>1, <1>2, <1>5, <1>6, <1>7, <1>8, SettledParts, Framed
<1> QED
  BY <1>6, <1>9

LEMMA ExactRelease ==
    ASSUME Settled, NEW t \in Threads, Release(t), UNCHANGED collectorVars
    PROVE  Placing' /\ Awaited'
<1> DEFINE c == call[t]
<1>1. /\ tpc[t] = "release" /\ c \in CallRecords /\ Shape("release", c) /\ Local(t)
      /\ UNCHANGED <<nextToken, liveSamples>>
      /\ available' = available \cup {c.old} /\ sampled' = [sampled EXCEPT ![c.old] = NoToken]
      /\ call' = [call EXCEPT ![t] = NoCall] /\ Goto(t, "run")
  BY ThreadState DEF Release
<1>2. Told' = Told /\ (Failed => Failed')
  BY Unsaid DEF Release
<1>3. c.old \in Pointers /\ c.old # NoPointer /\ c.ptr = NoPointer
  BY <1>1, Limits DEF Shape
<1>4. Told.live[c.old] = NoToken /\ liveSamples[c.old] = NoToken /\ Mine(t) = {c.old}
  BY <1>1, <1>3 DEF Local, OldExact, AtOld, Mine
<1>5. /\ sampled'[c.old] = NoToken
      /\ \A p \in Pointers \ {c.old} : sampled'[p] = sampled[p]
  BY <1>1, <1>3, SettledParts DEF Tracked
<1>6. /\ call'[t] = NoCall
      /\ \A u \in Threads \ {t} : tpc'[u] = tpc[u] /\ call'[u] = call[u]
  BY <1>1, ThreadState DEF Goto
<1>7. call'[t].ptr = NoPointer /\ call'[t].old = NoPointer /\ call'[t].token = NoToken
  BY <1>6 DEF NoCall, Call
<1>8. Mine(t)' = {} /\ Local(t)'
  BY <1>7 DEF Mine, Local, NewExact, OldExact
<1>9. ASSUME NEW p \in Mine(t) PROVE Agreed(p)'
  BY <1>1, <1>2, <1>4, <1>5, <1>9 DEF Agreed, Fits
<1>10. Placing'
  BY <1>1, <1>2, <1>4, <1>5, <1>6, <1>8, <1>9, SettledParts, Framed
<1>11. Awaited'
  BY <1>1, <1>2, <1>6, <1>7, SettledParts, AwaitedKept
<1> QED
  BY <1>10, <1>11

LEMMA ExactThread ==
    ASSUME Settled, Lossless, Lossless', NEW t \in Threads, Thread(t)
    PROVE  Exact'
<1>1. UNCHANGED collectorVars
  BY ThreadFrame
<1>2. Placing' /\ Awaited'
  BY <1>1, ExactFree, ExactEnter, ExactNested, ExactAllocate, ExactReturn, ExactUntrack, ExactTrack, ExactAnnounce,
     ExactForget, ExactRelease DEF Thread
<1>3. cpc' # "reconcile" /\ previous' = 0
  BY <1>1 DEF Settled, Exact
<1> QED
  BY <1>2, <1>3 DEF Exact

LEMMA AddressesFrame ==
    ASSUME Placing, Awaited, UNCHANGED <<available, sampled, tpc, call, nextToken, liveSamples>>, Told' = Told
    PROVE  Placing' /\ Awaited'
<1>1. Placing'
  BY DEF Placing, Agreed, Local, NewExact, OldExact, AtPtr, AtOld, Mine, Moved, Fits, Failed
<1>2. Awaited'
  BY DEF Awaited, Waits
<1> QED
  BY <1>1, <1>2

LEMMA ExactCollector ==
    ASSUME Settled, Lossless, Lossless', Collector
    PROVE  Exact'
<1>1. cpc # "reconcile" /\ previous = 0
  BY DEF Settled, Exact
<1>2. Told' = Told
  BY <1>1, SettledParts, ToldKept DEF Lossless
<1>3. Placing' /\ Awaited'
  BY <1>2, SettledParts, CollectorFrame, AddressesFrame
<1>4. cpc' # "reconcile" /\ previous' = 0
  BY <1>1 DEF Collector, Consume, Drained, ReadStats, Reconcile, Report, Lossless
<1> QED
  BY <1>3, <1>4 DEF Exact

(* A loss is never forgotten.                                              *)
LEMMA LossesStay ==
    ASSUME Typing, [Next]_vars, Lossless'
    PROVE  Lossless
<1>0. drops \in Nat /\ evictions \in Nat /\ evicted \in Nat /\ queueDrops \in Nat
  BY DEF Typing, Kernel, Collected
<1>1. ASSUME NEW t \in Threads, Thread(t) PROVE Lossless
  <2>1. queueDrops' = queueDrops
    BY <1>1, ThreadFrame
  <2>2. drops' \in {drops, drops + 1}
    BY <1>1 DEF Thread, MallocEnter, NestedEnter, ReallocEnter, FreeEnter, Allocate, Return, Untrack, Track, Announce,
                Forget, Release, Begin, Unsampled, Sampled, Emit
  <2>3. evictions' \in {evictions, evictions + 1}
    BY <1>1 DEF Thread, MallocEnter, NestedEnter, ReallocEnter, FreeEnter, Allocate, Return, Untrack, Track, Announce,
                Forget, Release
  <2>4. CASE evicted' = evicted
    BY <1>0, <2>1, <2>2, <2>3, <2>4 DEF Lossless
  <2>5. CASE Track(t)
    <3>1. PICK victims \in {{}} \cup {{q} : q \in Keys(liveSamples) \ {call[t].ptr}} :
             evicted' = evicted + Cardinality(victims)
      BY <2>5 DEF Track
    <3>2. Cardinality(victims) = 0 \/ Cardinality(victims) = 1
      BY FewVictims
    <3> QED
      BY <1>0, <2>1, <2>2, <2>3, <3>1, <3>2 DEF Lossless
  <2> QED
    BY <1>1, <2>4, <2>5 DEF Thread, MallocEnter, NestedEnter, ReallocEnter, FreeEnter, Allocate, Return, Untrack, Announce,
                            Forget, Release
<1>2. CASE Collector
  <2>1. queueDrops' \in {queueDrops, queueDrops + 1}
    BY <1>2 DEF Collector, Consume, Drained, ReadStats, Reconcile, Report
  <2> QED
    BY <1>0, <1>2, <2>1, CollectorFrame DEF Lossless
<1>3. CASE UNCHANGED vars
  BY <1>3 DEF vars, Lossless
<1> QED
  BY <1>1, <1>2, <1>3 DEF Next

LEMMA CallsMadeNext ==
    ASSUME Typing, CallsMade, [Next]_vars
    PROVE  CallsMade'
<1>0. call \in [Threads -> CallRecords] /\ Owners
  BY DEF Typing, Owners
<1>1. ASSUME NEW t \in Threads, Thread(t) PROVE CallsMade'
  <2>1. /\ \A u \in Threads \ {t} : call'[u] = call[u]
        /\ call'[t].kind \in Calls \cup {"none", call[t].kind}
    <3>1. CASE MallocEnter(t) \/ ReallocEnter(t)
      <4>1. \E kind \in Calls : \E old : Begin(t, kind, old)
        BY <1>0, <3>1, Entered
      <4> QED
        BY <1>0, <4>1 DEF Begin, Unsampled, Sampled, Call
    <3>5. CASE NestedEnter(t)
      BY <1>0, <3>5 DEF NestedEnter, Sampled, Call
    <3>2. CASE FreeEnter(t)
      BY <1>0, <3>2 DEF FreeEnter, Call
    <3>3. CASE Allocate(t)
      <4>1. call' = call \/ \E p : call' = [call EXCEPT ![t].ptr = p]
        BY <3>3 DEF Allocate
      <4> QED
        BY <1>0, <4>1 DEF CallRecords
    <3>4. CASE Return(t) \/ Untrack(t) \/ Announce(t) \/ Release(t) \/ Track(t) \/ Forget(t)
      <4>1. call' = call \/ call' = [call EXCEPT ![t] = NoCall]
        BY <3>4 DEF Return, Untrack, Announce, Release, Track, Forget, Deliver
      <4> QED
        BY <1>0, <4>1 DEF NoCall, Call
    <3> QED
      BY <1>1, <3>1, <3>2, <3>3, <3>4, <3>5 DEF Thread
  <2> QED
    BY <2>1 DEF CallsMade
<1>2. CASE Collector \/ UNCHANGED vars
  <2>1. call' = call
    BY <1>2, CollectorFrame DEF vars
  <2> QED
    BY <2>1 DEF CallsMade
<1> QED
  BY <1>1, <1>2 DEF Next

(* With room for every address nothing is evicted.                         *)
LEMMA NoneEvicted ==
    ASSUME Typing, evicted = 0, [Next]_vars, Cardinality(Pointers) <= LiveCap
    PROVE  evicted' = 0
<1>1. ASSUME NEW t \in Threads, Track(t) PROVE evicted' = 0
  <2> DEFINE p == call[t].ptr
      others == Keys(liveSamples) \ {p}
  <2>1. p \in Pointers
    <3>1. tpc[t] = "track" /\ call[t] \in CallRecords /\ Shape("track", call[t])
      BY <1>1 DEF Track, Typing, Owners, Shapes
    <3> QED
      BY <3>1 DEF Shape, Tracks, CallRecords
  <2>2. PICK victims \in {{}} \cup {{q} : q \in others} :
          /\ victims = {} <=> p \in Keys(liveSamples) \/ Cardinality(others) < LiveCap
          /\ evicted' = evicted + Cardinality(victims)
    BY <1>1 DEF Track
  <2>3. Cardinality(others) < LiveCap
    <3>1. others \subseteq Pointers \ {p} /\ IsFiniteSet(Pointers \ {p})
      BY Limits, FS_Subset DEF Keys
    <3>2. Cardinality(others) <= Cardinality(Pointers \ {p})
      BY <3>1, FS_Subset
    <3>3. Cardinality(Pointers \ {p}) = Cardinality(Pointers) - 1
      BY <2>1, OthersFewer
    <3>4. Cardinality(Pointers) \in Nat /\ Cardinality(others) \in Nat /\ Cardinality(Pointers \ {p}) \in Nat
      BY <3>1, Limits, FS_Subset, FS_CardinalityType
    <3> HIDE DEF others
    <3> QED
      BY <3>2, <3>3, <3>4, Limits
  <2>4. victims = {}
    BY <2>2, <2>3
  <2> QED
    BY <2>2, <2>4, FS_EmptySet
<1>2. ASSUME NEW t \in Threads, Thread(t), ~Track(t) PROVE evicted' = 0
  BY <1>2 DEF Thread, MallocEnter, NestedEnter, ReallocEnter, FreeEnter, Allocate, Return, Untrack, Announce, Forget, Release
<1>3. CASE Collector \/ UNCHANGED vars
  BY <1>3, CollectorFrame DEF vars
<1> QED
  BY <1>1, <1>2, <1>3 DEF Next

Faithful ==
    /\ Typing /\ CallsMade
    /\ Alone => Counted
    /\ ~Alone => evicted = 0
    /\ Lossless => Exact

LEMMA FaithfulInit == Init => Faithful
<1> SUFFICES ASSUME Init PROVE Faithful
  OBVIOUS
<1>1. Typing /\ Counted /\ evicted = 0
  BY TypingInit, CountedInit DEF Init
<1>2. \A t \in Threads : /\ call[t].ptr = NoPointer /\ call[t].old = NoPointer
                         /\ call[t].token = NoToken /\ call[t].kind = "none"
  BY DEF Init, NoCall, Call
<1>3. Told = Known
  <2>1. queue \o ring = <<>> /\ <<>> \in Seq(Events)
    BY DEF Init
  <2>2. Told = Result(Known, <<>>)
    BY <2>1 DEF Told, ApplyAll, Result, Known
  <2> QED
    BY <1>1, <2>1, <2>2, ResultType, KnownTyped DEF Typing
<1>4. Placing
  <2>1. \A p \in Pointers : Agreed(p)
    BY <1>3 DEF Init, Known, Agreed, Fits
  <2>2. \A t \in Threads : Local(t)
    BY <1>2 DEF Local, NewExact, OldExact
  <2> QED
    BY <2>1, <2>2 DEF Placing
<1>5. Awaited /\ CallsMade /\ cpc # "reconcile" /\ previous = 0
  BY <1>2 DEF Awaited, CallsMade, Init
<1> QED
  BY <1>1, <1>4, <1>5 DEF Faithful, Exact

LEMMA FaithfulNext == Quiet /\ Faithful /\ [Next]_vars => Faithful'
<1> SUFFICES ASSUME Quiet, Faithful, [Next]_vars PROVE Faithful'
  OBVIOUS
<1>1. Typing' /\ CallsMade'
  BY TypingNext, CallsMadeNext DEF Faithful
<1>2. Alone => Counted'
  BY CountedNext DEF Faithful
<1>3. ~Alone => evicted' = 0
  BY NoneEvicted DEF Faithful, Quiet
<1>4. ASSUME Lossless' PROVE Exact'
  <2>1. Lossless /\ Settled
    BY <1>4, LossesStay DEF Faithful, Settled
  <2>2. ASSUME NEW t \in Threads, Thread(t) PROVE Exact'
    BY <1>4, <2>1, <2>2, ExactThread
  <2>3. CASE Collector
    BY <1>4, <2>1, <2>3, ExactCollector
  <2>4. CASE UNCHANGED vars
    <3>1. Told' = Told
      BY <2>4, Unsaid DEF vars
    <3>2. Placing' /\ Awaited'
      BY <2>1, <2>4, <3>1, SettledParts, AddressesFrame DEF vars
    <3> QED
      BY <2>1, <2>4, <3>2 DEF vars, Exact, Settled
  <2> QED
    BY <2>2, <2>3, <2>4 DEF Next
<1> QED
  BY <1>1, <1>2, <1>3, <1>4 DEF Faithful, Alone

LEMMA FaithfulExact == Faithful => ExactWhenNothingLost
<1> SUFFICES ASSUME Faithful, NothingLost, NEW p \in Pointers \ InFlight
             PROVE  liveSamples[p] = sampled[p] /\ Fits(Told.live[p], sampled[p])
  BY DEF ExactWhenNothingLost, Told, Fits, Failed
<1>1. Lossless
  <2>1. evicted = 0
    <3>1. CASE Alone
      BY <3>1 DEF Faithful, Typing, Kernel, Counted, Announcing, NothingLost
    <3> QED
      BY <3>1 DEF Faithful
  <2> QED
    BY <2>1 DEF Lossless, NothingLost
<1>2. \A t \in Threads : p \notin Mine(t)
  BY DEF Mine, InFlight
<1> QED
  BY <1>1, <1>2 DEF Faithful, Exact, Placing, Agreed

(* As long as nothing is lost, no free is missed and none is charged to a  *)
(* later allocation at the same address: the kernel's map and the          *)
(* collector's agree with the target's memory on every address that is not *)
(* in the hands of a call.  For any calls of one thread; for several that  *)
(* allocate and free, when live_samples has room for every address.        *)
THEOREM KernelAndCollectorExact == ASSUME Quiet PROVE Spec => []ExactWhenNothingLost
<1>1. Faithful /\ [Next]_vars => Faithful'
  BY FaithfulNext
<1> QED
  BY <1>1, FaithfulInit, FaithfulExact, PTL DEF Spec

-----------------------------------------------------------------------------
(* Both, run as one.                                                       *)
Together == (InCalls => Typing) /\ Books

LEMMA TogetherNext ==
    ASSUME Together, [MCNext]_<<vars, scenario, stateVars>>
    PROVE  Together'
<1> USE DEF InCalls, InThreads, InStacks, InState
<1>1. CASE InCalls /\ (Collector \/ \E t \in Callers : Thread(t)) /\ UNCHANGED <<scenario, stateVars>>
  <2>1. Next
    BY <1>1, CallersAssumption DEF Next
  <2>2. Typing'
    BY <1>1, <2>1, TypingNext DEF Together
  <2>3. Books'
    BY <1>1, BooksStep DEF Together
  <2> QED
    BY <2>2, <2>3 DEF Together
<1>2. CASE InThreads /\ Two!Next /\ UNCHANGED <<scenario, stateVars>>
  <2>1. Books' /\ ~InCalls'
    BY <1>2, BooksStep DEF Together
  <2> QED
    BY <2>1 DEF Together
<1>3. CASE InState /\ StateNext /\ UNCHANGED <<scenario, vars>>
  <2>1. Books' /\ ~InCalls'
    BY <1>3, BooksStep DEF Together
  <2> QED
    BY <2>1 DEF Together
<1>4. CASE InStacks /\ Crowded!Next /\ UNCHANGED <<scenario, stateVars>>
  <2>1. Books' /\ ~InCalls'
    BY <1>4, BooksStep DEF Together
  <2> QED
    BY <2>1 DEF Together
<1>5. CASE UNCHANGED <<vars, scenario, stateVars>>
  <2>1. Books'
    BY <1>5, BooksStep DEF Together
  <2>2. InCalls' => Typing'
    BY <1>5, TypingNext DEF Together
  <2> QED
    BY <2>1, <2>2 DEF Together
<1> QED
  BY <1>1, <1>2, <1>3, <1>4, <1>5 DEF MCNext

(* The two halves, run as one program: while the threads of Callers make   *)
(* their calls, the kernel's maps and rings and the collector's queue keep *)
(* within their capacities (heap.bpf.c, heap.rs), and HeapState's maps     *)
(* hold values of their kind (heap/state.rs).                              *)
THEOREM HeapTyped == MCSpec => []Typed
<1>1. MCInit => Together
  BY TypingInit, BooksStart DEF MCInit, Together
<1>2. Together => Typed
  BY TypingTypes DEF Together, Typed, Books
<1> QED
  BY <1>1, <1>2, TogetherNext, PTL DEF MCSpec
=================================================================================
