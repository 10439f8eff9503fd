------------------------------ MODULE FoldTheorems ------------------------------
(***************************************************************************)
(* What the proofs need to know of data that is folded: every set of       *)
(* natural numbers has a least element, which stands for induction; the    *)
(* recursion behind FoldLeft has a solution; and sums over finite sets     *)
(* behave as sums do.                                                      *)
(*                                                                         *)
(* The provers cannot apply a theorem that takes an operator.  So none of  *)
(* these does: what is folded is a function, and induction on a number is  *)
(* an appeal to the least one for which a claim fails.                     *)
(***************************************************************************)
EXTENDS Integers, SequencesExt, FiniteSetTheorems, WellFoundedInduction, TLAPS

(* Every nonempty set of natural numbers has a least element.              *)
LEMMA LeastNumber ==
    ASSUME NEW T \in SUBSET Nat, T # {}
    PROVE  \E n \in T : \A m \in T : n <= m
<1> DEFINE R == {ss \in Nat \X Nat : ss[1] < ss[2]}
<1>1. R = OpToRel(<, Nat)
  BY DEF OpToRel
<1>2. IsWellFoundedOn(R, Nat)
  BY <1>1, NatLessThanWellFounded
<1>3. \E n \in T : \A m \in T : <<m, n>> \notin R
  <2> HIDE DEF R
  <2> QED
    BY <1>2, WFMin
<1>4. PICK n \in T : \A m \in T : <<m, n>> \notin R
  BY <1>3
<1>5. ASSUME NEW m \in T PROVE n <= m
  <2>1. <<m, n>> \in Nat \X Nat /\ ~(<<m, n>>[1] < <<m, n>>[2])
    BY <1>4
  <2> QED
    BY <2>1
<1> QED
  BY <1>5

(* Induction: what holds of 0 and goes from each number to the next.       *)
LEMMA Induction ==
    ASSUME NEW T \in SUBSET Nat, 0 \in T, \A n \in T : n + 1 \in T
    PROVE  T = Nat
<1> SUFFICES ASSUME Nat \ T # {} PROVE FALSE
  OBVIOUS
<1>1. PICK n \in Nat \ T : \A m \in Nat \ T : n <= m
  BY LeastNumber
<1>2. n # 0 /\ n - 1 \in Nat /\ (n - 1) + 1 = n
  OBVIOUS
<1>3. n - 1 \in T
  BY <1>1, <1>2
<1> QED
  BY <1>2, <1>3

(* Induction up to a bound.                                                *)
LEMMA BoundedInduction ==
    ASSUME NEW n \in Nat, NEW T, 0 \in T, \A k \in 0..n : k \in T /\ k < n => k + 1 \in T
    PROVE  \A k \in 0..n : k \in T
<1> DEFINE U == {k \in Nat : k <= n => k \in T}
<1>0. U \in SUBSET Nat
  OBVIOUS
<1>1. \A k \in U : k + 1 \in U
  OBVIOUS
<1>2. 0 \in U
  OBVIOUS
<1> HIDE DEF U
<1>3. U = Nat
  BY <1>0, <1>1, <1>2, Induction
<1> QED
  BY <1>3 DEF U

-----------------------------------------------------------------------------
(* Folding a sequence: FoldLeft takes the elements off a set of indices,   *)
(* the largest first.                                                      *)

LEMMA MaxIs ==
    ASSUME NEW n \in Nat, NEW s \in SUBSET (1..n), s # {}
    PROVE  Max(s) \in s /\ \A j \in s : j <= Max(s)
<1> DEFINE T == {m \in Nat : \A j \in s : j <= m}
<1>1. n \in T
  OBVIOUS
<1>2. PICK m \in T : \A k \in T : m <= k
  BY <1>1, LeastNumber
<1>3. m \in s
  <2> SUFFICES ASSUME m \notin s PROVE FALSE
    OBVIOUS
  <2>1. \A j \in s : j \in Nat /\ j <= m /\ j # m
    BY <1>2
  <2>2. m # 0
    <3>1. PICK j \in s : j \in 1..n /\ j <= m
      BY <2>1
    <3> QED
      BY <3>1
  <2>3. m - 1 \in T
    BY <2>1, <2>2
  <2> QED
    BY <1>2, <2>3
<1>4. m \in s /\ \A j \in s : m >= j
  BY <1>3
<1>5. \A x \in s : (\A j \in s : x >= j) => x = m
  BY <1>4
<1> QED
  BY <1>4, <1>5 DEF Max

LEMMA MaxOfInterval ==
    ASSUME NEW n \in Nat \ {0}
    PROVE  Max(1..n) = n
<1>1. (1..n) \in SUBSET (1..n) /\ n \in 1..n
  OBVIOUS
<1>2. Max(1..n) \in 1..n /\ \A j \in 1..n : j <= Max(1..n)
  BY <1>1, MaxIs
<1> QED
  BY <1>1, <1>2

LEMMA Initials ==
    ASSUME NEW n \in Nat, NEW k \in 1..n
    PROVE  1..k \in SUBSET (1..n) /\ 1..k # {} /\ (1..k) \ {k} = 1..(k - 1) /\ Max(1..k) = k
<1>1. k \in Nat /\ k >= 1 /\ k <= n
  OBVIOUS
<1>2. Max(1..k) = k
  BY <1>1, MaxOfInterval
<1>3. \A j : j \in 1..k => j \in 1..n
  BY <1>1
<1>4. k \in 1..k
  BY <1>1
<1>5. \A j : j \in (1..k) \ {k} <=> j \in 1..(k - 1)
  BY <1>1
<1> QED
  BY <1>2, <1>3, <1>4, <1>5

(* The recursion over sets of indices, and that it has a solution.         *)
Iterates(f, step, base, n, seq) ==
    f = [s \in SUBSET (1..n) |-> IF s = {} THEN base ELSE step[<<f[s \ {Max(s)}], seq[Max(s)]>>]]

LEMMA IndexRecursion ==
    ASSUME NEW C, NEW E, NEW step \in [C \X E -> C], NEW base \in C, NEW n \in Nat, NEW seq \in [1..n -> E]
    PROVE  \E f \in [SUBSET (1..n) -> C] : Iterates(f, step, base, n, seq)
<1> DEFINE Solves(f, k) ==
        /\ f \in [SUBSET (1..k) -> C]
        /\ f = [s \in SUBSET (1..k) |-> IF s = {} THEN base ELSE step[<<f[s \ {Max(s)}], seq[Max(s)]>>]]
    T == {k \in 0..n : \E f \in [SUBSET (1..k) -> C] : Solves(f, k)}
<1>1. 0 \in T
  <2> DEFINE f == [s \in SUBSET (1..0) |-> base]
  <2>1. \A s \in SUBSET (1..0) : s = {}
    OBVIOUS
  <2>2. f \in [SUBSET (1..0) -> C]
    OBVIOUS
  <2>3. f = [s \in SUBSET (1..0) |-> IF s = {} THEN base ELSE step[<<f[s \ {Max(s)}], seq[Max(s)]>>]]
    BY <2>1
  <2> QED
    BY <2>2, <2>3
<1>2. ASSUME NEW k \in 0..n, k \in T, k < n
      PROVE  k + 1 \in T
  <2>1. PICK f \in [SUBSET (1..k) -> C] : Solves(f, k)
    BY <1>2
  <2> DEFINE g == [s \in SUBSET (1..(k+1)) |->
                     IF k + 1 \in s THEN step[<<f[s \ {k + 1}], seq[k + 1]>>] ELSE f[s]]
  <2>2. k \in Nat /\ k + 1 \in Nat /\ k + 1 \in 1..n /\ seq[k + 1] \in E
    BY <1>2
  <2>3. ASSUME NEW s \in SUBSET (1..(k+1))
        PROVE  /\ k + 1 \in s => s \ {k + 1} \in SUBSET (1..k) /\ Max(s) = k + 1
               /\ k + 1 \notin s => s \in SUBSET (1..k)
    <3>1. CASE k + 1 \in s
      <4>1. Max(s) \in s /\ \A j \in s : j <= Max(s)
        BY <2>2, <3>1, MaxIs
      <4>2. Max(s) = k + 1
        <5>1. k + 1 <= Max(s) /\ Max(s) \in 1..(k+1)
          BY <3>1, <4>1
        <5> QED
          BY <2>2, <5>1
      <4>3. s \ {k + 1} \in SUBSET (1..k)
        BY <2>2
      <4> QED
        BY <3>1, <4>2, <4>3
    <3>2. CASE k + 1 \notin s
      BY <2>2, <3>2
    <3> QED
      BY <3>1, <3>2
  <2>4. ASSUME NEW s \in SUBSET (1..(k+1))
        PROVE  g[s] \in C /\ g[s] = IF s = {} THEN base ELSE step[<<g[s \ {Max(s)}], seq[Max(s)]>>]
    <3>1. CASE k + 1 \in s
      <4>1. s \ {k + 1} \in SUBSET (1..k) /\ Max(s) = k + 1 /\ s # {}
        BY <2>3, <3>1
      <4>2. s \ {k + 1} \in SUBSET (1..(k+1)) /\ k + 1 \notin s \ {k + 1}
        OBVIOUS
      <4>3. g[s \ {k + 1}] = f[s \ {k + 1}]
        BY <4>2
      <4>4. g[s] = step[<<f[s \ {k + 1}], seq[k + 1]>>]
        BY <3>1
      <4>5. f[s \ {k + 1}] \in C
        BY <4>1
      <4>6. g[s] \in C
        BY <2>2, <4>4, <4>5
      <4> QED
        BY <4>1, <4>3, <4>4, <4>6
    <3>2. CASE k + 1 \notin s /\ s # {}
      <4>1. s \in SUBSET (1..k) /\ g[s] = f[s]
        BY <2>3, <3>2
      <4>2. Max(s) \in s
        BY <2>2, <3>2, <4>1, MaxIs
      <4>3. s \ {Max(s)} \in SUBSET (1..k) /\ s \ {Max(s)} \in SUBSET (1..(k+1)) /\ k + 1 \notin s \ {Max(s)}
        BY <3>2, <4>1
      <4>4. g[s \ {Max(s)}] = f[s \ {Max(s)}]
        BY <4>3
      <4>5. f[s] = step[<<f[s \ {Max(s)}], seq[Max(s)]>>]
        BY <2>1, <3>2, <4>1
      <4>6. f[s] \in C
        BY <4>1
      <4> QED
        BY <3>2, <4>1, <4>4, <4>5, <4>6
    <3>3. CASE s = {}
      <4>1. s \in SUBSET (1..k) /\ k + 1 \notin s
        BY <3>3
      <4>2. f[s] = base
        BY <2>1, <3>3, <4>1
      <4> QED
        BY <3>3, <4>1, <4>2
    <3> QED
      BY <3>1, <3>2, <3>3
  <2>5. g \in [SUBSET (1..(k+1)) -> C]
    BY <2>4
  <2>6. g = [s \in SUBSET (1..(k+1)) |-> IF s = {} THEN base ELSE step[<<g[s \ {Max(s)}], seq[Max(s)]>>]]
    BY <2>4
  <2>7. Solves(g, k + 1)
    BY <2>5, <2>6
  <2>8. k + 1 \in 0..n
    BY <1>2
  <2> HIDE DEF Solves, g
  <2> QED
    BY <2>5, <2>7, <2>8
<1>3. n \in T
  <2> HIDE DEF T
  <2>1. \A k \in 0..n : k \in T /\ k < n => k + 1 \in T
    BY <1>2
  <2>2. \A k \in 0..n : k \in T
    BY <1>1, <2>1, BoundedInduction
  <2> QED
    BY <2>2
<1> QED
  BY <1>3 DEF Iterates

-----------------------------------------------------------------------------
(* Finite sets: induction over the elements, and sums.                     *)

LEMMA SetInduction ==
    ASSUME NEW S, IsFiniteSet(S), NEW T, {} \in T,
           \A s \in SUBSET S : \A x \in S : s \in T /\ x \notin s => s \cup {x} \in T
    PROVE  S \in T
<1> DEFINE U == {k \in Nat : \A s \in SUBSET S : Cardinality(s) = k => s \in T}
<1>1. \A s \in SUBSET S : IsFiniteSet(s) /\ Cardinality(s) \in Nat
  BY FS_Subset, FS_CardinalityType
<1>2. U \in SUBSET Nat
  OBVIOUS
<1>3. 0 \in U
  BY <1>1, FS_EmptySet
<1>4. ASSUME NEW k \in U
      PROVE  k + 1 \in U
  <2>1. ASSUME NEW s \in SUBSET S, Cardinality(s) = k + 1
        PROVE  s \in T
    <3>1. s # {}
      <4>1. k \in Nat /\ k + 1 # 0
        OBVIOUS
      <4> QED
        BY <2>1, <4>1, FS_EmptySet
    <3>2. PICK x \in s : TRUE
      BY <3>1
    <3>3. Cardinality(s \ {x}) = k
      BY <1>1, <2>1, FS_RemoveElement
    <3>4. s \ {x} \in T /\ s \ {x} \in SUBSET S /\ x \in S
      BY <3>3
    <3>5. (s \ {x}) \cup {x} = s
      OBVIOUS
    <3>6. (s \ {x}) \cup {x} \in T
      BY <3>4
    <3> QED
      BY <3>5, <3>6
  <2> QED
    BY <2>1
<1>5. U = Nat
  <2> HIDE DEF U
  <2> QED
    BY <1>2, <1>3, <1>4, Induction
<1>6. Cardinality(S) \in U
  BY <1>1, <1>5
<1> QED
  BY <1>6

Chosen(s) == CHOOSE x \in s : TRUE

LEMMA ChosenIn ==
    ASSUME NEW s, s # {}
    PROVE  Chosen(s) \in s
  BY DEF Chosen

(* The recursion of MapThenSumSet over the subsets of a set.               *)
Counts(w, S)     == \A x \in S : w[x] \in Nat
SumStep(w, S, f) == [s \in SUBSET S |-> IF s = {} THEN 0 ELSE w[Chosen(s)] + f[s \ {Chosen(s)}]]
Sums(f, w, S)    == f = SumStep(w, S, f)

LEMMA SumRecursion ==
    ASSUME NEW S, IsFiniteSet(S), NEW w, Counts(w, S)
    PROVE  \E f : Sums(f, w, S)
<1> DEFINE Small(k) == {s \in SUBSET S : Cardinality(s) <= k}
    Solves(f, k) ==
        f = [s \in Small(k) |-> IF s = {} THEN 0 ELSE w[Chosen(s)] + f[s \ {Chosen(s)}]]
    T == {k \in Nat : \E f \in [Small(k) -> Nat] : Solves(f, k)}
<1>1. \A s \in SUBSET S : IsFiniteSet(s) /\ Cardinality(s) \in Nat
  BY FS_Subset, FS_CardinalityType
<1>2. \A s \in SUBSET S : s # {} => /\ Chosen(s) \in S /\ w[Chosen(s)] \in Nat
                                    /\ s \ {Chosen(s)} \in SUBSET S
                                    /\ Cardinality(s \ {Chosen(s)}) = Cardinality(s) - 1
  BY <1>1, ChosenIn, FS_RemoveElement DEF Counts
<1>3. 0 \in T
  <2> DEFINE f == [s \in Small(0) |-> 0]
  <2>1. \A s \in Small(0) : s = {}
    BY <1>1, FS_EmptySet
  <2>2. f \in [Small(0) -> Nat]
    OBVIOUS
  <2>3. Solves(f, 0)
    BY <2>1
  <2> HIDE DEF Solves, Small, f
  <2> QED
    BY <2>2, <2>3
<1>4. ASSUME NEW k \in T
      PROVE  k + 1 \in T
  <2>1. PICK f \in [Small(k) -> Nat] : Solves(f, k)
    OBVIOUS
  <2> DEFINE g == [s \in Small(k + 1) |-> IF s = {} THEN 0 ELSE w[Chosen(s)] + f[s \ {Chosen(s)}]]
  <2>2. \A s \in Small(k + 1) : s # {} => s \ {Chosen(s)} \in Small(k) /\ s \ {Chosen(s)} \in Small(k + 1)
    BY <1>1, <1>2
  <2>3. \A s \in Small(k) : s \in Small(k + 1) /\ g[s] = f[s]
    <3>1. \A s \in Small(k) : s \in Small(k + 1)
      BY <1>1
    <3> QED
      BY <2>1, <3>1
  <2>4. g \in [Small(k + 1) -> Nat]
    <3>1. \A s \in Small(k + 1) : s # {} => w[Chosen(s)] \in Nat /\ f[s \ {Chosen(s)}] \in Nat
      BY <1>2, <2>2
    <3> HIDE DEF Small
    <3>2. ASSUME NEW s \in Small(k + 1)
          PROVE  (IF s = {} THEN 0 ELSE w[Chosen(s)] + f[s \ {Chosen(s)}]) \in Nat
      BY <3>1
    <3> QED
      BY <3>2
  <2>5. Solves(g, k + 1)
    <3> HIDE DEF Small
    <3>1. \A s \in Small(k + 1) : s # {} => g[s \ {Chosen(s)}] = f[s \ {Chosen(s)}]
      BY <2>2, <2>3
    <3> QED
      BY <3>1
  <2> HIDE DEF Solves, Small, g
  <2>6. k + 1 \in Nat
    OBVIOUS
  <2> QED
    BY <2>4, <2>5, <2>6
<1>5. T = Nat /\ T \in SUBSET Nat
  <2>1. T \in SUBSET Nat
    OBVIOUS
  <2> HIDE DEF T
  <2> QED
    BY <1>3, <1>4, <2>1, Induction
<1>6. Cardinality(S) \in T
  BY <1>1, <1>5
<1>7. Small(Cardinality(S)) = SUBSET S
  BY FS_Subset
<1> QED
  BY <1>6, <1>7 DEF Sums, SumStep

(* The sum of a function over a set.                                       *)
Sigma(w, S) == MapThenSumSet(LAMBDA x : w[x], S)

LEMMA SigmaSolves ==
    ASSUME NEW S, IsFiniteSet(S), NEW w, Counts(w, S)
    PROVE  \E f : Sums(f, w, S) /\ Sigma(w, S) = f[S]
<1> DEFINE iter == CHOOSE f : f = SumStep(w, S, f)
<1>1. Sigma(w, S) = iter[S]
  BY DEF Sigma, MapThenSumSet, MapThenFoldSet, Chosen, SumStep
<1>2. \E f : f = SumStep(w, S, f)
  BY SumRecursion DEF Sums
<1>3. iter = SumStep(w, S, iter)
  BY <1>2
<1> HIDE DEF iter
<1> QED
  BY <1>1, <1>3 DEF Sums

(* Solutions agree where both are defined.                                 *)
LEMMA SolutionsAgree ==
    ASSUME NEW S, IsFiniteSet(S), NEW R \in SUBSET S, NEW w, NEW f, NEW g, Sums(f, w, S), Sums(g, w, R)
    PROVE  f[R] = g[R]
<1> DEFINE U == {k \in Nat : \A s \in SUBSET R : Cardinality(s) = k => f[s] = g[s]}
<1>1. \A s \in SUBSET R : IsFiniteSet(s) /\ Cardinality(s) \in Nat
  BY FS_Subset, FS_CardinalityType
<1>2. /\ f = [s \in SUBSET S |-> IF s = {} THEN 0 ELSE w[Chosen(s)] + f[s \ {Chosen(s)}]]
      /\ g = [s \in SUBSET R |-> IF s = {} THEN 0 ELSE w[Chosen(s)] + g[s \ {Chosen(s)}]]
  BY DEF Sums, SumStep
<1>3. /\ f[{}] = 0 /\ \A s \in SUBSET R : s # {} => f[s] = w[Chosen(s)] + f[s \ {Chosen(s)}]
      /\ g[{}] = 0 /\ \A s \in SUBSET R : s # {} => g[s] = w[Chosen(s)] + g[s \ {Chosen(s)}]
  BY <1>2
<1>4. U \in SUBSET Nat
  OBVIOUS
<1>5. 0 \in U
  BY <1>1, <1>3, FS_EmptySet
<1>6. ASSUME NEW k \in U
      PROVE  k + 1 \in U
  <2>1. ASSUME NEW s \in SUBSET R, Cardinality(s) = k + 1
        PROVE  f[s] = g[s]
    <3>1. s # {}
      <4>1. k \in Nat /\ k + 1 # 0
        OBVIOUS
      <4> QED
        BY <2>1, <4>1, FS_EmptySet
    <3>2. Chosen(s) \in s
      BY <3>1, ChosenIn
    <3>3. Cardinality(s \ {Chosen(s)}) = k /\ s \ {Chosen(s)} \in SUBSET R
      BY <1>1, <2>1, <3>2, FS_RemoveElement
    <3>4. f[s \ {Chosen(s)}] = g[s \ {Chosen(s)}]
      BY <3>3
    <3> QED
      BY <1>3, <3>1, <3>4
  <2> QED
    BY <2>1
<1>7. U = Nat
  <2> HIDE DEF U
  <2> QED
    BY <1>4, <1>5, <1>6, Induction
<1>8. Cardinality(R) \in U
  BY <1>1, <1>7
<1> QED
  BY <1>8

LEMMA SigmaEmpty ==
    ASSUME NEW w
    PROVE  Sigma(w, {}) = 0
<1>1. IsFiniteSet({}) /\ Counts(w, {})
  BY FS_EmptySet DEF Counts
<1>2. PICK f : Sums(f, w, {}) /\ Sigma(w, {}) = f[{}]
  BY <1>1, SigmaSolves
<1>3. f = [s \in SUBSET {} |-> IF s = {} THEN 0 ELSE w[Chosen(s)] + f[s \ {Chosen(s)}]]
  BY <1>2 DEF Sums, SumStep
<1> QED
  BY <1>2, <1>3

LEMMA SigmaStep ==
    ASSUME NEW S, IsFiniteSet(S), S # {}, NEW w, Counts(w, S)
    PROVE  Sigma(w, S) = w[Chosen(S)] + Sigma(w, S \ {Chosen(S)})
<1> DEFINE R == S \ {Chosen(S)}
<1>1. IsFiniteSet(R) /\ R \in SUBSET S /\ Counts(w, R)
  BY FS_Subset DEF Counts
<1>2. PICK f : Sums(f, w, S) /\ Sigma(w, S) = f[S]
  BY SigmaSolves
<1>3. PICK g : Sums(g, w, R) /\ Sigma(w, R) = g[R]
  <2> HIDE DEF R
  <2> QED
    BY <1>1, SigmaSolves
<1>4. f[R] = g[R]
  <2> HIDE DEF R
  <2> QED
    BY <1>1, <1>2, <1>3, SolutionsAgree
<1>5. f[S] = w[Chosen(S)] + f[R]
  <2>1. f = [s \in SUBSET S |-> IF s = {} THEN 0 ELSE w[Chosen(s)] + f[s \ {Chosen(s)}]]
    BY <1>2 DEF Sums, SumStep
  <2> QED
    BY <2>1
<1> QED
  BY <1>2, <1>3, <1>4, <1>5

(* An element more or less, whichever it is.                               *)
LEMMA SigmaFacts ==
    ASSUME NEW S, IsFiniteSet(S), NEW w, Counts(w, S)
    PROVE  Sigma(w, S) \in Nat /\ \A x \in S : Sigma(w, S) = w[x] + Sigma(w, S \ {x})
<1> DEFINE Claim(s) == Sigma(w, s) \in Nat /\ \A x \in s : Sigma(w, s) = w[x] + Sigma(w, s \ {x})
    U == {k \in Nat : \A s \in SUBSET S : Cardinality(s) <= k => Claim(s)}
<1>1. \A s \in SUBSET S : IsFiniteSet(s) /\ Cardinality(s) \in Nat /\ Counts(w, s)
  BY FS_Subset, FS_CardinalityType DEF Counts
<1>2. U \in SUBSET Nat
  OBVIOUS
<1>3. Claim({})
  BY SigmaEmpty
<1>4. 0 \in U
  <2>1. \A s \in SUBSET S : Cardinality(s) <= 0 => s = {}
    BY <1>1, FS_EmptySet
  <2> HIDE DEF Claim
  <2> QED
    BY <1>3, <2>1
<1>5. ASSUME NEW k \in U
      PROVE  k + 1 \in U
  <2>1. ASSUME NEW s \in SUBSET S, Cardinality(s) <= k + 1, s # {}
        PROVE  Claim(s)
    <3> DEFINE c == Chosen(s)
    <3>1. c \in s
      BY <2>1, ChosenIn
    <3>2. Sigma(w, s) = w[c] + Sigma(w, s \ {c})
      BY <1>1, <2>1, SigmaStep
    <3>3. \A x \in s : Cardinality(s \ {x}) <= k /\ s \ {x} \in SUBSET S /\ w[x] \in Nat
      BY <1>1, <2>1, FS_RemoveElement DEF Counts
    <3>4. \A x \in s : Claim(s \ {x})
      BY <3>3
    <3>5. Sigma(w, s) \in Nat
      BY <3>1, <3>2, <3>3, <3>4
    <3>6. ASSUME NEW x \in s, x # c
          PROVE  Sigma(w, s) = w[x] + Sigma(w, s \ {x})
      <4>1. Sigma(w, s \ {c}) = w[x] + Sigma(w, (s \ {c}) \ {x})
        BY <3>1, <3>4, <3>6
      <4>2. Sigma(w, s \ {x}) = w[c] + Sigma(w, (s \ {x}) \ {c})
        BY <3>1, <3>4, <3>6
      <4>3. (s \ {c}) \ {x} = (s \ {x}) \ {c}
        OBVIOUS
      <4>4. w[x] \in Nat /\ w[c] \in Nat
        BY <3>1, <3>3
      <4>5. Sigma(w, (s \ {c}) \ {x}) \in Nat
        <5>1. (s \ {c}) \ {x} \in SUBSET S
          OBVIOUS
        <5>2. Cardinality((s \ {c}) \ {x}) <= k
          <6>1. (s \ {c}) \ {x} \in SUBSET (s \ {c}) /\ IsFiniteSet(s \ {c})
            BY <1>1
          <6>2. Cardinality((s \ {c}) \ {x}) <= Cardinality(s \ {c}) /\ Cardinality(s \ {c}) <= k
            BY <3>1, <3>3, <6>1, FS_Subset
          <6> QED
            BY <1>1, <5>1, <6>2, <3>3
        <5> QED
          BY <5>1, <5>2
      <4> HIDE DEF c
      <4> QED
        BY <3>2, <4>1, <4>2, <4>3, <4>4, <4>5
    <3> QED
      BY <3>2, <3>5, <3>6
  <2> HIDE DEF Claim
  <2> QED
    BY <1>3, <2>1
<1>6. U = Nat
  <2> HIDE DEF U
  <2> QED
    BY <1>2, <1>4, <1>5, Induction
<1>7. Cardinality(S) \in U /\ Cardinality(S) <= Cardinality(S)
  BY <1>1, <1>6
<1> QED
  BY <1>7

LEMMA SigmaAdd ==
    ASSUME NEW S, IsFiniteSet(S), NEW w, Counts(w, S), NEW x, x \notin S, w[x] \in Nat
    PROVE  Sigma(w, S \cup {x}) = w[x] + Sigma(w, S)
<1>1. IsFiniteSet(S \cup {x}) /\ Counts(w, S \cup {x})
  BY FS_AddElement DEF Counts
<1>2. Sigma(w, S \cup {x}) = w[x] + Sigma(w, (S \cup {x}) \ {x})
  BY <1>1, SigmaFacts
<1>3. (S \cup {x}) \ {x} = S
  OBVIOUS
<1> QED
  BY <1>2, <1>3

(* Functions that agree on a set have the same sum over it.                *)
LEMMA SigmaSame ==
    ASSUME NEW S, IsFiniteSet(S), NEW w, NEW v, Counts(w, S), \A x \in S : w[x] = v[x]
    PROVE  Sigma(w, S) = Sigma(v, S)
<1> DEFINE T == {s \in SUBSET S : Sigma(w, s) = Sigma(v, s)}
<1>1. {} \in T
  BY SigmaEmpty
<1>2. ASSUME NEW s \in SUBSET S, NEW x \in S, s \in T, x \notin s
      PROVE  s \cup {x} \in T
  <2>1. IsFiniteSet(s) /\ Counts(w, s) /\ Counts(v, s) /\ w[x] \in Nat /\ v[x] = w[x]
    BY FS_Subset DEF Counts
  <2>2. Sigma(w, s \cup {x}) = w[x] + Sigma(w, s) /\ Sigma(v, s \cup {x}) = v[x] + Sigma(v, s)
    BY <1>2, <2>1, SigmaAdd
  <2> QED
    BY <1>2, <2>1, <2>2
<1>3. S \in T
  <2> HIDE DEF T
  <2> QED
    BY <1>1, <1>2, SetInduction
<1> QED
  BY <1>3

LEMMA SigmaZero ==
    ASSUME NEW S, IsFiniteSet(S), NEW w, \A x \in S : w[x] = 0
    PROVE  Sigma(w, S) = 0
<1> DEFINE T == {s \in SUBSET S : Sigma(w, s) = 0}
<1>1. {} \in T
  BY SigmaEmpty
<1>2. ASSUME NEW s \in SUBSET S, NEW x \in S, s \in T, x \notin s
      PROVE  s \cup {x} \in T
  <2>1. IsFiniteSet(s) /\ Counts(w, s) /\ w[x] = 0
    BY FS_Subset DEF Counts
  <2>2. Sigma(w, s \cup {x}) = w[x] + Sigma(w, s)
    BY <1>2, <2>1, SigmaAdd
  <2> QED
    BY <1>2, <2>1, <2>2
<1>3. S \in T
  <2> HIDE DEF T
  <2> QED
    BY <1>1, <1>2, SetInduction
<1> QED
  BY <1>3

(* A sum over a set is that over a part of it and that over the rest.      *)
LEMMA SigmaSplit ==
    ASSUME NEW S, IsFiniteSet(S), NEW A \in SUBSET S, NEW w, Counts(w, S)
    PROVE  Sigma(w, S) = Sigma(w, A) + Sigma(w, S \ A)
<1> DEFINE T == {s \in SUBSET S : Sigma(w, s) = Sigma(w, s \cap A) + Sigma(w, s \ A)}
<1>1. {} \in T
  <2>1. {} \cap A = {} /\ {} \ A = {}
    OBVIOUS
  <2> QED
    BY <2>1, SigmaEmpty
<1>2. ASSUME NEW s \in SUBSET S, NEW x \in S, s \in T, x \notin s
      PROVE  s \cup {x} \in T
  <2>1. /\ IsFiniteSet(s) /\ IsFiniteSet(s \cap A) /\ IsFiniteSet(s \ A)
        /\ Counts(w, s) /\ Counts(w, s \cap A) /\ Counts(w, s \ A) /\ w[x] \in Nat
    BY FS_Subset DEF Counts
  <2>2. /\ Sigma(w, s \cup {x}) = w[x] + Sigma(w, s)
        /\ Sigma(w, (s \cap A) \cup {x}) = w[x] + Sigma(w, s \cap A)
        /\ Sigma(w, (s \ A) \cup {x}) = w[x] + Sigma(w, s \ A)
    BY <1>2, <2>1, SigmaAdd
  <2>3. Sigma(w, s) \in Nat /\ Sigma(w, s \cap A) \in Nat /\ Sigma(w, s \ A) \in Nat
    BY <2>1, SigmaFacts
  <2>4. CASE x \in A
    <3>1. (s \cup {x}) \cap A = (s \cap A) \cup {x} /\ (s \cup {x}) \ A = s \ A
      BY <2>4
    <3>2. /\ Sigma(w, (s \cup {x}) \cap A) = w[x] + Sigma(w, s \cap A)
          /\ Sigma(w, (s \cup {x}) \ A) = Sigma(w, s \ A)
      BY <2>2, <3>1, Zenon
    <3> QED
      BY <1>2, <2>1, <2>2, <2>3, <3>2
  <2>5. CASE x \notin A
    <3>1. (s \cup {x}) \cap A = s \cap A /\ (s \cup {x}) \ A = (s \ A) \cup {x}
      BY <2>5
    <3>2. /\ Sigma(w, (s \cup {x}) \cap A) = Sigma(w, s \cap A)
          /\ Sigma(w, (s \cup {x}) \ A) = w[x] + Sigma(w, s \ A)
      BY <2>2, <3>1, Zenon
    <3> QED
      BY <1>2, <2>1, <2>2, <2>3, <3>2
  <2> QED
    BY <2>4, <2>5
<1>3. S \in T
  <2> HIDE DEF T
  <2> QED
    BY <1>1, <1>2, SetInduction
<1>4. S \cap A = A
  OBVIOUS
<1> QED
  BY <1>3, <1>4

(* One element whose value changes.                                        *)
LEMMA SigmaChange ==
    ASSUME NEW S, IsFiniteSet(S), NEW w, NEW v, Counts(w, S), NEW x \in S, v[x] \in Nat,
           \A y \in S \ {x} : v[y] = w[y]
    PROVE  /\ Sigma(w, S) = w[x] + Sigma(w, S \ {x})
           /\ Sigma(v, S) = v[x] + Sigma(w, S \ {x})
           /\ Sigma(w, S \ {x}) \in Nat /\ w[x] \in Nat
<1>1. IsFiniteSet(S \ {x}) /\ Counts(w, S \ {x}) /\ Counts(v, S) /\ w[x] \in Nat
  BY FS_Subset DEF Counts
<1>2. Sigma(w, S \ {x}) = Sigma(v, S \ {x})
  BY <1>1, SigmaSame
<1> QED
  BY <1>1, <1>2, SigmaFacts

(* SetToSeq lists each element once.                                       *)
LEMMA ListedOnce ==
    ASSUME NEW S, IsFiniteSet(S)
    PROVE  /\ Cardinality(S) \in Nat
           /\ SetToSeq(S) \in [1..Cardinality(S) -> S]
           /\ \A i, j \in 1..Cardinality(S) : SetToSeq(S)[i] = SetToSeq(S)[j] => i = j
           /\ \A x \in S : \E i \in 1..Cardinality(S) : SetToSeq(S)[i] = x
<1> DEFINE n == Cardinality(S)
    f == SetToSeq(S)
<1>1. n \in Nat /\ ExistsBijection(1..n, S)
  BY FS_CardinalityType
<1>2. PICK g \in [1..n -> S] : IsInjective(g)
  BY <1>1 DEF ExistsBijection, Bijection, Injection
<1>3. f \in [1..n -> S] /\ IsInjective(f)
  BY <1>2 DEF SetToSeq
<1> HIDE DEF f
<1>4. f \in Injection(1..n, S)
  BY <1>3 DEF Injection
<1>5. Cardinality(1..n) = n
  BY <1>1, FS_Interval
<1>6. f \in Surjection(1..n, S)
  <2> HIDE DEF n
  <2> QED
    BY <1>1, <1>4, <1>5, FS_Injection DEF n
<1>7. \A x \in S : \E i \in 1..n : f[i] = x
  BY <1>6 DEF Surjection
<1> QED
  BY <1>1, <1>3, <1>7 DEF IsInjective, f
-----------------------------------------------------------------------------
(* A sum over the values of an injective function is one over its domain.  *)
LEMMA SigmaImage ==
    ASSUME NEW A, IsFiniteSet(A), NEW e, NEW w, NEW v, Counts(v, A), \A x \in A : v[x] = w[e[x]],
           \A x, y \in A : e[x] = e[y] => x = y
    PROVE  /\ IsFiniteSet({e[x] : x \in A})
           /\ Sigma(w, {e[x] : x \in A}) = Sigma(v, A)
<1> DEFINE Image(s) == {e[x] : x \in s}
    T == {s \in SUBSET A : IsFiniteSet(Image(s)) /\ Counts(w, Image(s)) /\ Sigma(w, Image(s)) = Sigma(v, s)}
<1>1. {} \in T
  <2>1. Image({}) = {}
    OBVIOUS
  <2>2. IsFiniteSet({}) /\ Counts(w, {}) /\ Sigma(w, {}) = 0 /\ Sigma(v, {}) = 0
    BY FS_EmptySet, SigmaEmpty DEF Counts
  <2> HIDE DEF Image
  <2> QED
    BY <2>1, <2>2
<1>2. ASSUME NEW s \in SUBSET A, NEW x \in A, s \in T, x \notin s
      PROVE  s \cup {x} \in T
  <2>1. IsFiniteSet(s) /\ Counts(v, s) /\ v[x] \in Nat /\ v[x] = w[e[x]]
    BY FS_Subset DEF Counts
  <2>2. Image(s \cup {x}) = Image(s) \cup {e[x]} /\ e[x] \notin Image(s)
    <3>1. \A y \in s : e[y] # e[x]
      BY <1>2
    <3> QED
      BY <3>1
  <2>3. IsFiniteSet(Image(s)) /\ Counts(w, Image(s)) /\ Sigma(w, Image(s)) = Sigma(v, s)
    BY <1>2
  <2> HIDE DEF Image
  <2>4. Sigma(w, Image(s) \cup {e[x]}) = w[e[x]] + Sigma(w, Image(s))
    BY <2>1, <2>2, <2>3, SigmaAdd
  <2>5. Sigma(v, s \cup {x}) = v[x] + Sigma(v, s)
    BY <1>2, <2>1, SigmaAdd
  <2>6. IsFiniteSet(Image(s) \cup {e[x]}) /\ Counts(w, Image(s) \cup {e[x]})
    BY <2>1, <2>3, FS_AddElement DEF Counts
  <2>7. Sigma(w, Image(s \cup {x})) = Sigma(v, s \cup {x})
    BY <2>1, <2>2, <2>3, <2>4, <2>5
  <2>8. IsFiniteSet(Image(s \cup {x})) /\ Counts(w, Image(s \cup {x}))
    BY <2>2, <2>6
  <2> QED
    BY <2>7, <2>8
<1>3. A \in T
  <2> HIDE DEF T
  <2> QED
    BY <1>1, <1>2, SetInduction
<1> QED
  BY <1>3
=============================================================================
