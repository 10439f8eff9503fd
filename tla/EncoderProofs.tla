----------------------------- MODULE EncoderProofs -----------------------------
(***************************************************************************)
(* The round trip of an export (Encoders), for every symbol table, every   *)
(* set of stacks and labels, any number of sources and sample types, and   *)
(* any number of samples.                                                  *)
(*                                                                         *)
(* The argument follows the data.  A table that is interned into only      *)
(* grows, and an entry keeps its place.  So a pprof profile that           *)
(* ProfileBuilder makes goes on saying of each location what the           *)
(* symbolizer says of its address (SoundProfiles, Longer), through every   *)
(* location that a sample adds.  A location taken over into the dictionary *)
(* says there what it says in its source (EntryRead), and goes on saying   *)
(* so when the dictionary grows, for the other locations, the other        *)
(* samples and the other sources (EntryKept, DecodedKept, SaysKept).       *)
(* convert_profile then adds one (stack, labels, value, time) to what the  *)
(* entries of its sample type say, by a new entry or by joining one        *)
(* (SaysMore).  The invariant, Told, is that at every point of             *)
(* encode_profiles' loops the entries of each sample type say exactly the  *)
(* samples that were converted so far.                                     *)
(***************************************************************************)
EXTENDS Encoders, FoldTheorems

(* A table that has only grown.                                            *)
Grown(a, b) == Len(a) <= Len(b) /\ \A i \in 1..Len(a) : b[i] = a[i]

(* No entry twice.                                                         *)
Distinct(t) == \A i, j \in 1..Len(t) : t[i] = t[j] => i = j

LEMMA InternedOne ==
    ASSUME NEW E, NEW table \in Seq(E), NEW x \in E
    PROVE  /\ Interned(table, x) \in Seq(E) /\ Grown(table, Interned(table, x))
           /\ Place(table, x) \in 1..Len(Interned(table, x))
           /\ Interned(table, x)[Place(table, x)] = x
           /\ Place(Interned(table, x), x) \in 1..Len(Interned(table, x))
           /\ Interned(table, x)[Place(Interned(table, x), x)] = x
           /\ Distinct(table) => Distinct(Interned(table, x))
<1>1. DOMAIN table = 1..Len(table) /\ Len(table) \in Nat /\ ToSet(table) = {table[i] : i \in 1..Len(table)}
  BY DEF ToSet
<1>2. CASE x \in ToSet(table)
  <2>1. \E i \in DOMAIN table : table[i] = x
    BY <1>1, <1>2
  <2>2. Place(table, x) \in DOMAIN table /\ table[Place(table, x)] = x
    BY <1>2, <2>1 DEF Place
  <2>3. Interned(table, x) = table
    BY <1>2 DEF Interned
  <2> QED
    BY <1>1, <2>2, <2>3 DEF Grown
<1>3. CASE x \notin ToSet(table)
  <2> DEFINE T == Append(table, x)
  <2>1. Interned(table, x) = T /\ Place(table, x) = Len(table) + 1
    BY <1>3 DEF Interned, Place
  <2>2. T \in Seq(E) /\ Len(T) = Len(table) + 1 /\ DOMAIN T = 1..Len(T) /\ T[Len(T)] = x
        /\ \A i \in 1..Len(table) : T[i] = table[i]
    BY <1>1
  <2> HIDE DEF T
  <2>3. x \in ToSet(T) /\ \E i \in DOMAIN T : T[i] = x
    BY <1>1, <2>2 DEF ToSet
  <2>4. Place(T, x) \in DOMAIN T /\ T[Place(T, x)] = x
    BY <2>3 DEF Place
  <2>5. Distinct(table) => Distinct(T)
    <3>1. \A i \in 1..Len(table) : table[i] # x
      BY <1>1, <1>3
    <3>2. \A i \in 1..Len(T) : i \in 1..Len(table) \/ i = Len(T)
      BY <1>1, <2>2
    <3> QED
      BY <1>1, <2>2, <3>1, <3>2 DEF Distinct
  <2> QED
    BY <1>1, <2>1, <2>2, <2>4, <2>5 DEF Grown
<1> QED
  BY <1>2, <1>3

(* The tables that FoldLeft goes through.                                  *)
LEMMA Interning ==
    ASSUME NEW E, NEW table \in Seq(E), NEW entries \in Seq(E)
    PROVE  \E p \in [0..Len(entries) -> Seq(E)] :
              /\ p[0] = table /\ p[Len(entries)] = InternedAll(table, entries)
              /\ \A k \in 1..Len(entries) : p[k] = Interned(p[k - 1], entries[k])
<1> DEFINE n == Len(entries)
    F(g) == [s \in SUBSET (DOMAIN entries) |-> IF s = {} THEN table ELSE Interned(g[s \ {Max(s)}], entries[Max(s)])]
    iter == CHOOSE g : g = F(g)
    step == [ce \in Seq(E) \X E |-> Interned(ce[1], ce[2])]
<1>1. n \in Nat /\ DOMAIN entries = 1..n /\ entries \in [1..n -> E]
  OBVIOUS
<1>2. InternedAll(table, entries) = iter[DOMAIN entries]
  BY DEF InternedAll, FoldLeft, MapThenFoldSet
<1>3. step \in [Seq(E) \X E -> Seq(E)]
  <2>1. \A ce \in Seq(E) \X E : Interned(ce[1], ce[2]) \in Seq(E)
    BY InternedOne
  <2> QED
    BY <2>1
<1>4. PICK f \in [SUBSET (1..n) -> Seq(E)] :
         f = [s \in SUBSET (1..n) |-> IF s = {} THEN table ELSE step[<<f[s \ {Max(s)}], entries[Max(s)]>>]]
  <2> DEFINE C == Seq(E)
  <2>1. table \in C /\ n \in Nat /\ entries \in [1..n -> E] /\ step \in [C \X E -> C]
    BY <1>1, <1>3
  <2> HIDE DEF step, n, C
  <2>2. \E f \in [SUBSET (1..n) -> C] : Iterates(f, step, table, n, entries)
    BY <2>1, IndexRecursion
  <2> QED
    BY <2>2 DEF C, Iterates
<1>5. f = F(f)
  <2>1. ASSUME NEW s \in SUBSET (1..n), s # {}
        PROVE  step[<<f[s \ {Max(s)}], entries[Max(s)]>>] = Interned(f[s \ {Max(s)}], entries[Max(s)])
    <3>1. Max(s) \in s
      BY <1>1, <2>1, MaxIs
    <3>2. s \ {Max(s)} \in SUBSET (1..n) /\ Max(s) \in 1..n
      BY <3>1
    <3>3. f[s \ {Max(s)}] \in Seq(E) /\ entries[Max(s)] \in E
      BY <1>1, <3>2
    <3>4. <<f[s \ {Max(s)}], entries[Max(s)]>> \in Seq(E) \X E
      BY <3>3
    <3> QED
      BY <3>4
  <2>2. \A s \in SUBSET (1..n) : f[s] = IF s = {} THEN table ELSE Interned(f[s \ {Max(s)}], entries[Max(s)])
    <3> HIDE DEF step
    <3> QED
      BY <1>4, <2>1
  <2>3. f = [s \in SUBSET (1..n) |-> f[s]]
    OBVIOUS
  <2>4. f = [s \in SUBSET (1..n) |-> IF s = {} THEN table ELSE Interned(f[s \ {Max(s)}], entries[Max(s)])]
    BY <2>2, <2>3
  <2> QED
    BY <1>1, <2>4
<1> HIDE DEF F
<1>6. iter = F(iter)
  BY <1>5
<1> HIDE DEF iter
<1>7. iter = [s \in SUBSET (1..n) |-> IF s = {} THEN table ELSE Interned(iter[s \ {Max(s)}], entries[Max(s)])]
  BY <1>1, <1>6 DEF F
<1> DEFINE p == [k \in 0..n |-> iter[1..k]]
<1>8. /\ p[0] = table /\ \A k \in 1..n : p[k] = Interned(p[k - 1], entries[k])
      /\ p[n] = iter[1..n]
  <2>1. 1..0 = {} /\ 1..0 \in SUBSET (1..n) /\ 0 \in 0..n /\ n \in 0..n
    OBVIOUS
  <2>2. p[0] = table
    BY <1>7, <2>1
  <2>3. ASSUME NEW k \in 1..n
        PROVE  p[k] = Interned(p[k - 1], entries[k])
    <3>1. k \in Nat /\ k >= 1 /\ k \in 0..n /\ k - 1 \in 0..n
      OBVIOUS
    <3>3. 1..k \in SUBSET (1..n) /\ 1..k # {} /\ (1..k) \ {k} = 1..(k - 1) /\ Max(1..k) = k
      <4> HIDE DEF n
      <4> QED
        BY <1>1, Initials
    <3>4. iter[1..k] = Interned(iter[(1..k) \ {k}], entries[k])
      BY <1>7, <3>3
    <3> QED
      BY <3>1, <3>3, <3>4
  <2>4. p[n] = iter[1..n]
    BY <2>1
  <2> QED
    BY <2>2, <2>3, <2>4
<1>9. p \in [0..n -> Seq(E)]
  <2> DEFINE T == {k \in 0..n : p[k] \in Seq(E)}
  <2>1. 0 \in T
    BY <1>8
  <2>2. ASSUME NEW k \in 0..n, k \in T, k < n
        PROVE  k + 1 \in T
    <3>1. k + 1 \in 1..n /\ (k + 1) - 1 = k /\ entries[k + 1] \in E
      BY <1>1, <2>2
    <3>2. p[k + 1] = Interned(p[k], entries[k + 1]) /\ p[k] \in Seq(E)
      BY <1>8, <2>2, <3>1
    <3> HIDE DEF p
    <3> DEFINE a == p[k]  x == entries[k + 1]
    <3>3. a \in Seq(E) /\ x \in E /\ p[k + 1] = Interned(a, x)
      BY <3>1, <3>2
    <3> HIDE DEF a, x
    <3>4. p[k + 1] \in Seq(E)
      BY <3>3, InternedOne
    <3> QED
      BY <2>2, <3>4
  <2>3. \A k \in 0..n : k \in T
    <3> HIDE DEF T
    <3> QED
      BY <1>1, <2>1, <2>2, BoundedInduction
  <2>4. p = [k \in 0..n |-> p[k]]
    OBVIOUS
  <2> HIDE DEF p
  <2> QED
    BY <2>3, <2>4
<1> HIDE DEF p
<1> QED
  BY <1>1, <1>2, <1>8, <1>9

(* Interning a sequence keeps the table's entries where they are and finds *)
(* a place for each of the new ones.                                       *)
LEMMA AllInterned ==
    ASSUME NEW E, NEW table \in Seq(E), NEW entries \in Seq(E)
    PROVE  /\ InternedAll(table, entries) \in Seq(E)
           /\ Grown(table, InternedAll(table, entries))
           /\ Distinct(table) => Distinct(InternedAll(table, entries))
           /\ \A i \in 1..Len(entries) :
                 /\ Place(InternedAll(table, entries), entries[i]) \in 1..Len(InternedAll(table, entries))
                 /\ InternedAll(table, entries)[Place(InternedAll(table, entries), entries[i])] = entries[i]
<1>0. PICK p \in [0..Len(entries) -> Seq(E)] :
         /\ p[0] = table /\ p[Len(entries)] = InternedAll(table, entries)
         /\ \A k \in 1..Len(entries) : p[k] = Interned(p[k - 1], entries[k])
  BY Interning
<1> DEFINE n == Len(entries)  T == InternedAll(table, entries)
<1>1. n \in Nat /\ \A k \in 1..n : entries[k] \in E
  OBVIOUS
<1>2. /\ p \in [0..n -> Seq(E)] /\ p[0] = table /\ p[n] = T
      /\ \A k \in 1..n : p[k] = Interned(p[k - 1], entries[k])
  BY <1>0
<1> HIDE DEF T, n
<1> DEFINE Good(k) == /\ Grown(table, p[k]) /\ (Distinct(table) => Distinct(p[k]))
                      /\ \A i \in 1..k : \E j \in 1..Len(p[k]) : p[k][j] = entries[i]
    G == {k \in 0..n : Good(k)}
<1>3. 0 \in G
  BY <1>1, <1>2 DEF Grown
<1>4. ASSUME NEW k \in 0..n, k \in G, k < n
      PROVE  k + 1 \in G
  <2>1. k + 1 \in 1..n /\ (k + 1) - 1 = k /\ k + 1 \in 0..n /\ p[k] \in Seq(E) /\ entries[k + 1] \in E
    <3>1. k \in Nat /\ k < n
      BY <1>1, <1>4
    <3>2. k + 1 \in 1..n /\ (k + 1) - 1 = k /\ k + 1 \in 0..n
      BY <1>1, <3>1
    <3>3. p[k] \in Seq(E)
      BY <1>2
    <3> QED
      BY <1>1, <3>2, <3>3
  <2>2. p[k + 1] = Interned(p[k], entries[k + 1])
    BY <1>2, <2>1
  <2>3. /\ p[k + 1] \in Seq(E) /\ Grown(p[k], p[k + 1])
        /\ Place(p[k + 1], entries[k + 1]) \in 1..Len(p[k + 1])
        /\ p[k + 1][Place(p[k + 1], entries[k + 1])] = entries[k + 1]
        /\ Distinct(p[k]) => Distinct(p[k + 1])
    <3> DEFINE c == p[k]  x == entries[k + 1]
    <3>1. c \in Seq(E) /\ x \in E /\ p[k + 1] = Interned(c, x)
      BY <2>1, <2>2
    <3>2. /\ Interned(c, x) \in Seq(E) /\ Grown(c, Interned(c, x))
          /\ Place(Interned(c, x), x) \in 1..Len(Interned(c, x))
          /\ Interned(c, x)[Place(Interned(c, x), x)] = x
          /\ Distinct(c) => Distinct(Interned(c, x))
      <4> HIDE DEF c, x
      <4> QED
        BY <3>1, InternedOne
    <3> QED
      BY <3>1, <3>2
  <2> DEFINE a == p[k]  b == p[k + 1]
  <2>4. Grown(table, a) /\ Grown(a, b) /\ Len(table) \in Nat /\ Len(a) \in Nat /\ Len(b) \in Nat
    BY <1>4, <2>1, <2>3
  <2>5. Grown(table, b)
    <3> HIDE DEF a, b
    <3> QED
      BY <2>4 DEF Grown
  <2>6. ASSUME NEW i \in 1..(k + 1) PROVE \E j \in 1..Len(b) : b[j] = entries[i]
    <3>1. CASE i = k + 1
      BY <2>3, <3>1
    <3>2. CASE i # k + 1
      <4>1. i \in 1..k
        BY <3>2
      <4>2. PICK j \in 1..Len(a) : a[j] = entries[i]
        BY <1>4, <4>1
      <4> HIDE DEF a, b
      <4> QED
        BY <2>4, <4>2 DEF Grown
    <3> QED
      BY <3>1, <3>2
  <2> QED
    BY <1>4, <2>1, <2>3, <2>5, <2>6
<1> HIDE DEF G
<1>5. \A k \in 0..n : k \in G
  BY <1>1, <1>3, <1>4, BoundedInduction
<1>6. Good(n) /\ T \in Seq(E)
  <2>1. n \in 0..n
    BY <1>1
  <2>2. n \in G
    BY <1>5, <2>1
  <2>3. T \in Seq(E)
    BY <1>2, <2>1
  <2> QED
    BY <2>2, <2>3 DEF G
<1>7. ASSUME NEW i \in 1..n
      PROVE  Place(T, entries[i]) \in 1..Len(T) /\ T[Place(T, entries[i])] = entries[i]
  <2>1. PICK j \in 1..Len(T) : T[j] = entries[i]
    BY <1>2, <1>6
  <2>2. DOMAIN T = 1..Len(T)
    BY <1>6
  <2>3. entries[i] \in ToSet(T) /\ \E jj \in DOMAIN T : T[jj] = entries[i]
    BY <2>1, <2>2 DEF ToSet
  <2> QED
    BY <2>2, <2>3 DEF Place
<1> QED
  BY <1>2, <1>6, <1>7 DEF T, n

-----------------------------------------------------------------------------
(* The pprof profile of a source.                                          *)

FunctionKeys == [name : STRING, file : STRING]
Texts        == STRING \cup {"none"}
Resolutions  == [mapping : Texts, lines : Seq([name : STRING, file : STRING, line : Nat])]
MappingRecs  == [file : Texts, hasFunctions : BOOLEAN]
LineRecs     == [function : Nat, line : Nat]
LocationRecs == [address : DOMAIN Symbols, mapping : Nat, lines : Seq(LineRecs)]
SampleRecs   == [locations : Seq(Nat), labels : InputLabels, values : Seq(Nat)]
Profiles     == [raw : BOOLEAN, samples : Seq(SampleRecs), locations : Seq(LocationRecs),
                 mappings : Seq(MappingRecs), functions : Seq(FunctionKeys)]

LEMMA ResolvedIs ==
    ASSUME NEW raw \in BOOLEAN, NEW a \in DOMAIN Symbols
    PROVE  Resolved(raw, a) \in Resolutions
<1>1. Symbols[a] \in Resolutions
  <2> DEFINE S == [name : STRING, file : STRING, line : Nat]
  <2>1. Symbols[a] \in [mapping : STRING, lines : Seq(S)]
    BY EncodersAssumption DEF EncodersAssumption
  <2> HIDE DEF S
  <2>2. Symbols[a] \in [mapping : Texts, lines : Seq(S)]
    BY <2>1 DEF Texts
  <2> QED
    BY <2>2 DEF Resolutions, S
<1>2. [mapping |-> "none", lines |-> <<>>] \in Resolutions
  <2> DEFINE S == [name : STRING, file : STRING, line : Nat]
  <2> HIDE DEF S
  <2>1. <<>> \in Seq(S)
    OBVIOUS
  <2>2. "none" \in Texts
    BY DEF Texts
  <2>3. [mapping |-> "none", lines |-> <<>>] \in [mapping : Texts, lines : Seq(S)]
    BY <2>1, <2>2
  <2> QED
    BY <2>3 DEF Resolutions, S
<1> QED
  BY <1>1, <1>2 DEF Resolved

(* What a location of a profile or a dictionary says.                      *)
Within(d, l) ==
    /\ l.mapping \in 0..Len(d.mappings)
    /\ \A j \in DOMAIN l.lines : l.lines[j].function \in 1..Len(d.functions)
Read(d, l) ==
    [address |-> l.address,
     mapping |-> IF l.mapping = 0 THEN "none" ELSE d.mappings[l.mapping].file,
     lines   |-> [j \in DOMAIN l.lines |->
         [name |-> d.functions[l.lines[j].function].name,
          file |-> d.functions[l.lines[j].function].file, line |-> l.lines[j].line]]]
Truth(raw, a) == [address |-> a, mapping |-> Resolved(raw, a).mapping, lines |-> Resolved(raw, a).lines]

FilesGrown(a, b) == Len(a) <= Len(b) /\ \A i \in 1..Len(a) : b[i].file = a[i].file

(* It says the same when the tables grow.                                  *)
LEMMA ReadKept ==
    ASSUME NEW d, NEW e, NEW l \in LocationRecs, Within(d, l),
           d.mappings \in Seq(MappingRecs), e.mappings \in Seq(MappingRecs),
           d.functions \in Seq(FunctionKeys), e.functions \in Seq(FunctionKeys),
           FilesGrown(d.mappings, e.mappings), Grown(d.functions, e.functions)
    PROVE  Within(e, l) /\ Read(e, l) = Read(d, l)
<1> DEFINE M == d.mappings  N == e.mappings  F == d.functions  G == e.functions  L == l.lines
<1>1. /\ Len(M) \in Nat /\ Len(N) \in Nat /\ Len(F) \in Nat /\ Len(G) \in Nat
      /\ l.mapping \in Nat /\ \A j \in DOMAIN L : L[j].function \in Nat
  <2>1. Len(M) \in Nat /\ Len(N) \in Nat
    BY DEF MappingRecs
  <2>2. Len(F) \in Nat /\ Len(G) \in Nat
    BY DEF FunctionKeys
  <2>3. l.mapping \in Nat /\ L \in Seq(LineRecs)
    BY DEF LocationRecs
  <2>4. \A j \in DOMAIN L : L[j] \in LineRecs
    BY <2>3
  <2> QED
    BY <2>1, <2>2, <2>3, <2>4 DEF LineRecs
<1>2. /\ l.mapping \in 0..Len(M) /\ \A j \in DOMAIN L : L[j].function \in 1..Len(F)
      /\ Len(M) <= Len(N) /\ \A i \in 1..Len(M) : N[i].file = M[i].file
      /\ Len(F) <= Len(G) /\ \A i \in 1..Len(F) : G[i] = F[i]
  BY DEF Within, FilesGrown, Grown
<1> HIDE DEF M, N, F, G, L
<1>3. /\ l.mapping \in 0..Len(N) /\ \A j \in DOMAIN L : L[j].function \in 1..Len(G)
      /\ l.mapping # 0 => N[l.mapping].file = M[l.mapping].file
      /\ \A j \in DOMAIN L : G[L[j].function] = F[L[j].function]
  BY <1>1, <1>2
<1> QED
  BY <1>3 DEF Within, Read, M, N, F, G, L

(* The place of a mapping, with or without its addition.                   *)
FilesOf(ms) == [i \in DOMAIN ms |-> ms[i].file]

LEMMA FilesAre ==
    ASSUME NEW ms \in Seq(MappingRecs)
    PROVE  /\ FilesOf(ms) \in Seq(Texts) /\ Len(FilesOf(ms)) = Len(ms)
           /\ DOMAIN FilesOf(ms) = 1..Len(ms) /\ DOMAIN ms = 1..Len(ms) /\ Len(ms) \in Nat
           /\ \A i \in 1..Len(ms) : FilesOf(ms)[i] = ms[i].file /\ ms[i] \in MappingRecs
<1>1. DOMAIN ms = 1..Len(ms) /\ Len(ms) \in Nat /\ \A i \in 1..Len(ms) : ms[i] \in MappingRecs
  OBVIOUS
<1>2. \A i \in 1..Len(ms) : ms[i].file \in Texts
  BY <1>1 DEF MappingRecs
<1> QED
  BY <1>1, <1>2 DEF FilesOf

LEMMA MappingFound ==
    ASSUME NEW ms \in Seq(MappingRecs), NEW f \in Texts
    PROVE  /\ f \in ToSet(FilesOf(ms)) <=> \E i \in 1..Len(ms) : ms[i].file = f
           /\ f \in ToSet(FilesOf(ms)) =>
                 Place(FilesOf(ms), f) \in 1..Len(ms) /\ ms[Place(FilesOf(ms), f)].file = f
           /\ f \notin ToSet(FilesOf(ms)) => Place(FilesOf(ms), f) = Len(ms) + 1
<1> DEFINE F == FilesOf(ms)
<1>1. /\ F \in Seq(Texts) /\ Len(F) = Len(ms) /\ DOMAIN F = 1..Len(ms)
      /\ \A i \in 1..Len(ms) : F[i] = ms[i].file
  BY FilesAre
<1> HIDE DEF F
<1>2. f \in ToSet(F) <=> \E i \in DOMAIN F : F[i] = f
  BY DEF ToSet
<1>3. f \in ToSet(F) => Place(F, f) \in DOMAIN F /\ F[Place(F, f)] = f
  BY <1>2 DEF Place
<1>4. f \notin ToSet(F) => Place(F, f) = Len(F) + 1
  BY DEF Place
<1> QED
  BY <1>1, <1>2, <1>3, <1>4 DEF F

(* What ProfileBuilder::mapping does to the mappings of a profile.         *)
Collected(ms, id, has) == [ms EXCEPT ![id].hasFunctions = @ \/ has]

MapsTo(p, r, id, q) ==
    /\ q.raw = p.raw /\ q.samples = p.samples /\ q.locations = p.locations /\ q.functions = p.functions
    /\ FilesGrown(p.mappings, q.mappings)
    /\ MappingId(q, r.mapping) = id /\ id \in 0..Len(q.mappings)
    /\ id = 0 <=> r.mapping = "none"
    /\ id # 0 => q.mappings[id].file = r.mapping
    /\ \A m \in 1..Len(q.mappings) :
          q.mappings[m].hasFunctions <=>
             \/ m \in 1..Len(p.mappings) /\ p.mappings[m].hasFunctions
             \/ m = id /\ r.lines # <<>>
    /\ \A m \in 1..Len(q.mappings) : m \in 1..Len(p.mappings) \/ m = id

LEMMA MappingAdded ==
    ASSUME NEW p \in Profiles, NEW r \in Resolutions, NEW q, q = WithMapping(p, r),
           NEW id, id = MappingId(p, r.mapping)
    PROVE  q \in Profiles /\ MapsTo(p, r, id, q)
<1> SUFFICES /\ q \in Profiles
             /\ q.raw = p.raw /\ q.samples = p.samples /\ q.locations = p.locations /\ q.functions = p.functions
             /\ FilesGrown(p.mappings, q.mappings)
             /\ MappingId(q, r.mapping) = id /\ id \in 0..Len(q.mappings)
             /\ id = 0 <=> r.mapping = "none"
             /\ id # 0 => q.mappings[id].file = r.mapping
             /\ \A m \in 1..Len(q.mappings) :
                   q.mappings[m].hasFunctions <=>
                      \/ m \in 1..Len(p.mappings) /\ p.mappings[m].hasFunctions
                      \/ m = id /\ r.lines # <<>>
             /\ \A m \in 1..Len(q.mappings) : m \in 1..Len(p.mappings) \/ m = id
  BY DEF MapsTo
<1> DEFINE ms == p.mappings  f == r.mapping  has == r.lines # <<>>
<1>1. ms \in Seq(MappingRecs) /\ f \in Texts /\ has \in BOOLEAN
  <2>1. ms \in Seq(MappingRecs)
    BY DEF Profiles
  <2>2. f \in Texts
    BY DEF Resolutions
  <2> QED
    BY <2>1, <2>2
<1>2. /\ MappingId(p, f) = (IF f = "none" THEN 0 ELSE Place(FilesOf(ms), f))
      /\ MappingId(q, f) = (IF f = "none" THEN 0 ELSE Place(FilesOf(q.mappings), f))
      /\ DOMAIN ms = 1..Len(ms) /\ Len(ms) \in Nat /\ \A i \in 1..Len(ms) : ms[i] \in MappingRecs
  BY <1>1, FilesAre DEF MappingId, FilesOf
<1>3. CASE f = "none"
  <2>1. id = 0 /\ q = p
    BY <1>2, <1>3 DEF WithMapping
  <2> QED
    BY <1>1, <1>2, <1>3, <2>1 DEF FilesGrown
<1>4. CASE f # "none" /\ f \in ToSet(FilesOf(ms))
  <2>1. id \in 1..Len(ms) /\ ms[id].file = f /\ id # 0
    BY <1>1, <1>2, <1>4, MappingFound
  <2>2. q = [p EXCEPT !.mappings = Collected(ms, id, has)]
    BY <1>2, <2>1 DEF WithMapping, Collected
  <2>3. /\ Collected(ms, id, has) \in Seq(MappingRecs) /\ Len(Collected(ms, id, has)) = Len(ms)
        /\ \A i \in 1..Len(ms) : Collected(ms, id, has)[i].file = ms[i].file
        /\ \A i \in 1..Len(ms) : Collected(ms, id, has)[i].hasFunctions <=> ms[i].hasFunctions \/ (i = id /\ has)
    <3> DEFINE c == Collected(ms, id, has)  z == [ms[id] EXCEPT !.hasFunctions = @ \/ has]
    <3>1. z \in MappingRecs /\ z.file = ms[id].file /\ (z.hasFunctions <=> ms[id].hasFunctions \/ has)
      <4>1. ms[id] \in MappingRecs
        BY <1>2, <2>1
      <4> HIDE DEF ms, has
      <4> QED
        BY <1>1, <4>1 DEF MappingRecs
    <3>2. c = [i \in 1..Len(ms) |-> IF i = id THEN z ELSE ms[i]]
      BY <1>2, <2>1 DEF Collected
    <3> HIDE DEF z, c, ms, has
    <3>3. \A i \in 1..Len(ms) : c[i] = IF i = id THEN z ELSE ms[i]
      BY <3>2
    <3>4. c \in Seq(MappingRecs) /\ Len(c) = Len(ms)
      BY <1>1, <1>2, <3>1, <3>2
    <3> QED
      BY <3>1, <3>3, <3>4 DEF c
  <2> DEFINE c == Collected(ms, id, has)
  <2> HIDE DEF c
  <2>4. /\ q \in Profiles /\ q.mappings = c
        /\ q.raw = p.raw /\ q.samples = p.samples /\ q.locations = p.locations /\ q.functions = p.functions
    BY <2>2, <2>3 DEF Profiles, c
  <2>5. FilesOf(c) = FilesOf(ms)
    <3>1. DOMAIN c = DOMAIN ms /\ \A i \in DOMAIN ms : c[i].file = ms[i].file
      BY <1>2, <2>3 DEF c
    <3> QED
      BY <3>1 DEF FilesOf
  <2> HIDE DEF ms, f, has
  <2> QED
    BY <1>2, <1>4, <2>1, <2>3, <2>4, <2>5 DEF FilesGrown, c, ms, f, has
<1>5. CASE f # "none" /\ f \notin ToSet(FilesOf(ms))
  <2> DEFINE z == [file |-> f, hasFunctions |-> has]  c == Append(ms, z)
  <2>1. id = Len(ms) + 1 /\ id # 0 /\ id \notin DOMAIN ms
    BY <1>1, <1>2, <1>5, MappingFound
  <2>2. q = [p EXCEPT !.mappings = c]
    BY <1>2, <2>1 DEF WithMapping
  <2>3. z \in MappingRecs /\ z.file = f /\ (z.hasFunctions <=> has)
    BY <1>1 DEF MappingRecs
  <2> HIDE DEF z, ms, f, has
  <2>4. /\ c \in Seq(MappingRecs) /\ Len(c) = Len(ms) + 1 /\ c[Len(ms) + 1] = z
        /\ \A i \in 1..Len(ms) : c[i] = ms[i]
    BY <1>1, <1>2, <2>3
  <2> HIDE DEF c
  <2>5. /\ q \in Profiles /\ q.mappings = c
        /\ q.raw = p.raw /\ q.samples = p.samples /\ q.locations = p.locations /\ q.functions = p.functions
    BY <2>2, <2>4 DEF Profiles
  <2>6. Place(FilesOf(c), f) = id
    <3>1. \A i \in 1..Len(c) : c[i].file = f <=> i = id
      <4>1. \A i \in 1..Len(ms) : ms[i].file # f
        BY <1>1, <1>5, MappingFound
      <4>2. c[id].file = f
        BY <2>1, <2>3, <2>4
      <4>3. \A i \in 1..Len(c) : i \in 1..Len(ms) \/ i = id
        BY <1>2, <2>1, <2>4
      <4> QED
        BY <2>1, <2>4, <4>1, <4>2, <4>3
    <3>2. id \in 1..Len(c)
      BY <1>2, <2>1, <2>4
    <3> QED
      BY <1>1, <2>4, <3>1, <3>2, MappingFound
  <2>7. \A m \in 1..Len(c) : m \in 1..Len(ms) \/ m = id
    BY <1>2, <2>1, <2>4
  <2>8. \A m \in 1..Len(c) : c[m].hasFunctions <=> (m \in 1..Len(ms) /\ ms[m].hasFunctions) \/ (m = id /\ has)
    <3>1. id \notin 1..Len(ms) /\ c[id] = z
      BY <1>2, <2>1, <2>4
    <3> QED
      BY <2>3, <2>4, <2>7, <3>1
  <2>9. FilesGrown(ms, c) /\ id \in 0..Len(c) /\ c[id].file = f
    BY <1>2, <2>1, <2>3, <2>4 DEF FilesGrown
  <2> QED
    BY <1>2, <1>5, <2>1, <2>5, <2>6, <2>7, <2>8, <2>9 DEF ms, f, has
<1> QED
  BY <1>3, <1>4, <1>5

(* Every location says what the symbolizer does, and a mapping has         *)
(* functions when one of its locations has lines.                          *)
Stands(p, l) == Within(p, l) /\ Read(p, l) = Truth(p.raw, l.address)
Flagged(ms, ls) ==
    \A m \in 1..Len(ms) : ms[m].hasFunctions <=> \E i \in 1..Len(ls) : ls[i].mapping = m /\ ls[i].lines # <<>>
SoundProfiles ==
    {p \in Profiles : /\ \A m \in 1..Len(p.mappings) : p.mappings[m].file # "none"
                      /\ \A i \in 1..Len(p.locations) : Stands(p, p.locations[i])
                      /\ Flagged(p.mappings, p.locations)}
Longer(p, q) ==
    /\ q.raw = p.raw /\ q.samples = p.samples /\ Grown(p.locations, q.locations)
    /\ Grown(p.functions, q.functions) /\ FilesGrown(p.mappings, q.mappings)

LEMMA GrownTo ==
    ASSUME NEW a, NEW b, NEW c, Len(a) \in Nat, Len(b) \in Nat, Len(c) \in Nat
    PROVE  /\ Grown(a, a) /\ FilesGrown(a, a)
           /\ Grown(a, b) /\ Grown(b, c) => Grown(a, c)
           /\ FilesGrown(a, b) /\ FilesGrown(b, c) => FilesGrown(a, c)
<1>1. Grown(a, a) /\ FilesGrown(a, a)
  BY DEF Grown, FilesGrown
<1>2. Grown(a, b) /\ Grown(b, c) => Grown(a, c)
  BY DEF Grown
<1>3. FilesGrown(a, b) /\ FilesGrown(b, c) => FilesGrown(a, c)
  BY DEF FilesGrown
<1> QED
  BY <1>1, <1>2, <1>3

LEMMA ProfileLengths ==
    ASSUME NEW p \in Profiles
    PROVE  Len(p.locations) \in Nat /\ Len(p.functions) \in Nat /\ Len(p.mappings) \in Nat
<1>1. /\ p.locations \in Seq(LocationRecs) /\ p.functions \in Seq(FunctionKeys)
      /\ p.mappings \in Seq(MappingRecs)
  BY DEF Profiles
<1> HIDE DEF LocationRecs, FunctionKeys, MappingRecs
<1> QED
  BY <1>1

LEMMA LongerFromTo ==
    ASSUME NEW p \in Profiles, NEW q \in Profiles, NEW u \in Profiles
    PROVE  Longer(p, p) /\ (Longer(p, q) /\ Longer(q, u) => Longer(p, u))
<1>2. /\ Len(p.locations) \in Nat /\ Len(p.functions) \in Nat /\ Len(p.mappings) \in Nat
      /\ Len(q.locations) \in Nat /\ Len(q.functions) \in Nat /\ Len(q.mappings) \in Nat
      /\ Len(u.locations) \in Nat /\ Len(u.functions) \in Nat /\ Len(u.mappings) \in Nat
  BY ProfileLengths
<1>3. Longer(p, p)
  BY <1>2, GrownTo DEF Longer
<1>4. ASSUME Longer(p, q), Longer(q, u)
      PROVE  Longer(p, u)
  <2>1. Grown(p.locations, u.locations)
    BY <1>2, <1>4, GrownTo DEF Longer
  <2>2. Grown(p.functions, u.functions)
    BY <1>2, <1>4, GrownTo DEF Longer
  <2>3. FilesGrown(p.mappings, u.mappings)
    BY <1>2, <1>4, GrownTo DEF Longer
  <2> QED
    BY <1>4, <2>1, <2>2, <2>3 DEF Longer
<1> QED
  BY <1>3, <1>4

(* The place of a location, if its address has one.                        *)
LEMMA LocationFound ==
    ASSUME NEW p \in Profiles, NEW a \in DOMAIN Symbols
    PROVE  /\ (\E i \in 1..Len(p.locations) : p.locations[i].address = a) =>
                 LocationId(p, a) \in 1..Len(p.locations) /\ p.locations[LocationId(p, a)].address = a
           /\ ~(\E i \in 1..Len(p.locations) : p.locations[i].address = a) =>
                 LocationId(p, a) = Len(p.locations) + 1
           /\ DOMAIN p.locations = 1..Len(p.locations) /\ Len(p.locations) \in Nat
           /\ \A i \in 1..Len(p.locations) : p.locations[i] \in LocationRecs
<1> DEFINE ls == p.locations  A == [i \in DOMAIN ls |-> ls[i].address]
<1>1. ls \in Seq(LocationRecs)
  BY DEF Profiles
<1>2. DOMAIN ls = 1..Len(ls) /\ Len(ls) \in Nat /\ \A i \in 1..Len(ls) : ls[i] \in LocationRecs
  <2> HIDE DEF ls
  <2> QED
    BY <1>1
<1>3. LocationId(p, a) = Place(A, a)
  BY DEF LocationId
<1> HIDE DEF ls
<1>4. /\ DOMAIN A = 1..Len(ls) /\ \A i \in 1..Len(ls) : A[i] = ls[i].address
      /\ A \in Seq(DOMAIN Symbols) /\ Len(A) = Len(ls)
  <2>1. \A i \in 1..Len(ls) : ls[i].address \in DOMAIN Symbols
    BY <1>2 DEF LocationRecs
  <2> QED
    BY <1>2, <2>1
<1> HIDE DEF A
<1>5. a \in ToSet(A) <=> \E i \in DOMAIN A : A[i] = a
  BY DEF ToSet
<1>6. /\ a \in ToSet(A) => Place(A, a) \in DOMAIN A /\ A[Place(A, a)] = a
      /\ a \notin ToSet(A) => Place(A, a) = Len(A) + 1
  BY <1>5 DEF Place
<1> QED
  BY <1>2, <1>3, <1>4, <1>5, <1>6 DEF ls

SymbolLines == [name : STRING, file : STRING, line : Nat]

LEMMA LinesOf ==
    ASSUME NEW r \in Resolutions
    PROVE  /\ r.mapping \in Texts
           /\ DOMAIN r.lines = 1..Len(r.lines) /\ Len(r.lines) \in Nat
           /\ r.lines = <<>> <=> Len(r.lines) = 0
           /\ \A i \in 1..Len(r.lines) :
                 /\ r.lines[i] \in SymbolLines /\ FunctionKey(r.lines[i]) \in FunctionKeys
           /\ [i \in DOMAIN r.lines |-> FunctionKey(r.lines[i])] \in Seq(FunctionKeys)
           /\ Len([i \in DOMAIN r.lines |-> FunctionKey(r.lines[i])]) = Len(r.lines)
<1> DEFINE L == r.lines
<1>1. L \in Seq(SymbolLines) /\ r.mapping \in Texts
  <2> HIDE DEF SymbolLines
  <2>1. r \in [mapping : Texts, lines : Seq(SymbolLines)]
    BY DEF Resolutions, SymbolLines
  <2> QED
    BY <2>1
<1> HIDE DEF L
<1>2. /\ DOMAIN L = 1..Len(L) /\ Len(L) \in Nat /\ (L = <<>> <=> Len(L) = 0)
      /\ \A i \in 1..Len(L) : L[i] \in SymbolLines
  <2> HIDE DEF SymbolLines
  <2> QED
    BY <1>1
<1>3. \A i \in 1..Len(L) : FunctionKey(L[i]) \in FunctionKeys
  BY <1>2 DEF SymbolLines, FunctionKey, FunctionKeys
<1> DEFINE K == [i \in DOMAIN L |-> FunctionKey(L[i])]
<1>4. K \in Seq(FunctionKeys) /\ Len(K) = Len(L)
  <2> HIDE DEF FunctionKeys
  <2> QED
    BY <1>2, <1>3
<1> QED
  BY <1>1, <1>2, <1>3, <1>4 DEF L

LEMMA LocationAdded ==
    ASSUME NEW p \in SoundProfiles, NEW a \in DOMAIN Symbols, NEW q, q = WithLocation(p, a)
    PROVE  /\ q \in SoundProfiles /\ Longer(p, q)
           /\ LocationId(q, a) \in 1..Len(q.locations) /\ q.locations[LocationId(q, a)].address = a
<1>0. p \in Profiles /\ p.raw \in BOOLEAN /\ p.locations \in Seq(LocationRecs) /\ p.functions \in Seq(FunctionKeys)
      /\ p.mappings \in Seq(MappingRecs) /\ p.samples \in Seq(SampleRecs)
  BY DEF SoundProfiles, Profiles
<1>1. /\ DOMAIN p.locations = 1..Len(p.locations) /\ Len(p.locations) \in Nat
      /\ \A i \in 1..Len(p.locations) : p.locations[i] \in LocationRecs
  BY <1>0, LocationFound
<1>2. CASE \E i \in 1..Len(p.locations) : p.locations[i].address = a
  <2>1. LocationId(p, a) \in 1..Len(p.locations) /\ p.locations[LocationId(p, a)].address = a
    BY <1>0, <1>2, LocationFound
  <2>2. q = p
    BY <1>1, <2>1 DEF WithLocation
  <2> QED
    BY <1>0, <2>1, <2>2, LongerFromTo
<1>3. CASE ~\E i \in 1..Len(p.locations) : p.locations[i].address = a
  <2> DEFINE r == Resolved(p.raw, a)
             m == WithMapping(p, r)
             keys == [i \in DOMAIN r.lines |-> FunctionKey(r.lines[i])]
             u == WithFunctions(m, r.lines)
             lines == [i \in DOMAIN r.lines |-> [function |-> Place(u.functions, keys[i]), line |-> r.lines[i].line]]
             l == [address |-> a, mapping |-> MappingId(u, r.mapping), lines |-> lines]
  <2>1. q = [u EXCEPT !.locations = Append(@, l)]
    <3>1. LocationId(p, a) \notin DOMAIN p.locations
      <4>1. LocationId(p, a) = Len(p.locations) + 1
        BY <1>0, <1>3, LocationFound
      <4> QED
        BY <1>1, <4>1
    <3>2. lines = [i \in DOMAIN r.lines |->
                      [function |-> Place(u.functions, FunctionKey(r.lines[i])), line |-> r.lines[i].line]]
      OBVIOUS
    <3> QED
      BY <3>1, <3>2 DEF WithLocation
  <2>2. r \in Resolutions
    BY <1>0, ResolvedIs
  <2> DEFINE R == r.lines  f == r.mapping  id == MappingId(p, f)  F == InternedAll(p.functions, keys)
  <2>3. /\ f \in Texts /\ DOMAIN R = 1..Len(R) /\ Len(R) \in Nat /\ (R = <<>> <=> Len(R) = 0)
        /\ \A i \in 1..Len(R) : R[i] \in SymbolLines /\ FunctionKey(R[i]) \in FunctionKeys
        /\ keys \in Seq(FunctionKeys) /\ Len(keys) = Len(R)
    BY <2>2, LinesOf
  <2>4. /\ m \in Profiles
        /\ m.raw = p.raw /\ m.samples = p.samples /\ m.locations = p.locations /\ m.functions = p.functions
        /\ FilesGrown(p.mappings, m.mappings)
        /\ MappingId(m, f) = id /\ id \in 0..Len(m.mappings)
        /\ id = 0 <=> f = "none"
        /\ id # 0 => m.mappings[id].file = f
        /\ \A k \in 1..Len(m.mappings) :
              m.mappings[k].hasFunctions <=>
                 \/ k \in 1..Len(p.mappings) /\ p.mappings[k].hasFunctions
                 \/ k = id /\ R # <<>>
        /\ \A k \in 1..Len(m.mappings) : k \in 1..Len(p.mappings) \/ k = id
    <3>1. m \in Profiles /\ MapsTo(p, r, id, m)
      <4> HIDE DEF r
      <4> QED
        BY <1>0, <2>2, MappingAdded
    <3> HIDE DEF r, m, id
    <3> QED
      BY <3>1 DEF MapsTo
  <2>5. /\ F \in Seq(FunctionKeys) /\ Grown(p.functions, F)
        /\ \A i \in 1..Len(R) : Place(F, keys[i]) \in 1..Len(F) /\ F[Place(F, keys[i])] = FunctionKey(R[i])
    <3>1. \A i \in 1..Len(R) : keys[i] = FunctionKey(R[i])
      BY <2>3
    <3> HIDE DEF r, keys, R
    <3>2. /\ F \in Seq(FunctionKeys) /\ Grown(p.functions, F)
          /\ \A i \in 1..Len(keys) : Place(F, keys[i]) \in 1..Len(F) /\ F[Place(F, keys[i])] = keys[i]
      BY <1>0, <2>3, AllInterned
    <3> QED
      BY <2>3, <3>1, <3>2
  <2>6. u = [m EXCEPT !.functions = F]
    BY <2>4 DEF WithFunctions
  <2> HIDE DEF r, m, keys, F, R, f, id
  <2>7. /\ u \in Profiles /\ u.functions = F /\ u.mappings = m.mappings
        /\ u.raw = p.raw /\ u.samples = p.samples /\ u.locations = p.locations
    BY <2>4, <2>5, <2>6 DEF Profiles
  <2>8. MappingId(u, f) = id /\ f = r.mapping /\ R = r.lines
    BY <2>4, <2>7 DEF MappingId, f, R
  <2> DEFINE ll == [i \in 1..Len(R) |-> [function |-> Place(F, keys[i]), line |-> R[i].line]]
  <2>9. lines = ll
    BY <2>3, <2>7, <2>8
  <2>10. ll \in Seq(LineRecs) /\ Len(ll) = Len(R) /\ DOMAIN ll = 1..Len(R) /\ (ll = <<>> <=> R = <<>>)
    <3>1. \A i \in 1..Len(R) : [function |-> Place(F, keys[i]), line |-> R[i].line] \in LineRecs
      BY <2>3, <2>5 DEF LineRecs, SymbolLines
    <3>2. ll \in Seq(LineRecs) /\ Len(ll) = Len(R) /\ DOMAIN ll = 1..Len(R)
      <4> HIDE DEF LineRecs
      <4> QED
        BY <2>3, <3>1
    <3>3. ll = <<>> <=> Len(ll) = 0
      <4> HIDE DEF ll, LineRecs
      <4> QED
        BY <3>2
    <3> QED
      BY <2>3, <3>2, <3>3
  <2>11. l = [address |-> a, mapping |-> id, lines |-> ll]
    BY <2>8, <2>9
  <2> HIDE DEF u, lines
  <2>12. l \in LocationRecs /\ l.address = a /\ l.mapping = id /\ l.lines = ll
    <3> HIDE DEF ll
    <3> QED
      BY <2>4, <2>10, <2>11 DEF LocationRecs
  <2>13. Within(u, l) /\ Read(u, l) = Truth(p.raw, a)
    <3>1. Within(u, l)
      BY <2>4, <2>5, <2>7, <2>10, <2>12 DEF Within
    <3>2. Truth(p.raw, a) = [address |-> a, mapping |-> f, lines |-> R]
      BY DEF Truth, r, f, R
    <3>3. (IF l.mapping = 0 THEN "none" ELSE u.mappings[l.mapping].file) = f
      BY <2>4, <2>7, <2>12
    <3> DEFINE told == [j \in DOMAIN l.lines |->
                 [name |-> u.functions[l.lines[j].function].name,
                  file |-> u.functions[l.lines[j].function].file, line |-> l.lines[j].line]]
    <3>4. told = R
      <4>1. DOMAIN told = DOMAIN R
        BY <2>3, <2>10, <2>12
      <4>2. ASSUME NEW j \in DOMAIN R
            PROVE  told[j] = R[j]
        <5>1. j \in 1..Len(R) /\ R[j] \in SymbolLines /\ F[Place(F, keys[j])] = FunctionKey(R[j])
          BY <2>3, <2>5, <4>2
        <5>2. l.lines[j].function = Place(F, keys[j]) /\ l.lines[j].line = R[j].line
          BY <2>12, <5>1
        <5>3. told[j] = [name |-> R[j].name, file |-> R[j].file, line |-> R[j].line]
          BY <2>7, <4>1, <5>1, <5>2 DEF FunctionKey
        <5> QED
          BY <5>1, <5>3 DEF SymbolLines
      <4>3. R = [j \in DOMAIN R |-> R[j]]
        <5>1. R \in Seq(SymbolLines)
          BY <2>2 DEF R, Resolutions, SymbolLines
        <5> HIDE DEF SymbolLines
        <5> QED
          BY <5>1
      <4> QED
        BY <4>1, <4>2, <4>3
    <3>5. Read(u, l) = [address |-> l.address, mapping |-> f, lines |-> R]
      BY <3>3, <3>4 DEF Read
    <3> QED
      BY <2>12, <3>1, <3>2, <3>5
  <2> HIDE DEF l, ll
  <2> DEFINE ls == p.locations  ks == Append(ls, l)
  <2>14. /\ ks \in Seq(LocationRecs) /\ Len(ks) = Len(ls) + 1 /\ ks[Len(ls) + 1] = l
         /\ \A i \in 1..Len(ls) : ks[i] = ls[i]
    <3> HIDE DEF LocationRecs
    <3> QED
      BY <1>0, <2>12
  <2> HIDE DEF ls, ks
  <2>15. /\ q \in Profiles /\ q.locations = ks /\ q.functions = F /\ q.mappings = m.mappings
         /\ q.raw = p.raw /\ q.samples = p.samples
    <3>1. q = [u EXCEPT !.locations = ks]
      BY <2>1, <2>7 DEF ks, ls
    <3> QED
      BY <2>7, <2>14, <3>1 DEF Profiles
  <2>16. Longer(p, q) /\ Grown(ls, ks)
    <3>1. Grown(ls, ks)
      BY <1>1, <2>14 DEF Grown, ls
    <3> QED
      BY <2>4, <2>5, <2>15, <3>1 DEF Longer, ls
  <2>17. \A i \in 1..Len(ks) : (i \in 1..Len(ls) /\ ks[i] = ls[i]) \/ (i = Len(ls) + 1 /\ ks[i] = l)
    BY <1>1, <2>14 DEF ls
  <2>18. \A i \in 1..Len(q.locations) : Stands(q, q.locations[i])
    <3>1. ASSUME NEW i \in 1..Len(ls) PROVE Stands(q, ls[i])
      <4>1. Stands(p, ls[i]) /\ ls[i] \in LocationRecs
        BY <1>1 DEF SoundProfiles, ls
      <4>2. q.mappings \in Seq(MappingRecs) /\ q.functions \in Seq(FunctionKeys)
        BY <2>15 DEF Profiles
      <4>3. Within(q, ls[i]) /\ Read(q, ls[i]) = Read(p, ls[i])
        BY <1>0, <2>4, <2>5, <2>15, <4>1, <4>2, ReadKept DEF Stands
      <4> QED
        BY <2>15, <4>1, <4>3 DEF Stands
    <3>2. Stands(q, l)
      BY <2>7, <2>12, <2>13, <2>15 DEF Stands, Within, Read
    <3> QED
      BY <2>15, <2>17, <3>1, <3>2
  <2>19. \A k \in 1..Len(q.mappings) : q.mappings[k].file # "none"
    <3>1. \A k \in 1..Len(p.mappings) : p.mappings[k].file # "none" /\ m.mappings[k].file = p.mappings[k].file
      BY <2>4 DEF SoundProfiles, FilesGrown
    <3> QED
      BY <2>4, <2>15, <3>1
  <2>20. Flagged(q.mappings, q.locations)
    <3> SUFFICES ASSUME NEW k \in 1..Len(m.mappings)
                 PROVE  m.mappings[k].hasFunctions <=> \E i \in 1..Len(ks) : ks[i].mapping = k /\ ks[i].lines # <<>>
      BY <2>15 DEF Flagged
    <3>1. (\E i \in 1..Len(ks) : ks[i].mapping = k /\ ks[i].lines # <<>>)
            <=> (\E i \in 1..Len(ls) : ls[i].mapping = k /\ ls[i].lines # <<>>) \/ (l.mapping = k /\ l.lines # <<>>)
      <4>1. Len(ls) + 1 \in 1..Len(ks) /\ \A i \in 1..Len(ls) : i \in 1..Len(ks)
        BY <1>1, <2>14 DEF ls
      <4> QED
        BY <2>14, <2>17, <4>1
    <3>2. k \in 1..Len(p.mappings) =>
            (p.mappings[k].hasFunctions <=> \E i \in 1..Len(ls) : ls[i].mapping = k /\ ls[i].lines # <<>>)
      BY DEF SoundProfiles, Flagged, ls
    <3>3. k \notin 1..Len(p.mappings) => ~\E i \in 1..Len(ls) : ls[i].mapping = k /\ ls[i].lines # <<>>
      <4>1. \A i \in 1..Len(ls) : ls[i].mapping \in 0..Len(p.mappings)
        BY DEF SoundProfiles, Stands, Within, ls
      <4>2. Len(p.mappings) \in Nat /\ k \in Nat /\ k >= 1
        <5> HIDE DEF MappingRecs
        <5>1. Len(m.mappings) \in Nat
          BY <2>4 DEF Profiles
        <5> QED
          BY <1>0, <5>1
      <4> QED
        BY <4>1, <4>2
    <3> QED
      BY <2>4, <2>10, <2>12, <3>1, <3>2, <3>3
  <2>21. q \in SoundProfiles
    BY <2>15, <2>18, <2>19, <2>20 DEF SoundProfiles
  <2>22. \E i \in 1..Len(q.locations) : q.locations[i].address = a
    <3>1. Len(ls) + 1 \in 1..Len(ks)
      BY <1>1, <2>14 DEF ls
    <3> QED
      BY <2>12, <2>14, <2>15, <3>1
  <2> QED
    BY <2>15, <2>16, <2>21, <2>22, LocationFound
<1> QED
  BY <1>2, <1>3

(* The profiles that FoldLeft goes through.                                *)
LEMMA Locating ==
    ASSUME NEW base \in SoundProfiles, NEW stack \in Seq(DOMAIN Symbols)
    PROVE  \E p \in [0..Len(stack) -> SoundProfiles] :
              /\ p[0] = base /\ p[Len(stack)] = WithLocations(base, stack)
              /\ \A k \in 1..Len(stack) : p[k] = WithLocation(p[k - 1], stack[k])
<1> DEFINE n == Len(stack)
    F(g) == [s \in SUBSET (DOMAIN stack) |-> IF s = {} THEN base ELSE WithLocation(g[s \ {Max(s)}], stack[Max(s)])]
    iter == CHOOSE g : g = F(g)
    step == [ce \in SoundProfiles \X (DOMAIN Symbols) |-> WithLocation(ce[1], ce[2])]
<1>1. n \in Nat /\ DOMAIN stack = 1..n /\ stack \in [1..n -> (DOMAIN Symbols)]
  OBVIOUS
<1>2. WithLocations(base, stack) = iter[DOMAIN stack]
  BY DEF WithLocations, FoldLeft, MapThenFoldSet
<1>3. step \in [SoundProfiles \X (DOMAIN Symbols) -> SoundProfiles]
  <2>1. \A ce \in SoundProfiles \X (DOMAIN Symbols) : WithLocation(ce[1], ce[2]) \in SoundProfiles
    BY LocationAdded
  <2> QED
    BY <2>1
<1>4. PICK f \in [SUBSET (1..n) -> SoundProfiles] :
         f = [s \in SUBSET (1..n) |-> IF s = {} THEN base ELSE step[<<f[s \ {Max(s)}], stack[Max(s)]>>]]
  <2> DEFINE A == SoundProfiles  B == DOMAIN Symbols
  <2>1. base \in A /\ n \in Nat /\ stack \in [1..n -> B] /\ step \in [A \X B -> A]
    BY <1>1, <1>3
  <2> HIDE DEF step, n, A, B
  <2>2. \E f \in [SUBSET (1..n) -> A] : Iterates(f, step, base, n, stack)
    BY <2>1, IndexRecursion
  <2> QED
    BY <2>2 DEF A, Iterates
<1>5. f = F(f)
  <2>1. ASSUME NEW s \in SUBSET (1..n), s # {}
        PROVE  step[<<f[s \ {Max(s)}], stack[Max(s)]>>] = WithLocation(f[s \ {Max(s)}], stack[Max(s)])
    <3>1. Max(s) \in s
      BY <1>1, <2>1, MaxIs
    <3>2. s \ {Max(s)} \in SUBSET (1..n) /\ Max(s) \in 1..n
      BY <3>1
    <3>3. f[s \ {Max(s)}] \in SoundProfiles /\ stack[Max(s)] \in DOMAIN Symbols
      BY <1>1, <3>2
    <3>4. <<f[s \ {Max(s)}], stack[Max(s)]>> \in SoundProfiles \X (DOMAIN Symbols)
      BY <3>3
    <3> QED
      BY <3>4
  <2>2. \A s \in SUBSET (1..n) : f[s] = IF s = {} THEN base ELSE WithLocation(f[s \ {Max(s)}], stack[Max(s)])
    <3> HIDE DEF step
    <3> QED
      BY <1>4, <2>1
  <2>3. f = [s \in SUBSET (1..n) |-> f[s]]
    OBVIOUS
  <2>4. f = [s \in SUBSET (1..n) |-> IF s = {} THEN base ELSE WithLocation(f[s \ {Max(s)}], stack[Max(s)])]
    BY <2>2, <2>3
  <2> QED
    BY <1>1, <2>4
<1> HIDE DEF F
<1>6. iter = F(iter)
  BY <1>5
<1> HIDE DEF iter
<1>7. iter = [s \in SUBSET (1..n) |-> IF s = {} THEN base ELSE WithLocation(iter[s \ {Max(s)}], stack[Max(s)])]
  BY <1>1, <1>6 DEF F
<1> DEFINE p == [k \in 0..n |-> iter[1..k]]
<1>8. /\ p[0] = base /\ \A k \in 1..n : p[k] = WithLocation(p[k - 1], stack[k])
      /\ p[n] = iter[1..n]
  <2>1. 1..0 = {} /\ 1..0 \in SUBSET (1..n) /\ 0 \in 0..n /\ n \in 0..n
    OBVIOUS
  <2>2. p[0] = base
    BY <1>7, <2>1
  <2>3. ASSUME NEW k \in 1..n
        PROVE  p[k] = WithLocation(p[k - 1], stack[k])
    <3>1. k \in Nat /\ k >= 1 /\ k \in 0..n /\ k - 1 \in 0..n
      OBVIOUS
    <3>2. 1..k \in SUBSET (1..n) /\ 1..k # {} /\ (1..k) \ {k} = 1..(k - 1) /\ Max(1..k) = k
      <4> HIDE DEF n
      <4> QED
        BY <1>1, Initials
    <3>3. iter[1..k] = WithLocation(iter[(1..k) \ {k}], stack[k])
      BY <1>7, <3>2
    <3> QED
      BY <3>1, <3>2, <3>3
  <2>4. p[n] = iter[1..n]
    BY <2>1
  <2> QED
    BY <2>2, <2>3, <2>4
<1>9. p \in [0..n -> SoundProfiles]
  <2> DEFINE T == {k \in 0..n : p[k] \in SoundProfiles}
  <2>1. 0 \in T
    BY <1>8
  <2>2. ASSUME NEW k \in 0..n, k \in T, k < n
        PROVE  k + 1 \in T
    <3>1. k + 1 \in 1..n /\ (k + 1) - 1 = k /\ stack[k + 1] \in DOMAIN Symbols
      BY <1>1, <2>2
    <3>2. p[k + 1] = WithLocation(p[k], stack[k + 1]) /\ p[k] \in SoundProfiles
      BY <1>8, <2>2, <3>1
    <3> HIDE DEF p
    <3> DEFINE a == p[k]  x == stack[k + 1]
    <3>3. a \in SoundProfiles /\ x \in DOMAIN Symbols /\ p[k + 1] = WithLocation(a, x)
      BY <3>1, <3>2
    <3> HIDE DEF a, x
    <3>4. p[k + 1] \in SoundProfiles
      BY <3>3, LocationAdded
    <3> QED
      BY <2>2, <3>4
  <2>3. \A k \in 0..n : k \in T
    <3> HIDE DEF T
    <3> QED
      BY <1>1, <2>1, <2>2, BoundedInduction
  <2>4. p = [k \in 0..n |-> p[k]]
    OBVIOUS
  <2> HIDE DEF p
  <2> QED
    BY <2>3, <2>4
<1> HIDE DEF p
<1> QED
  BY <1>1, <1>2, <1>8, <1>9

(* A stack's addresses all have a place afterwards.                        *)
LEMMA StackLocated ==
    ASSUME NEW base \in SoundProfiles, NEW stack \in Seq(DOMAIN Symbols), NEW q, q = WithLocations(base, stack)
    PROVE  /\ q \in SoundProfiles /\ Longer(base, q)
           /\ \A i \in 1..Len(stack) :
                 LocationId(q, stack[i]) \in 1..Len(q.locations) /\ q.locations[LocationId(q, stack[i])].address = stack[i]
<1>0. PICK p \in [0..Len(stack) -> SoundProfiles] :
         /\ p[0] = base /\ p[Len(stack)] = WithLocations(base, stack)
         /\ \A k \in 1..Len(stack) : p[k] = WithLocation(p[k - 1], stack[k])
  BY Locating
<1> DEFINE n == Len(stack)
<1>1. n \in Nat /\ (\A k \in 1..n : stack[k] \in DOMAIN Symbols) /\ SoundProfiles \subseteq Profiles
  BY DEF SoundProfiles
<1>2. /\ p \in [0..n -> SoundProfiles] /\ p[0] = base /\ p[n] = q
      /\ \A k \in 1..n : p[k] = WithLocation(p[k - 1], stack[k])
  BY <1>0
<1> HIDE DEF n
<1> DEFINE Has(u, a) == \E j \in 1..Len(u.locations) : u.locations[j].address = a
    Good(k) == Longer(base, p[k]) /\ \A i \in 1..k : Has(p[k], stack[i])
    G == {k \in 0..n : Good(k)}
<1>3. 0 \in G
  BY <1>1, <1>2, LongerFromTo
<1>4. ASSUME NEW k \in 0..n, k \in G, k < n
      PROVE  k + 1 \in G
  <2>1. k + 1 \in 1..n /\ (k + 1) - 1 = k /\ k + 1 \in 0..n /\ p[k] \in SoundProfiles /\ stack[k + 1] \in DOMAIN Symbols
    BY <1>1, <1>2, <1>4
  <2> DEFINE a == p[k]  b == p[k + 1]  x == stack[k + 1]
  <2>2. a \in SoundProfiles /\ x \in DOMAIN Symbols /\ b = WithLocation(a, x)
    BY <1>2, <2>1
  <2>3. b \in SoundProfiles /\ Longer(a, b) /\ Has(b, x)
    <3> HIDE DEF a, b, x
    <3>1. /\ b \in SoundProfiles /\ Longer(a, b)
          /\ LocationId(b, x) \in 1..Len(b.locations) /\ b.locations[LocationId(b, x)].address = x
      BY <2>2, LocationAdded
    <3> QED
      BY <3>1
  <2>4. Longer(base, b)
    <3>1. Longer(base, a)
      BY <1>4
    <3> HIDE DEF a, b
    <3> QED
      BY <1>1, <2>2, <2>3, <3>1, LongerFromTo
  <2>5. ASSUME NEW i \in 1..(k + 1) PROVE Has(b, stack[i])
    <3>1. CASE i = k + 1
      BY <2>3, <3>1
    <3>2. CASE i # k + 1
      <4>1. i \in 1..k
        BY <3>2
      <4>2. PICK j \in 1..Len(a.locations) : a.locations[j].address = stack[i]
        BY <1>4, <4>1
      <4> HIDE DEF a, b
      <4>3. Len(a.locations) \in Nat /\ Len(b.locations) \in Nat
        <5>1. a \in Profiles /\ b \in Profiles
          BY <2>2, <2>3 DEF SoundProfiles
        <5> QED
          BY <5>1, ProfileLengths
      <4>4. Grown(a.locations, b.locations)
        BY <2>3 DEF Longer
      <4>5. j \in 1..Len(b.locations) /\ b.locations[j] = a.locations[j]
        BY <4>3, <4>4 DEF Grown
      <4> QED
        BY <4>2, <4>5
    <3> QED
      BY <3>1, <3>2
  <2> QED
    BY <2>1, <2>4, <2>5
<1> HIDE DEF G
<1>5. \A k \in 0..n : k \in G
  BY <1>1, <1>3, <1>4, BoundedInduction
<1>6. Good(n) /\ q \in SoundProfiles
  <2>1. n \in 0..n
    BY <1>1
  <2>2. n \in G
    BY <1>5, <2>1
  <2>3. q \in SoundProfiles
    BY <1>2, <2>1
  <2> QED
    BY <2>2, <2>3 DEF G
<1>7. ASSUME NEW i \in 1..n
      PROVE  LocationId(q, stack[i]) \in 1..Len(q.locations) /\ q.locations[LocationId(q, stack[i])].address = stack[i]
  <2>1. \E j \in 1..Len(q.locations) : q.locations[j].address = stack[i]
    BY <1>2, <1>6
  <2> QED
    BY <1>1, <1>6, <2>1, LocationFound
<1> QED
  BY <1>2, <1>6, <1>7 DEF n

(* The profile holds the samples that were given.                          *)
Givens == [stack : InputStacks, labels : InputLabels, values : Seq(Nat)]
TellsOne(p, sample, x) ==
    /\ sample.labels = x.labels /\ sample.values = x.values
    /\ DOMAIN sample.locations = DOMAIN x.stack
    /\ \A i \in DOMAIN x.stack :
          /\ sample.locations[i] \in 1..Len(p.locations)
          /\ p.locations[sample.locations[i]].address = x.stack[i]
Tells(p, g) == Len(p.samples) = Len(g) /\ \A n \in 1..Len(g) : TellsOne(p, p.samples[n], g[n])

LEMMA SampleAdded ==
    ASSUME NEW p \in SoundProfiles, NEW g \in Seq(Givens), Tells(p, g),
           NEW stack \in InputStacks, NEW labels \in InputLabels, NEW values \in Seq(Nat),
           NEW q, q = WithSample(p, stack, labels, values)
    PROVE  /\ q \in SoundProfiles /\ q.raw = p.raw
           /\ Tells(q, Append(g, [stack |-> stack, labels |-> labels, values |-> values]))
<1> DEFINE u == WithLocations(p, stack)
           ids == [i \in DOMAIN stack |-> LocationId(u, stack[i])]
           sample == [locations |-> ids, labels |-> labels, values |-> values]
           x == [stack |-> stack, labels |-> labels, values |-> values]
<1>1. stack \in Seq(DOMAIN Symbols)
  BY EncodersAssumption DEF EncodersAssumption
<1>2. DOMAIN stack = 1..Len(stack) /\ Len(stack) \in Nat
  BY <1>1
<1>3. /\ u \in SoundProfiles /\ Longer(p, u)
      /\ \A i \in 1..Len(stack) :
            LocationId(u, stack[i]) \in 1..Len(u.locations) /\ u.locations[LocationId(u, stack[i])].address = stack[i]
  BY <1>1, StackLocated
<1>4. q = [u EXCEPT !.samples = Append(u.samples, sample)]
  BY DEF WithSample
<1> HIDE DEF u
<1>5. /\ u \in Profiles /\ u.samples \in Seq(SampleRecs) /\ u.samples = p.samples /\ Len(p.samples) \in Nat
      /\ u.locations \in Seq(LocationRecs) /\ Len(p.locations) \in Nat /\ Len(u.locations) \in Nat
  <2>1. u \in Profiles /\ u.samples = p.samples /\ p \in Profiles
    BY <1>3 DEF SoundProfiles, Longer
  <2>2. u.samples \in Seq(SampleRecs) /\ u.locations \in Seq(LocationRecs) /\ p.locations \in Seq(LocationRecs)
    BY <2>1 DEF Profiles
  <2>3. Len(p.samples) \in Nat
    <3> HIDE DEF SampleRecs
    <3> QED
      BY <2>1, <2>2
  <2>4. Len(p.locations) \in Nat /\ Len(u.locations) \in Nat
    <3> HIDE DEF LocationRecs
    <3> QED
      BY <2>2
  <2> QED
    BY <2>1, <2>2, <2>3, <2>4
<1>6. sample \in SampleRecs
  <2>1. ids \in Seq(Nat)
    <3>1. \A i \in 1..Len(stack) : LocationId(u, stack[i]) \in Nat
      BY <1>3, <1>5
    <3> QED
      BY <1>2, <3>1
  <2> HIDE DEF ids
  <2> QED
    BY <2>1 DEF SampleRecs
<1> DEFINE S == p.samples  T == Append(S, sample)
<1>7. sample.locations = ids /\ sample.labels = labels /\ sample.values = values
      /\ DOMAIN ids = DOMAIN stack /\ \A i \in DOMAIN stack : ids[i] = LocationId(u, stack[i])
  OBVIOUS
<1>8. x.stack = stack /\ x.labels = labels /\ x.values = values /\ x \in Givens
  BY DEF Givens
<1> HIDE DEF sample, x, S
<1>9. /\ T \in Seq(SampleRecs) /\ Len(T) = Len(S) + 1 /\ T[Len(S) + 1] = sample /\ Len(S) \in Nat
      /\ \A n \in 1..Len(S) : T[n] = S[n]
  <2>1. S \in Seq(SampleRecs)
    BY <1>5 DEF S
  <2> HIDE DEF SampleRecs
  <2> QED
    BY <1>6, <2>1
<1> HIDE DEF T
<1>10. /\ q \in Profiles /\ q.samples = T /\ q.locations = u.locations /\ q.mappings = u.mappings
       /\ q.functions = u.functions /\ q.raw = u.raw /\ u.raw = p.raw
  <2>1. q = [u EXCEPT !.samples = T]
    BY <1>4, <1>5 DEF T, S
  <2>2. u.raw = p.raw
    BY <1>3 DEF Longer
  <2> QED
    BY <1>5, <1>9, <2>1, <2>2 DEF Profiles
<1>11. q \in SoundProfiles
  <2>1. /\ \A m \in 1..Len(u.mappings) : u.mappings[m].file # "none"
        /\ \A i \in 1..Len(u.locations) : Stands(u, u.locations[i])
        /\ Flagged(u.mappings, u.locations)
    BY <1>3 DEF SoundProfiles
  <2>2. \A l : Stands(u, l) => Stands(q, l)
    BY <1>10 DEF Stands, Within, Read
  <2> QED
    BY <1>10, <2>1, <2>2 DEF SoundProfiles
<1>12. Tells(q, Append(g, x))
  <2> DEFINE h == Append(g, x)
  <2>1. Len(h) = Len(g) + 1 /\ Len(g) \in Nat /\ h[Len(g) + 1] = x /\ \A n \in 1..Len(g) : h[n] = g[n]
    <3> HIDE DEF Givens
    <3> QED
      BY <1>8
  <2> HIDE DEF h
  <2>2. Len(S) = Len(g) /\ \A n \in 1..Len(g) : TellsOne(p, S[n], g[n])
    BY DEF Tells, S
  <2>3. ASSUME NEW n \in 1..Len(g) PROVE TellsOne(q, T[n], h[n])
    <3> DEFINE A == p.locations  B == u.locations
    <3>1. TellsOne(p, S[n], g[n]) /\ T[n] = S[n] /\ h[n] = g[n]
      BY <1>9, <2>1, <2>2
    <3>2. q.locations = B /\ Len(A) <= Len(B) /\ Len(A) \in Nat /\ Len(B) \in Nat /\ \A i \in 1..Len(A) : B[i] = A[i]
      BY <1>3, <1>5, <1>10 DEF Longer, Grown
    <3> HIDE DEF A, B
    <3>3. /\ S[n].labels = g[n].labels /\ S[n].values = g[n].values
          /\ DOMAIN S[n].locations = DOMAIN g[n].stack
          /\ \A i \in DOMAIN g[n].stack :
                S[n].locations[i] \in 1..Len(A) /\ A[S[n].locations[i]].address = g[n].stack[i]
      BY <3>1 DEF TellsOne, A
    <3>4. \A i \in DOMAIN g[n].stack :
             S[n].locations[i] \in 1..Len(B) /\ B[S[n].locations[i]].address = g[n].stack[i]
      BY <3>2, <3>3
    <3> QED
      BY <3>1, <3>2, <3>3, <3>4 DEF TellsOne
  <2>4. TellsOne(q, sample, x)
    BY <1>2, <1>3, <1>7, <1>8, <1>10 DEF TellsOne
  <2>5. \A n \in 1..Len(h) : n \in 1..Len(g) \/ n = Len(g) + 1
    BY <2>1
  <2>6. \A n \in 1..Len(h) : TellsOne(q, T[n], h[n])
    BY <1>9, <2>1, <2>2, <2>3, <2>4, <2>5
  <2> QED
    BY <1>9, <1>10, <2>1, <2>2, <2>6 DEF Tells, h
<1> QED
  BY <1>10, <1>11, <1>12 DEF x

-----------------------------------------------------------------------------
(* The dictionary of an export.                                            *)

AnyLabel == UNION {{labels[i] : i \in DOMAIN labels} : labels \in InputLabels}
Dicts    == [stacks : Seq(Seq(Nat)), locations : Seq(LocationRecs), mappings : Seq(MappingRecs),
             functions : Seq(FunctionKeys), attributes : Seq(AnyLabel)]
SoundDicts ==
    {d \in Dicts : /\ \A i \in 1..Len(d.locations) : Within(d, d.locations[i])
                   /\ \A k \in 1..Len(d.stacks) : \A i \in DOMAIN d.stacks[k] : d.stacks[k][i] \in 1..Len(d.locations)
                   /\ Distinct(d.functions) /\ Distinct(FilesOf(d.mappings))}
DictLonger(d, e) ==
    /\ e.stacks = d.stacks /\ e.attributes = d.attributes
    /\ Grown(d.locations, e.locations) /\ Grown(d.functions, e.functions) /\ FilesGrown(d.mappings, e.mappings)

LEMMA DictTables ==
    ASSUME NEW d \in SoundDicts
    PROVE  /\ d \in Dicts
           /\ d.stacks \in Seq(Seq(Nat)) /\ d.locations \in Seq(LocationRecs) /\ d.mappings \in Seq(MappingRecs)
           /\ d.functions \in Seq(FunctionKeys) /\ d.attributes \in Seq(AnyLabel)
           /\ Len(d.stacks) \in Nat /\ Len(d.locations) \in Nat /\ Len(d.mappings) \in Nat
           /\ Len(d.functions) \in Nat /\ Len(d.attributes) \in Nat
           /\ \A i \in 1..Len(d.locations) : d.locations[i] \in LocationRecs
           /\ DictLonger(d, d)
<1>1. /\ d \in Dicts /\ d.stacks \in Seq(Seq(Nat)) /\ d.locations \in Seq(LocationRecs) /\ d.mappings \in Seq(MappingRecs)
      /\ d.functions \in Seq(FunctionKeys) /\ d.attributes \in Seq(AnyLabel)
  BY DEF SoundDicts, Dicts
<1>2. /\ Len(d.stacks) \in Nat /\ Len(d.locations) \in Nat /\ Len(d.mappings) \in Nat
      /\ Len(d.functions) \in Nat /\ Len(d.attributes) \in Nat
      /\ \A i \in 1..Len(d.locations) : d.locations[i] \in LocationRecs
  BY <1>1
<1> QED
  BY <1>1, <1>2 DEF DictLonger, Grown, FilesGrown

LEMMA DictLongerTo ==
    ASSUME NEW d \in SoundDicts, NEW e \in SoundDicts, NEW f \in SoundDicts, DictLonger(d, e), DictLonger(e, f)
    PROVE  DictLonger(d, f)
<1>1. /\ Len(d.locations) \in Nat /\ Len(d.functions) \in Nat /\ Len(d.mappings) \in Nat
      /\ Len(e.locations) \in Nat /\ Len(e.functions) \in Nat /\ Len(e.mappings) \in Nat
      /\ Len(f.locations) \in Nat /\ Len(f.functions) \in Nat /\ Len(f.mappings) \in Nat
  BY DictTables
<1>2. /\ Grown(d.locations, e.locations) /\ Grown(d.functions, e.functions) /\ FilesGrown(d.mappings, e.mappings)
      /\ Grown(e.locations, f.locations) /\ Grown(e.functions, f.functions) /\ FilesGrown(e.mappings, f.mappings)
  BY DEF DictLonger
<1>3. Grown(d.locations, f.locations) /\ Grown(d.functions, f.functions)
  BY <1>1, <1>2, GrownTo
<1>4. FilesGrown(d.mappings, f.mappings)
  BY <1>1, <1>2, GrownTo
<1>5. f.stacks = d.stacks /\ f.attributes = d.attributes
  BY DEF DictLonger
<1> QED
  BY <1>3, <1>4, <1>5 DEF DictLonger

(* In a table without doubles an entry has one place.                      *)
LEMMA OnePlace ==
    ASSUME NEW E, NEW T \in Seq(E), Distinct(T), NEW i \in 1..Len(T)
    PROVE  Place(T, T[i]) = i
<1>1. DOMAIN T = 1..Len(T) /\ T[i] \in ToSet(T)
  BY DEF ToSet
<1>2. Place(T, T[i]) \in DOMAIN T /\ T[Place(T, T[i])] = T[i]
  BY <1>1 DEF Place
<1> QED
  BY <1>1, <1>2 DEF Distinct

(* The dictionary has what a location of a source refers to.               *)
Ready(d, p, l) ==
    /\ l.mapping # 0 => \E i \in 1..Len(d.mappings) : d.mappings[i].file = p.mappings[l.mapping].file
    /\ \A j \in DOMAIN l.lines : \E i \in 1..Len(d.functions) : d.functions[i] = p.functions[l.lines[j].function]

LEMMA SourceLocation ==
    ASSUME NEW p \in SoundProfiles, NEW k \in 1..Len(p.locations), NEW l, l = p.locations[k]
    PROVE  /\ l \in LocationRecs /\ Within(p, l)
           /\ l.address \in DOMAIN Symbols /\ l.mapping \in 0..Len(p.mappings)
           /\ l.lines \in Seq(LineRecs) /\ DOMAIN l.lines = 1..Len(l.lines) /\ Len(l.lines) \in Nat
           /\ \A j \in DOMAIN l.lines : /\ l.lines[j] \in LineRecs
                                        /\ p.functions[l.lines[j].function] \in FunctionKeys
           /\ l.mapping # 0 => /\ p.mappings[l.mapping] \in MappingRecs /\ p.mappings[l.mapping].file \in Texts
                               /\ p.mappings[l.mapping].file # "none"
           /\ l.mapping \in Nat /\ l = [address |-> l.address, mapping |-> l.mapping, lines |-> l.lines]
<1>1. p \in Profiles /\ p.mappings \in Seq(MappingRecs) /\ p.functions \in Seq(FunctionKeys)
  BY DEF SoundProfiles, Profiles
<1>2. l \in LocationRecs /\ Within(p, l)
  <2>1. p.locations \in Seq(LocationRecs)
    BY <1>1 DEF Profiles
  <2>2. l \in LocationRecs
    <3> HIDE DEF LocationRecs
    <3> QED
      BY <2>1
  <2> QED
    BY <2>2 DEF SoundProfiles, Stands
<1>3. /\ l.address \in DOMAIN Symbols /\ l.mapping \in Nat /\ l.lines \in Seq(LineRecs)
      /\ l = [address |-> l.address, mapping |-> l.mapping, lines |-> l.lines]
  BY <1>2 DEF LocationRecs
<1>4. DOMAIN l.lines = 1..Len(l.lines) /\ Len(l.lines) \in Nat /\ \A j \in DOMAIN l.lines : l.lines[j] \in LineRecs
  <2> HIDE DEF LineRecs
  <2> QED
    BY <1>3
<1>5. /\ \A i \in 1..Len(p.mappings) : p.mappings[i] \in MappingRecs
      /\ \A i \in 1..Len(p.functions) : p.functions[i] \in FunctionKeys
  <2> HIDE DEF MappingRecs, FunctionKeys
  <2> QED
    BY <1>1
<1>6. l.mapping \in 0..Len(p.mappings) /\ \A j \in DOMAIN l.lines : l.lines[j].function \in 1..Len(p.functions)
  BY <1>2 DEF Within
<1>7. l.mapping # 0 => l.mapping \in 1..Len(p.mappings)
  BY <1>3, <1>6
<1>8. l.mapping # 0 => /\ p.mappings[l.mapping] \in MappingRecs /\ p.mappings[l.mapping].file \in Texts
                       /\ p.mappings[l.mapping].file # "none"
  BY <1>5, <1>7 DEF SoundProfiles, MappingRecs
<1> QED
  BY <1>2, <1>3, <1>4, <1>5, <1>6, <1>8

(* Then the location's entry says there what it says in its source.        *)
LEMMA EntryRead ==
    ASSUME NEW p \in SoundProfiles, NEW k \in 1..Len(p.locations), NEW l, l = p.locations[k],
           NEW d \in SoundDicts, Ready(d, p, l)
    PROVE  /\ EntryOf(d, p, l) \in LocationRecs /\ Within(d, EntryOf(d, p, l))
           /\ Read(d, EntryOf(d, p, l)) = Read(p, l)
<1> DEFINE N == Len(l.lines)  name == p.mappings[l.mapping].file
           fn(j) == p.functions[l.lines[j].function]
           id == IF l.mapping = 0 THEN 0 ELSE Place(FilesOf(d.mappings), name)
           ll == [j \in 1..N |-> [function |-> Place(d.functions, fn(j)), line |-> l.lines[j].line]]
<1>1. /\ l \in LocationRecs /\ Within(p, l)
      /\ l.address \in DOMAIN Symbols /\ l.mapping \in 0..Len(p.mappings)
      /\ DOMAIN l.lines = 1..N /\ N \in Nat
      /\ \A j \in 1..N : l.lines[j] \in LineRecs /\ fn(j) \in FunctionKeys
      /\ l.mapping # 0 => name \in Texts /\ name # "none"
      /\ l.mapping \in Nat
  BY SourceLocation
<1>2. /\ d.mappings \in Seq(MappingRecs) /\ d.functions \in Seq(FunctionKeys)
      /\ Len(d.mappings) \in Nat /\ Len(d.functions) \in Nat
  BY DictTables
<1>3. EntryOf(d, p, l) = [address |-> l.address, mapping |-> id, lines |-> ll]
  <2>1. (IF l.mapping = 0 THEN 0 ELSE MappingId(d, name)) = id
    BY <1>1 DEF MappingId, FilesOf
  <2> QED
    BY <1>1, <2>1 DEF EntryOf
<1>4. id \in 0..Len(d.mappings) /\ (id = 0 <=> l.mapping = 0) /\ (id # 0 => d.mappings[id].file = name)
  <2>1. CASE l.mapping = 0
    BY <1>2, <2>1
  <2>2. CASE l.mapping # 0
    <3>1. \E i \in 1..Len(d.mappings) : d.mappings[i].file = name
      BY <2>2 DEF Ready
    <3> HIDE DEF name
    <3>2. Place(FilesOf(d.mappings), name) \in 1..Len(d.mappings) /\ d.mappings[Place(FilesOf(d.mappings), name)].file = name
      BY <1>1, <1>2, <2>2, <3>1, MappingFound
    <3> QED
      BY <1>2, <2>2, <3>2
  <2> QED
    BY <2>1, <2>2
<1>5. \A j \in 1..N : Place(d.functions, fn(j)) \in 1..Len(d.functions) /\ d.functions[Place(d.functions, fn(j))] = fn(j)
  <2> SUFFICES ASSUME NEW j \in 1..N
               PROVE  Place(d.functions, fn(j)) \in 1..Len(d.functions) /\ d.functions[Place(d.functions, fn(j))] = fn(j)
    OBVIOUS
  <2>1. \E i \in 1..Len(d.functions) : d.functions[i] = fn(j)
    BY <1>1 DEF Ready
  <2> DEFINE x == fn(j)  F == d.functions
  <2>2. DOMAIN F = 1..Len(F)
    <3> HIDE DEF FunctionKeys
    <3> QED
      BY <1>2
  <2> HIDE DEF x, F
  <2>3. x \in ToSet(F) /\ \E i \in DOMAIN F : F[i] = x
    BY <2>1, <2>2 DEF ToSet, x, F
  <2>4. Place(F, x) \in DOMAIN F /\ F[Place(F, x)] = x
    BY <2>3 DEF Place
  <2> QED
    BY <2>2, <2>4 DEF x, F
<1>6. ll \in Seq(LineRecs) /\ DOMAIN ll = 1..N
      /\ \A j \in 1..N : ll[j].function = Place(d.functions, fn(j)) /\ ll[j].line = l.lines[j].line
  <2>1. \A j \in 1..N : [function |-> Place(d.functions, fn(j)), line |-> l.lines[j].line] \in LineRecs
    <3> SUFFICES ASSUME NEW j \in 1..N
                 PROVE  [function |-> Place(d.functions, fn(j)), line |-> l.lines[j].line] \in LineRecs
      OBVIOUS
    <3>1. Place(d.functions, fn(j)) \in Nat
      <4>1. Place(d.functions, fn(j)) \in 1..Len(d.functions)
        BY <1>5
      <4> QED
        BY <4>1
    <3>2. l.lines[j].line \in Nat
      BY <1>1 DEF LineRecs
    <3> DEFINE f == Place(d.functions, fn(j))
               n == l.lines[j].line
    <3> HIDE DEF f, n
    <3>3. [function |-> f, line |-> n] \in LineRecs
      BY <3>1, <3>2 DEF LineRecs, f, n
    <3> QED
      BY <3>3 DEF f, n
  <2>2. ll \in Seq(LineRecs)
    <3> HIDE DEF LineRecs, fn, N
    <3> QED
      BY <1>1, <2>1
  <2> QED
    BY <2>2
<1> HIDE DEF ll, id
<1> DEFINE e == [address |-> l.address, mapping |-> id, lines |-> ll]
<1>7. e \in LocationRecs
  <2>1. l.address \in DOMAIN Symbols
    BY <1>1
  <2>2. id \in Nat
    <3> HIDE DEF N, name, fn
    <3> QED
      BY <1>2, <1>4
  <2>3. ll \in Seq(LineRecs)
    BY <1>6
  <2> HIDE DEF N, name, fn
  <2> QED
    BY <2>1, <2>2, <2>3 DEF LocationRecs
<1>8. Within(d, e)
  <2>1. e.mapping = id /\ e.lines = ll
    OBVIOUS
  <2>2. \A j \in DOMAIN ll : ll[j].function \in 1..Len(d.functions)
    <3> SUFFICES ASSUME NEW j \in DOMAIN ll PROVE ll[j].function \in 1..Len(d.functions)
      OBVIOUS
    <3>1. j \in 1..N
      BY <1>6
    <3>2. ll[j].function = Place(d.functions, fn(j))
      BY <1>6, <3>1
    <3>3. Place(d.functions, fn(j)) \in 1..Len(d.functions)
      BY <1>5, <3>1
    <3> QED
      BY <3>2, <3>3
  <2> HIDE DEF e
  <2> QED
    BY <1>4, <2>1, <2>2 DEF Within
<1>9. Read(d, e) = Read(p, l)
  <2>1. (IF id = 0 THEN "none" ELSE d.mappings[id].file) = (IF l.mapping = 0 THEN "none" ELSE name)
    BY <1>4
  <2>2. [j \in DOMAIN ll |-> [name |-> d.functions[ll[j].function].name,
                              file |-> d.functions[ll[j].function].file, line |-> ll[j].line]]
         = [j \in DOMAIN l.lines |-> [name |-> fn(j).name, file |-> fn(j).file, line |-> l.lines[j].line]]
    <3>1. DOMAIN ll = DOMAIN l.lines
      BY <1>1, <1>6
    <3>2. \A j \in DOMAIN l.lines : d.functions[ll[j].function] = fn(j) /\ ll[j].line = l.lines[j].line
      BY <1>1, <1>5, <1>6
    <3> HIDE DEF fn
    <3> QED
      BY <3>1, <3>2
  <2> QED
    BY <2>1, <2>2 DEF Read
<1> QED
  BY <1>3, <1>7, <1>8, <1>9

(* The entry stays the same when the dictionary grows.                     *)
LEMMA EntryKept ==
    ASSUME NEW p \in SoundProfiles, NEW k \in 1..Len(p.locations), NEW l, l = p.locations[k],
           NEW d \in SoundDicts, Ready(d, p, l), NEW e \in SoundDicts, DictLonger(d, e)
    PROVE  Ready(e, p, l) /\ EntryOf(e, p, l) = EntryOf(d, p, l)
<1> DEFINE name == p.mappings[l.mapping].file
           fn(j) == p.functions[l.lines[j].function]
<1>1. /\ DOMAIN l.lines = 1..Len(l.lines) /\ Len(l.lines) \in Nat /\ (l.mapping # 0 => name \in Texts /\ name # "none")
      /\ \A j \in DOMAIN l.lines : fn(j) \in FunctionKeys
  BY SourceLocation
<1>2. /\ d.mappings \in Seq(MappingRecs) /\ d.functions \in Seq(FunctionKeys)
      /\ Len(d.mappings) \in Nat /\ Len(d.functions) \in Nat
      /\ e.mappings \in Seq(MappingRecs) /\ e.functions \in Seq(FunctionKeys)
      /\ Len(e.mappings) \in Nat /\ Len(e.functions) \in Nat
      /\ Distinct(d.functions) /\ Distinct(FilesOf(d.mappings)) /\ Distinct(e.functions) /\ Distinct(FilesOf(e.mappings))
  BY DictTables DEF SoundDicts
<1>3. /\ Len(d.functions) <= Len(e.functions) /\ \A i \in 1..Len(d.functions) : e.functions[i] = d.functions[i]
      /\ Len(d.mappings) <= Len(e.mappings) /\ \A i \in 1..Len(d.mappings) : e.mappings[i].file = d.mappings[i].file
  BY DEF DictLonger, Grown, FilesGrown
<1>4. l.mapping # 0 => /\ \E i \in 1..Len(e.mappings) : e.mappings[i].file = name
                       /\ MappingId(e, name) = MappingId(d, name)
  <2> SUFFICES ASSUME l.mapping # 0
               PROVE  /\ \E i \in 1..Len(e.mappings) : e.mappings[i].file = name
                      /\ MappingId(e, name) = MappingId(d, name)
    OBVIOUS
  <2> DEFINE D == FilesOf(d.mappings)  G == FilesOf(e.mappings)
  <2>1. PICK i \in 1..Len(d.mappings) : d.mappings[i].file = name
    BY DEF Ready
  <2>2. i \in 1..Len(e.mappings) /\ e.mappings[i].file = name
    <3>1. i \in 1..Len(e.mappings)
      BY <1>2, <1>3
    <3>2. e.mappings[i].file = d.mappings[i].file
      BY <1>3
    <3> QED
      BY <2>1, <3>1, <3>2
  <2>3. /\ D \in Seq(Texts) /\ Len(D) = Len(d.mappings) /\ D[i] = name
        /\ G \in Seq(Texts) /\ Len(G) = Len(e.mappings) /\ G[i] = name
    BY <1>2, <2>1, <2>2, FilesAre
  <2>4. Place(D, D[i]) = i
    <3> HIDE DEF D
    <3>1. Distinct(D) /\ i \in 1..Len(D)
      BY <1>2, <2>3 DEF D
    <3> QED
      BY <2>3, <3>1, OnePlace
  <2>5. Place(G, G[i]) = i
    <3> HIDE DEF G
    <3>1. Distinct(G) /\ i \in 1..Len(G)
      BY <1>2, <2>2, <2>3 DEF G
    <3> QED
      BY <2>3, <3>1, OnePlace
  <2>6. Place(D, name) = i /\ Place(G, name) = i
    BY <2>3, <2>4, <2>5
  <2> QED
    BY <2>2, <2>6 DEF MappingId, FilesOf
<1>5. ASSUME NEW j \in DOMAIN l.lines
      PROVE  /\ \E i \in 1..Len(e.functions) : e.functions[i] = fn(j)
             /\ Place(e.functions, fn(j)) = Place(d.functions, fn(j))
  <2> DEFINE D == d.functions  G == e.functions
  <2>1. PICK i \in 1..Len(D) : D[i] = fn(j)
    BY DEF Ready
  <2>2. i \in 1..Len(G) /\ G[i] = fn(j)
    BY <1>2, <1>3, <2>1
  <2>3. Place(D, D[i]) = i
    <3> HIDE DEF D
    <3>1. Distinct(D) /\ D \in Seq(FunctionKeys) /\ i \in 1..Len(D)
      BY <1>2 DEF D
    <3> QED
      BY <3>1, OnePlace
  <2>4. Place(G, G[i]) = i
    <3> HIDE DEF G
    <3>1. Distinct(G) /\ G \in Seq(FunctionKeys) /\ i \in 1..Len(G)
      BY <1>2, <2>2 DEF G
    <3> QED
      BY <3>1, OnePlace
  <2> QED
    BY <2>1, <2>2, <2>3, <2>4
<1> QED
  BY <1>4, <1>5 DEF Ready, EntryOf

(* intern_location: what a location refers to comes before it.             *)
Entered(d, p, l) == Ready(d, p, l) /\ \E i \in 1..Len(d.locations) : d.locations[i] = EntryOf(d, p, l)

LEMMA EnteredKept ==
    ASSUME NEW p \in SoundProfiles, NEW k \in 1..Len(p.locations), NEW l, l = p.locations[k],
           NEW d \in SoundDicts, Entered(d, p, l), NEW e \in SoundDicts, DictLonger(d, e)
    PROVE  Entered(e, p, l)
<1>1. Ready(e, p, l) /\ EntryOf(e, p, l) = EntryOf(d, p, l)
  BY EntryKept DEF Entered
<1>2. PICK i \in 1..Len(d.locations) : d.locations[i] = EntryOf(d, p, l)
  BY DEF Entered
<1>3. i \in 1..Len(e.locations) /\ e.locations[i] = d.locations[i]
  BY DictTables DEF DictLonger, Grown
<1> QED
  BY <1>1, <1>2, <1>3 DEF Entered

HasFile(m, p, l) ==
    l.mapping # 0 => \E i \in 1..Len(m.mappings) : m.mappings[i].file = p.mappings[l.mapping].file

LEMMA MappingInterned ==
    ASSUME NEW p \in SoundProfiles, NEW k \in 1..Len(p.locations), NEW l, l = p.locations[k],
           NEW d \in SoundDicts, NEW m, m = InternMapping(d, p, l)
    PROVE  m \in SoundDicts /\ DictLonger(d, m) /\ HasFile(m, p, l)
<1> DEFINE x == p.mappings[l.mapping]  M == d.mappings  N == Append(M, x)
<1>1. l.mapping # 0 => x \in MappingRecs /\ x.file \in Texts
  BY SourceLocation
<1>2. M \in Seq(MappingRecs) /\ Len(M) \in Nat /\ d \in Dicts
  BY DictTables
<1>3. DOMAIN M = 1..Len(M)
  BY <1>2, FilesAre
<1>4. CASE l.mapping = 0 \/ x.file \in {M[i].file : i \in DOMAIN M}
  <2>1. m = d
    BY <1>4 DEF InternMapping
  <2>2. HasFile(m, p, l)
    BY <1>3, <1>4, <2>1 DEF HasFile
  <2> QED
    BY <2>1, <2>2, DictTables
<1>5. CASE ~(l.mapping = 0 \/ x.file \in {M[i].file : i \in DOMAIN M})
  <2>1. m = [d EXCEPT !.mappings = N] /\ x \in MappingRecs
    BY <1>1, <1>5 DEF InternMapping
  <2>2. \A i \in 1..Len(M) : M[i].file # x.file
    BY <1>3, <1>5
  <2> HIDE DEF x, M
  <2>3. N \in Seq(MappingRecs) /\ Len(N) = Len(M) + 1 /\ N[Len(M) + 1] = x /\ \A i \in 1..Len(M) : N[i] = M[i]
    <3> HIDE DEF MappingRecs
    <3> QED
      BY <1>2, <2>1
  <2> HIDE DEF N
  <2>4. /\ m \in Dicts /\ m.mappings = N /\ m.stacks = d.stacks /\ m.attributes = d.attributes
        /\ m.locations = d.locations /\ m.functions = d.functions
    BY <1>2, <2>1, <2>3 DEF Dicts
  <2>5. DictLonger(d, m)
    BY <1>2, <2>3, <2>4, DictTables DEF DictLonger, Grown, FilesGrown, M
  <2>6. Distinct(FilesOf(N))
    <3>1. /\ Distinct(FilesOf(M)) /\ Len(FilesOf(M)) = Len(M) /\ Len(FilesOf(N)) = Len(N)
          /\ \A i \in 1..Len(M) : FilesOf(M)[i] = M[i].file
          /\ \A i \in 1..Len(N) : FilesOf(N)[i] = N[i].file
      BY <1>2, <2>3, FilesAre DEF SoundDicts, M
    <3>2. \A i, j \in 1..Len(M) : M[i].file = M[j].file => i = j
      BY <3>1 DEF Distinct
    <3>3. \A i \in 1..Len(N) : (i \in 1..Len(M) /\ N[i] = M[i]) \/ (i = Len(M) + 1 /\ N[i] = x)
      BY <1>2, <2>3
    <3>4. \A i, j \in 1..Len(N) : N[i].file = N[j].file => i = j
      BY <2>2, <3>2, <3>3
    <3> DEFINE G == FilesOf(N)
    <3>5. Len(G) = Len(N) /\ \A i \in 1..Len(N) : G[i] = N[i].file
      BY <3>1
    <3> HIDE DEF G
    <3>6. ASSUME NEW i \in 1..Len(G), NEW j \in 1..Len(G), G[i] = G[j] PROVE i = j
      <4>1. i \in 1..Len(N) /\ j \in 1..Len(N)
        BY <3>5
      <4>2. G[i] = N[i].file /\ G[j] = N[j].file
        BY <3>5, <4>1
      <4> QED
        BY <3>4, <3>6, <4>1, <4>2
    <3>7. Distinct(G)
      BY <3>6 DEF Distinct
    <3> QED
      BY <3>7 DEF G
  <2>7. m \in SoundDicts
    <3>1. ASSUME NEW i \in 1..Len(d.locations) PROVE Within(m, d.locations[i])
      <4>1. Within(d, d.locations[i]) /\ d.locations[i] \in LocationRecs /\ d.locations[i].mapping \in Nat
        BY DictTables DEF SoundDicts, LocationRecs
      <4> QED
        BY <1>2, <2>3, <2>4, <4>1 DEF Within, M
    <3> QED
      BY <2>4, <2>6, <3>1 DEF SoundDicts
  <2>8. \E i \in 1..Len(N) : N[i].file = x.file
    <3>1. Len(M) + 1 \in 1..Len(N)
      BY <1>2, <2>3
    <3> QED
      BY <2>3, <3>1
  <2> QED
    BY <2>4, <2>5, <2>7, <2>8 DEF x, HasFile
<1> QED
  BY <1>4, <1>5

(* One entry interned: the table and the place of the entry.               *)
MoreBy(E, T, x, L) ==
    /\ L \in Seq(E) /\ Grown(T, L) /\ Place(T, x) \in 1..Len(L) /\ L[Place(T, x)] = x
    /\ \A i \in 1..Len(L) : (i \in 1..Len(T) /\ L[i] = T[i]) \/ L[i] = x

LEMMA OneMore ==
    ASSUME NEW E, NEW T \in Seq(E), NEW x \in E
    PROVE  MoreBy(E, T, x, Interned(T, x))
<1> DEFINE L == Interned(T, x)
<1>1. L \in Seq(E) /\ Grown(T, L) /\ Place(T, x) \in 1..Len(L) /\ L[Place(T, x)] = x
  BY InternedOne
<1>2. L = T \/ L = Append(T, x)
  BY DEF Interned
<1> HIDE DEF L
<1>3. Len(T) \in Nat /\ Len(Append(T, x)) = Len(T) + 1 /\ Append(T, x)[Len(T) + 1] = x
      /\ \A h \in 1..Len(T) : Append(T, x)[h] = T[h]
  OBVIOUS
<1>4. MoreBy(E, T, x, L)
  BY <1>1, <1>2, <1>3 DEF MoreBy
<1> QED
  BY <1>4 DEF L

LEMMA LocationInterned ==
    ASSUME NEW p \in SoundProfiles, NEW k \in 1..Len(p.locations),
           NEW d \in SoundDicts, NEW q, q = InternLocation(d, p, p.locations[k])
    PROVE  q \in SoundDicts /\ DictLonger(d, q) /\ Entered(q, p, p.locations[k])
<1> DEFINE l == p.locations[k]  m == InternMapping(d, p, l)
           keys == [i \in DOMAIN l.lines |-> p.functions[l.lines[i].function]]
           F == InternedAll(m.functions, keys)
           e == [m EXCEPT !.functions = F]
           x == EntryOf(e, p, l)
           L == Interned(e.locations, x)
<1>1. q = [e EXCEPT !.locations = L]
  BY DEF InternLocation, InternFunctions
<1>2. /\ l.lines \in Seq(LineRecs) /\ DOMAIN l.lines = 1..Len(l.lines) /\ Len(l.lines) \in Nat
      /\ \A j \in DOMAIN l.lines : p.functions[l.lines[j].function] \in FunctionKeys
  BY SourceLocation
<1>3. m \in SoundDicts /\ DictLonger(d, m) /\ HasFile(m, p, l)
  <2>1. l = p.locations[k] /\ m = InternMapping(d, p, l)
    OBVIOUS
  <2> HIDE DEF l, m
  <2> QED
    BY <2>1, MappingInterned
<1> HIDE DEF m
<1>4. keys \in Seq(FunctionKeys) /\ Len(keys) = Len(l.lines)
      /\ \A i \in DOMAIN l.lines : keys[i] = p.functions[l.lines[i].function]
  <2> HIDE DEF FunctionKeys, LineRecs, l
  <2> QED
    BY <1>2
<1>5. /\ m \in Dicts /\ m.functions \in Seq(FunctionKeys) /\ m.locations \in Seq(LocationRecs)
      /\ Len(m.functions) \in Nat /\ Len(m.locations) \in Nat /\ Distinct(m.functions)
  BY <1>3, DictTables DEF SoundDicts
<1> HIDE DEF keys
<1>6. /\ F \in Seq(FunctionKeys) /\ Grown(m.functions, F) /\ Distinct(F)
      /\ \A i \in 1..Len(keys) : Place(F, keys[i]) \in 1..Len(F) /\ F[Place(F, keys[i])] = keys[i]
  BY <1>4, <1>5, AllInterned
<1> HIDE DEF F
<1>7. /\ e \in Dicts /\ e.functions = F /\ e.mappings = m.mappings /\ e.locations = m.locations
      /\ e.stacks = m.stacks /\ e.attributes = m.attributes
  BY <1>5, <1>6 DEF Dicts
<1> HIDE DEF e
<1>8. e \in SoundDicts /\ DictLonger(m, e)
  <2>1. DictLonger(m, e)
    BY <1>3, <1>6, <1>7, DictTables DEF DictLonger, Grown, FilesGrown
  <2>2. ASSUME NEW i \in 1..Len(m.locations) PROVE Within(e, m.locations[i])
    <3>1. Within(m, m.locations[i]) /\ m.locations[i] \in LocationRecs
      BY <1>3, DictTables DEF SoundDicts
    <3>2. /\ m.mappings \in Seq(MappingRecs) /\ e.mappings \in Seq(MappingRecs)
          /\ m.functions \in Seq(FunctionKeys) /\ e.functions \in Seq(FunctionKeys)
          /\ FilesGrown(m.mappings, e.mappings) /\ Grown(m.functions, e.functions)
      BY <1>5, <1>6, <1>7, <2>1 DEF Dicts, DictLonger
    <3> QED
      BY <3>1, <3>2, ReadKept
  <2> QED
    BY <1>3, <1>6, <1>7, <2>1, <2>2 DEF SoundDicts
<1>9. Ready(e, p, l)
  <2>1. ASSUME NEW j \in DOMAIN l.lines
        PROVE  \E i \in 1..Len(F) : F[i] = p.functions[l.lines[j].function]
    BY <1>2, <1>4, <1>6
  <2> QED
    BY <1>3, <1>7, <2>1 DEF Ready, HasFile
<1>10. x \in LocationRecs /\ Within(e, x)
  BY <1>8, <1>9, EntryRead
<1> HIDE DEF x
<1>11. /\ L \in Seq(LocationRecs) /\ Grown(e.locations, L)
       /\ Place(e.locations, x) \in 1..Len(L) /\ L[Place(e.locations, x)] = x
       /\ \A i \in 1..Len(L) : (i \in 1..Len(e.locations) /\ L[i] = e.locations[i]) \/ L[i] = x
  <2>1. /\ L \in Seq(LocationRecs) /\ Grown(e.locations, L)
        /\ Place(e.locations, x) \in 1..Len(L) /\ L[Place(e.locations, x)] = x
        /\ \A i \in 1..Len(L) : (i \in 1..Len(e.locations) /\ L[i] = e.locations[i]) \/ L[i] = x
    <3> DEFINE T == e.locations
    <3>1. T \in Seq(LocationRecs) /\ L = Interned(T, x)
      BY <1>5, <1>7
    <3> HIDE DEF T, L
    <3>2. x \in LocationRecs
      BY <1>10
    <3>3. MoreBy(LocationRecs, T, x, L)
      BY <3>1, <3>2, OneMore
    <3> QED
      BY <3>3 DEF T, MoreBy
  <2> QED
    BY <2>1
<1> HIDE DEF L
<1>12. /\ q \in Dicts /\ q.locations = L /\ q.functions = e.functions /\ q.mappings = e.mappings
       /\ q.stacks = e.stacks /\ q.attributes = e.attributes
  BY <1>1, <1>7, <1>11 DEF Dicts
<1>13. DictLonger(e, q)
  BY <1>8, <1>11, <1>12, DictTables DEF DictLonger, Grown, FilesGrown
<1>14. q \in SoundDicts
  <2>1. ASSUME NEW i \in 1..Len(L) PROVE Within(q, L[i])
    <3>1. Within(e, L[i])
      BY <1>8, <1>10, <1>11 DEF SoundDicts
    <3> QED
      BY <1>12, <3>1 DEF Within
  <2>2. ASSUME NEW h \in 1..Len(e.stacks), NEW i \in DOMAIN e.stacks[h]
        PROVE  e.stacks[h][i] \in 1..Len(L)
    <3>1. e.stacks[h][i] \in 1..Len(e.locations)
      BY <1>8 DEF SoundDicts
    <3>2. Len(e.locations) <= Len(L) /\ Len(e.locations) \in Nat /\ Len(L) \in Nat
      <4>1. Len(L) \in Nat
        <5> HIDE DEF LocationRecs
        <5> QED
          BY <1>11
      <4> QED
        BY <1>5, <1>7, <1>11, <4>1 DEF Grown
    <3> QED
      BY <3>1, <3>2
  <2> QED
    BY <1>8, <1>12, <2>1, <2>2 DEF SoundDicts
<1>15. Entered(q, p, l)
  <2>1. Ready(q, p, l) /\ EntryOf(q, p, l) = EntryOf(e, p, l)
    BY <1>8, <1>9, <1>13, <1>14, EntryKept
  <2> QED
    BY <1>11, <1>12, <2>1 DEF Entered, x
<1>16. DictLonger(d, q)
  <2>1. DictLonger(d, e)
    BY <1>3, <1>8, DictLongerTo
  <2> QED
    BY <1>8, <1>13, <1>14, <2>1, DictLongerTo
<1> QED
  BY <1>14, <1>15, <1>16

(* The dictionaries that the fold goes through.                            *)
LEMMA LocationsInterning ==
    ASSUME NEW p0 \in SoundProfiles, NEW base \in SoundDicts, NEW ids \in Seq((1..Len(p0.locations)))
    PROVE  \E p \in [0..Len(ids) -> SoundDicts] :
              /\ p[0] = base /\ p[Len(ids)] = InternLocations(base, p0, ids)
              /\ \A k \in 1..Len(ids) : p[k] = InternLocation(p[k - 1], p0, p0.locations[ids[k]])
<1> DEFINE n == Len(ids)
    F(g) == [s \in SUBSET (DOMAIN ids) |-> IF s = {} THEN base ELSE InternLocation(g[s \ {Max(s)}], p0, p0.locations[ids[Max(s)]])]
    iter == CHOOSE g : g = F(g)
    step == [ce \in SoundDicts \X (1..Len(p0.locations)) |-> InternLocation(ce[1], p0, p0.locations[ce[2]])]
<1>1. n \in Nat /\ DOMAIN ids = 1..n /\ ids \in [1..n -> (1..Len(p0.locations))]
  OBVIOUS
<1>2. InternLocations(base, p0, ids) = iter[DOMAIN ids]
  BY DEF InternLocations, FoldLeft, MapThenFoldSet
<1>3. step \in [SoundDicts \X (1..Len(p0.locations)) -> SoundDicts]
  <2>1. \A ce \in SoundDicts \X (1..Len(p0.locations)) : InternLocation(ce[1], p0, p0.locations[ce[2]]) \in SoundDicts
    BY LocationInterned
  <2> QED
    BY <2>1
<1>4. PICK f \in [SUBSET (1..n) -> SoundDicts] :
         f = [s \in SUBSET (1..n) |-> IF s = {} THEN base ELSE step[<<f[s \ {Max(s)}], ids[Max(s)]>>]]
  <2> DEFINE A == SoundDicts  B == (1..Len(p0.locations))
  <2>1. base \in A /\ n \in Nat /\ ids \in [1..n -> B] /\ step \in [A \X B -> A]
    BY <1>1, <1>3
  <2> HIDE DEF step, n, A, B
  <2>2. \E f \in [SUBSET (1..n) -> A] : Iterates(f, step, base, n, ids)
    BY <2>1, IndexRecursion
  <2> QED
    BY <2>2 DEF A, Iterates
<1>5. f = F(f)
  <2>1. ASSUME NEW s \in SUBSET (1..n), s # {}
        PROVE  step[<<f[s \ {Max(s)}], ids[Max(s)]>>] = InternLocation(f[s \ {Max(s)}], p0, p0.locations[ids[Max(s)]])
    <3>1. Max(s) \in s
      BY <1>1, <2>1, MaxIs
    <3>2. s \ {Max(s)} \in SUBSET (1..n) /\ Max(s) \in 1..n
      BY <3>1
    <3>3. f[s \ {Max(s)}] \in SoundDicts /\ ids[Max(s)] \in (1..Len(p0.locations))
      BY <1>1, <3>2
    <3>4. <<f[s \ {Max(s)}], ids[Max(s)]>> \in SoundDicts \X (1..Len(p0.locations))
      BY <3>3
    <3> QED
      BY <3>4
  <2>2. \A s \in SUBSET (1..n) : f[s] = IF s = {} THEN base ELSE InternLocation(f[s \ {Max(s)}], p0, p0.locations[ids[Max(s)]])
    <3> HIDE DEF step
    <3> QED
      BY <1>4, <2>1
  <2>3. f = [s \in SUBSET (1..n) |-> f[s]]
    OBVIOUS
  <2>4. f = [s \in SUBSET (1..n) |-> IF s = {} THEN base ELSE InternLocation(f[s \ {Max(s)}], p0, p0.locations[ids[Max(s)]])]
    BY <2>2, <2>3
  <2> QED
    BY <1>1, <2>4
<1> HIDE DEF F
<1>6. iter = F(iter)
  BY <1>5
<1> HIDE DEF iter
<1>7. iter = [s \in SUBSET (1..n) |-> IF s = {} THEN base ELSE InternLocation(iter[s \ {Max(s)}], p0, p0.locations[ids[Max(s)]])]
  BY <1>1, <1>6 DEF F
<1> DEFINE p == [k \in 0..n |-> iter[1..k]]
<1>8. /\ p[0] = base /\ \A k \in 1..n : p[k] = InternLocation(p[k - 1], p0, p0.locations[ids[k]])
      /\ p[n] = iter[1..n]
  <2>1. 1..0 = {} /\ 1..0 \in SUBSET (1..n) /\ 0 \in 0..n /\ n \in 0..n
    OBVIOUS
  <2>2. p[0] = base
    BY <1>7, <2>1
  <2>3. ASSUME NEW k \in 1..n
        PROVE  p[k] = InternLocation(p[k - 1], p0, p0.locations[ids[k]])
    <3>1. k \in Nat /\ k >= 1 /\ k \in 0..n /\ k - 1 \in 0..n
      OBVIOUS
    <3>2. 1..k \in SUBSET (1..n) /\ 1..k # {} /\ (1..k) \ {k} = 1..(k - 1) /\ Max(1..k) = k
      <4> HIDE DEF n
      <4> QED
        BY <1>1, Initials
    <3>3. iter[1..k] = InternLocation(iter[(1..k) \ {k}], p0, p0.locations[ids[k]])
      BY <1>7, <3>2
    <3> QED
      BY <3>1, <3>2, <3>3
  <2>4. p[n] = iter[1..n]
    BY <2>1
  <2> QED
    BY <2>2, <2>3, <2>4
<1>9. p \in [0..n -> SoundDicts]
  <2> DEFINE T == {k \in 0..n : p[k] \in SoundDicts}
  <2>1. 0 \in T
    BY <1>8
  <2>2. ASSUME NEW k \in 0..n, k \in T, k < n
        PROVE  k + 1 \in T
    <3>1. k + 1 \in 1..n /\ (k + 1) - 1 = k /\ ids[k + 1] \in (1..Len(p0.locations))
      BY <1>1, <2>2
    <3>2. p[k + 1] = InternLocation(p[k], p0, p0.locations[ids[k + 1]]) /\ p[k] \in SoundDicts
      BY <1>8, <2>2, <3>1
    <3> HIDE DEF p
    <3> DEFINE a == p[k]  x == ids[k + 1]
    <3>3. a \in SoundDicts /\ x \in (1..Len(p0.locations)) /\ p[k + 1] = InternLocation(a, p0, p0.locations[x])
      BY <3>1, <3>2
    <3> HIDE DEF a, x
    <3>4. p[k + 1] \in SoundDicts
      BY <3>3, LocationInterned
    <3> QED
      BY <2>2, <3>4
  <2>3. \A k \in 0..n : k \in T
    <3> HIDE DEF T
    <3> QED
      BY <1>1, <2>1, <2>2, BoundedInduction
  <2>4. p = [k \in 0..n |-> p[k]]
    OBVIOUS
  <2> HIDE DEF p
  <2> QED
    BY <2>3, <2>4
<1> HIDE DEF p
<1> QED
  BY <1>1, <1>2, <1>8, <1>9

(* The locations of a stack all have an entry afterwards ...               *)
LEMMA LocationsEntered ==
    ASSUME NEW p0 \in SoundProfiles, NEW base \in SoundDicts, NEW ids \in Seq((1..Len(p0.locations))),
           NEW q, q = InternLocations(base, p0, ids)
    PROVE  /\ q \in SoundDicts /\ DictLonger(base, q)
           /\ \A i \in 1..Len(ids) : Entered(q, p0, p0.locations[ids[i]])
<1>0. PICK p \in [0..Len(ids) -> SoundDicts] :
         /\ p[0] = base /\ p[Len(ids)] = InternLocations(base, p0, ids)
         /\ \A k \in 1..Len(ids) : p[k] = InternLocation(p[k - 1], p0, p0.locations[ids[k]])
  BY LocationsInterning
<1> DEFINE n == Len(ids)
<1>1. n \in Nat /\ (\A k \in 1..n : ids[k] \in 1..Len(p0.locations))
  OBVIOUS
<1>2. /\ p \in [0..n -> SoundDicts] /\ p[0] = base /\ p[n] = q
      /\ \A k \in 1..n : p[k] = InternLocation(p[k - 1], p0, p0.locations[ids[k]])
  BY <1>0
<1> HIDE DEF n
<1> DEFINE Good(k) == DictLonger(base, p[k]) /\ \A i \in 1..k : Entered(p[k], p0, p0.locations[ids[i]])
    G == {k \in 0..n : Good(k)}
<1>3. 0 \in G
  BY <1>1, <1>2, DictTables
<1>4. ASSUME NEW k \in 0..n, k \in G, k < n
      PROVE  k + 1 \in G
  <2>1. k + 1 \in 1..n /\ (k + 1) - 1 = k /\ k + 1 \in 0..n /\ p[k] \in SoundDicts /\ ids[k + 1] \in 1..Len(p0.locations)
    BY <1>1, <1>2, <1>4
  <2> DEFINE a == p[k]  b == p[k + 1]  x == ids[k + 1]
  <2>2. a \in SoundDicts /\ x \in 1..Len(p0.locations) /\ b = InternLocation(a, p0, p0.locations[x])
    BY <1>2, <2>1
  <2>3. b \in SoundDicts /\ DictLonger(a, b) /\ Entered(b, p0, p0.locations[x])
    <3> HIDE DEF a, b, x
    <3> QED
      BY <2>2, LocationInterned
  <2>4. DictLonger(base, b)
    <3>1. DictLonger(base, a)
      BY <1>4
    <3> HIDE DEF a, b
    <3> QED
      BY <2>2, <2>3, <3>1, DictLongerTo
  <2>5. ASSUME NEW i \in 1..(k + 1) PROVE Entered(b, p0, p0.locations[ids[i]])
    <3>1. CASE i = k + 1
      BY <2>3, <3>1
    <3>2. CASE i # k + 1
      <4>1. i \in 1..k
        BY <3>2
      <4> DEFINE y == ids[i]
      <4>2. Entered(a, p0, p0.locations[y]) /\ y \in 1..Len(p0.locations)
        BY <1>1, <1>4, <4>1
      <4> HIDE DEF a, b, y
      <4>3. Entered(b, p0, p0.locations[y])
        BY <2>2, <2>3, <4>2, EnteredKept
      <4> QED
        BY <4>3 DEF y
    <3> QED
      BY <3>1, <3>2
  <2> QED
    BY <2>1, <2>4, <2>5
<1> HIDE DEF G
<1>5. \A k \in 0..n : k \in G
  BY <1>1, <1>3, <1>4, BoundedInduction
<1>6. Good(n) /\ q \in SoundDicts
  <2>1. n \in 0..n
    BY <1>1
  <2>2. n \in G
    BY <1>5, <2>1
  <2>3. q \in SoundDicts
    BY <1>2, <2>1
  <2> QED
    BY <2>2, <2>3 DEF G
<1> QED
  BY <1>2, <1>6 DEF n

(* ... which says what the symbolizer said of the address.                 *)
LEMMA EntryPlaced ==
    ASSUME NEW p \in SoundProfiles, NEW k \in 1..Len(p.locations), NEW l, l = p.locations[k],
           NEW d \in SoundDicts, Entered(d, p, l),
           NEW h, h = Place(d.locations, EntryOf(d, p, l))
    PROVE  h \in 1..Len(d.locations) /\ h \in Nat /\ Read(d, d.locations[h]) = Truth(p.raw, l.address)
<1> DEFINE x == EntryOf(d, p, l)  L == d.locations
<1>1. L \in Seq(LocationRecs)
  BY DictTables
<1>2. \E i \in 1..Len(L) : L[i] = x
  BY DEF Entered
<1>3. Read(d, x) = Read(p, l)
  BY EntryRead DEF Entered
<1>4. Read(p, l) = Truth(p.raw, l.address)
  BY DEF SoundProfiles, Stands
<1> HIDE DEF x, L
<1>5. h = Place(L, x)
  BY DEF x, L
<1>6. DOMAIN L = 1..Len(L)
  <2> HIDE DEF LocationRecs
  <2> QED
    BY <1>1
<1>7. h \in DOMAIN L /\ L[h] = x
  BY <1>2, <1>5, <1>6 DEF Place, ToSet
<1> QED
  BY <1>3, <1>4, <1>6, <1>7 DEF L

(* What the entry of a stack says; tables that grow say the same.          *)
DecodedIn(d, id) == [i \in DOMAIN d.stacks[id] |-> Read(d, d.locations[d.stacks[id][i]])]
LabelsIn(d, attributes) == [i \in DOMAIN attributes |-> d.attributes[attributes[i]]]
TruthOf(raw, stack) == [i \in DOMAIN stack |-> Truth(raw, stack[i])]
DictWider(d, e) ==
    /\ Grown(d.stacks, e.stacks) /\ Grown(d.attributes, e.attributes)
    /\ Grown(d.locations, e.locations) /\ Grown(d.functions, e.functions) /\ FilesGrown(d.mappings, e.mappings)

LEMMA DecodedKept ==
    ASSUME NEW d \in SoundDicts, NEW e \in SoundDicts, DictWider(d, e), NEW k \in 1..Len(d.stacks)
    PROVE  k \in 1..Len(e.stacks) /\ DecodedIn(e, k) = DecodedIn(d, k)
<1>1. /\ d.locations \in Seq(LocationRecs) /\ d.mappings \in Seq(MappingRecs) /\ d.functions \in Seq(FunctionKeys)
      /\ e.locations \in Seq(LocationRecs) /\ e.mappings \in Seq(MappingRecs) /\ e.functions \in Seq(FunctionKeys)
      /\ Len(d.stacks) \in Nat /\ Len(e.stacks) \in Nat /\ Len(d.locations) \in Nat /\ Len(e.locations) \in Nat
      /\ \A i \in 1..Len(d.locations) : d.locations[i] \in LocationRecs
  BY DictTables
<1>2. k \in 1..Len(e.stacks) /\ e.stacks[k] = d.stacks[k]
  BY <1>1 DEF DictWider, Grown
<1>3. ASSUME NEW i \in DOMAIN d.stacks[k]
      PROVE  Read(e, e.locations[d.stacks[k][i]]) = Read(d, d.locations[d.stacks[k][i]])
  <2> DEFINE h == d.stacks[k][i]
  <2>1. h \in 1..Len(d.locations)
    BY DEF SoundDicts
  <2> HIDE DEF h
  <2>2. /\ e.locations[h] = d.locations[h] /\ Within(d, d.locations[h]) /\ d.locations[h] \in LocationRecs
    BY <1>1, <2>1 DEF DictWider, Grown, SoundDicts
  <2>3. Read(e, d.locations[h]) = Read(d, d.locations[h])
    BY <1>1, <2>2, ReadKept DEF DictWider
  <2> QED
    BY <2>2, <2>3 DEF h
<1> QED
  BY <1>2, <1>3 DEF DecodedIn

LEMMA LabelsKept ==
    ASSUME NEW d \in SoundDicts, NEW e \in SoundDicts, DictWider(d, e),
           NEW attributes, \A i \in DOMAIN attributes : attributes[i] \in 1..Len(d.attributes)
    PROVE  /\ LabelsIn(e, attributes) = LabelsIn(d, attributes)
           /\ \A i \in DOMAIN attributes : attributes[i] \in 1..Len(e.attributes)
<1>1. Len(d.attributes) \in Nat /\ Len(e.attributes) \in Nat
  BY DictTables
<1>2. \A i \in DOMAIN attributes :
         attributes[i] \in 1..Len(e.attributes) /\ e.attributes[attributes[i]] = d.attributes[attributes[i]]
  BY <1>1 DEF DictWider, Grown
<1> QED
  BY <1>2 DEF LabelsIn

(* InternStack: the stack of a sample has an entry that says its addresses *)
(* as the symbolizer resolved them for its source.                         *)
WithStack(d, stack) == [d EXCEPT !.stacks = Interned(@, stack)]
EntriesOf(d, p, ids) == [i \in DOMAIN ids |-> Place(d.locations, EntryOf(d, p, p.locations[ids[i]]))]

LEMMA StackInterned ==
    ASSUME NEW p \in SoundProfiles, NEW base \in SoundDicts, NEW sample \in SampleRecs, NEW x \in Givens,
           TellsOne(p, sample, x),
           NEW d, d = InternLocations(base, p, sample.locations),
           NEW stack, stack = EntriesOf(d, p, sample.locations),
           NEW e, e = WithStack(d, stack),
           NEW id, id = Place(d.stacks, stack)
    PROVE  /\ e \in SoundDicts /\ DictWider(base, e)
           /\ id \in 1..Len(e.stacks) /\ id \in Nat
           /\ DecodedIn(e, id) = TruthOf(p.raw, x.stack)
<1> DEFINE ids == sample.locations  n == Len(ids)
<1>1. ids \in Seq(Nat) /\ DOMAIN ids = 1..n /\ n \in Nat
  BY DEF SampleRecs
<1>2. DOMAIN ids = DOMAIN x.stack /\ \A i \in 1..n : ids[i] \in 1..Len(p.locations)
                                           /\ p.locations[ids[i]].address = x.stack[i]
  BY <1>1 DEF TellsOne
<1>3. ids \in Seq((1..Len(p.locations)))
  BY <1>1, <1>2
<1>4. /\ d \in SoundDicts /\ DictLonger(base, d)
      /\ \A i \in 1..n : Entered(d, p, p.locations[ids[i]])
  BY <1>3, LocationsEntered
<1>5. stack = EntriesOf(d, p, ids)
  OBVIOUS
<1> HIDE DEF ids, n
<1>6. ASSUME NEW i \in 1..n
      PROVE  /\ stack[i] \in 1..Len(d.locations) /\ stack[i] \in Nat
             /\ Read(d, d.locations[stack[i]]) = Truth(p.raw, x.stack[i])
  <2> DEFINE k == ids[i]  l == p.locations[k]
  <2>1. k \in 1..Len(p.locations) /\ l = p.locations[k] /\ Entered(d, p, l) /\ l.address = x.stack[i]
    BY <1>2, <1>4
  <2>2. stack[i] = Place(d.locations, EntryOf(d, p, l))
    BY <1>1, <1>5 DEF EntriesOf
  <2> HIDE DEF k, l
  <2> QED
    BY <1>4, <2>1, <2>2, EntryPlaced
<1>7. DOMAIN stack = 1..n /\ stack \in Seq(Nat)
  <2>1. stack = [i \in 1..n |-> stack[i]]
    BY <1>1, <1>5 DEF EntriesOf
  <2>2. \A i \in 1..n : stack[i] \in Nat
    BY <1>6
  <2>3. stack \in [1..n -> Nat]
    BY <2>1, <2>2
  <2> QED
    BY <1>1, <2>3
<1> DEFINE S == d.stacks  T == Interned(S, stack)
<1>8. S \in Seq(Seq(Nat)) /\ d \in Dicts
  BY <1>4, DictTables
<1>9. MoreBy(Seq(Nat), S, stack, T)
  <2> DEFINE E == Seq(Nat)
  <2>1. S \in Seq(E) /\ stack \in E
    BY <1>7, <1>8
  <2> HIDE DEF E, S, T
  <2>2. MoreBy(E, S, stack, Interned(S, stack))
    BY <2>1, OneMore
  <2> QED
    BY <2>2 DEF E, T
<1>10. e = [d EXCEPT !.stacks = T] /\ id = Place(S, stack)
  BY DEF WithStack
<1> HIDE DEF T
<1>11. T \in Seq(Seq(Nat))
  BY <1>9 DEF MoreBy
<1>12. /\ e \in Dicts /\ e.stacks = T /\ e.locations = d.locations /\ e.functions = d.functions
       /\ e.mappings = d.mappings /\ e.attributes = d.attributes
  BY <1>8, <1>10, <1>11 DEF Dicts
<1>13. \A l : Within(d, l) => Within(e, l) /\ Read(e, l) = Read(d, l)
  BY <1>12 DEF Within, Read
<1>14. /\ \A h \in 1..Len(S) : \A i \in DOMAIN S[h] : S[h][i] \in 1..Len(d.locations)
       /\ \A i \in 1..Len(d.locations) : Within(d, d.locations[i])
       /\ Distinct(d.functions) /\ Distinct(FilesOf(d.mappings))
  BY <1>4 DEF SoundDicts
<1> HIDE DEF S
<1>15. /\ \A h \in 1..Len(T) : (h \in 1..Len(S) /\ T[h] = S[h]) \/ T[h] = stack
       /\ Grown(S, T) /\ id \in 1..Len(T) /\ T[id] = stack
  BY <1>9, <1>10 DEF MoreBy
<1>16. \A h \in 1..Len(T) : \A i \in DOMAIN T[h] : T[h][i] \in 1..Len(d.locations)
  BY <1>6, <1>7, <1>14, <1>15
<1>17. e \in SoundDicts
  BY <1>12, <1>13, <1>14, <1>16 DEF SoundDicts
<1>18. DictWider(base, e)
  <2>1. base.stacks = S /\ base.attributes = d.attributes /\ Grown(base.locations, d.locations)
        /\ Grown(base.functions, d.functions) /\ FilesGrown(base.mappings, d.mappings)
    BY <1>4 DEF DictLonger, S
  <2>2. Grown(base.attributes, base.attributes)
    BY DictTables DEF Grown
  <2> QED
    BY <1>12, <1>15, <2>1, <2>2 DEF DictWider
<1>19. DecodedIn(e, id) = TruthOf(p.raw, x.stack)
  <2>1. \A i \in 1..n : Read(e, e.locations[stack[i]]) = Truth(p.raw, x.stack[i])
    BY <1>6, <1>12, <1>13, <1>14
  <2>2. DecodedIn(e, id) = [i \in 1..n |-> Read(e, e.locations[stack[i]])]
    BY <1>7, <1>12, <1>15 DEF DecodedIn
  <2>3. TruthOf(p.raw, x.stack) = [i \in 1..n |-> Truth(p.raw, x.stack[i])]
    BY <1>1, <1>2 DEF TruthOf
  <2>4. [i \in 1..n |-> Read(e, e.locations[stack[i]])] = [i \in 1..n |-> Truth(p.raw, x.stack[i])]
    BY <2>1, Zenon
  <2> QED
    BY <2>2, <2>3, <2>4
<1>20. id \in Nat
  <2>1. Len(T) \in Nat
    BY <1>17, <1>12, DictTables
  <2> QED
    BY <1>15, <2>1
<1> QED
  BY <1>12, <1>15, <1>17, <1>18, <1>19, <1>20

(* The labels of a sample.                                                 *)
WithAttributes(d, table) == [d EXCEPT !.attributes = table]
AttributesOf(table, labels) == [i \in DOMAIN labels |-> Place(table, labels[i])]

Indexed(d, attributes) == \A i \in DOMAIN attributes : attributes[i] \in 1..Len(d.attributes)

LEMMA LabelsInterned ==
    ASSUME NEW d \in SoundDicts, NEW labels \in InputLabels,
           NEW table, table = InternedAll(d.attributes, labels),
           NEW attributes, attributes = AttributesOf(table, labels),
           NEW e, e = WithAttributes(d, table)
    PROVE  /\ e \in SoundDicts /\ DictWider(d, e)
           /\ attributes \in Seq(Nat) /\ Indexed(e, attributes)
           /\ LabelsIn(e, attributes) = labels
<1>1. labels \in Seq(AnyLabel)
  <2>1. labels \in Seq({labels[i] : i \in DOMAIN labels})
    BY EncodersAssumption DEF EncodersAssumption
  <2>2. {labels[i] : i \in DOMAIN labels} \subseteq AnyLabel
    BY DEF AnyLabel
  <2> QED
    BY <2>1, <2>2
<1>2. d \in Dicts /\ d.attributes \in Seq(AnyLabel)
  BY DictTables
<1> DEFINE A == d.attributes  n == Len(labels)
<1>3. /\ table \in Seq(AnyLabel) /\ Grown(A, table)
      /\ \A i \in 1..n : Place(table, labels[i]) \in 1..Len(table) /\ table[Place(table, labels[i])] = labels[i]
  BY <1>1, <1>2, AllInterned
<1>4. DOMAIN labels = 1..n /\ n \in Nat /\ Len(table) \in Nat /\ labels = [i \in 1..n |-> labels[i]]
  BY <1>1, <1>3
<1>5. DOMAIN attributes = 1..n /\ attributes = [i \in 1..n |-> attributes[i]]
      /\ \A i \in 1..n : attributes[i] \in 1..Len(table) /\ table[attributes[i]] = labels[i]
  BY <1>3, <1>4 DEF AttributesOf
<1>6. attributes \in Seq(Nat)
  BY <1>4, <1>5
<1>7. /\ e \in Dicts /\ e.attributes = table /\ e.stacks = d.stacks /\ e.locations = d.locations
      /\ e.functions = d.functions /\ e.mappings = d.mappings
  BY <1>2, <1>3 DEF Dicts, WithAttributes
<1>8. e \in SoundDicts
  BY <1>7 DEF SoundDicts, Within
<1>9. DictWider(d, e)
  BY <1>3, <1>7, DictTables DEF DictWider, Grown, FilesGrown
<1>10. LabelsIn(e, attributes) = labels
  BY <1>4, <1>5, <1>7 DEF LabelsIn
<1> QED
  BY <1>5, <1>6, <1>7, <1>8, <1>9, <1>10 DEF Indexed

(* What the entries of a sample type say.                                  *)
EntryRecs == [stack : Nat, attributes : Seq(Nat), values : Seq(Nat), times : Seq(Nat)]
EntryFits(d, e, timed) ==
    /\ e.stack \in 1..Len(d.stacks)
    /\ \A i \in DOMAIN e.attributes : e.attributes[i] \in 1..Len(d.attributes)
    /\ timed => Len(e.times) = Len(e.values)
AllFit(d, entries, timed) == \A i \in 1..Len(entries) : EntryFits(d, entries[i], timed)
Saying(d, stack, attributes, value, time) ==
    [stack |-> DecodedIn(d, stack), labels |-> LabelsIn(d, attributes), value |-> value, time |-> time]
SaidBy(d, e, timed, y) ==
    \E k \in 1..Len(e.values) : y = Saying(d, e.stack, e.attributes, e.values[k], IF timed THEN e.times[k] ELSE 0)
Says(d, entries, timed, y) == \E i \in 1..Len(entries) : SaidBy(d, entries[i], timed, y)

LEMMA EntriesAre ==
    ASSUME NEW entries \in Seq(EntryRecs), NEW i \in 1..Len(entries)
    PROVE  /\ Len(entries) \in Nat /\ entries[i] \in EntryRecs
           /\ entries[i].values \in Seq(Nat) /\ entries[i].times \in Seq(Nat)
           /\ entries[i].stack \in Nat /\ entries[i].attributes \in Seq(Nat)
           /\ Len(entries[i].values) \in Nat /\ Len(entries[i].times) \in Nat
<1>1. Len(entries) \in Nat /\ entries[i] \in EntryRecs
  OBVIOUS
<1>2. /\ entries[i].values \in Seq(Nat) /\ entries[i].times \in Seq(Nat)
      /\ entries[i].stack \in Nat /\ entries[i].attributes \in Seq(Nat)
  BY <1>1 DEF EntryRecs
<1> QED
  BY <1>1, <1>2

LEMMA SaysKept ==
    ASSUME NEW d \in SoundDicts, NEW e \in SoundDicts, DictWider(d, e),
           NEW entries \in Seq(EntryRecs), NEW timed \in BOOLEAN, AllFit(d, entries, timed)
    PROVE  /\ AllFit(e, entries, timed)
           /\ \A y : Says(e, entries, timed, y) <=> Says(d, entries, timed, y)
<1>1. ASSUME NEW i \in 1..Len(entries)
      PROVE  /\ EntryFits(e, entries[i], timed)
             /\ DecodedIn(e, entries[i].stack) = DecodedIn(d, entries[i].stack)
             /\ LabelsIn(e, entries[i].attributes) = LabelsIn(d, entries[i].attributes)
  <2> DEFINE id == entries[i].stack  attributes == entries[i].attributes
  <2>1. /\ id \in 1..Len(d.stacks) /\ \A h \in DOMAIN attributes : attributes[h] \in 1..Len(d.attributes)
    BY DEF AllFit, EntryFits
  <2>2. timed => Len(entries[i].times) = Len(entries[i].values)
    BY DEF AllFit, EntryFits
  <2> HIDE DEF id, attributes
  <2>3. id \in 1..Len(e.stacks) /\ DecodedIn(e, id) = DecodedIn(d, id)
    BY <2>1, DecodedKept
  <2>4. LabelsIn(e, attributes) = LabelsIn(d, attributes) /\ \A h \in DOMAIN attributes : attributes[h] \in 1..Len(e.attributes)
    BY <2>1, LabelsKept
  <2> QED
    BY <2>2, <2>3, <2>4 DEF EntryFits, id, attributes
<1>2. ASSUME NEW y, NEW i \in 1..Len(entries)
      PROVE  SaidBy(e, entries[i], timed, y) <=> SaidBy(d, entries[i], timed, y)
  BY <1>1 DEF SaidBy, Saying
<1> QED
  BY <1>1, <1>2 DEF AllFit, Says

(* A new entry, and an entry that a sample of the timeline joins.          *)
LEMMA EntryAppended ==
    ASSUME NEW d, NEW entries \in Seq(EntryRecs), NEW timed \in BOOLEAN, AllFit(d, entries, timed),
           NEW x \in EntryRecs, EntryFits(d, x, timed), NEW new, new = Append(entries, x)
    PROVE  /\ new \in Seq(EntryRecs) /\ AllFit(d, new, timed)
           /\ \A y : Says(d, new, timed, y) <=> (Says(d, entries, timed, y) \/ SaidBy(d, x, timed, y))
<1>1. /\ new \in Seq(EntryRecs) /\ Len(entries) \in Nat /\ Len(new) = Len(entries) + 1 /\ new[Len(entries) + 1] = x
      /\ \A i \in 1..Len(entries) : new[i] = entries[i]
  OBVIOUS
<1>2. \A i \in 1..Len(new) : i \in 1..Len(entries) \/ i = Len(entries) + 1
  BY <1>1
<1>3. AllFit(d, new, timed)
  BY <1>1, <1>2 DEF AllFit
<1>4. ASSUME NEW y PROVE Says(d, new, timed, y) <=> (Says(d, entries, timed, y) \/ SaidBy(d, x, timed, y))
  <2>1. ASSUME Says(d, new, timed, y) PROVE Says(d, entries, timed, y) \/ SaidBy(d, x, timed, y)
    <3>1. PICK i \in 1..Len(new) : SaidBy(d, new[i], timed, y)
      BY <2>1 DEF Says
    <3> QED
      BY <1>1, <1>2, <3>1 DEF Says
  <2>2. ASSUME Says(d, entries, timed, y) PROVE Says(d, new, timed, y)
    <3>1. PICK i \in 1..Len(entries) : SaidBy(d, entries[i], timed, y)
      BY <2>2 DEF Says
    <3>2. i \in 1..Len(new) /\ SaidBy(d, new[i], timed, y)
      BY <1>1, <3>1
    <3> QED
      BY <3>2 DEF Says
  <2>3. ASSUME SaidBy(d, x, timed, y) PROVE Says(d, new, timed, y)
    <3>1. Len(entries) + 1 \in 1..Len(new) /\ SaidBy(d, new[Len(entries) + 1], timed, y)
      BY <1>1, <2>3
    <3> QED
      BY <3>1 DEF Says
  <2> QED
    BY <2>1, <2>2, <2>3
<1> QED
  BY <1>1, <1>3, <1>4

SaysMore(d, new, entries, timed, more) ==
    \A y : Says(d, new, timed, y) <=> (Says(d, entries, timed, y) \/ y = more)

LEMMA EntryJoined ==
    ASSUME NEW d, NEW entries \in Seq(EntryRecs), AllFit(d, entries, TRUE),
           NEW i \in 1..Len(entries), NEW v \in Nat, NEW w \in Nat,
           NEW new, new = [entries EXCEPT ![i] = Joined(@, v, w)]
    PROVE  /\ new \in Seq(EntryRecs) /\ AllFit(d, new, TRUE)
           /\ SaysMore(d, new, entries, TRUE, Saying(d, entries[i].stack, entries[i].attributes, v, w))
<1> DEFINE x == entries[i]  V == x.values  W == x.times  VV == Append(V, v)  WW == Append(W, w)
           z == Joined(x, v, w)
<1>1. /\ Len(entries) \in Nat /\ x \in EntryRecs /\ V \in Seq(Nat) /\ W \in Seq(Nat)
      /\ Len(V) \in Nat /\ Len(W) \in Nat
  BY EntriesAre
<1>2. EntryFits(d, x, TRUE) /\ Len(W) = Len(V)
  BY DEF AllFit, EntryFits
<1>3. /\ VV \in Seq(Nat) /\ WW \in Seq(Nat) /\ Len(VV) = Len(V) + 1 /\ Len(WW) = Len(V) + 1
      /\ VV[Len(V) + 1] = v /\ WW[Len(V) + 1] = w
      /\ \A k \in 1..Len(V) : VV[k] = V[k] /\ WW[k] = W[k]
  <2> HIDE DEF V, W
  <2> QED
    BY <1>1, <1>2
<1> HIDE DEF VV, WW
<1>4. /\ z \in EntryRecs /\ z.values = VV /\ z.times = WW /\ z.stack = x.stack /\ z.attributes = x.attributes
  <2>1. z = [x EXCEPT !.values = VV, !.times = WW]
    BY DEF Joined, VV, WW
  <2> QED
    BY <1>1, <1>3, <2>1 DEF EntryRecs
<1>5. new = [entries EXCEPT ![i] = z]
  OBVIOUS
<1> HIDE DEF z, x, V, W
<1>6. /\ new \in Seq(EntryRecs) /\ Len(new) = Len(entries) /\ new[i] = z
      /\ \A h \in 1..Len(entries) : h # i => new[h] = entries[h]
  <2> DEFINE n == Len(entries)
  <2>1. entries \in [1..n -> EntryRecs] /\ n \in Nat /\ i \in 1..n
    OBVIOUS
  <2> HIDE DEF n
  <2>2. new \in [1..n -> EntryRecs] /\ new[i] = z /\ \A h \in 1..n : h # i => new[h] = entries[h]
    BY <1>4, <1>5, <2>1
  <2>3. new \in Seq(EntryRecs) /\ Len(new) = n
    BY <2>1, <2>2
  <2> QED
    BY <2>2, <2>3 DEF n
<1>7. EntryFits(d, z, TRUE)
  BY <1>2, <1>3, <1>4 DEF EntryFits
<1>8. AllFit(d, new, TRUE)
  BY <1>6, <1>7 DEF AllFit
<1> DEFINE more == Saying(d, x.stack, x.attributes, v, w)
<1>9. ASSUME NEW y PROVE SaidBy(d, z, TRUE, y) <=> (SaidBy(d, x, TRUE, y) \/ y = more)
  <2> DEFINE At(k) == Saying(d, x.stack, x.attributes, VV[k], WW[k])
  <2>1. SaidBy(d, z, TRUE, y) <=> \E k \in 1..Len(VV) : y = At(k)
    BY <1>4 DEF SaidBy
  <2>2. SaidBy(d, x, TRUE, y) <=> \E k \in 1..Len(V) : y = At(k)
    BY <1>3 DEF SaidBy, V, W
  <2>3. At(Len(V) + 1) = more
    BY <1>3
  <2> HIDE DEF At, more
  <2>4. Len(VV) = Len(V) + 1 /\ Len(V) \in Nat
    BY <1>1, <1>3
  <2>5. (\E k \in 1..Len(VV) : y = At(k)) <=> ((\E k \in 1..Len(V) : y = At(k)) \/ y = At(Len(V) + 1))
    <3>1. \A k : k \in 1..Len(VV) <=> (k \in 1..Len(V) \/ k = Len(V) + 1)
      BY <2>4
    <3> QED
      BY <3>1, Zenon
  <2> QED
    BY <2>1, <2>2, <2>3, <2>5
<1>10. ASSUME NEW y PROVE Says(d, new, TRUE, y) <=> (Says(d, entries, TRUE, y) \/ y = more)
  <2>1. Says(d, new, TRUE, y) <=> \E h \in 1..Len(entries) : SaidBy(d, new[h], TRUE, y)
    BY <1>6 DEF Says
  <2>2. Says(d, entries, TRUE, y) <=> \E h \in 1..Len(entries) : SaidBy(d, entries[h], TRUE, y)
    BY DEF Says
  <2>3. SaidBy(d, new[i], TRUE, y) <=> (SaidBy(d, entries[i], TRUE, y) \/ y = more)
    BY <1>6, <1>9 DEF x
  <2>4. \A h \in 1..Len(entries) : h # i => (SaidBy(d, new[h], TRUE, y) <=> SaidBy(d, entries[h], TRUE, y))
    BY <1>6
  <2> HIDE DEF more
  <2> QED
    BY <2>1, <2>2, <2>3, <2>4
<1> QED
  BY <1>6, <1>8, <1>10 DEF x, SaysMore

(* convert_profile: one sample more is said, once.                         *)
Mates(entries, timed, stack, attributes) ==
    {i \in DOMAIN entries : timed /\ entries[i].stack = stack /\ entries[i].attributes = attributes}
Conversion(entries, timed, stack, attributes, v, w) ==
    IF Mates(entries, timed, stack, attributes) # {}
    THEN [entries EXCEPT ![CHOOSE i \in Mates(entries, timed, stack, attributes) : TRUE] = Joined(@, v, w)]
    ELSE Append(entries, [stack |-> stack, attributes |-> attributes, values |-> <<v>>,
                          times |-> IF timed THEN <<w>> ELSE <<>>])

LEMMA SampleConverted ==
    ASSUME NEW d, NEW entries \in Seq(EntryRecs), NEW timed \in BOOLEAN, AllFit(d, entries, timed),
           NEW stack \in Nat, stack \in 1..Len(d.stacks),
           NEW attributes \in Seq(Nat), \A i \in DOMAIN attributes : attributes[i] \in 1..Len(d.attributes),
           NEW v \in Nat, NEW w, timed => w \in Nat,
           NEW new, new = Conversion(entries, timed, stack, attributes, v, w)
    PROVE  /\ new \in Seq(EntryRecs) /\ AllFit(d, new, timed)
           /\ SaysMore(d, new, entries, timed, Saying(d, stack, attributes, v, IF timed THEN w ELSE 0))
<1> DEFINE mates == Mates(entries, timed, stack, attributes)
<1>1. DOMAIN entries = 1..Len(entries)
  OBVIOUS
<1>2. CASE mates # {}
  <2> DEFINE i == CHOOSE i \in mates : TRUE
  <2>1. i \in mates /\ new = [entries EXCEPT ![i] = Joined(@, v, w)]
    BY <1>2 DEF Conversion
  <2> HIDE DEF i
  <2>2. /\ timed = TRUE /\ w \in Nat /\ i \in 1..Len(entries)
        /\ entries[i].stack = stack /\ entries[i].attributes = attributes
    BY <1>1, <2>1 DEF Mates
  <2>3. /\ new \in Seq(EntryRecs) /\ AllFit(d, new, TRUE)
        /\ SaysMore(d, new, entries, TRUE, Saying(d, entries[i].stack, entries[i].attributes, v, w))
    <3> HIDE DEF EntryRecs
    <3> QED
      BY <2>1, <2>2, EntryJoined
  <2> QED
    BY <2>2, <2>3
<1>3. CASE mates = {}
  <2> DEFINE T == IF timed THEN <<w>> ELSE <<>>
             V == <<v>>
             x == [stack |-> stack, attributes |-> attributes, values |-> V, times |-> T]
             more == Saying(d, stack, attributes, v, IF timed THEN w ELSE 0)
  <2>1. new = Append(entries, x)
    BY <1>3 DEF Conversion
  <2>2. /\ V \in Seq(Nat) /\ Len(V) = 1 /\ V[1] = v
        /\ T \in Seq(Nat) /\ (timed => Len(T) = 1 /\ T[1] = w)
    OBVIOUS
  <2> HIDE DEF V, T
  <2>3. /\ x \in EntryRecs /\ x.stack = stack /\ x.attributes = attributes /\ x.values = V /\ x.times = T
    BY <2>2 DEF EntryRecs
  <2> HIDE DEF x
  <2>4. EntryFits(d, x, timed)
    BY <2>2, <2>3 DEF EntryFits
  <2>5. ASSUME NEW y PROVE SaidBy(d, x, timed, y) <=> y = more
    <3>1. SaidBy(d, x, timed, y) <=>
             \E k \in 1..Len(V) : y = Saying(d, stack, attributes, V[k], IF timed THEN T[k] ELSE 0)
      BY <2>3 DEF SaidBy
    <3>2. 1..Len(V) = {1} /\ (IF timed THEN T[1] ELSE 0) = (IF timed THEN w ELSE 0)
      BY <2>2
    <3> QED
      BY <2>2, <3>1, <3>2
  <2> HIDE DEF more
  <2>6. /\ new \in Seq(EntryRecs) /\ AllFit(d, new, timed)
        /\ \A y : Says(d, new, timed, y) <=> (Says(d, entries, timed, y) \/ SaidBy(d, x, timed, y))
    BY <2>1, <2>3, <2>4, EntryAppended
  <2> QED
    BY <2>5, <2>6 DEF more, SaysMore
<1> QED
  BY <1>2, <1>3

-----------------------------------------------------------------------------
(* The export as it goes on.                                               *)
Gathered ==
    /\ epc \in {"build", "encode", "done"}
    /\ given \in [Sources -> Seq(Givens)] /\ built \in [Sources -> SoundProfiles]
    /\ \A s \in Sources : Tells(built[s], given[s])
    /\ \A s \in Sources : \A n \in 1..Len(given[s]) : DOMAIN given[s][n].values = 1..ValueTypes[s]
    /\ stamps \in Seq(Nat) /\ Len(stamps) = Len(given[Timeline])
    /\ \A n \in 1..Len(stamps) : stamps[n] = 100 + n

Cursors == [source : Sources, type : Nat, sample : Nat]
Pointed ==
    /\ cursor \in Cursors /\ cursor.type <= ValueTypes[cursor.source]
    /\ cursor.sample \in 1..(Len(given[cursor.source]) + 1)
    /\ epc = "build" => cursor.source = 1 /\ cursor.type = 0 /\ cursor.sample = 1
    /\ epc = "done" => /\ cursor.source = Timeline /\ cursor.type = ValueTypes[Timeline]
                       /\ cursor.sample = Len(given[Timeline]) + 1

(* Each stack of the source has an entry that says it ...                  *)
Stacked ==
    /\ stackOf \in Seq(Nat)
    /\ Len(stackOf) = (IF cursor.type = 0 THEN cursor.sample - 1 ELSE Len(given[cursor.source]))
    /\ \A k \in 1..Len(stackOf) :
          /\ stackOf[k] \in 1..Len(dict.stacks)
          /\ DecodedIn(dict, stackOf[k]) = TruthOf(built[cursor.source].raw, given[cursor.source][k].stack)

(* ... and the entries of a sample type say the samples that were          *)
(* converted, no other.                                                    *)
Converted(s, t) ==
    IF s < cursor.source \/ (s = cursor.source /\ t < cursor.type) THEN Len(given[s])
    ELSE IF s = cursor.source /\ t = cursor.type THEN cursor.sample - 1 ELSE 0
MeantOne(s, t, n) ==
    [stack |-> TruthOf(built[s].raw, given[s][n].stack), labels |-> given[s][n].labels,
     value |-> given[s][n].values[t], time |-> IF s = Timeline THEN 100 + n ELSE 0]
Tables == UNION {[1..n -> Seq(EntryRecs)] : n \in Nat}
Exported ==
    /\ encoded \in [Sources -> Tables]
    /\ \A s \in Sources :
          /\ encoded[s] \in [1..ValueTypes[s] -> Seq(EntryRecs)]
          /\ \A t \in 1..ValueTypes[s] :
                /\ AllFit(dict, encoded[s][t], s = Timeline)
                /\ \A y : Says(dict, encoded[s][t], s = Timeline, y)
                             <=> \E n \in 1..Converted(s, t) : y = MeantOne(s, t, n)

Told == Gathered /\ Pointed /\ dict \in SoundDicts /\ Stacked /\ Exported

LEMMA SourcesAre ==
    /\ Timeline \in Sources /\ 1 \in Sources /\ Timeline \in Nat /\ Len(ValueTypes) \in Nat
    /\ \A s \in Sources : s \in Nat /\ s >= 1 /\ ValueTypes[s] \in Nat /\ ValueTypes[s] >= 1
BY EncodersAssumption DEF EncodersAssumption, Sources, Timeline

LEMMA ToldFirst == EncodersInit => Told
<1> SUFFICES ASSUME EncodersInit PROVE Told
  OBVIOUS
<1> USE DEF EncodersInit
<1>1. PICK raw \in [Sources -> BOOLEAN] : built = [s \in Sources |-> NoProfile(raw[s])]
  OBVIOUS
<1>2. ASSUME NEW r \in BOOLEAN PROVE NoProfile(r) \in SoundProfiles /\ NoProfile(r).samples = <<>>
  <2> DEFINE p == NoProfile(r)
  <2>1. p \in Profiles
    <3>1. /\ <<>> \in Seq(SampleRecs) /\ <<>> \in Seq(LocationRecs) /\ <<>> \in Seq(MappingRecs)
          /\ <<>> \in Seq(FunctionKeys)
      <4> HIDE DEF SampleRecs, LocationRecs, MappingRecs, FunctionKeys
      <4> QED
        OBVIOUS
    <3> QED
      BY <3>1 DEF NoProfile, Profiles
  <2>2. p.samples = <<>> /\ p.locations = <<>> /\ p.mappings = <<>>
    BY DEF NoProfile
  <2> HIDE DEF p
  <2>3. 1..Len(p.locations) = {} /\ 1..Len(p.mappings) = {}
    BY <2>2
  <2>4. p \in SoundProfiles
    BY <2>1, <2>3 DEF SoundProfiles, Flagged
  <2> QED
    BY <2>2, <2>4 DEF p
<1>3. \A s \in Sources : built[s] \in SoundProfiles /\ built[s].samples = <<>> /\ given[s] = <<>>
  BY <1>1, <1>2
<1>4. <<>> \in Seq(Givens) /\ Len(<<>>) = 0
  <2> HIDE DEF Givens
  <2> QED
    OBVIOUS
<1>5. Gathered
  <2>1. given \in [Sources -> Seq(Givens)] /\ built \in [Sources -> SoundProfiles]
    BY <1>1, <1>3, <1>4
  <2>2. \A s \in Sources : Len(given[s]) = 0 /\ Len(built[s].samples) = 0
    BY <1>3
  <2>3. \A s \in Sources : Tells(built[s], given[s])
    BY <2>2 DEF Tells
  <2>4. stamps \in Seq(Nat) /\ Len(stamps) = 0
    OBVIOUS
  <2> QED
    BY <2>1, <2>2, <2>3, <2>4, SourcesAre DEF Gathered
<1>6. Pointed
  <2>1. \A s \in Sources : Len(given[s]) = 0
    BY <1>3
  <2> QED
    BY <2>1, SourcesAre DEF Pointed, Cursors
<1>7. dict \in SoundDicts
  <2>1. /\ <<>> \in Seq(LocationRecs) /\ <<>> \in Seq(MappingRecs) /\ <<>> \in Seq(FunctionKeys)
        /\ <<>> \in Seq(Seq(Nat)) /\ <<>> \in Seq(AnyLabel)
    <3> HIDE DEF LocationRecs, MappingRecs, FunctionKeys, AnyLabel
    <3> QED
      OBVIOUS
  <2>2. dict \in Dicts
    BY <2>1 DEF NoDictionary, Dicts
  <2>3. dict.stacks = <<>> /\ dict.locations = <<>> /\ dict.mappings = <<>> /\ dict.functions = <<>>
    BY DEF NoDictionary
  <2>4. 1..Len(dict.stacks) = {} /\ 1..Len(dict.locations) = {} /\ 1..Len(dict.functions) = {}
    BY <2>3
  <2>5. Len(FilesOf(dict.mappings)) = 0
    BY <2>1, <2>3, FilesAre
  <2>6. Distinct(FilesOf(dict.mappings)) /\ Distinct(dict.functions)
    <3>1. 1..Len(FilesOf(dict.mappings)) = {}
      BY <2>5
    <3> QED
      BY <2>4, <3>1 DEF Distinct
  <2> HIDE DEF EncodersInit
  <2> QED
    BY <2>2, <2>4, <2>6 DEF SoundDicts
<1>8. Stacked
  <2>1. stackOf \in Seq(Nat) /\ Len(stackOf) = 0
    OBVIOUS
  <2> QED
    BY <2>1 DEF Stacked
<1>9. Exported
  <2>1. \A s \in Sources : encoded[s] = [t \in 1..ValueTypes[s] |-> <<>>] /\ ValueTypes[s] \in Nat
    BY SourcesAre
  <2>2. <<>> \in Seq(EntryRecs)
    <3> HIDE DEF EntryRecs
    <3> QED
      OBVIOUS
  <2>3. \A s \in Sources : encoded[s] \in [1..ValueTypes[s] -> Seq(EntryRecs)]
    BY <2>1, <2>2
  <2>4. encoded \in [Sources -> Tables]
    BY <2>1, <2>3 DEF Tables
  <2>5. ASSUME NEW s \in Sources, NEW t \in 1..ValueTypes[s]
        PROVE  /\ AllFit(dict, encoded[s][t], s = Timeline)
               /\ \A y : Says(dict, encoded[s][t], s = Timeline, y)
                             <=> \E n \in 1..Converted(s, t) : y = MeantOne(s, t, n)
    <3>1. Len(encoded[s][t]) = 0
      BY <2>1
    <3>2. Converted(s, t) = 0
      BY SourcesAre DEF Converted
    <3> QED
      BY <3>1, <3>2 DEF AllFit, Says
  <2> QED
    BY <2>3, <2>4, <2>5 DEF Exported
<1> QED
  BY <1>5, <1>6, <1>7, <1>8, <1>9 DEF Told

LEMMA AddKeepsTold == Told /\ AddSample => Told'
<1> SUFFICES ASSUME Told, AddSample PROVE Told'
  OBVIOUS
<1>1. PICK s \in Sources, stack \in InputStacks, labels \in InputLabels :
         /\ built' = [built EXCEPT ![s] = WithSample(@, stack, labels, [t \in 1..ValueTypes[s] |-> 10 * t + (Len(given[s]) + 1)])]
         /\ given' = [given EXCEPT ![s] = Append(@, [stack |-> stack, labels |-> labels,
                                             values |-> [t \in 1..ValueTypes[s] |-> 10 * t + (Len(given[s]) + 1)]])]
         /\ stamps' = (IF s = Timeline THEN Append(stamps, 100 + (Len(given[s]) + 1)) ELSE stamps)
  BY DEF AddSample
<1> DEFINE n == Len(given[s]) + 1  values == [t \in 1..ValueTypes[s] |-> 10 * t + n]
           x == [stack |-> stack, labels |-> labels, values |-> values]
           q == WithSample(built[s], stack, labels, values)
           g == Append(given[s], x)
<1>2. /\ epc = "build" /\ epc' = epc /\ cursor' = cursor /\ dict' = dict /\ stackOf' = stackOf /\ encoded' = encoded
  BY DEF AddSample
<1>3. /\ Gathered /\ Pointed /\ dict \in SoundDicts /\ Stacked /\ Exported
  BY DEF Told
<1>4. cursor.source = 1 /\ cursor.type = 0 /\ cursor.sample = 1 /\ cursor \in Cursors
  BY <1>2, <1>3 DEF Pointed
<1>5. given[s] \in Seq(Givens) /\ Len(given[s]) \in Nat /\ built[s] \in SoundProfiles /\ Tells(built[s], given[s])
  <2>1. given[s] \in Seq(Givens) /\ built[s] \in SoundProfiles /\ Tells(built[s], given[s])
    BY <1>3 DEF Gathered
  <2> HIDE DEF Givens
  <2> QED
    BY <2>1
<1>6. values \in Seq(Nat) /\ DOMAIN values = 1..ValueTypes[s]
  <2>1. ValueTypes[s] \in Nat /\ n \in Nat
    BY <1>5, SourcesAre
  <2> HIDE DEF n
  <2> QED
    BY <2>1
<1>7. built' = [built EXCEPT ![s] = q] /\ given' = [given EXCEPT ![s] = g]
  BY <1>1
<1> HIDE DEF values
<1>8. q \in SoundProfiles /\ q.raw = built[s].raw /\ Tells(q, g)
  BY <1>5, <1>6, SampleAdded
<1>9. x \in Givens /\ x.values = values
  BY <1>6 DEF Givens
<1> HIDE DEF x, q
<1>10. /\ g \in Seq(Givens) /\ Len(g) = n /\ g[n] = x /\ n \in Nat /\ \A i \in 1..Len(given[s]) : g[i] = given[s][i]
  <2> HIDE DEF Givens
  <2> QED
    BY <1>5, <1>9
<1> HIDE DEF g
<1>11. /\ given' \in [Sources -> Seq(Givens)] /\ built' \in [Sources -> SoundProfiles]
       /\ given'[s] = g /\ built'[s] = q
       /\ \A u \in Sources : u # s => given'[u] = given[u] /\ built'[u] = built[u]
  BY <1>3, <1>7, <1>8, <1>10 DEF Gathered
<1>12. Gathered'
  <2>1. \A u \in Sources : Tells(built'[u], given'[u])
    BY <1>3, <1>8, <1>11 DEF Gathered
  <2>2. ASSUME NEW u \in Sources, NEW i \in 1..Len(given'[u]) PROVE DOMAIN given'[u][i].values = 1..ValueTypes[u]
    <3>1. CASE u # s
      BY <1>3, <1>11, <3>1 DEF Gathered
    <3>2. CASE u = s /\ i = n
      BY <1>6, <1>9, <1>10, <1>11, <3>2
    <3>3. CASE u = s /\ i # n
      <4>1. i \in 1..Len(given[s]) /\ given'[u][i] = given[s][i]
        BY <1>5, <1>10, <1>11, <3>3
      <4> QED
        BY <1>3, <3>3, <4>1 DEF Gathered
    <3> QED
      BY <3>1, <3>2, <3>3
  <2>3. stamps \in Seq(Nat) /\ Len(stamps) = Len(given[Timeline]) /\ \A i \in 1..Len(stamps) : stamps[i] = 100 + i
    BY <1>3 DEF Gathered
  <2>4. /\ stamps' \in Seq(Nat) /\ Len(stamps') = Len(given'[Timeline]) /\ \A i \in 1..Len(stamps') : stamps'[i] = 100 + i
    <3>1. CASE s # Timeline
      BY <1>1, <1>11, <2>3, <3>1, SourcesAre
    <3>2. CASE s = Timeline
      <4>1. stamps' = Append(stamps, 100 + n) /\ Len(stamps) = Len(given[s]) /\ Len(given'[Timeline]) = n
        BY <1>1, <1>10, <1>11, <2>3, <3>2
      <4>2. /\ stamps' \in Seq(Nat) /\ Len(stamps') = n /\ stamps'[n] = 100 + n
            /\ \A i \in 1..Len(stamps) : stamps'[i] = stamps[i]
        BY <1>5, <1>10, <2>3, <4>1
      <4> QED
        BY <1>5, <1>10, <2>3, <4>1, <4>2
    <3> QED
      BY <3>1, <3>2
  <2> QED
    BY <1>2, <1>3, <1>11, <2>1, <2>2, <2>4 DEF Gathered
<1>13. Pointed'
  <2>1. Len(given'[1]) \in Nat
    BY <1>10, <1>11, <1>3, SourcesAre DEF Pointed, Gathered
  <2> QED
    BY <1>2, <1>3, <1>4, <2>1, SourcesAre DEF Pointed
<1>14. Stacked'
  <2>1. stackOf \in Seq(Nat) /\ Len(stackOf) = 0
    BY <1>3, <1>4 DEF Stacked
  <2> QED
    BY <1>2, <1>4, <2>1 DEF Stacked
<1>15. Exported'
  <2>1. \A u \in Sources : \A t \in 1..ValueTypes[u] : Converted(u, t) = 0 /\ Converted(u, t)' = 0
    BY <1>2, <1>4, SourcesAre DEF Converted
  <2>2. ASSUME NEW u \in Sources, NEW t \in 1..ValueTypes[u]
        PROVE  /\ AllFit(dict', encoded'[u][t], u = Timeline)
               /\ \A y : Says(dict', encoded'[u][t], u = Timeline, y)
                             <=> \E i \in 1..Converted(u, t)' : y = MeantOne(u, t, i)'
    <3>1. 1..Converted(u, t) = {} /\ 1..Converted(u, t)' = {}
      BY <2>1
    <3>2. /\ AllFit(dict, encoded[u][t], u = Timeline)
          /\ \A y : ~Says(dict, encoded[u][t], u = Timeline, y)
      BY <1>3, <3>1 DEF Exported
    <3> QED
      BY <1>2, <3>1, <3>2
  <2> QED
    BY <1>2, <1>3, <2>2 DEF Exported
<1> QED
  BY <1>2, <1>3, <1>12, <1>13, <1>14, <1>15 DEF Told

(* The sample that the cursor points at.                                   *)
LEMMA PointedSample ==
    ASSUME Gathered, Pointed, NEW s, s = cursor.source, NEW k, k = cursor.sample, k <= Len(built[s].samples)
    PROVE  /\ s \in Sources /\ k \in Nat /\ k \in 1..Len(given[s]) /\ Len(given[s]) \in Nat
           /\ built[s] \in SoundProfiles /\ built[s].samples[k] \in SampleRecs /\ given[s][k] \in Givens
           /\ TellsOne(built[s], built[s].samples[k], given[s][k])
           /\ DOMAIN given[s][k].values = 1..ValueTypes[s]
<1>1. s \in Sources /\ k \in Nat /\ k \in 1..(Len(given[s]) + 1)
  BY DEF Pointed, Cursors
<1>2. built[s] \in SoundProfiles /\ given[s] \in Seq(Givens) /\ Tells(built[s], given[s])
  BY <1>1 DEF Gathered
<1>3. Len(given[s]) \in Nat /\ \A i \in 1..Len(given[s]) : given[s][i] \in Givens
  <2> DEFINE g == given[s]
  <2> HIDE DEF Givens, g
  <2>1. g \in Seq(Givens)
    BY <1>2 DEF g
  <2>2. Len(g) \in Nat /\ \A i \in 1..Len(g) : g[i] \in Givens
    BY <2>1
  <2> QED
    BY <2>2 DEF g
<1>4. Len(built[s].samples) = Len(given[s]) /\ k \in 1..Len(given[s])
  BY <1>1, <1>2, <1>3 DEF Tells
<1>5. built[s].samples \in Seq(SampleRecs)
  BY <1>2 DEF SoundProfiles, Profiles
<1>6. built[s].samples[k] \in SampleRecs
  <2> HIDE DEF SampleRecs
  <2> QED
    BY <1>4, <1>5
<1>7. TellsOne(built[s], built[s].samples[k], given[s][k])
  BY <1>2, <1>4 DEF Tells
<1>8. DOMAIN given[s][k].values = 1..ValueTypes[s]
  BY <1>1, <1>4 DEF Gathered
<1> QED
  BY <1>1, <1>2, <1>3, <1>4, <1>6, <1>7, <1>8

(* Tables that grow leave everything that was exported as it is.           *)
LEMMA ExportedStays ==
    ASSUME Exported, dict \in SoundDicts, dict' \in SoundDicts, DictWider(dict, dict'),
           NEW s \in Sources, NEW t \in 1..ValueTypes[s]
    PROVE  /\ encoded[s][t] \in Seq(EntryRecs)
           /\ AllFit(dict', encoded[s][t], s = Timeline)
           /\ \A y : Says(dict', encoded[s][t], s = Timeline, y)
                        <=> \E n \in 1..Converted(s, t) : y = MeantOne(s, t, n)
<1> DEFINE entries == encoded[s][t]  timed == s = Timeline  d == dict  e == dict'
<1>1. entries \in Seq(EntryRecs) /\ timed \in BOOLEAN /\ AllFit(d, entries, timed)
  BY DEF Exported
<1>2. d \in SoundDicts /\ e \in SoundDicts /\ DictWider(d, e)
  OBVIOUS
<1>3. \A y : Says(d, entries, timed, y) <=> \E n \in 1..Converted(s, t) : y = MeantOne(s, t, n)
  BY DEF Exported
<1> HIDE DEF entries, timed, d, e
<1>4. AllFit(e, entries, timed) /\ \A y : Says(e, entries, timed, y) <=> Says(d, entries, timed, y)
  BY <1>1, <1>2, SaysKept
<1>5. \A y : Says(e, entries, timed, y) <=> \E n \in 1..Converted(s, t) : y = MeantOne(s, t, n)
  BY <1>3, <1>4
<1> QED
  BY <1>1, <1>4, <1>5 DEF entries, timed, e

LEMMA InternKeepsTold == Told /\ InternStack => Told'
<1> SUFFICES ASSUME Told, InternStack PROVE Told'
  OBVIOUS
<1> DEFINE s == cursor.source  k == cursor.sample  p == built[s]  x == given[s][k]
           ids == p.samples[k].locations  d == InternLocations(dict, p, ids)
           stack == EntriesOf(d, p, ids)  id == Place(d.stacks, stack)
<1>1. /\ epc = "encode" /\ cursor.type = 0 /\ k <= Len(p.samples)
      /\ dict' = WithStack(d, stack) /\ stackOf' = Append(stackOf, id)
      /\ cursor' = [cursor EXCEPT !.sample = @ + 1]
      /\ epc' = epc /\ given' = given /\ built' = built /\ stamps' = stamps /\ encoded' = encoded
  BY DEF InternStack, EntriesOf, WithStack
<1>2. Gathered /\ Pointed /\ dict \in SoundDicts /\ Stacked /\ Exported
  BY DEF Told
<1>3. /\ s \in Sources /\ k \in Nat /\ k \in 1..Len(given[s]) /\ Len(given[s]) \in Nat
      /\ p \in SoundProfiles /\ p.samples[k] \in SampleRecs /\ x \in Givens /\ TellsOne(p, p.samples[k], x)
  BY <1>1, <1>2, PointedSample
<1>4. /\ dict' \in SoundDicts /\ DictWider(dict, dict') /\ id \in 1..Len(dict'.stacks) /\ id \in Nat
      /\ DecodedIn(dict', id) = TruthOf(p.raw, x.stack)
  <2> DEFINE sample == p.samples[k]  base == dict  e == dict'
  <2>1. /\ p \in SoundProfiles /\ base \in SoundDicts /\ sample \in SampleRecs /\ x \in Givens /\ TellsOne(p, sample, x)
        /\ d = InternLocations(base, p, sample.locations) /\ stack = EntriesOf(d, p, sample.locations)
        /\ e = WithStack(d, stack) /\ id = Place(d.stacks, stack)
    BY <1>1, <1>2, <1>3
  <2> HIDE DEF sample, base, e, p, x, d, stack, id
  <2>2. /\ e \in SoundDicts /\ DictWider(base, e) /\ id \in 1..Len(e.stacks) /\ id \in Nat
        /\ DecodedIn(e, id) = TruthOf(p.raw, x.stack)
    BY <2>1, StackInterned
  <2> QED
    BY <2>2 DEF base, e
<1> HIDE DEF d, stack, id
<1>5. /\ cursor'.source = s /\ cursor'.type = 0 /\ cursor'.sample = k + 1 /\ cursor' \in Cursors
  BY <1>1, <1>2, <1>3 DEF Pointed, Cursors
<1>6. Gathered'
  BY <1>1, <1>2 DEF Gathered
<1>7. Pointed'
  <2>1. 0 <= ValueTypes[s]
    BY <1>3, SourcesAre
  <2> QED
    BY <1>1, <1>3, <1>5, <2>1 DEF Pointed
<1>8. Stacked'
  <2>1. stackOf \in Seq(Nat) /\ Len(stackOf) = k - 1
    BY <1>1, <1>2 DEF Stacked
  <2>2. /\ stackOf' \in Seq(Nat) /\ Len(stackOf') = k /\ stackOf'[k] = id
        /\ \A h \in 1..(k - 1) : stackOf'[h] = stackOf[h]
    BY <1>1, <1>3, <1>4, <2>1
  <2>3. ASSUME NEW h \in 1..(k - 1)
        PROVE  /\ stackOf[h] \in 1..Len(dict'.stacks)
               /\ DecodedIn(dict', stackOf[h]) = TruthOf(p.raw, given[s][h].stack)
    <3> DEFINE i == stackOf[h]  a == dict  b == dict'
    <3>1. i \in 1..Len(a.stacks) /\ DecodedIn(a, i) = TruthOf(p.raw, given[s][h].stack)
      BY <1>2, <2>1 DEF Stacked
    <3>2. a \in SoundDicts /\ b \in SoundDicts /\ DictWider(a, b)
      BY <1>2, <1>4
    <3> HIDE DEF i, a, b
    <3>3. i \in 1..Len(b.stacks) /\ DecodedIn(b, i) = DecodedIn(a, i)
      BY <3>1, <3>2, DecodedKept
    <3> QED
      BY <3>1, <3>3 DEF i, b
  <2>4. ASSUME NEW h \in 1..Len(stackOf')
        PROVE  /\ stackOf'[h] \in 1..Len(dict'.stacks)
               /\ DecodedIn(dict', stackOf'[h]) = TruthOf(built'[cursor'.source].raw, given'[cursor'.source][h].stack)
    <3>1. CASE h = k
      BY <1>1, <1>4, <1>5, <2>2, <3>1
    <3>2. CASE h # k
      <4>1. h \in 1..(k - 1)
        BY <1>3, <2>2, <3>2
      <4> QED
        BY <1>1, <1>5, <2>2, <2>3, <4>1
    <3> QED
      BY <3>1, <3>2
  <2> QED
    BY <1>3, <1>5, <2>2, <2>4 DEF Stacked
<1>9. Exported'
  <2>1. ASSUME NEW u \in Sources, NEW t \in 1..ValueTypes[u]
        PROVE  Converted(u, t)' = Converted(u, t) /\ \A n : MeantOne(u, t, n)' = MeantOne(u, t, n)
    <3>1. t >= 1 /\ t \in Nat
      BY SourcesAre
    <3>2. Converted(u, t)' = Converted(u, t)
      BY <1>1, <1>5, <3>1 DEF Converted
    <3> QED
      BY <1>1, <3>2 DEF MeantOne
  <2>2. ASSUME NEW u \in Sources, NEW t \in 1..ValueTypes[u]
        PROVE  /\ AllFit(dict', encoded'[u][t], u = Timeline)
               /\ \A y : Says(dict', encoded'[u][t], u = Timeline, y)
                             <=> \E n \in 1..Converted(u, t)' : y = MeantOne(u, t, n)'
    <3>1. /\ AllFit(dict', encoded[u][t], u = Timeline)
          /\ \A y : Says(dict', encoded[u][t], u = Timeline, y)
                       <=> \E n \in 1..Converted(u, t) : y = MeantOne(u, t, n)
      BY <1>2, <1>4, ExportedStays
    <3> QED
      BY <1>1, <2>1, <3>1
  <2> QED
    BY <1>1, <1>2, <2>2 DEF Exported
<1> QED
  BY <1>2, <1>4, <1>6, <1>7, <1>8, <1>9 DEF Told

LEMMA ConvertKeepsTold == Told /\ ConvertSample => Told'
<1> SUFFICES ASSUME Told, ConvertSample PROVE Told'
  OBVIOUS
<1> DEFINE s == cursor.source  t == cursor.type  k == cursor.sample  p == built[s]  x == given[s][k]
           sample == p.samples[k]  table == InternedAll(dict.attributes, sample.labels)
           attributes == AttributesOf(table, sample.labels)
           timed == s = Timeline  v == sample.values[t]  w == stamps[k]
           new == Conversion(encoded[s][t], timed, stackOf[k], attributes, v, w)
<1>1. /\ epc = "encode" /\ t > 0 /\ k <= Len(p.samples)
      /\ dict' = WithAttributes(dict, table)
      /\ cursor' = [cursor EXCEPT !.sample = @ + 1]
      /\ epc' = epc /\ given' = given /\ built' = built /\ stamps' = stamps /\ stackOf' = stackOf
  BY DEF ConvertSample, WithAttributes
<1>2. Gathered /\ Pointed /\ dict \in SoundDicts /\ Stacked /\ Exported
  BY DEF Told
<1>3. /\ s \in Sources /\ k \in Nat /\ k \in 1..Len(given[s]) /\ Len(given[s]) \in Nat
      /\ p \in SoundProfiles /\ sample \in SampleRecs /\ x \in Givens /\ TellsOne(p, sample, x)
      /\ DOMAIN x.values = 1..ValueTypes[s]
  BY <1>1, <1>2, PointedSample
<1>4. t \in 1..ValueTypes[s] /\ t \in Nat
  BY <1>1, <1>2, <1>3, SourcesAre DEF Pointed, Cursors
<1>5. sample.labels = x.labels /\ sample.values = x.values /\ sample.labels \in InputLabels /\ v \in Nat
  <2>1. sample.labels = x.labels /\ sample.values = x.values
    BY <1>3 DEF TellsOne
  <2>2. x.values \in Seq(Nat) /\ x.labels \in InputLabels
    BY <1>3 DEF Givens
  <2>3. x.values[t] \in Nat
    <3> DEFINE V == x.values
    <3>1. V \in Seq(Nat) /\ t \in DOMAIN V
      BY <1>3, <1>4, <2>2
    <3> HIDE DEF V, t
    <3>2. V[t] \in Nat
      BY <3>1
    <3> QED
      BY <3>2 DEF V
  <2> QED
    BY <2>1, <2>2, <2>3
<1>6. encoded' = [encoded EXCEPT ![s][t] = new]
  <2>1. CASE Mates(encoded[s][t], timed, stackOf[k], attributes) # {}
    BY <2>1 DEF ConvertSample, Conversion, Mates, AttributesOf
  <2>2. CASE Mates(encoded[s][t], timed, stackOf[k], attributes) = {}
    BY <2>2 DEF ConvertSample, Conversion, Mates, AttributesOf
  <2> QED
    BY <2>1, <2>2
<1>7. /\ dict' \in SoundDicts /\ DictWider(dict, dict') /\ attributes \in Seq(Nat)
      /\ \A i \in DOMAIN attributes : attributes[i] \in 1..Len(dict'.attributes)
      /\ LabelsIn(dict', attributes) = sample.labels
  <2> DEFINE d == dict  e == dict'  labels == sample.labels
  <2>1. /\ d \in SoundDicts /\ labels \in InputLabels /\ table = InternedAll(d.attributes, labels)
        /\ attributes = AttributesOf(table, labels) /\ e = WithAttributes(d, table)
    BY <1>1, <1>2, <1>5
  <2> HIDE DEF d, e, labels, table, attributes
  <2>2. /\ e \in SoundDicts /\ DictWider(d, e) /\ attributes \in Seq(Nat)
        /\ Indexed(e, attributes) /\ LabelsIn(e, attributes) = labels
    BY <2>1, LabelsInterned
  <2> QED
    BY <2>2 DEF d, e, labels, Indexed
<1> HIDE DEF table, attributes, new
<1>8. /\ cursor'.source = s /\ cursor'.type = t /\ cursor'.sample = k + 1 /\ cursor' \in Cursors
  BY <1>1, <1>2, <1>3 DEF Pointed, Cursors
<1>9. Gathered'
  BY <1>1, <1>2 DEF Gathered
<1>10. Pointed'
  <2>1. t <= ValueTypes[s]
    BY <1>3, <1>4, SourcesAre
  <2> QED
    BY <1>1, <1>3, <1>8, <2>1 DEF Pointed
(* The stacks of the source are as they were.                              *)
<1>11. /\ k \in 1..Len(stackOf) /\ stackOf[k] \in Nat /\ stackOf[k] \in 1..Len(dict'.stacks)
       /\ DecodedIn(dict', stackOf[k]) = TruthOf(p.raw, x.stack)
       /\ Stacked'
  <2>1. stackOf \in Seq(Nat) /\ Len(stackOf) = Len(given[s])
    BY <1>1, <1>2, <1>4 DEF Stacked
  <2>2. ASSUME NEW h \in 1..Len(stackOf)
        PROVE  /\ stackOf[h] \in 1..Len(dict'.stacks)
               /\ DecodedIn(dict', stackOf[h]) = TruthOf(p.raw, given[s][h].stack)
    <3> DEFINE i == stackOf[h]  a == dict  b == dict'
    <3>1. i \in 1..Len(a.stacks) /\ DecodedIn(a, i) = TruthOf(p.raw, given[s][h].stack)
      BY <1>2, <2>1 DEF Stacked
    <3>2. a \in SoundDicts /\ b \in SoundDicts /\ DictWider(a, b)
      BY <1>2, <1>7
    <3> HIDE DEF i, a, b
    <3>3. i \in 1..Len(b.stacks) /\ DecodedIn(b, i) = DecodedIn(a, i)
      BY <3>1, <3>2, DecodedKept
    <3> QED
      BY <3>1, <3>3 DEF i, b
  <2>3. k \in 1..Len(stackOf) /\ stackOf[k] \in Nat
    BY <1>3, <2>1
  <2>4. Stacked'
    <3>1. cursor'.type # 0 /\ Len(stackOf') = Len(given'[cursor'.source])
      BY <1>1, <1>4, <1>8, <2>1
    <3>2. \A h \in 1..Len(stackOf') :
             /\ stackOf'[h] \in 1..Len(dict'.stacks)
             /\ DecodedIn(dict', stackOf'[h]) = TruthOf(built'[cursor'.source].raw, given'[cursor'.source][h].stack)
      BY <1>1, <1>8, <2>2
    <3> QED
      BY <1>1, <2>1, <3>1, <3>2 DEF Stacked
  <2> QED
    BY <2>2, <2>3, <2>4
<1>12. (w = 100 + k /\ w \in Nat) \/ ~timed
  <2>1. ASSUME timed PROVE w = 100 + k
    <3>1. k \in 1..Len(stamps)
      BY <1>2, <1>3, <2>1 DEF Gathered
    <3> QED
      BY <1>2, <3>1 DEF Gathered
  <2> QED
    BY <1>3, <2>1
(* The sample is said as it was meant, and the others as before.           *)
<1>13. /\ new \in Seq(EntryRecs) /\ AllFit(dict', new, timed)
       /\ SaysMore(dict', new, encoded[s][t], timed, MeantOne(s, t, k))
  <2> DEFINE d == dict'  entries == encoded[s][t]  stack == stackOf[k]
  <2>1. /\ entries \in Seq(EntryRecs) /\ timed \in BOOLEAN /\ AllFit(d, entries, timed)
    BY <1>2, <1>3, <1>4, <1>7, ExportedStays
  <2>2. /\ stack \in Nat /\ stack \in 1..Len(d.stacks) /\ attributes \in Seq(Nat)
        /\ \A i \in DOMAIN attributes : attributes[i] \in 1..Len(d.attributes)
        /\ v \in Nat /\ (timed => w \in Nat) /\ new = Conversion(entries, timed, stack, attributes, v, w)
    BY <1>5, <1>7, <1>11, <1>12 DEF new
  <2>3. Saying(d, stack, attributes, v, IF timed THEN w ELSE 0) = MeantOne(s, t, k)
    BY <1>5, <1>7, <1>11, <1>12 DEF Saying, MeantOne
  <2> HIDE DEF d, entries, stack, timed, v, w
  <2>4. /\ new \in Seq(EntryRecs) /\ AllFit(d, new, timed)
        /\ SaysMore(d, new, entries, timed, Saying(d, stack, attributes, v, IF timed THEN w ELSE 0))
    BY <2>1, <2>2, SampleConverted
  <2> QED
    BY <2>3, <2>4 DEF d, entries
<1>14. Exported'
  <2>1. /\ encoded \in [Sources -> Tables]
        /\ \A u \in Sources : encoded[u] \in [1..ValueTypes[u] -> Seq(EntryRecs)]
    BY <1>2 DEF Exported
  <2>2. /\ encoded'[s] = [encoded[s] EXCEPT ![t] = new] /\ encoded'[s][t] = new
        /\ \A u \in Sources : u # s => encoded'[u] = encoded[u]
        /\ \A r \in 1..ValueTypes[s] : r # t => encoded'[s][r] = encoded[s][r]
    BY <1>3, <1>4, <1>6, <2>1
  <2>3. ASSUME NEW u \in Sources PROVE encoded'[u] \in [1..ValueTypes[u] -> Seq(EntryRecs)]
    <3>1. CASE u # s
      BY <2>1, <2>2, <3>1
    <3>2. CASE u = s
      <4> DEFINE f == encoded[u]  g == encoded'[u]  E == Seq(EntryRecs)  D == 1..ValueTypes[u]
      <4>1. f \in [D -> E] /\ g = [f EXCEPT ![t] = new] /\ new \in E
        BY <1>13, <2>1, <2>2, <3>2
      <4> HIDE DEF f, g, E, D
      <4>2. g \in [D -> E]
        BY <4>1
      <4> QED
        BY <4>2 DEF g, D, E
    <3> QED
      BY <3>1, <3>2
  <2>4. encoded' \in [Sources -> Tables]
    <3>1. \A u \in Sources : encoded'[u] \in Tables
      BY <2>3, SourcesAre DEF Tables
    <3>2. encoded' = [u \in Sources |-> encoded'[u]]
      BY <1>6, <2>1
    <3> QED
      BY <3>1, <3>2
  <2>5. ASSUME NEW u \in Sources, NEW r \in 1..ValueTypes[u] PROVE \A n : MeantOne(u, r, n)' = MeantOne(u, r, n)
    BY <1>1 DEF MeantOne
  <2>6. ASSUME NEW u \in Sources, NEW r \in 1..ValueTypes[u], u = s, r = t
        PROVE  Converted(u, r) = k - 1 /\ Converted(u, r)' = k
    <3>1. u \in Nat /\ r \in Nat /\ ~(u < u) /\ ~(r < r)
      BY SourcesAre
    <3>2. Converted(u, r) = k - 1
      BY <2>6, <3>1 DEF Converted
    <3>3. Converted(u, r)' = (k + 1) - 1
      BY <1>8, <2>6, <3>1 DEF Converted
    <3> QED
      BY <1>3, <3>2, <3>3
  <2>7. ASSUME NEW u \in Sources, NEW r \in 1..ValueTypes[u], u # s \/ r # t
        PROVE  Converted(u, r)' = Converted(u, r) /\ encoded'[u][r] = encoded[u][r]
    <3>1. Converted(u, r)' = Converted(u, r)
      BY <1>1, <1>8, <2>7 DEF Converted
    <3> QED
      BY <2>2, <2>7, <3>1
  <2>8. ASSUME NEW u \in Sources, NEW r \in 1..ValueTypes[u]
        PROVE  /\ AllFit(dict', encoded'[u][r], u = Timeline)
               /\ \A y : Says(dict', encoded'[u][r], u = Timeline, y)
                             <=> \E n \in 1..Converted(u, r)' : y = MeantOne(u, r, n)'
    <3>1. /\ AllFit(dict', encoded[u][r], u = Timeline)
          /\ \A y : Says(dict', encoded[u][r], u = Timeline, y)
                       <=> \E n \in 1..Converted(u, r) : y = MeantOne(u, r, n)
      BY <1>2, <1>7, ExportedStays
    <3>2. CASE u # s \/ r # t
      BY <2>5, <2>7, <3>1, <3>2
    <3>3. CASE u = s /\ r = t
      <4>1. \A n : n \in 1..Converted(u, r)' <=> (n \in 1..Converted(u, r) \/ n = k)
        <5>1. Converted(u, r) = k - 1 /\ Converted(u, r)' = k
          BY <2>6, <3>3
        <5> HIDE DEF k
        <5> QED
          BY <1>3, <5>1
      <4>2. \A y : Says(dict', new, timed, y) <=> (Says(dict', encoded[s][t], timed, y) \/ y = MeantOne(s, t, k))
        BY <1>13 DEF SaysMore
      <4>3. ASSUME NEW y
            PROVE  Says(dict', encoded'[u][r], u = Timeline, y)
                      <=> \E n \in 1..Converted(u, r)' : y = MeantOne(u, r, n)
        <5>1. Says(dict', new, timed, y)
                <=> ((\E n \in 1..Converted(u, r) : y = MeantOne(u, r, n)) \/ y = MeantOne(u, r, k))
          BY <3>1, <3>3, <4>2
        <5> QED
          BY <2>2, <3>3, <4>1, <5>1
      <4>4. AllFit(dict', encoded'[u][r], u = Timeline)
        BY <1>13, <2>2, <3>3
      <4> QED
        BY <2>5, <4>3, <4>4
    <3> QED
      BY <3>2, <3>3
  <2> QED
    BY <2>3, <2>4, <2>8 DEF Exported
<1> QED
  BY <1>2, <1>7, <1>9, <1>10, <1>11, <1>14 DEF Told

LEMMA TurnKeepsTold == Told /\ EncodeNext => Told'
<1> SUFFICES ASSUME Told, EncodeNext PROVE Told'
  OBVIOUS
<1> DEFINE s == cursor.source
<1>1. /\ given' = given /\ built' = built /\ stamps' = stamps /\ dict' = dict /\ encoded' = encoded /\ TurnOver
  BY DEF EncodeNext
<1>2. Gathered /\ Pointed /\ dict \in SoundDicts /\ Stacked /\ Exported
  BY DEF Told
<1>3. /\ s \in Sources /\ cursor \in Cursors /\ cursor.type \in Nat /\ cursor.sample \in Nat
      /\ \A u \in Sources : Len(given[u]) \in Nat /\ Len(built[u].samples) = Len(given[u])
  <2>1. s \in Sources /\ cursor \in Cursors /\ cursor.type \in Nat /\ cursor.sample \in Nat
    BY <1>2 DEF Pointed, Cursors
  <2>2. ASSUME NEW u \in Sources PROVE Len(given[u]) \in Nat /\ Len(built[u].samples) = Len(given[u])
    <3>1. given[u] \in Seq(Givens) /\ Len(built[u].samples) = Len(given[u])
      BY <1>2 DEF Gathered, Tells
    <3>2. Len(given[u]) \in Nat
      <4> DEFINE g == given[u]
      <4> HIDE DEF Givens, g
      <4>1. g \in Seq(Givens)
        BY <3>1 DEF g
      <4>2. Len(g) \in Nat
        BY <4>1
      <4> QED
        BY <4>2 DEF g
    <3> QED
      BY <3>1, <3>2
  <2> QED
    BY <2>1, <2>2
<1>4. \A u \in Sources : ~Refused(u)
  BY <1>2, <1>3 DEF Refused, Gathered
<1>5. SUFFICES Gathered' /\ Pointed' /\ Stacked' /\ \A u \in Sources : \A t \in 1..ValueTypes[u] : Converted(u, t)' = Converted(u, t)
  <2>1. ASSUME \A u \in Sources : \A t \in 1..ValueTypes[u] : Converted(u, t)' = Converted(u, t)
        PROVE  Exported'
    <3>1. ASSUME NEW u \in Sources, NEW t \in 1..ValueTypes[u]
          PROVE  /\ AllFit(dict', encoded'[u][t], u = Timeline)
                 /\ \A y : Says(dict', encoded'[u][t], u = Timeline, y)
                               <=> \E n \in 1..Converted(u, t)' : y = MeantOne(u, t, n)'
      <4>1. Converted(u, t)' = Converted(u, t) /\ \A n : MeantOne(u, t, n)' = MeantOne(u, t, n)
        BY <1>1, <2>1 DEF MeantOne
      <4>2. /\ AllFit(dict, encoded[u][t], u = Timeline)
            /\ \A y : Says(dict, encoded[u][t], u = Timeline, y)
                         <=> \E n \in 1..Converted(u, t) : y = MeantOne(u, t, n)
        BY <1>2 DEF Exported
      <4> QED
        BY <1>1, <4>1, <4>2
    <3> QED
      BY <1>1, <1>2, <3>1 DEF Exported
  <2> QED
    BY <1>1, <1>2, <2>1 DEF Told
(* encode_profiles begins with the first source.                           *)
<1>6. ASSUME epc = "build", Turn(1)
      PROVE  Gathered' /\ Pointed' /\ Stacked' /\ \A u \in Sources : \A t \in 1..ValueTypes[u] : Converted(u, t)' = Converted(u, t)
  <2>1. /\ epc' = "encode" /\ cursor'.source = 1 /\ cursor'.type = 0 /\ cursor'.sample = 1 /\ cursor' \in Cursors
        /\ stackOf' = <<>>
    BY <1>4, <1>6, SourcesAre DEF Turn, Cursors
  <2>2. cursor.source = 1 /\ cursor.type = 0 /\ cursor.sample = 1
    BY <1>2, <1>6 DEF Pointed
  <2>3. Gathered'
    BY <1>1, <1>2, <2>1 DEF Gathered
  <2>4. Pointed'
    BY <1>1, <1>3, <2>1, SourcesAre DEF Pointed
  <2>5. Stacked'
    <3>1. stackOf' \in Seq(Nat) /\ Len(stackOf') = 0
      BY <2>1
    <3> QED
      BY <2>1, <3>1 DEF Stacked
  <2> QED
    BY <1>1, <2>1, <2>2, <2>3, <2>4, <2>5 DEF Converted
(* The samples of a source are done: its next type ...                     *)
<1>7. ASSUME epc = "encode", cursor.sample > Len(built[s].samples), cursor.type < ValueTypes[s],
             cursor' = [cursor EXCEPT !.type = @ + 1, !.sample = 1], UNCHANGED <<epc, stackOf>>
      PROVE  Gathered' /\ Pointed' /\ Stacked' /\ \A u \in Sources : \A t \in 1..ValueTypes[u] : Converted(u, t)' = Converted(u, t)
  <2>1. /\ cursor'.source = s /\ cursor'.type = cursor.type + 1 /\ cursor'.sample = 1 /\ cursor' \in Cursors
        /\ epc' = "encode" /\ stackOf' = stackOf
    <3>1. epc' = "encode" /\ stackOf' = stackOf
      BY <1>7
    <3>2. cursor \in [source : Sources, type : Nat, sample : Nat]
      BY <1>3 DEF Cursors
    <3>3. cursor' = [cursor EXCEPT !.type = cursor.type + 1, !.sample = 1]
      BY <1>7
    <3>4. cursor'.source = cursor.source /\ cursor'.type = cursor.type + 1 /\ cursor'.sample = 1
      BY <3>2, <3>3
    <3>5. cursor' \in [source : Sources, type : Nat, sample : Nat]
      <4>1. cursor.type + 1 \in Nat /\ 1 \in Nat
        BY <1>3
      <4>2. [cursor EXCEPT !.type = cursor.type + 1] \in [source : Sources, type : Nat, sample : Nat]
        BY <3>2, <4>1
      <4>3. cursor' = [[cursor EXCEPT !.type = cursor.type + 1] EXCEPT !.sample = 1]
        BY <3>3
      <4> DEFINE c == [cursor EXCEPT !.type = cursor.type + 1]
      <4> HIDE DEF c
      <4>4. c \in [source : Sources, type : Nat, sample : Nat] /\ cursor' = [c EXCEPT !.sample = 1]
        BY <4>2, <4>3 DEF c
      <4> QED
        BY <4>1, <4>4
    <3> QED
      BY <3>1, <3>4, <3>5 DEF Cursors
  <2>2. cursor.sample = Len(given[s]) + 1
    BY <1>2, <1>3, <1>7 DEF Pointed
  <2>3. Gathered'
    BY <1>1, <1>2, <2>1 DEF Gathered
  <2>4. Pointed'
    BY <1>1, <1>3, <1>7, <2>1, SourcesAre DEF Pointed
  <2>5. Stacked'
    <3>1. cursor'.type # 0 /\ Len(stackOf') = Len(given'[cursor'.source])
      BY <1>1, <1>2, <1>3, <2>1, <2>2 DEF Stacked
    <3> QED
      BY <1>1, <1>2, <2>1, <3>1 DEF Stacked
  <2>6. ASSUME NEW u \in Sources, NEW t \in 1..ValueTypes[u] PROVE Converted(u, t)' = Converted(u, t)
    <3>1. u \in Nat /\ t \in Nat
      BY SourcesAre
    <3> QED
      BY <1>1, <1>3, <2>1, <2>2, <3>1, SourcesAre DEF Converted
  <2> QED
    BY <2>3, <2>4, <2>5, <2>6
(* ... the next source ...                                                 *)
<1>8. ASSUME epc = "encode", cursor.sample > Len(built[s].samples), cursor.type = ValueTypes[s], s # Timeline, Turn(s + 1)
      PROVE  Gathered' /\ Pointed' /\ Stacked' /\ \A u \in Sources : \A t \in 1..ValueTypes[u] : Converted(u, t)' = Converted(u, t)
  <2>0. s + 1 \in Sources /\ s \in Nat
    BY <1>3, <1>8, SourcesAre DEF Sources, Timeline
  <2>1. /\ epc' = "encode" /\ cursor'.source = s + 1 /\ cursor'.type = 0 /\ cursor'.sample = 1 /\ cursor' \in Cursors
        /\ stackOf' = <<>>
    BY <1>4, <1>8, <2>0 DEF Turn, Cursors
  <2>2. cursor.sample = Len(given[s]) + 1
    BY <1>2, <1>3, <1>8 DEF Pointed
  <2>3. Gathered'
    BY <1>1, <1>2, <2>1 DEF Gathered
  <2>4. Pointed'
    BY <1>1, <1>3, <2>0, <2>1, SourcesAre DEF Pointed
  <2>5. Stacked'
    <3>1. stackOf' \in Seq(Nat) /\ Len(stackOf') = 0
      BY <2>1
    <3> QED
      BY <2>1, <3>1 DEF Stacked
  <2>6. ASSUME NEW u \in Sources, NEW t \in 1..ValueTypes[u] PROVE Converted(u, t)' = Converted(u, t)
    <3>1. u \in Nat /\ t \in Nat /\ t >= 1 /\ t <= ValueTypes[u] /\ ValueTypes[u] \in Nat
      BY SourcesAre
    <3>2. CASE u < s
      BY <1>1, <2>0, <2>1, <3>1, <3>2 DEF Converted
    <3>3. CASE u = s
      <4>1. Converted(u, t)' = Len(given[u])
        BY <1>1, <2>0, <2>1, <3>1, <3>3 DEF Converted
      <4>2. t < cursor.type \/ t = cursor.type
        BY <1>8, <3>1, <3>3
      <4>3. Converted(u, t) = Len(given[u])
        BY <1>3, <2>0, <2>2, <3>1, <3>3, <4>2 DEF Converted
      <4> QED
        BY <4>1, <4>3
    <3>4. CASE u > s
      BY <2>0, <2>1, <3>1, <3>4 DEF Converted
    <3> QED
      BY <2>0, <3>1, <3>2, <3>3, <3>4
  <2> QED
    BY <2>3, <2>4, <2>5, <2>6
(* ... or nothing more.                                                    *)
<1>9. ASSUME epc = "encode", cursor.sample > Len(built[s].samples), cursor.type = ValueTypes[s], s = Timeline,
             epc' = "done", UNCHANGED <<cursor, stackOf>>
      PROVE  Gathered' /\ Pointed' /\ Stacked' /\ \A u \in Sources : \A t \in 1..ValueTypes[u] : Converted(u, t)' = Converted(u, t)
  <2>1. cursor.sample = Len(given[s]) + 1
    BY <1>2, <1>3, <1>9 DEF Pointed
  <2>2. Gathered'
    BY <1>1, <1>2, <1>9 DEF Gathered
  <2>3. Pointed'
    BY <1>1, <1>2, <1>9, <2>1 DEF Pointed
  <2>4. Stacked'
    BY <1>1, <1>2, <1>9 DEF Stacked
  <2> QED
    BY <1>1, <1>9, <2>2, <2>3, <2>4 DEF Converted
<1> QED
  BY <1>1, <1>6, <1>7, <1>8, <1>9 DEF TurnOver

LEMMA ToldStep == Told /\ [EncodersNext]_encodersVars => Told'
<1>1. Told /\ UNCHANGED encodersVars => Told'
  <2> SUFFICES ASSUME Told, UNCHANGED encodersVars PROVE Told'
    OBVIOUS
  <2>1. /\ epc' = epc /\ given' = given /\ built' = built /\ stamps' = stamps
        /\ cursor' = cursor /\ dict' = dict /\ stackOf' = stackOf /\ encoded' = encoded
    BY DEF encodersVars
  <2>2. Gathered' /\ Pointed' /\ dict' \in SoundDicts
    BY <2>1 DEF Told, Gathered, Pointed
  <2>3. Stacked'
    BY <2>1 DEF Told, Stacked
  <2>4. Exported'
    BY <2>1 DEF Told, Exported, Converted, MeantOne
  <2> QED
    BY <2>2, <2>3, <2>4 DEF Told
<1> QED
  BY <1>1, AddKeepsTold, InternKeepsTold, ConvertKeepsTold, TurnKeepsTold DEF EncodersNext

(* What the message says is what the window held.                          *)
LEMMA ToldRoundTrips == Told => RoundTrips /\ EncodersTyped
<1> SUFFICES ASSUME Told PROVE RoundTrips /\ EncodersTyped
  OBVIOUS
<1>1. Gathered /\ Pointed /\ dict \in SoundDicts /\ Stacked /\ Exported
  BY DEF Told
<1>2. ASSUME NEW s \in Sources
      PROVE  /\ given[s] \in Seq(Givens) /\ Len(given[s]) \in Nat /\ DOMAIN given[s] = 1..Len(given[s])
             /\ Len(built[s].samples) = Len(given[s])
  <2>1. given[s] \in Seq(Givens) /\ Len(built[s].samples) = Len(given[s])
    BY <1>1 DEF Gathered, Tells
  <2> DEFINE g == given[s]
  <2> HIDE DEF Givens, g
  <2>2. g \in Seq(Givens)
    BY <2>1 DEF g
  <2>3. Len(g) \in Nat /\ DOMAIN g = 1..Len(g)
    BY <2>2
  <2> QED
    BY <2>1, <2>3 DEF g
<1>3. ASSUME NEW id PROVE DecodedStack(id) = DecodedIn(dict, id)
  BY DEF DecodedStack, DecodedIn, Read
<1>4. ASSUME NEW raw, NEW stack
      PROVE  [i \in DOMAIN stack |-> LET a == stack[i] r == Resolved(raw, a)
                                     IN  [address |-> a, mapping |-> r.mapping, lines |-> r.lines]] = TruthOf(raw, stack)
  BY DEF TruthOf, Truth
<1>5. ASSUME NEW s \in Sources, NEW t \in 1..ValueTypes[s]
      PROVE  \A y : y \in Meant(s, t) <=> \E n \in 1..Len(given[s]) : y = MeantOne(s, t, n)
  <2>1. Meant(s, t) = {MeantOne(s, t, n) : n \in DOMAIN given[s]}
    BY <1>4 DEF Meant, MeantOne
  <2> QED
    BY <1>2, <2>1
<1>6. ASSUME NEW s \in Sources, NEW t \in 1..ValueTypes[s]
      PROVE  \A y : y \in Decoded(s, t) <=> Says(dict, encoded[s][t], s = Timeline, y)
  <2> DEFINE entries == encoded[s][t]  timed == s = Timeline
             Of(e) == {Saying(dict, e.stack, e.attributes, e.values[k], IF timed THEN e.times[k] ELSE 0) : k \in DOMAIN e.values}
  <2>1. entries \in Seq(EntryRecs)
    BY <1>1 DEF Exported
  <2>2. Decoded(s, t) = UNION {Of(e) : e \in ToSet(entries)}
    BY <1>3 DEF Decoded, Saying, LabelsIn
  <2>3. ASSUME NEW i \in 1..Len(entries), NEW y PROVE y \in Of(entries[i]) <=> SaidBy(dict, entries[i], timed, y)
    <3>1. DOMAIN entries[i].values = 1..Len(entries[i].values)
      <4> HIDE DEF entries
      <4>1. entries[i].values \in Seq(Nat)
        BY <2>1, EntriesAre
      <4> QED
        BY <4>1
    <3> QED
      BY <3>1 DEF SaidBy
  <2>4. \A e : e \in ToSet(entries) <=> \E i \in 1..Len(entries) : e = entries[i]
    <3>1. DOMAIN entries = 1..Len(entries)
      <4> HIDE DEF entries, EntryRecs
      <4> QED
        BY <2>1
    <3> QED
      BY <3>1 DEF ToSet
  <2> HIDE DEF entries, timed, Of
  <2>5. \A y : y \in Decoded(s, t) <=> \E i \in 1..Len(entries) : y \in Of(entries[i])
    BY <2>2, <2>4
  <2>6. \A y : y \in Decoded(s, t) <=> Says(dict, entries, timed, y)
    BY <2>3, <2>5 DEF Says
  <2> QED
    BY <2>6 DEF entries, timed
<1>7. ASSUME NEW s \in Sources, NEW t \in 1..ValueTypes[s]
      PROVE  Decoded(s, t) \subseteq Meant(s, t) /\ (epc = "done" => Decoded(s, t) = Meant(s, t))
  <2>1. \A y : y \in Decoded(s, t) <=> \E n \in 1..Converted(s, t) : y = MeantOne(s, t, n)
    <3>1. \A y : Says(dict, encoded[s][t], s = Timeline, y) <=> \E n \in 1..Converted(s, t) : y = MeantOne(s, t, n)
      BY <1>1 DEF Exported
    <3>2. \A y : y \in Decoded(s, t) <=> Says(dict, encoded[s][t], s = Timeline, y)
      BY <1>6
    <3> QED
      BY <3>1, <3>2
  <2>2. s \in Nat /\ t \in Nat /\ cursor.source \in Nat /\ cursor.type \in Nat /\ cursor.source \in Sources
    <3>1. cursor.source \in Sources /\ cursor.type \in Nat
      BY <1>1 DEF Pointed, Cursors
    <3>2. s \in Nat /\ ValueTypes[s] \in Nat
      BY SourcesAre
    <3>3. t \in Nat
      BY <3>2
    <3> QED
      BY <3>1, <3>2, <3>3, SourcesAre
  <2>3. Converted(s, t) <= Len(given[s]) /\ Converted(s, t) \in Nat
    BY <1>1, <1>2, <2>2 DEF Converted, Pointed
  <2>4. epc = "done" => Converted(s, t) = Len(given[s])
    <3>1. s <= Timeline /\ t <= ValueTypes[s] /\ ValueTypes[s] \in Nat /\ Timeline \in Nat
      BY SourcesAre DEF Sources, Timeline
    <3> QED
      BY <1>1, <1>2, <2>2, <3>1 DEF Converted, Pointed
  <2>5. Decoded(s, t) \subseteq Meant(s, t)
    BY <1>2, <1>5, <2>1, <2>3
  <2>6. ASSUME epc = "done" PROVE Decoded(s, t) = Meant(s, t)
    <3>1. \A y : y \in Meant(s, t) <=> \E n \in 1..Len(given[s]) : y = MeantOne(s, t, n)
      BY <1>5
    <3>2. \A y : y \in Decoded(s, t) <=> y \in Meant(s, t)
      BY <2>1, <2>4, <2>6, <3>1
    <3> QED
      BY <3>2
  <2> QED
    BY <2>5, <2>6
<1>8. ASSUME NEW s \in Sources, NEW m \in DOMAIN built[s].mappings
      PROVE  built[s].mappings[m].hasFunctions
                = \E l \in ToSet(built[s].locations) : l.mapping = m /\ l.lines # <<>>
  <2> DEFINE p == built[s]  M == p.mappings  L == p.locations
  <2>1. M \in Seq(MappingRecs) /\ L \in Seq(LocationRecs) /\ Flagged(M, L)
    BY <1>1 DEF Gathered, SoundProfiles, Profiles
  <2>2. DOMAIN M = 1..Len(M) /\ DOMAIN L = 1..Len(L) /\ M[m] \in MappingRecs
    <3> HIDE DEF M, L, MappingRecs, LocationRecs
    <3>1. DOMAIN M = 1..Len(M) /\ DOMAIN L = 1..Len(L)
      BY <2>1
    <3>2. m \in DOMAIN M
      BY DEF M
    <3> QED
      BY <2>1, <3>1, <3>2
  <2>3. M[m].hasFunctions <=> \E i \in 1..Len(L) : L[i].mapping = m /\ L[i].lines # <<>>
    BY <2>1, <2>2 DEF Flagged
  <2>4. (\E l \in ToSet(L) : l.mapping = m /\ l.lines # <<>>) <=> \E i \in 1..Len(L) : L[i].mapping = m /\ L[i].lines # <<>>
    BY <2>2 DEF ToSet
  <2>5. M[m].hasFunctions \in BOOLEAN
    BY <2>2 DEF MappingRecs
  <2> QED
    BY <2>3, <2>4, <2>5
<1>9. RoundTrips
  BY <1>1, <1>7, <1>8 DEF RoundTrips, Gathered
<1>10. EncodersTyped
  <2>1. cursor.source \in Sources /\ cursor.type \in 0..ValueTypes[cursor.source]
    BY <1>1, SourcesAre DEF Pointed, Cursors
  <2>2. \A i \in DOMAIN stackOf : stackOf[i] \in DOMAIN dict.stacks
    <3>1. DOMAIN stackOf = 1..Len(stackOf)
      BY <1>1 DEF Stacked
    <3>2. DOMAIN dict.stacks = 1..Len(dict.stacks)
      BY <1>1, DictTables
    <3> QED
      BY <1>1, <3>1, <3>2 DEF Stacked
  <2> QED
    BY <1>1, <1>2, <2>1, <2>2 DEF EncodersTyped, Gathered
<1> QED
  BY <1>9, <1>10

(* Whatever the symbolizer says, and whatever samples the sources hold: at *)
(* every point of encode_profiles (otlp/mod.rs) the entries that are there *)
(* decode, through the dictionary, to samples of the window and to nothing *)
(* else, and when it is done to all of them; a timeline is never refused   *)
(* for its timestamps; and a mapping has the flag has_functions exactly    *)
(* when one of its locations has lines (ProfileBuilder::mapping, pprof.rs).*)
THEOREM EncodersRoundTrip == EncodersSpec => [](RoundTrips /\ EncodersTyped)
  BY ToldFirst, ToldStep, ToldRoundTrips, PTL DEF EncodersSpec
================================================================================
