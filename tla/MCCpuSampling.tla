----------------------------- MODULE MCCpuSampling -----------------------------
(* Instances of CpuSampling for model checking.  Two threads take part:    *)
(* without a cgroup, two of the process of the recording, whose ids may be *)
(* used again; with one, a thread of each of two processes, which come and *)
(* go.                                                                     *)
EXTENDS CpuSampling, TLC

CONSTANTS p1, p2, t1, t2, t3, k1, k2, Kinds
TwoProcesses == {p1, p2}
ThreeThreads == {t1, t2, t3}
TwoOfOne     == t1 :> p1 @@ t2 :> p1 @@ t3 :> p2
TwoKeys      == {k1, k2}

(* The heap counts no stacks, the fewest that are enough, or one too few.  *)
FewHeapCounts == {NoHeap, [usable |-> 9, all |-> 10], [usable |-> 8, all |-> 9]}

(* Windows of any length, without a cgroup: two samples with one stack,    *)
(* and one id used twice or heap stacks.  With a cgroup: every id once,    *)
(* three samples, all with valid stacks, and no heap; as threads and keys  *)
(* are alike there, t1 starts before t3 and the first stack is k1.  Long   *)
(* windows: the threads without samples, since how they are found does not *)
(* depend on what is sampled.                                              *)
Keyed(S) == {s.key : s \in S}
First    == {s \in OnTheWay : s.number = 1}
Fits ==
    CASE long            -> taken = 0 /\ gen[t2] <= 1 /\ gen[t3] <= 1 /\ heap.all # 10
      [] ~long /\ cgroup -> /\ gen[t2] = 0 /\ gen[t3] <= gen[t1] /\ gen[t1] <= 1 /\ heap = NoHeap
                            /\ Bad \notin Keyed(OnTheWay) /\ Keyed(First) \subseteq {k1}
      [] OTHER           -> /\ gen[t3] = 0 /\ gen[t2] <= 1 /\ taken <= 2 /\ k2 \notin Keyed(OnTheWay)
                            /\ gen[t1] = 2 => heap = NoHeap /\ evidence.heap = NoHeap

MCInit == Init /\ cgroup \in Kinds
MCSpec == MCInit /\ [][Next /\ Fits']_vars /\ Fairness
=============================================================================
