------------------------------- MODULE MCOffCpu -------------------------------
(* Instances of OffCpu for model checking.                                 *)
EXTENDS OffCpu, TLC

CONSTANTS t1, t2, s1, s2
TwoThreads == {t1, t2}
OneThread  == {t1}
OneStack   == {s1}
TwoStacks  == {s1, s2}
Symmetry   == Permutations(TwoThreads)
=============================================================================
