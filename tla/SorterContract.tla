---------------------------- MODULE SorterContract ----------------------------
(***************************************************************************)
(* What a recording takes a reorder buffer for (CpuSampling's Collect): of *)
(* the samples that wait and those a poll brings, any may go on waiting    *)
(* within the limit, the others leave at once, and at most as many are     *)
(* reported as forced out as there are too many.  SorterBatches, the       *)
(* buffer sample by sample, implements it.                                 *)
(***************************************************************************)
EXTENDS Naturals, FiniteSets

CONSTANTS MaxPending, MaxArrivals

VARIABLES
    waiting, \* the numbers of the samples in the buffer
    brought, \* how many samples the polls have brought
    flushes  \* the forced flushes since the last diagnostics

contractVars == <<waiting, brought, flushes>>

Init == waiting = {} /\ brought = 0 /\ flushes = 0

Excess(n) == IF n >= MaxPending THEN n - MaxPending ELSE 0

Batch ==
    \E last \in brought..MaxArrivals :
        LET all == waiting \cup (brought + 1)..last
        IN  /\ brought' = last
            /\ waiting' \subseteq all /\ Cardinality(waiting') <= MaxPending
            /\ \E more \in 0..Excess(Cardinality(all)) : flushes' = flushes + more

(* The diagnostics of a window that was flushed.                           *)
Report ==
    /\ waiting = {}
    /\ flushes' = 0
    /\ UNCHANGED <<waiting, brought>>

Next == Batch \/ Report

Spec == Init /\ [][Next]_contractVars
=============================================================================
