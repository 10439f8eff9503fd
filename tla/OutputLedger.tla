----------------------------- MODULE OutputLedger -----------------------------
(***************************************************************************)
(* OutputPipeline implements WindowLedger, as long as removing an expired  *)
(* window does not fail; the other plans are mapped to no step at all.     *)
(* The worker publishes a window when it announces it and loses it when it *)
(* has rolled it back; until then the window is undecided, in its list of  *)
(* retained windows or not.                                                *)
(***************************************************************************)
EXTENDS OutputPipeline

Undecided == wpc \in {"pprof", "derived", "diag", "prune", "rollback"}

Decided == opened - Count(IsWindow(hold)) - Count(IsWindow(slot)) - Count(Undecided)

(* In "prune" the last retained window is the undecided one.               *)
Published == IF wpc = "prune" THEN SubSeq(retained, 1, Len(retained) - 1) ELSE retained

Reliable == "expire" \notin plan.faults

Ledger == INSTANCE WindowLedger WITH
    decided <- IF Reliable THEN Decided ELSE 0,
    log     <- IF Reliable THEN Published ELSE <<>>,
    lost    <- IF Reliable THEN failed ELSE {}

(* The files and threads of the pipeline amount to the ledger's steps:     *)
(* windows are decided in closing order, each published or lost, and the   *)
(* oldest goes only to make room.                                          *)
ImplementsLedger == Ledger!Spec
=============================================================================
