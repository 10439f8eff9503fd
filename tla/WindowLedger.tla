----------------------------- MODULE WindowLedger -----------------------------
(***************************************************************************)
(* What the output pipeline promises about the windows of a recording,     *)
(* whatever its threads and files do: windows are decided one at a time in *)
(* the order in which they were closed; each is either published or lost;  *)
(* the log of published windows never holds more than KeepWindows, and     *)
(* only a full log gives up a window, its oldest.                          *)
(* README.md, "Output files and retention"; OutputPipeline implements it.  *)
(***************************************************************************)
EXTENDS Naturals, Sequences

CONSTANT KeepWindows

VARIABLES
    decided, \* the number of windows decided
    log,     \* the published windows still kept, oldest first
    lost     \* the windows given up because a write failed

ledgerVars == <<decided, log, lost>>

Init == decided = 0 /\ log = <<>> /\ lost = {}

Publish ==
    /\ Len(log) < KeepWindows
    /\ decided' = decided + 1
    /\ log' = Append(log, decided + 1)
    /\ UNCHANGED lost

Lose ==
    /\ decided' = decided + 1
    /\ lost' = lost \cup {decided + 1}
    /\ UNCHANGED log

Expire ==
    /\ Len(log) = KeepWindows
    /\ log' = Tail(log)
    /\ UNCHANGED <<decided, lost>>

Next == Publish \/ Lose \/ Expire

Spec == Init /\ [][Next]_ledgerVars
=============================================================================
