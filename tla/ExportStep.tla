------------------------------ MODULE ExportStep ------------------------------
(***************************************************************************)
(* What the OTLP client promises to the exporter of the output pipeline,   *)
(* whose TakeExport and ShipExport are these steps: one payload is taken   *)
(* after the other, none that is taken after the abort is sent, and the    *)
(* sending of one is a single step with one truthful outcome, however many *)
(* attempts and lost answers it hides.  OtlpClient implements it.          *)
(***************************************************************************)
EXTENDS Naturals

CONSTANT Payloads

VARIABLES
    phase,     \* "idle", "send" or "done"
    taken,     \* how many payloads were taken from the queue
    held,      \* the endpoint has the last of them
    delivered, \* the last outcome says so
    stopped    \* the recording was aborted

stepVars == <<phase, taken, held, delivered, stopped>>

Init ==
    /\ phase = "idle" /\ taken = 0
    /\ held = FALSE /\ delivered = FALSE /\ stopped = FALSE

Take ==
    /\ phase = "idle"
    /\ taken < Payloads
    /\ taken' = taken + 1
    /\ held' = FALSE
    /\ IF stopped
       THEN delivered' = FALSE /\ UNCHANGED phase
       ELSE phase' = "send" /\ UNCHANGED delivered
    /\ UNCHANGED stopped

(* The endpoint may have taken a payload whose delivery failed.            *)
Ship ==
    /\ phase = "send"
    /\ held' \in BOOLEAN
    /\ delivered' \in {FALSE, held'}
    /\ phase' = "idle"
    /\ UNCHANGED <<taken, stopped>>

Finish ==
    /\ phase = "idle"
    /\ taken = Payloads
    /\ phase' = "done"
    /\ UNCHANGED <<taken, held, delivered, stopped>>

Abort ==
    /\ ~stopped
    /\ stopped' = TRUE
    /\ UNCHANGED <<phase, taken, held, delivered>>

Next == Take \/ Ship \/ Finish \/ Abort

Spec == Init /\ [][Next]_stepVars
=============================================================================
