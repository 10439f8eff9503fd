---------------------------- MODULE SorterBatches -----------------------------
(***************************************************************************)
(* The reorder buffer as ingest_cpu_batch of record.rs uses it: the        *)
(* samples a poll has drained from the rings are pushed one after the      *)
(* other, at the end of a window the buffer is then flushed, and only      *)
(* after that what left it is looked at.                                   *)
(***************************************************************************)
EXTENDS EventSorter

VARIABLES
    intake, \* the batch in progress: none, "poll", "end" of a window, "flush" of the rest
    start   \* history: the buffer when the batch began

batchVars  == <<intake, start>>
sorterVars == <<vars, batchVars>>

Waiting == {s.number : s \in pending}
NoBatch == [waiting |-> {}, arrived |-> 0, forced |-> 0]

BatchesInit == Init /\ intake = "none" /\ start = NoBatch

Ingest ==
    /\ intake = "none"
    /\ intake' \in {"poll", "end"}
    /\ start' = [waiting |-> Waiting, arrived |-> arrived, forced |-> forced]
    /\ UNCHANGED vars

IngestSample ==
    /\ intake \in {"poll", "end"}
    /\ Push \/ EmitReady \/ ForceOldest \/ Pushed
    /\ UNCHANGED batchVars

IngestFlush ==
    /\ intake = "end"
    /\ Flush
    /\ intake' = "flush"
    /\ UNCHANGED start

IngestRest ==
    /\ intake = "flush"
    /\ FlushOldest \/ Flushed
    /\ UNCHANGED batchVars

Ingested ==
    /\ phase = "idle"
    /\ intake = "poll" \/ (intake \in {"end", "flush"} /\ pending = {})
    /\ intake' = "none" /\ start' = NoBatch
    /\ UNCHANGED vars

BatchStats ==
    /\ intake = "none"
    /\ TakeStats
    /\ UNCHANGED batchVars

BatchesNext ==
    Ingest \/ IngestSample \/ IngestFlush \/ IngestRest \/ Ingested \/ BatchStats

BatchesSpec == BatchesInit /\ [][BatchesNext]_sorterVars

-----------------------------------------------------------------------------
BatchesTyped ==
    /\ TypeOK
    /\ intake \in {"none", "poll", "end", "flush"}
    /\ start \in [waiting : SUBSET (1..MaxArrivals), arrived : 0..MaxArrivals, forced : Nat]

(* A batch counts when it has been ingested.                               *)
Between == intake = "none"
Contract == INSTANCE SorterContract WITH
    waiting <- IF Between THEN Waiting ELSE start.waiting,
    brought <- IF Between THEN arrived ELSE start.arrived,
    flushes <- IF Between THEN forced ELSE start.forced

(* However the samples of a batch push each other out, the buffer does to  *)
(* it what CpuSampling allows: nothing from elsewhere waits, the limit     *)
(* holds, and no more forced flushes are reported than samples were too    *)
(* many (event.rs, push; record.rs, ingest_cpu_batch).                     *)
ImplementsContract == Contract!Spec
=============================================================================
