------------------------------- MODULE Import -------------------------------
(***************************************************************************)
(* import::run of src/src/platform/linux/import.rs: the samples of a       *)
(* capture, in the order of the file, are sorted into windows by their     *)
(* timestamps.  At most MaxOpen windows wait; then the oldest is written   *)
(* and its samples can no longer be taken in.                              *)
(*                                                                         *)
(* A timestamp is known by the number of its window and a stack is a model *)
(* value.  A sample whose callchain holds no address is skipped after it   *)
(* has set the origin of time.  Thread names, the time a sample stands for *)
(* and the timeline are left out; a window's files are one file.           *)
(***************************************************************************)
EXTENDS Integers, Sequences, FiniteSetsExt

CONSTANTS
    ImportStacks, \* attributed stacks
    MaxOpen,      \* MAX_PENDING_WINDOWS
    MaxDistinct,  \* --max-stacks
    Times,        \* bound: timestamps, in windows
    MaxRecords    \* bound: samples of the capture

ASSUME ImportAssumption ==
    /\ MaxOpen \in Nat \ {0} /\ MaxDistinct \in Nat \ {0}
    /\ Times \subseteq Nat /\ MaxRecords \in Nat

VARIABLES
    ipc,       \* import: "read", "evict", "finish", "done" or "failed"
    firstTime, \* first_timestamp, or -1
    open,      \* windows: index -> what it holds
    flushedBefore, \* flushed_before
    late,      \* late_samples_dropped
    written,   \* disk: the windows, in the order they were written
    records,   \* history: samples read
    skipped,   \* history: samples without an address
    tooLate,   \* history: windows of late samples, with the later windows known then
    known      \* history: indices of windows ever opened

importVars == <<ipc, firstTime, open, flushedBefore, late, written, records, skipped, tooLate, known>>

EmptyWindow == [total |-> 0, stacks |-> {}, aggregated |-> 0, dropped |-> 0]
NoWindows   == [i \in {} |-> EmptyWindow]

ImportInit ==
    /\ ipc = "read" /\ firstTime = -1 /\ open = NoWindows /\ flushedBefore = 0 /\ late = 0
    /\ written = <<>> /\ records = 0 /\ skipped = 0 /\ tooLate = {} /\ known = {}

Oldest(W) == CHOOSE i \in W : \A j \in W : i <= j

(* saturating_sub: a sample from before the first one is in window 0.      *)
(* (Mutant: the difference is taken as it is.)                             *)
Distance(t, first)      == t - first
IndexOf(t, first)       == IF t >= first THEN t - first ELSE 0

(* What the window of index i holds with one more sample of stack s.       *)
Holding(i) == IF i \in DOMAIN open THEN open[i] ELSE EmptyWindow
With(w, s) ==
    IF s \in w.stacks \/ Cardinality(w.stacks) < MaxDistinct
    THEN [w EXCEPT !.total = @ + 1, !.aggregated = @ + 1, !.stacks = @ \cup {s}]
    ELSE [w EXCEPT !.total = @ + 1, !.dropped = @ + 1]

(* A sample record                                                         *)
ReadSample ==
    /\ ipc = "read" /\ records < MaxRecords
    /\ records' = records + 1
    /\ \E t \in Times, s \in ImportStacks \cup {"none"} :
         LET first == IF firstTime = -1 THEN t ELSE firstTime
             i     == IndexOf(t, first)
         IN  /\ firstTime' = first
             /\ \/ /\ i < flushedBefore
                   /\ late' = late + 1
                   /\ tooLate' = tooLate \cup {[index |-> i, after |-> {j \in known : j > i}]}
                   /\ UNCHANGED <<ipc, open, known, skipped>>
                \/ /\ i >= flushedBefore /\ s = "none"
                   /\ skipped' = skipped + 1
                   /\ UNCHANGED <<ipc, open, known, late, tooLate>>
                \/ /\ i >= flushedBefore /\ s # "none"
                   /\ open' = [j \in DOMAIN open \cup {i} |->
                                  IF j = i THEN With(Holding(i), s) ELSE open[j]]
                   /\ known' = known \cup {i}
                   /\ ipc' = "evict"
                   /\ UNCHANGED <<late, tooLate, skipped>>
    /\ UNCHANGED <<flushedBefore, written>>

(* write_import_window; an error ends the import.                          *)
WriteWindow(i) ==
    /\ open' = [j \in DOMAIN open \ {i} |-> open[j]]
    /\ \/ /\ written' = Append(written, [index |-> i, total |-> open[i].total,
                              aggregated |-> open[i].aggregated, dropped |-> open[i].dropped])
          /\ UNCHANGED ipc
       \/ ipc' = "failed" /\ UNCHANGED written

(* (Mutant: one window less waits.)                                        *)
TooManyEarly == Cardinality(DOMAIN open) >= MaxOpen
TooMany      == Cardinality(DOMAIN open) > MaxOpen

(* (Mutant: a written window may still be opened again.)                   *)
Same(i)   == i
Beyond(i) == i + 1

(* The loop after a sample: pop_first and write                            *)
EvictOldest ==
    /\ ipc = "evict" /\ TooMany
    /\ LET i == Oldest(DOMAIN open) IN
         /\ WriteWindow(i)
         /\ flushedBefore' = (IF ipc' = "failed" THEN flushedBefore ELSE Beyond(i))
    /\ UNCHANGED <<firstTime, late, records, skipped, tooLate, known>>

Evicted ==
    /\ ipc = "evict" /\ ~TooMany
    /\ ipc' = "read"
    /\ UNCHANGED <<firstTime, open, flushedBefore, late, written, records, skipped, tooLate, known>>

(* The end of the capture, or a record that cannot be read                 *)
EndOfCapture ==
    /\ ipc = "read"
    /\ \/ ipc' = (IF DOMAIN open = {} /\ written = <<>> THEN "failed" ELSE "finish")
       \/ ipc' = "failed"
    /\ UNCHANGED <<firstTime, open, flushedBefore, late, written, records, skipped, tooLate, known>>

FinishWindow ==
    /\ ipc = "finish" /\ DOMAIN open # {}
    /\ WriteWindow(Oldest(DOMAIN open))
    /\ UNCHANGED <<firstTime, flushedBefore, late, records, skipped, tooLate, known>>

Finished ==
    /\ ipc = "finish" /\ DOMAIN open = {}
    /\ ipc' = "done"
    /\ UNCHANGED <<firstTime, open, flushedBefore, late, written, records, skipped, tooLate, known>>

ImportNext == ReadSample \/ EvictOldest \/ Evicted \/ EndOfCapture \/ FinishWindow \/ Finished

ImportSpec == ImportInit /\ [][ImportNext]_importVars

-----------------------------------------------------------------------------
ImportTyped ==
    /\ ipc \in {"read", "evict", "finish", "done", "failed"}
    /\ firstTime \in Times \cup {-1}
    /\ DOMAIN open \subseteq Nat
    /\ Cardinality(DOMAIN open) <= MaxOpen + 1 /\ (ipc = "read" => Cardinality(DOMAIN open) <= MaxOpen)
    /\ flushedBefore \in Nat /\ late \in Nat /\ skipped \in Nat
    /\ records \in 0..MaxRecords

SamplesIn(windows) == [i \in DOMAIN windows |-> windows[i].total]
SamplesOf(windows) == MapThenSumSet(LAMBDA i : SamplesIn(windows)[i], DOMAIN windows)

(* Every sample of an import that has not failed is in exactly one window  *)
(* or counted as late; the windows are written once each and in the order  *)
(* of time; and a sample is late only when MAX_PENDING_WINDOWS windows     *)
(* after its own have been seen before it (README.md, line 227).           *)
ImportConserves ==
    /\ ipc # "failed" =>
         records = late + skipped + SamplesOf(open) + SamplesOf(written)
    /\ \A i, j \in DOMAIN written : i < j => written[i].index < written[j].index
    /\ \A i \in DOMAIN written : written[i].total = written[i].aggregated + written[i].dropped
    /\ \A l \in tooLate : Cardinality(l.after) >= MaxOpen
=============================================================================
