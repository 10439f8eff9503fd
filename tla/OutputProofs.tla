------------------------------ MODULE OutputProofs ------------------------------
(***************************************************************************)
(* OutputPipeline, for every number of windows, every capacity of the      *)
(* export queue, every retention limit and whatever may fail: its types    *)
(* and its counts, what it leaves on the disk, how a recording ends, and   *)
(* that it implements WindowLedger.                                        *)
(***************************************************************************)
EXTENDS OutputLedger, SequenceTheorems, TLAPS

(* The limits, without the plans.                                          *)
LEMMA Limits == MaxWindows \in Nat /\ MaxSyms \in Nat /\ KeepWindows \in Nat \ {0}
  BY ConstantsAssumption

(* The type of the two channels' contents, used by every step below.       *)
LEMMA CommandType ==
    ASSUME NEW c, c \in Commands \cup {NoCommand}
    PROVE  /\ c.kind \in {"window", "symbolizer", "none"}
           /\ c.window \in 0..MaxWindows
           /\ c.shed \in Nat
           /\ c.sym \in 0..MaxSyms
           /\ c.kind = "none" <=> c = NoCommand
  BY ConstantsAssumption DEF Commands, NoCommand

(* check_completed leaves a natural number of pending windows.             *)
LEMMA CheckType == TypeOK /\ CheckCompleted => pending' \in Nat /\ completions' = <<>>
  BY DEF TypeOK, CheckCompleted, Settled

(* While the worker is busy it executes a window of this recording.        *)
BusyHasWindow == Busy => job.window \in Windows
SlotHasWindow == IsWindow(slot) => slot.window \in Windows
HoldHasWindow == IsWindow(hold) => hold.window \in Windows
ShippingHasWindow == epc \in {"send", "persist", "rewrite"} => shipping.window \in Windows
Typing == TypeOK /\ BusyHasWindow /\ SlotHasWindow /\ HoldHasWindow /\ ShippingHasWindow

USE DEF Windows, recorderVars, channelVars, workerVars, exporterVars, diskVars, historyVars

LEMMA RecorderTyping == Typing /\ Recorder => Typing'
<1> USE DEF Typing, TypeOK, BusyHasWindow, SlotHasWindow, HoldHasWindow, ShippingHasWindow, Busy, IsWindow
<1> SUFFICES ASSUME Typing, Recorder PROVE Typing'
  OBVIOUS
<1>1. CASE Poll
  BY <1>1, CheckType DEF Poll, CheckCompleted
<1>2. CASE CloseWindow
  <2>1. pending' \in Nat /\ completions' = <<>>
    BY <1>2, CheckType DEF CloseWindow
  <2>2. CASE AllWritten
    <3>1. opened + 1 \in Windows
      BY <1>2, ConstantsAssumption DEF CloseWindow
    <3>2. hold' = [kind |-> "window", window |-> opened + 1, shed |-> pending', sym |-> sym]
      BY <1>2, <2>2 DEF CloseWindow
    <3>3. hold' \in Commands /\ hold'.window \in Windows
      BY <2>1, <3>1, <3>2 DEF Commands
    <3> QED
      BY <1>2, <2>1, <2>2, <3>1, <3>3 DEF CloseWindow
  <2>3. CASE ~AllWritten
    BY <1>2, <2>1, <2>3 DEF CloseWindow
  <2> QED
    BY <2>2, <2>3
<1>3. CASE ReplaceSymbolizer
  <2>1. pending' \in Nat /\ completions' = <<>>
    BY <1>3, CheckType DEF ReplaceSymbolizer
  <2>2. CASE AllWritten
    <3>1. sym + 1 \in 0..MaxSyms
      BY <1>3, ConstantsAssumption DEF ReplaceSymbolizer
    <3>2. hold' = [kind |-> "symbolizer", window |-> 0, shed |-> 0, sym |-> sym + 1]
      BY <1>3, <2>2 DEF ReplaceSymbolizer
    <3>3. hold' \in Commands /\ hold'.kind # "window"
      BY <3>1, <3>2, ConstantsAssumption DEF Commands
    <3> QED
      BY <1>3, <2>1, <2>2, <3>1, <3>3 DEF ReplaceSymbolizer
  <2>3. CASE ~AllWritten
    BY <1>3, <2>1, <2>3 DEF ReplaceSymbolizer
  <2> QED
    BY <2>2, <2>3
<1>4. CASE Send
  BY <1>4 DEF Send, NoCommand
<1>5. CASE CollectError
  BY <1>5 DEF CollectError
<1>6. CASE Finish
  BY <1>6 DEF Finish
<1>7. CASE JoinWorker
  <2>1. pending' \in Nat /\ completions' = <<>>
    BY <1>7, CheckType DEF JoinWorker
  <2>2. rpc' \in {"flush", "drop"} /\ (detached' \in BOOLEAN)
    <3>1. CASE AllWritten /\ pending' = 0
      BY <1>7, <3>1 DEF JoinWorker
    <3>2. CASE ~(AllWritten /\ pending' = 0)
      BY <1>7, <3>2 DEF JoinWorker
    <3> QED
      BY <3>1, <3>2
  <2>3. UNCHANGED <<opened, sym, hold, slot, closed, workerVars, exports, epc, shipping, stopping, diskVars, historyVars>>
    BY <1>7 DEF JoinWorker
  <2> QED
    BY <2>1, <2>2, <2>3
<1>8. CASE JoinExporter
  BY <1>8 DEF JoinExporter
<1>9. CASE DropCommands
  BY <1>9 DEF DropCommands
<1>10. CASE CancelExporter
  BY <1>10 DEF CancelExporter
<1>11. CASE JoinCancelled
  BY <1>11 DEF JoinCancelled
<1> QED
  BY <1>1, <1>2, <1>3, <1>4, <1>5, <1>6, <1>7, <1>8, <1>9, <1>10, <1>11 DEF Recorder

(* Adding a file keeps the disk well typed.                                *)
LEMMA PublishType ==
    ASSUME files \in [Windows -> SUBSET FileKinds], NEW w \in Windows, NEW f \in FileKinds, Publish(w, f)
    PROVE  files' \in [Windows -> SUBSET FileKinds]
  BY DEF Publish

(* A rewrite of a diagnostics file keeps the disk well typed.              *)
LEMMA RewriteType ==
    ASSUME files \in [Windows -> SUBSET FileKinds], status \in [Windows -> Statuses],
           NEW w \in Windows, NEW o \in Statuses, Rewrite(w, o)
    PROVE  files' \in [Windows -> SUBSET FileKinds] /\ status' \in [Windows -> Statuses]
  BY PublishType DEF Rewrite, FileKinds

LEMMA WorkerTyping == Typing /\ Worker => Typing'
<1> USE DEF Typing, TypeOK, BusyHasWindow, SlotHasWindow, HoldHasWindow, ShippingHasWindow, Busy, IsWindow
<1> SUFFICES ASSUME Typing, Worker PROVE Typing'
  OBVIOUS
<1>1. CASE TakeSymbolizer
  BY <1>1, CommandType DEF TakeSymbolizer, NoCommand
<1>2. CASE TakeWindow
  BY <1>2 DEF TakeWindow, NoCommand
<1>3. CASE WorkerExit
  BY <1>3 DEF WorkerExit
<1>4. CASE WritePprof
  <2>1. files' \in [Windows -> SUBSET FileKinds]
    BY <1>4, PublishType DEF WritePprof, WriteFails, FileKinds
  <2> QED
    BY <1>4, <2>1 DEF WritePprof, WriteFails
<1>5. CASE WriteDerived
  <2>1. files' \in [Windows -> SUBSET FileKinds]
    BY <1>5, PublishType DEF WriteDerived, WriteFails, FileKinds
  <2> QED
    BY <1>5, <2>1 DEF WriteDerived, WriteFails
<1>6. CASE WriteDiagnostics
  <2>1. \A c, e : FirstStatus(c, e) \in Statuses
    BY DEF FirstStatus, Statuses, Outcomes
  <2>2. job.window \in Windows
    BY <1>6 DEF WriteDiagnostics
  <2>3. files' \in [Windows -> SUBSET FileKinds]
    BY <1>6, <2>2, PublishType DEF WriteDiagnostics, WriteFails, FileKinds
  <2>4. status' \in [Windows -> Statuses]
    <3>1. PICK encoded \in BOOLEAN :
            \/ status' = [status EXCEPT ![job.window] = FirstStatus(job, encoded)]
            \/ status' = [status EXCEPT ![job.window] =
                            IF "diag" \in files'[job.window] THEN FirstStatus(job, encoded) ELSE @]
      BY <1>6 DEF WriteDiagnostics
    <3>2. FirstStatus(job, encoded) \in Statuses /\ status \in [Windows -> Statuses]
      BY <2>1
    <3> QED
      BY <2>2, <3>1, <3>2
  <2>5. retained' \in Seq(Windows) /\ wpc' \in {"prune", "rollback"}
    <3>1. Append(retained, job.window) \in Seq(Windows)
      BY <2>2, AppendProperties
    <3> QED
      BY <1>6, <3>1 DEF WriteDiagnostics, WriteFails
  <2> QED
    BY <1>6, <2>2, <2>3, <2>4, <2>5 DEF WriteDiagnostics
<1>7. CASE ExpireOldest
  <2>1. retained # <<>>
    BY <1>7, Limits DEF ExpireOldest, Oldest
  <2>2. Head(retained) \in Windows /\ Tail(retained) \in Seq(Windows)
    BY <2>1, HeadTailProperties
  <2>3. files' \in [Windows -> SUBSET FileKinds]
    BY <1>7, <2>2 DEF ExpireOldest, Oldest
  <2>4. wpc' \in {"prune", "rollback"} /\ expired' \subseteq Windows /\ retained' \in Seq(Windows)
    BY <1>7, <2>2 DEF ExpireOldest, Oldest
  <2>5. UNCHANGED <<recorderVars, channelVars, job, symbolizer, exporterVars, status, failed, plan>>
    BY <1>7 DEF ExpireOldest, Oldest
  <2>6. job.window \in Windows
    BY <1>7 DEF ExpireOldest, Oldest
  <2> QED
    BY <2>3, <2>4, <2>5, <2>6
<1>8. CASE Announce
  BY <1>8 DEF Announce
<1>9. CASE SubmitExport
  <2>1. job.window \in Windows
    BY <1>9 DEF SubmitExport
  <2>2. files' \in [Windows -> SUBSET FileKinds] /\ status' \in [Windows -> Statuses]
    BY <1>9, <2>1, RewriteType DEF SubmitExport, Statuses
  <2>3. exports' \in Seq(Windows)
    <3>1. Append(exports, job.window) \in Seq(Windows)
      BY <2>1, AppendProperties
    <3> QED
      BY <1>9, <3>1 DEF SubmitExport
  <2> QED
    BY <1>9, <2>1, <2>2, <2>3 DEF SubmitExport
<1>10. CASE Complete
  BY <1>10 DEF Complete, NoCommand
<1>11. CASE RollBack
  <2>1. job.window \in Windows
    BY <1>11 DEF RollBack
  <2>2. files' \in [Windows -> SUBSET FileKinds]
    BY <1>11, <2>1 DEF RollBack
  <2>3. completions' \in Seq(BOOLEAN)
    BY <1>11, AppendProperties DEF RollBack
  <2>4. failed' \subseteq Windows /\ wpc' = "idle" /\ job' = NoCommand
    BY <1>11, <2>1 DEF RollBack
  <2>5. UNCHANGED <<recorderVars, slot, closed, symbolizer, retained, exporterVars, status, expired, plan>>
    BY <1>11 DEF RollBack
  <2> QED
    BY <2>2, <2>3, <2>4, <2>5
<1> QED
  BY <1>1, <1>2, <1>3, <1>4, <1>5, <1>6, <1>7, <1>8, <1>9, <1>10, <1>11 DEF Worker

LEMMA ExporterTyping == Typing /\ Exporter => Typing'
<1> USE DEF Typing, TypeOK, BusyHasWindow, SlotHasWindow, HoldHasWindow, ShippingHasWindow, Busy, IsWindow
<1> SUFFICES ASSUME Typing, Exporter PROVE Typing'
  OBVIOUS
<1>1. CASE TakeExport
  <2>1. Head(exports) \in Windows /\ Tail(exports) \in Seq(Windows)
    BY <1>1, HeadTailProperties DEF TakeExport
  <2>2. shipping' \in [window : 0..MaxWindows, outcome : Outcomes]
    BY <1>1, <2>1, Limits DEF TakeExport, Outcomes
  <2>3. shipping'.window \in Windows
    BY <1>1, <2>1 DEF TakeExport
  <2>4. epc' \in {"send", "persist"} /\ exports' \in Seq(Windows)
    BY <1>1, <2>1 DEF TakeExport
  <2>5. UNCHANGED <<recorderVars, channelVars, workerVars, detached, stopping, diskVars, historyVars>>
    BY <1>1 DEF TakeExport
  <2> QED
    BY <2>2, <2>3, <2>4, <2>5
<1>2. CASE ShipExport
  <2>1. shipping' \in [window : 0..MaxWindows, outcome : Outcomes]
    BY <1>2 DEF ShipExport
  <2>2. shipping'.window = shipping.window /\ epc' = "persist" /\ shipping.window \in Windows
    BY <1>2 DEF ShipExport
  <2>3. UNCHANGED <<recorderVars, channelVars, workerVars, exports, detached, stopping, diskVars, historyVars>>
    BY <1>2 DEF ShipExport
  <2> QED
    BY <2>1, <2>2, <2>3
<1>3. CASE LookForDiagnostics
  BY <1>3 DEF LookForDiagnostics
<1>4. CASE RewriteDiagnostics
  <2>1. shipping.window \in Windows /\ shipping.outcome \in Statuses
    BY <1>4 DEF RewriteDiagnostics, Statuses
  <2>2. files' \in [Windows -> SUBSET FileKinds] /\ status' \in [Windows -> Statuses]
    BY <1>4, <2>1, RewriteType DEF RewriteDiagnostics
  <2> QED
    BY <1>4, <2>2 DEF RewriteDiagnostics
<1>5. CASE ExporterExit
  BY <1>5 DEF ExporterExit
<1> QED
  BY <1>1, <1>2, <1>3, <1>4, <1>5 DEF Exporter

LEMMA TypingInvariant == Spec => []Typing
<1>1. Init => Typing
  <2> SUFFICES ASSUME Init PROVE Typing
    OBVIOUS
  <2>1. BusyHasWindow /\ SlotHasWindow /\ HoldHasWindow /\ ShippingHasWindow
    BY DEF Init, BusyHasWindow, SlotHasWindow, HoldHasWindow, ShippingHasWindow, Busy, IsWindow, NoCommand
  <2>2. epc \in {"idle", "done"} /\ shipping \in [window : 0..MaxWindows, outcome : Outcomes]
    BY ConstantsAssumption DEF Init, NoJob, Outcomes
  <2>3. files \in [Windows -> SUBSET FileKinds] /\ status \in [Windows -> Statuses]
    BY DEF Init, Statuses
  <2>4. completions \in Seq(BOOLEAN) /\ retained \in Seq(Windows) /\ exports \in Seq(Windows)
    BY DEF Init
  <2>5. opened \in 0..MaxWindows /\ sym \in 0..MaxSyms /\ symbolizer \in 0..MaxSyms /\ pending \in Nat
    BY ConstantsAssumption DEF Init
  <2>6. hold = NoCommand /\ slot = NoCommand /\ job = NoCommand /\ rpc = "collect" /\ wpc = "idle"
    BY DEF Init
  <2>7. closed \in BOOLEAN /\ detached \in BOOLEAN /\ stopping \in BOOLEAN /\ failed \subseteq Windows /\ expired \subseteq Windows /\ plan \in Plans
    BY DEF Init
  <2> QED
    BY <2>1, <2>2, <2>3, <2>4, <2>5, <2>6, <2>7 DEF Typing, TypeOK
<1>2. Typing /\ [Next]_vars => Typing'
  <2>1. CASE UNCHANGED vars
    BY <2>1 DEF vars, Typing, TypeOK, BusyHasWindow, SlotHasWindow, HoldHasWindow, ShippingHasWindow, Busy, IsWindow
  <2> QED
    BY <2>1, RecorderTyping, WorkerTyping, ExporterTyping DEF Next, Terminating
<1> QED
  BY <1>1, <1>2, PTL DEF Spec

(* Type correctness: every value the threads, the channels and the disk    *)
(* can hold is of its declared kind, for every instance.                   *)
THEOREM TypeCorrect == Spec => []TypeOK
<1>1. Typing => TypeOK
  BY DEF Typing
<1> QED
  BY <1>1, TypingInvariant, PTL

-----------------------------------------------------------------------------
(* The backlog.  PendingAccounting is inductive with the typing; the bound *)
(* follows because pending is settled just before a command is sent, and   *)
(* the channel and the worker hold at most one window each.                *)

Backlog == PendingAccounting /\ BacklogBounded

LEMMA CheckSettles ==
    ASSUME Typing, PendingAccounting, CheckCompleted
    PROVE  /\ pending' = Count(IsWindow(slot)) + Count(Busy)
           /\ pending' <= 2
           /\ completions' = <<>>
           /\ Len(completions') = 0
  BY DEF Typing, TypeOK, PendingAccounting, CheckCompleted, Settled, Count

LEMMA RecorderBacklog == Typing /\ Typing' /\ Backlog /\ Recorder => Backlog'
<1> USE DEF Backlog, PendingAccounting, BacklogBounded, Busy, IsWindow, Count
<1> SUFFICES ASSUME Typing, Typing', Backlog, Recorder PROVE Backlog'
  OBVIOUS
<1>0. pending \in Nat /\ pending' \in Nat /\ Len(completions) \in Nat
  BY DEF Typing, TypeOK
<1>1. CASE Poll
  <2>1. UNCHANGED <<slot, wpc>> /\ rpc' # "send"
    BY <1>1 DEF Poll
  <2> QED
    BY <1>1, <2>1, CheckSettles DEF Poll
<1>2. CASE CloseWindow
  <2>1. UNCHANGED <<slot, wpc>> /\ CheckCompleted
    BY <1>2 DEF CloseWindow
  <2>2. rpc' = "send" => hold'.shed = pending'
    BY <1>2 DEF CloseWindow
  <2> QED
    BY <2>1, <2>2, CheckSettles
<1>3. CASE ReplaceSymbolizer
  <2>1. UNCHANGED <<slot, wpc>> /\ CheckCompleted
    BY <1>3 DEF ReplaceSymbolizer
  <2>2. rpc' = "send" => hold'.shed = 0
    BY <1>3 DEF ReplaceSymbolizer
  <2> QED
    BY <2>1, <2>2, CheckSettles
<1>4. CASE Send
  <2>1. UNCHANGED <<wpc, completions>> /\ slot.kind # "window" /\ slot' = hold /\ rpc' # "send"
    BY <1>4 DEF Send, NoCommand
  <2>2. pending' = (IF hold.kind = "window" THEN pending + 1 ELSE pending) /\ pending <= 2
    BY <1>4 DEF Send
  <2> QED
    BY <1>0, <2>1, <2>2
<1>5. CASE JoinWorker
  <2>1. UNCHANGED <<slot, wpc>> /\ CheckCompleted /\ rpc' # "send"
    BY <1>5 DEF JoinWorker
  <2> QED
    BY <2>1, CheckSettles
<1>6. CASE CollectError \/ Finish \/ JoinExporter \/ DropCommands \/ CancelExporter \/ JoinCancelled
  <2>1. UNCHANGED <<slot, wpc, pending, completions>> /\ rpc' # "send"
    BY <1>6 DEF CollectError, Finish, JoinExporter, DropCommands, CancelExporter, JoinCancelled
  <2> QED
    BY <2>1
<1> QED
  BY <1>1, <1>2, <1>3, <1>4, <1>5, <1>6 DEF Recorder

LEMMA WorkerBacklog == Typing /\ Backlog /\ Worker => Backlog'
<1> USE DEF Backlog, PendingAccounting, BacklogBounded, Busy, IsWindow, Count
<1> SUFFICES ASSUME Typing, Backlog, Worker PROVE Backlog'
  OBVIOUS
<1>0. pending \in Nat /\ Len(completions) \in Nat /\ completions \in Seq(BOOLEAN)
  BY DEF Typing, TypeOK
<1>1. UNCHANGED <<rpc, pending, hold>>
  BY DEF Worker, TakeSymbolizer, TakeWindow, WorkerExit, WritePprof, WriteDerived, WriteDiagnostics,
         ExpireOldest, Announce, SubmitExport, Complete, RollBack
<1>2. CASE TakeSymbolizer
  BY <1>1, <1>2 DEF TakeSymbolizer, NoCommand
<1>3. CASE TakeWindow
  BY <1>0, <1>1, <1>3 DEF TakeWindow, NoCommand
<1>4. CASE WorkerExit
  BY <1>1, <1>4 DEF WorkerExit
<1>5. CASE WritePprof \/ WriteDerived \/ WriteDiagnostics \/ ExpireOldest \/ Announce \/ SubmitExport
  <2>1. UNCHANGED <<slot, completions>>
    BY <1>5 DEF WritePprof, WriteDerived, WriteDiagnostics, ExpireOldest, Announce, SubmitExport
  <2>2. Busy /\ Busy'
    BY <1>5 DEF WritePprof, WriteDerived, WriteDiagnostics, ExpireOldest, Announce, SubmitExport, WriteFails
  <2> QED
    BY <1>1, <2>1, <2>2
<1>6. CASE Complete \/ RollBack
  <2>1. UNCHANGED slot /\ Busy /\ ~Busy'
    BY <1>6 DEF Complete, RollBack
  <2>2. Len(completions') = Len(completions) + 1
    <3>1. Len(Append(completions, TRUE)) = Len(completions) + 1 /\ Len(Append(completions, FALSE)) = Len(completions) + 1
      BY <1>0, AppendProperties
    <3> QED
      BY <1>6, <3>1 DEF Complete, RollBack
  <2> QED
    BY <1>0, <1>1, <2>1, <2>2
<1> QED
  BY <1>2, <1>3, <1>4, <1>5, <1>6 DEF Worker

LEMMA ExporterBacklog == Backlog /\ Exporter => Backlog'
  BY DEF Backlog, PendingAccounting, BacklogBounded, Busy, IsWindow, Count, Exporter,
         TakeExport, ShipExport, LookForDiagnostics, RewriteDiagnostics, ExporterExit

(* OutputWriter.pending is exact, so its saturating subtraction never      *)
(* saturates and a successful join leaves nothing pending; collection is   *)
(* never more than three windows ahead of the output worker.               *)
THEOREM BacklogCorrect == Spec => [](PendingAccounting /\ BacklogBounded)
<1>1. Init => Backlog
  BY DEF Init, Backlog, PendingAccounting, BacklogBounded, Busy, IsWindow, Count, NoCommand
<1>2. Typing /\ Typing' /\ Backlog /\ [Next]_vars => Backlog'
  <2>1. CASE UNCHANGED vars
    BY <2>1 DEF vars, Backlog, PendingAccounting, BacklogBounded, Busy, IsWindow, Count
  <2> QED
    BY <2>1, RecorderBacklog, WorkerBacklog, ExporterBacklog DEF Next, Terminating
<1>3. Backlog => PendingAccounting /\ BacklogBounded
  BY DEF Backlog
<1> QED
  BY <1>1, <1>2, <1>3, TypingInvariant, PTL DEF Spec

-----------------------------------------------------------------------------
(* Symbolizers.  The version the worker should own is the last one that    *)
(* entered the channel; the channel holds one command, so it is either in  *)
(* the channel still or with the worker.                                   *)

Sent == IF hold.kind = "symbolizer" THEN sym - 1 ELSE sym
SymbolizerChain ==
    /\ rpc # "send" => hold = NoCommand
    /\ rpc = "send" => hold.sym = sym
    /\ slot # NoCommand => slot.sym = Sent
    /\ slot.kind # "symbolizer" => symbolizer = Sent
    /\ SymbolizerMatchesWindow

LEMMA RecorderSymbolizer == Typing /\ SymbolizerChain /\ Recorder => SymbolizerChain'
<1> USE DEF SymbolizerChain, SymbolizerMatchesWindow, Sent, Busy
<1> SUFFICES ASSUME Typing, SymbolizerChain, Recorder PROVE SymbolizerChain'
  OBVIOUS
<1>1. sym \in Nat /\ NoCommand.kind = "none"
  BY ConstantsAssumption DEF Typing, TypeOK, NoCommand
<1>2. UNCHANGED <<wpc, job, symbolizer>>
  BY DEF Recorder, Poll, CloseWindow, ReplaceSymbolizer, Send, CollectError, Finish, JoinWorker,
         JoinExporter, DropCommands, CancelExporter, JoinCancelled
<1>3. CASE CloseWindow
  BY <1>1, <1>2, <1>3 DEF CloseWindow
<1>4. CASE ReplaceSymbolizer
  BY <1>1, <1>2, <1>4 DEF ReplaceSymbolizer
<1>5. CASE Send
  <2>1. slot = NoCommand /\ symbolizer = Sent /\ slot' = hold /\ hold' = NoCommand /\ sym' = sym
    BY <1>1, <1>5 DEF Send
  <2>2. Sent' = sym
    BY <1>1, <2>1
  <2>3. hold.kind # "symbolizer" => Sent = sym
    OBVIOUS
  <2>4. hold.sym = sym /\ rpc' = "collect"
    BY <1>5 DEF Send
  <2> QED
    BY <1>1, <1>2, <2>1, <2>2, <2>3, <2>4
<1>6. CASE Poll \/ CollectError \/ Finish \/ JoinWorker \/ JoinExporter \/ DropCommands \/ CancelExporter \/ JoinCancelled
  <2>1. UNCHANGED <<slot, hold, sym>> /\ rpc # "send" /\ rpc' # "send"
    BY <1>6 DEF Poll, CollectError, Finish, JoinWorker, JoinExporter, DropCommands, CancelExporter, JoinCancelled
  <2> QED
    BY <1>2, <2>1
<1> QED
  BY <1>3, <1>4, <1>5, <1>6 DEF Recorder

LEMMA WorkerSymbolizer == Typing /\ SymbolizerChain /\ Worker => SymbolizerChain'
<1> USE DEF SymbolizerChain, SymbolizerMatchesWindow, Sent, Busy
<1> SUFFICES ASSUME Typing, SymbolizerChain, Worker PROVE SymbolizerChain'
  OBVIOUS
<1>1. UNCHANGED <<rpc, hold, sym>> /\ NoCommand.kind = "none"
  BY DEF Worker, TakeSymbolizer, TakeWindow, WorkerExit, WritePprof, WriteDerived, WriteDiagnostics,
         ExpireOldest, Announce, SubmitExport, Complete, RollBack, NoCommand
<1>2. CASE TakeSymbolizer
  BY <1>1, <1>2 DEF TakeSymbolizer
<1>3. CASE TakeWindow
  BY <1>1, <1>3 DEF TakeWindow
<1>4. CASE WorkerExit \/ Complete \/ RollBack
  <2>1. UNCHANGED <<slot, symbolizer>> /\ ~Busy'
    BY <1>4 DEF WorkerExit, Complete, RollBack
  <2> QED
    BY <1>1, <2>1
<1>5. CASE WritePprof \/ WriteDerived \/ WriteDiagnostics \/ ExpireOldest \/ Announce \/ SubmitExport
  <2>1. UNCHANGED <<slot, symbolizer, job>> /\ Busy
    BY <1>5 DEF WritePprof, WriteDerived, WriteDiagnostics, ExpireOldest, Announce, SubmitExport
  <2> QED
    BY <1>1, <2>1
<1> QED
  BY <1>2, <1>3, <1>4, <1>5 DEF Worker

LEMMA ExporterSymbolizer == SymbolizerChain /\ Exporter => SymbolizerChain'
  BY DEF SymbolizerChain, SymbolizerMatchesWindow, Sent, Busy, Exporter,
         TakeExport, ShipExport, LookForDiagnostics, RewriteDiagnostics, ExporterExit

(* Every window is written with the symbolizer that was current when it    *)
(* was closed, in spite of the queue between recorder and worker.          *)
THEOREM SymbolizerCorrect == Spec => []SymbolizerMatchesWindow
<1>1. Init => SymbolizerChain
  BY DEF Init, SymbolizerChain, SymbolizerMatchesWindow, Sent, Busy, NoCommand
<1>2. Typing /\ SymbolizerChain /\ [Next]_vars => SymbolizerChain'
  <2>1. CASE UNCHANGED vars
    BY <2>1 DEF vars, SymbolizerChain, SymbolizerMatchesWindow, Sent, Busy
  <2> QED
    BY <2>1, RecorderSymbolizer, WorkerSymbolizer, ExporterSymbolizer DEF Next, Terminating
<1>3. SymbolizerChain => SymbolizerMatchesWindow
  BY DEF SymbolizerChain
<1> QED
  BY <1>1, <1>2, <1>3, TypingInvariant, PTL DEF Spec

-----------------------------------------------------------------------------
(* What is left on the disk.  The windows pass the three threads in the    *)
(* order of their names: those that are over, the one that is being        *)
(* written, the one in the channel, the one that is being sent.  What a    *)
(* thread does to the files of a window is therefore never undone by a     *)
(* later write to the same window.                                         *)

Active == epc \in {"send", "persist", "rewrite"}

(* What the recorder's steps, the worker's and the exporter's leave alone. *)
LEMMA RecorderFrame ==
    Recorder => UNCHANGED <<wpc, job, retained, exports, epc, shipping, files, status, failed, expired, plan>>
  BY DEF Recorder, Poll, CloseWindow, ReplaceSymbolizer, Send, CollectError, Finish, JoinWorker,
         JoinExporter, DropCommands, CancelExporter, JoinCancelled

LEMMA WorkerFrame ==
    Worker => UNCHANGED <<rpc, opened, hold, closed, epc, shipping, plan>>
  BY DEF Worker, TakeSymbolizer, TakeWindow, WorkerExit, WritePprof, WriteDerived, WriteDiagnostics,
         ExpireOldest, Announce, SubmitExport, Complete, RollBack

LEMMA ExporterFrame ==
    Exporter => UNCHANGED <<rpc, opened, hold, slot, closed, completions, wpc, job, retained, failed, expired, plan>>
  BY DEF Exporter, TakeExport, ShipExport, LookForDiagnostics, RewriteDiagnostics, ExporterExit

-----------------------------------------------------------------------------
(* The windows in flight are in the order of their names.                  *)

HoldLatest == IsWindow(hold) => rpc = "send" /\ hold.window = opened
SlotPast   == IsWindow(slot) => slot.window <= opened /\ (IsWindow(hold) => slot.window < opened)

(* w was closed before what is being sent and what is in the channel ...   *)
Past(w) ==
    /\ w <= opened
    /\ IsWindow(hold) => w < opened
    /\ IsWindow(slot) => w < slot.window

(* ... and before what is being written.                                   *)
Older(w) == Past(w) /\ (Busy => w < job.window)

JobPast == Busy => Past(job.window)
Flow == HoldLatest /\ SlotPast /\ JobPast

LEMMA FlowInit == Init => Flow
  BY DEF Init, Flow, HoldLatest, SlotPast, JobPast, Past, Busy, IsWindow, NoCommand

(* A step of the recorder keeps the order: a new window is the latest.     *)
LEMMA RecorderAges ==
    ASSUME Typing, Typing', Flow, Recorder
    PROVE  /\ Flow'
           /\ \A w \in Windows : Past(w) => Past(w)'
           /\ \A w \in Windows : Older(w) => Older(w)'
<1> USE DEF IsWindow
<1>1. UNCHANGED <<wpc, job>> /\ Busy' = Busy /\ NoCommand.kind = "none"
  BY RecorderFrame DEF Busy, NoCommand
<1>2. opened \in Nat /\ opened' \in Nat
  BY Limits DEF Typing, TypeOK
<1>3. HoldLatest' /\ SlotPast' /\ \A w \in Windows : Past(w) => Past(w)'
  <2>1. CASE CloseWindow
    <3>1. UNCHANGED slot /\ rpc = "collect"
      BY <2>1 DEF CloseWindow
    <3>2. \/ UNCHANGED <<opened, hold>>
          \/ rpc' = "send" /\ opened' = opened + 1 /\ hold'.kind = "window" /\ hold'.window = opened + 1
      BY <2>1 DEF CloseWindow
    <3>3. ~IsWindow(hold)
      BY <3>1 DEF Flow, HoldLatest
    <3>4. IsWindow(slot) => slot.window \in Nat
      BY DEF Typing, SlotHasWindow
    <3> QED
      BY <1>2, <3>1, <3>2, <3>3, <3>4 DEF Flow, HoldLatest, SlotPast, Past
  <2>2. CASE ReplaceSymbolizer
    <3>1. UNCHANGED <<slot, opened>> /\ ~IsWindow(hold)
      BY <2>2 DEF ReplaceSymbolizer, Flow, HoldLatest
    <3>2. ~IsWindow(hold')
      BY <2>2, <3>1 DEF ReplaceSymbolizer
    <3> QED
      BY <3>1, <3>2 DEF Flow, HoldLatest, SlotPast, Past
  <2>3. CASE Send
    <3>1. ~IsWindow(slot) /\ slot' = hold /\ ~IsWindow(hold') /\ opened' = opened
      BY <1>1, <2>3 DEF Send
    <3>2. IsWindow(hold) => hold.window = opened
      BY DEF Flow, HoldLatest
    <3> QED
      BY <1>2, <3>1, <3>2 DEF HoldLatest, SlotPast, Past
  <2>4. CASE Poll \/ CollectError \/ Finish \/ JoinWorker \/ JoinExporter \/ DropCommands \/ CancelExporter \/ JoinCancelled
    <3>1. UNCHANGED <<slot, opened, hold>> /\ rpc # "send"
      BY <2>4 DEF Poll, CollectError, Finish, JoinWorker, JoinExporter, DropCommands, CancelExporter, JoinCancelled
    <3>2. ~IsWindow(hold)
      BY <3>1 DEF Flow, HoldLatest
    <3> QED
      BY <3>1, <3>2 DEF Flow, HoldLatest, SlotPast, Past
  <2> QED
    BY <2>1, <2>2, <2>3, <2>4 DEF Recorder
<1>4. JobPast'
  BY <1>1, <1>3 DEF Flow, JobPast, Typing, BusyHasWindow
<1> QED
  BY <1>1, <1>3, <1>4 DEF Flow, Older

LEMMA WorkerAges ==
    ASSUME Typing, Typing', Flow, Worker
    PROVE  /\ Flow'
           /\ \A w \in Windows : Past(w) => Past(w)'
           /\ \A w \in Windows : Older(w) => Older(w)'
<1> USE DEF IsWindow
<1>1. UNCHANGED <<rpc, opened, hold>> /\ NoCommand.kind = "none"
  BY WorkerFrame DEF NoCommand
<1>2. CASE TakeWindow
  <2>1. ~Busy /\ IsWindow(slot) /\ job' = slot /\ ~IsWindow(slot') /\ Busy'
    BY <1>1, <1>2 DEF TakeWindow, Busy
  <2> QED
    BY <1>1, <2>1 DEF Flow, HoldLatest, SlotPast, JobPast, Past, Older
<1>3. CASE TakeSymbolizer
  <2>1. ~Busy' /\ ~IsWindow(slot')
    BY <1>1, <1>3 DEF TakeSymbolizer, Busy
  <2> QED
    BY <1>1, <2>1 DEF Flow, HoldLatest, SlotPast, JobPast, Past, Older
<1>4. CASE WorkerExit \/ Complete \/ RollBack
  <2>1. ~Busy' /\ UNCHANGED slot
    BY <1>4 DEF WorkerExit, Complete, RollBack, Busy
  <2> QED
    BY <1>1, <2>1 DEF Flow, HoldLatest, SlotPast, JobPast, Past, Older
<1>5. CASE WritePprof \/ WriteDerived \/ WriteDiagnostics \/ ExpireOldest \/ Announce \/ SubmitExport
  <2>1. Busy /\ UNCHANGED <<slot, job>>
    BY <1>5 DEF WritePprof, WriteDerived, WriteDiagnostics, ExpireOldest, Announce, SubmitExport, Busy
  <2> QED
    BY <1>1, <2>1 DEF Flow, HoldLatest, SlotPast, JobPast, Past, Older
<1> QED
  BY <1>2, <1>3, <1>4, <1>5 DEF Worker

LEMMA ExporterAges ==
    ASSUME Flow, Exporter
    PROVE  /\ Flow'
           /\ \A w \in Windows : Past(w) => Past(w)'
           /\ \A w \in Windows : Older(w) => Older(w)'
  BY ExporterFrame DEF Flow, HoldLatest, SlotPast, JobPast, Past, Older, Busy, IsWindow

-----------------------------------------------------------------------------
(* The windows that are over, and those that are retained or exported.     *)

(* A window that may be exported: it was written, and stays so.            *)
Shipped(w) ==
    /\ Past(w) /\ w \notin failed
    /\ Busy => w < job.window \/ (w = job.window /\ wpc = "written")

(* A window that is retained: it was written, or is about to fail.         *)
Written(w) ==
    /\ Past(w)
    /\ Busy => w < job.window \/ (w = job.window /\ wpc \notin {"pprof", "derived", "diag"})

Increasing == \A i, j \in 1..Len(retained) : i < j => retained[i] < retained[j]
JobLast    == wpc \in {"prune", "export", "written"} =>
                Len(retained) > 0 /\ retained[Len(retained)] = job.window

Histories ==
    /\ \A w \in failed : Older(w)
    /\ \A w \in expired : Older(w)
    /\ \A i \in 1..Len(retained) : Written(retained[i])
    /\ \A i \in 1..Len(exports) : Shipped(exports[i])
    /\ Active => Shipped(shipping.window)
    /\ Increasing /\ JobLast

LEMMA HistoriesInit == Init => Histories
  BY DEF Init, Histories, Increasing, JobLast, Active

(* What the sequences hold are windows.                                    *)
LEMMA Elements ==
    ASSUME Typing
    PROVE  /\ retained \in Seq(Windows) /\ Len(retained) \in Nat
           /\ exports \in Seq(Windows) /\ Len(exports) \in Nat
           /\ \A i \in 1..Len(retained) : retained[i] \in Windows
           /\ \A i \in 1..Len(exports) : exports[i] \in Windows
           /\ failed \subseteq Windows /\ expired \subseteq Windows
           /\ Windows \subseteq Nat
<1>1. retained \in Seq(Windows) /\ exports \in Seq(Windows) /\ failed \subseteq Windows /\ expired \subseteq Windows
  BY DEF Typing, TypeOK
<1>2. \A i \in 1..Len(retained) : retained[i] \in Windows
  BY <1>1, ElementOfSeq
<1>3. \A i \in 1..Len(exports) : exports[i] \in Windows
  BY <1>1, ElementOfSeq
<1>4. Len(retained) \in Nat /\ Len(exports) \in Nat
  BY <1>1, LenProperties
<1> QED
  BY <1>1, <1>2, <1>3, <1>4, Limits

LEMMA RecorderHistories == Typing /\ Typing' /\ Flow /\ Histories /\ Recorder => Histories'
<1> SUFFICES ASSUME Typing, Typing', Flow, Histories, Recorder PROVE Histories'
  OBVIOUS
<1>1. UNCHANGED <<wpc, job, retained, exports, epc, shipping, failed, expired>>
  BY RecorderFrame
<1>2. \A w \in Windows : (Past(w) => Past(w)') /\ (Older(w) => Older(w)')
  BY RecorderAges
<1>3. \A w \in Windows : (Shipped(w) => Shipped(w)') /\ (Written(w) => Written(w)')
  BY <1>1, <1>2 DEF Shipped, Written, Busy
<1>4. Increasing' /\ JobLast'
  BY <1>1 DEF Histories, Increasing, JobLast
<1>5. Active' => Shipped(shipping.window)'
  BY <1>1, <1>3 DEF Histories, Active, Typing, ShippingHasWindow
<1> QED
  BY <1>1, <1>2, <1>3, <1>4, <1>5, Elements DEF Histories

LEMMA ExporterHistories == Typing /\ Typing' /\ Flow /\ Histories /\ Exporter => Histories'
<1> SUFFICES ASSUME Typing, Typing', Flow, Histories, Exporter PROVE Histories'
  OBVIOUS
<1>1. UNCHANGED <<rpc, opened, hold, slot, wpc, job, retained, failed, expired>>
  BY ExporterFrame
<1>2. Increasing' /\ JobLast'
  BY <1>1 DEF Histories, Increasing, JobLast
<1>3. /\ \A i \in 1..Len(exports') : Shipped(exports'[i])
      /\ Active' => Shipped(shipping'.window)
  <2>1. CASE TakeExport
    <3>1. exports # <<>> /\ exports' = Tail(exports) /\ shipping'.window = Head(exports)
      BY <2>1 DEF TakeExport
    <3>2. /\ Len(exports) \in Nat /\ Len(exports) > 0 /\ Len(exports') = Len(exports) - 1
          /\ \A i \in 1..Len(exports') : exports'[i] = exports[i + 1]
          /\ Head(exports) = exports[1]
      BY <3>1, Elements, HeadTailProperties, EmptySeq
    <3>3. \A i \in 1..Len(exports') : i + 1 \in 1..Len(exports)
      BY <3>2
    <3> QED
      BY <3>1, <3>2, <3>3 DEF Histories
  <2>2. CASE ShipExport \/ LookForDiagnostics \/ RewriteDiagnostics \/ ExporterExit
    <3>1. exports' = exports /\ (Active' => Active /\ shipping'.window = shipping.window)
      BY <2>2 DEF ShipExport, LookForDiagnostics, RewriteDiagnostics, ExporterExit, Active, Typing, TypeOK
    <3> QED
      BY <3>1 DEF Histories
  <2> QED
    BY <2>1, <2>2 DEF Exporter
<1>4. /\ \A w \in failed' : Older(w)'
      /\ \A w \in expired' : Older(w)'
      /\ \A i \in 1..Len(retained') : Written(retained[i])'
  BY <1>1 DEF Histories, Older, Written, Past, Busy, IsWindow
<1>5. /\ \A i \in 1..Len(exports') : Shipped(exports[i])'
      /\ Active' => Shipped(shipping.window)'
  BY <1>1, <1>3 DEF Shipped, Past, Busy, IsWindow
<1> QED
  BY <1>2, <1>4, <1>5 DEF Histories

LEMMA WorkerHistories == Typing /\ Typing' /\ Flow /\ Histories /\ Worker => Histories'
<1> SUFFICES ASSUME Typing, Typing', Flow, Histories, Worker PROVE Histories'
  OBVIOUS
<1>1. \A w \in Windows : (Past(w) => Past(w)') /\ (Older(w) => Older(w)')
  BY WorkerAges
<1>2. UNCHANGED <<epc, shipping>> /\ (Active => shipping.window \in Windows)
  BY WorkerFrame DEF Typing, ShippingHasWindow, Active
<1>3. Busy => job.window \in Windows
  BY DEF Typing, BusyHasWindow
<1>4. CASE TakeSymbolizer \/ TakeWindow \/ WorkerExit \/ Complete
  <2>1. /\ UNCHANGED <<retained, exports, failed, expired>>
        /\ wpc' \notin {"prune", "export", "written"}
        /\ ~Busy \/ (wpc = "written" /\ ~Busy')
    BY <1>4 DEF TakeSymbolizer, TakeWindow, WorkerExit, Complete, Busy
  <2>2. \A w \in Windows : (Shipped(w) => Shipped(w)') /\ (Written(w) => Written(w)')
    BY <1>1, <2>1 DEF Shipped, Written, Older
  <2> QED
    BY <1>1, <1>2, <2>1, <2>2, Elements DEF Histories, Increasing, JobLast, Active
<1>5. CASE WritePprof \/ WriteDerived
  <2>1. /\ UNCHANGED <<retained, exports, failed, expired, job>>
        /\ wpc \in {"pprof", "derived"} /\ wpc' \in {"derived", "diag", "rollback"}
    BY <1>5 DEF WritePprof, WriteDerived, WriteFails
  <2>2. \A w \in Windows : (Shipped(w) => Shipped(w)') /\ (Written(w) => Written(w)')
    BY <1>1, <2>1 DEF Shipped, Written, Busy
  <2> QED
    BY <1>1, <1>2, <2>1, <2>2, Elements DEF Histories, Increasing, JobLast, Active
<1>6. CASE WriteDiagnostics
  <2>1. /\ UNCHANGED <<exports, failed, expired, job>>
        /\ wpc = "diag" /\ Busy
        /\ \/ wpc' = "rollback" /\ retained' = retained
           \/ wpc' = "prune" /\ retained' = Append(retained, job.window)
    BY <1>6 DEF WriteDiagnostics, WriteFails, Busy
  <2>2. \A w \in Windows : (Shipped(w) => Shipped(w)') /\ (Written(w) => Written(w)')
    BY <1>1, <2>1 DEF Shipped, Written, Busy
  <2>3. CASE wpc' = "rollback" /\ retained' = retained
    BY <1>1, <1>2, <2>1, <2>2, <2>3, Elements DEF Histories, Increasing, JobLast, Active
  <2>4. CASE wpc' = "prune" /\ retained' = Append(retained, job.window)
    <3>1. /\ Len(retained') = Len(retained) + 1
          /\ \A i \in 1..Len(retained) : retained'[i] = retained[i]
          /\ retained'[Len(retained) + 1] = job.window
      BY <1>3, <2>1, <2>4, Elements, AppendProperties
    <3>2. \A i \in 1..Len(retained') : i \in 1..Len(retained) \/ i = Len(retained) + 1
      BY <3>1, Elements
    <3>3. \A i \in 1..Len(retained) : retained[i] < job.window
      BY <2>1 DEF Histories, Written
    <3>4. Written(job.window)'
      BY <1>1, <1>3, <2>1, <2>4 DEF Written, Flow, JobPast
    <3>5. Increasing'
      BY <3>1, <3>2, <3>3, Elements DEF Histories, Increasing
    <3>6. JobLast'
      BY <2>1, <2>4, <3>1, Elements DEF JobLast
    <3>7. \A i \in 1..Len(retained) : Written(retained[i])'
      BY <2>2, <3>1, Elements DEF Histories
    <3>8. \A i \in 1..Len(retained') : Written(retained[i])'
      BY <2>1, <3>1, <3>2, <3>4, <3>7, Elements DEF Written, Past, Busy
    <3> QED
      BY <1>1, <1>2, <2>1, <2>2, <3>5, <3>6, <3>8, Elements DEF Histories, Active
  <2> QED
    BY <2>1, <2>3, <2>4
<1>7. CASE ExpireOldest
  <2>1. /\ UNCHANGED <<exports, failed, job>>
        /\ wpc = "prune" /\ Busy /\ wpc' \in {"prune", "rollback"}
        /\ Len(retained) > KeepWindows
        /\ retained' = Tail(retained) /\ expired' = expired \cup {Head(retained)}
    BY <1>7 DEF ExpireOldest, Oldest, Busy
  <2>2. /\ retained # <<>> /\ Len(retained) > 1
        /\ Len(retained') = Len(retained) - 1
        /\ \A i \in 1..Len(retained') : retained'[i] = retained[i + 1] /\ i + 1 \in 1..Len(retained)
        /\ Head(retained) = retained[1]
    <3>1. retained # <<>> /\ Len(retained) > 1
      BY <2>1, Limits, Elements
    <3> QED
      BY <2>1, <3>1, Elements, HeadTailProperties
  <2>3. \A w \in Windows : (Shipped(w) => Shipped(w)') /\ (Written(w) => Written(w)')
    BY <1>1, <2>1 DEF Shipped, Written, Busy
  <2>4. Older(Head(retained))
    <3>1. 1 \in 1..Len(retained) /\ Len(retained) \in 1..Len(retained)
      BY <2>2, Elements
    <3>2. Head(retained) < retained[Len(retained)] /\ retained[Len(retained)] = job.window
      BY <2>1, <2>2, <3>1 DEF Histories, Increasing, JobLast
    <3>3. Past(retained[1])
      BY <3>1 DEF Histories, Written
    <3> QED
      BY <2>2, <3>2, <3>3 DEF Older
  <2>5. \A w \in expired' : Older(w)'
    <3>1. Head(retained) \in Windows
      BY <2>2, Elements
    <3> QED
      BY <1>1, <2>1, <2>4, <3>1, Elements DEF Histories
  <2>6. Increasing'
    <3> SUFFICES ASSUME NEW i \in 1..Len(retained'), NEW j \in 1..Len(retained'), i < j
                 PROVE  retained'[i] < retained'[j]
      BY DEF Increasing
    <3>1. i + 1 \in 1..Len(retained) /\ j + 1 \in 1..Len(retained) /\ i + 1 < j + 1
      BY <2>2
    <3>2. retained[i + 1] < retained[j + 1]
      BY <3>1 DEF Histories, Increasing
    <3> QED
      BY <2>2, <3>2
  <2>7. JobLast'
    <3>1. Len(retained') \in 1..Len(retained') /\ Len(retained') + 1 = Len(retained)
      BY <2>2, Elements
    <3>2. retained'[Len(retained')] = retained[Len(retained)]
      BY <2>2, <3>1
    <3> QED
      BY <2>1, <2>2, <3>1, <3>2, Elements DEF Histories, JobLast
  <2>8. \A i \in 1..Len(retained') : Written(retained[i])'
    BY <2>2, <2>3, Elements DEF Histories, Written, Past
  <2> QED
    BY <1>1, <1>2, <2>1, <2>3, <2>5, <2>6, <2>7, <2>8, Elements DEF Histories, Active
<1>8. CASE Announce
  <2>1. /\ UNCHANGED <<retained, exports, failed, expired, job>>
        /\ wpc = "prune" /\ Busy /\ wpc' \in {"export", "written"}
    BY <1>8 DEF Announce, Busy
  <2>2. \A w \in Windows : (Shipped(w) => Shipped(w)') /\ (Written(w) => Written(w)')
    BY <1>1, <2>1 DEF Shipped, Written, Busy
  <2>3. JobLast'
    BY <2>1 DEF Histories, JobLast
  <2> QED
    BY <1>1, <1>2, <2>1, <2>2, <2>3, Elements DEF Histories, Increasing, Active
<1>9. CASE SubmitExport
  <2>1. /\ UNCHANGED <<retained, failed, expired, job>>
        /\ wpc = "export" /\ Busy /\ wpc' = "written" /\ Busy'
        /\ exports' = exports \/ exports' = Append(exports, job.window)
    BY <1>9 DEF SubmitExport, Busy
  <2>2. \A w \in Windows : (Shipped(w) => Shipped(w)') /\ (Written(w) => Written(w)')
    BY <1>1, <2>1 DEF Shipped, Written, Busy
  <2>3. JobLast' /\ Increasing'
    BY <2>1 DEF Histories, JobLast, Increasing
  <2>4. \A i \in 1..Len(exports') : Shipped(exports[i])'
    <3>1. CASE exports' = exports
      BY <2>2, <3>1, Elements DEF Histories
    <3>2. CASE exports' = Append(exports, job.window)
      <4>1. /\ Len(exports') = Len(exports) + 1
            /\ \A i \in 1..Len(exports) : exports'[i] = exports[i]
            /\ exports'[Len(exports) + 1] = job.window
        BY <1>3, <2>1, <3>2, Elements, AppendProperties
      <4>2. job.window \notin failed
        BY <1>3, <2>1, Limits DEF Histories, Older
      <4>3. Past(job.window)'
        BY <1>1, <1>3, <2>1 DEF Flow, JobPast
      <4>4. Shipped(job.window)'
        BY <2>1, <4>2, <4>3 DEF Shipped
      <4>5. \A i \in 1..Len(exports) : Shipped(exports[i])'
        BY <2>2, <4>1, Elements DEF Histories, Shipped, Past
      <4>6. \A i \in 1..Len(exports') : i \in 1..Len(exports) \/ i = Len(exports) + 1
        BY <4>1, Elements
      <4> QED
        BY <2>1, <4>1, <4>4, <4>5, <4>6, Elements DEF Shipped, Past, Busy
    <3> QED
      BY <2>1, <3>1, <3>2
  <2> QED
    BY <1>1, <1>2, <2>1, <2>2, <2>3, <2>4, Elements DEF Histories, Active
<1>10. CASE RollBack
  <2>1. /\ UNCHANGED <<retained, exports, expired>>
        /\ wpc = "rollback" /\ Busy /\ ~Busy' /\ wpc' = "idle"
        /\ failed' = failed \cup {job.window}
    BY <1>10 DEF RollBack, Busy
  <2>2. \A w \in Windows : (Shipped(w) => Shipped(w)') /\ (Written(w) => Written(w)')
    BY <1>1, <1>3, <2>1, Limits DEF Shipped, Written
  <2>3. \A w \in failed' : Older(w)'
    BY <1>1, <1>3, <2>1, Elements DEF Histories, Flow, JobPast, Older
  <2> QED
    BY <1>1, <1>2, <2>1, <2>2, <2>3, Elements DEF Histories, Increasing, JobLast, Active
<1> QED
  BY <1>4, <1>5, <1>6, <1>7, <1>8, <1>9, <1>10 DEF Worker

LEMMA HistoriesInvariant == Spec => [](Flow /\ Histories)
<1>1. Typing /\ Typing' /\ Flow /\ Histories /\ [Next]_vars => Flow' /\ Histories'
  <2>1. CASE UNCHANGED vars
    BY <2>1 DEF vars, Flow, HoldLatest, SlotPast, JobPast, Histories, Older, Past, Written, Shipped,
                Increasing, JobLast, Active, Busy, IsWindow
  <2> QED
    BY <2>1, RecorderAges, WorkerAges, ExporterAges, RecorderHistories, WorkerHistories, ExporterHistories
    DEF Next, Terminating
<1> QED
  BY <1>1, FlowInit, HistoriesInit, TypingInvariant, PTL DEF Spec

-----------------------------------------------------------------------------
(* What is on the disk of windows that failed, that are retained and that  *)
(* expired.                                                                *)

Rolled     == "rollback" \notin plan.faults => \A w \in failed : files[w] = {}
RetainedWhole  == \A i \in 1..Len(retained) :
                retained[i] \notin failed => {"pprof", "diag"} \subseteq files[retained[i]]
JobWritten == wpc \in {"derived", "diag"} => "pprof" \in files[job.window]
Remains    == "expire" \notin plan.faults => \A w \in expired : files[w] \subseteq {"diag"}

Disk == Rolled /\ RetainedWhole /\ JobWritten /\ Remains

LEMMA DiskInit == Init => Disk
  BY DEF Init, Disk, Rolled, RetainedWhole, JobWritten, Remains

(* A file is added to one window.                                          *)
LEMMA PublishFacts ==
    ASSUME Typing, NEW v \in Windows, NEW f, Publish(v, f)
    PROVE  /\ files'[v] = files[v] \cup {f}
           /\ \A w \in Windows : w # v => files'[w] = files[w]
  BY DEF Publish, Typing, TypeOK

(* What a write to a window that has neither failed nor expired, or a      *)
(* rewrite of a diagnostics file, leaves true.                             *)
LEMMA WriteKeepsDisk ==
    ASSUME Typing, Disk, NEW v \in Windows, NEW f \in FileKinds, Publish(v, f) \/ UNCHANGED files,
           v \notin failed, v \notin expired \/ f = "diag", UNCHANGED <<failed, expired, plan>>
    PROVE  /\ Rolled' /\ Remains'
           /\ \A w \in Windows : files[w] \subseteq files'[w]
<1>1. CASE UNCHANGED files
  BY <1>1 DEF Disk, Rolled, Remains
<1>2. CASE Publish(v, f)
  <2>1. /\ files'[v] = files[v] \cup {f}
        /\ \A w \in Windows : w # v => files'[w] = files[w]
    BY <1>2, PublishFacts
  <2>2. Rolled'
    BY <2>1, Elements DEF Disk, Rolled
  <2>3. Remains'
    BY <2>1, Elements DEF Disk, Remains
  <2> QED
    BY <2>1, <2>2, <2>3
<1> QED
  BY <1>1, <1>2

LEMMA ExporterDisk == Typing /\ Histories /\ Disk /\ Exporter => Disk'
<1> SUFFICES ASSUME Typing, Histories, Disk, Exporter PROVE Disk'
  OBVIOUS
<1>1. UNCHANGED <<wpc, job, retained, failed, expired, plan>>
  BY ExporterFrame
<1>2. CASE RewriteDiagnostics
  <2>1. shipping.window \in Windows /\ shipping.window \notin failed
    BY <1>2 DEF RewriteDiagnostics, Typing, ShippingHasWindow, Histories, Active, Shipped
  <2>2. Publish(shipping.window, "diag") \/ UNCHANGED files
    BY <1>2 DEF RewriteDiagnostics, Rewrite
  <2>3. /\ Rolled' /\ Remains'
        /\ \A w \in Windows : files[w] \subseteq files'[w]
    BY <1>1, <2>1, <2>2, WriteKeepsDisk DEF FileKinds
  <2>4. RetainedWhole'
    BY <1>1, <2>3, Elements DEF Disk, RetainedWhole
  <2>5. JobWritten'
    BY <1>1, <2>3 DEF Disk, JobWritten, Typing, BusyHasWindow, Busy
  <2> QED
    BY <2>3, <2>4, <2>5 DEF Disk
<1>3. CASE TakeExport \/ ShipExport \/ LookForDiagnostics \/ ExporterExit
  <2>1. UNCHANGED files
    BY <1>3 DEF TakeExport, ShipExport, LookForDiagnostics, ExporterExit
  <2> QED
    BY <1>1, <2>1 DEF Disk, Rolled, RetainedWhole, JobWritten, Remains
<1> QED
  BY <1>2, <1>3 DEF Exporter

LEMMA WorkerDisk == Typing /\ Histories /\ Disk /\ Worker => Disk'
<1> SUFFICES ASSUME Typing, Histories, Disk, Worker PROVE Disk'
  OBVIOUS
<1>1. UNCHANGED plan
  BY WorkerFrame
<1>2. Busy => /\ job.window \in Windows
              /\ job.window \notin failed /\ job.window \notin expired
  <2>1. Busy => job.window \in Windows
    BY DEF Typing, BusyHasWindow
  <2> QED
    BY <2>1, Limits DEF Histories, Older
<1>3. CASE TakeSymbolizer \/ TakeWindow \/ WorkerExit \/ Announce \/ Complete
  <2>1. UNCHANGED <<files, failed, expired, retained>> /\ wpc' \notin {"derived", "diag"}
    BY <1>3 DEF TakeSymbolizer, TakeWindow, WorkerExit, Announce, Complete
  <2> QED
    BY <1>1, <2>1 DEF Disk, Rolled, RetainedWhole, JobWritten, Remains
<1>4. CASE WritePprof \/ WriteDerived
  <2>1. Busy /\ UNCHANGED <<failed, expired, retained, job>>
    BY <1>4 DEF WritePprof, WriteDerived, Busy
  <2>2. PICK f \in FileKinds : Publish(job.window, f) \/ UNCHANGED files
    BY <1>4 DEF WritePprof, WriteDerived, WriteFails, FileKinds
  <2>3. /\ Rolled' /\ Remains'
        /\ \A w \in Windows : files[w] \subseteq files'[w]
    BY <1>1, <1>2, <2>1, <2>2, WriteKeepsDisk
  <2>4. RetainedWhole'
    BY <2>1, <2>3, Elements DEF Disk, RetainedWhole
  <2>5. JobWritten'
    <3>1. CASE WritePprof
      <4>1. wpc' = "rollback" \/ Publish(job.window, "pprof")
        BY <3>1 DEF WritePprof, WriteFails
      <4> QED
        BY <1>2, <2>1, <4>1, PublishFacts DEF JobWritten
    <3>2. CASE WriteDerived
      <4>1. "pprof" \in files[job.window]
        BY <3>2 DEF WriteDerived, Disk, JobWritten
      <4> QED
        BY <1>2, <2>1, <2>3, <4>1 DEF JobWritten
    <3> QED
      BY <1>4, <3>1, <3>2
  <2> QED
    BY <2>3, <2>4, <2>5 DEF Disk
<1>5. CASE WriteDiagnostics
  <2>1. /\ Busy /\ wpc = "diag" /\ UNCHANGED <<failed, expired, job>>
        /\ wpc' \in {"prune", "rollback"}
        /\ Publish(job.window, "diag") \/ UNCHANGED files
        /\ \/ retained' = retained
           \/ retained' = Append(retained, job.window) /\ Publish(job.window, "diag")
    BY <1>5 DEF WriteDiagnostics, WriteFails, Busy
  <2>2. /\ Rolled' /\ Remains'
        /\ \A w \in Windows : files[w] \subseteq files'[w]
    BY <1>1, <1>2, <2>1, WriteKeepsDisk DEF FileKinds
  <2>3. RetainedWhole'
    <3>1. CASE retained' = retained
      BY <2>1, <2>2, <3>1, Elements DEF Disk, RetainedWhole
    <3>2. CASE retained' = Append(retained, job.window) /\ Publish(job.window, "diag")
      <4>1. /\ \A i \in 1..Len(retained') : i \in 1..Len(retained) \/ i = Len(retained) + 1
            /\ \A i \in 1..Len(retained) : retained'[i] = retained[i]
            /\ retained'[Len(retained) + 1] = job.window
        BY <1>2, <2>1, <3>2, Elements, AppendProperties
      <4>2. {"pprof", "diag"} \subseteq files'[job.window]
        BY <1>2, <2>1, <3>2, PublishFacts DEF Disk, JobWritten
      <4> QED
        BY <2>1, <2>2, <4>1, <4>2, Elements DEF Disk, RetainedWhole
    <3> QED
      BY <2>1, <3>1, <3>2
  <2> QED
    BY <2>1, <2>2, <2>3 DEF Disk, JobWritten
<1>6. CASE ExpireOldest
  <2>1. /\ Busy /\ UNCHANGED <<failed, job>> /\ wpc' \in {"prune", "rollback"}
        /\ Len(retained) > KeepWindows
        /\ retained' = Tail(retained) /\ expired' = expired \cup {Head(retained)}
        /\ \E left \in SUBSET FileKinds :
              /\ files' = [files EXCEPT ![Head(retained)] = @ \ left]
              /\ "expire" \in plan.faults \/ left = FileKinds
    BY <1>6 DEF ExpireOldest, Oldest, Busy, WindowOutputs, FileKinds
  <2>2. /\ retained # <<>>
        /\ \A i \in 1..Len(retained') : retained'[i] = retained[i + 1] /\ i + 1 \in 1..Len(retained)
        /\ Head(retained) = retained[1] /\ 1 \in 1..Len(retained)
    <3>1. retained # <<>> /\ Len(retained) > 1
      BY <2>1, Limits, Elements
    <3> QED
      BY <2>1, <3>1, Elements, HeadTailProperties
  <2>3. PICK left \in SUBSET FileKinds :
              /\ files' = [files EXCEPT ![Head(retained)] = @ \ left]
              /\ "expire" \in plan.faults \/ left = FileKinds
    BY <2>1
  <2>4. /\ Head(retained) \in Windows
        /\ files'[Head(retained)] = files[Head(retained)] \ left
        /\ files[Head(retained)] \subseteq FileKinds
        /\ \A w \in Windows : w # Head(retained) => files'[w] = files[w]
    BY <2>2, <2>3, Elements DEF Typing, TypeOK
  <2>5. Rolled'
    BY <1>1, <2>1, <2>4, Elements DEF Disk, Rolled
  <2>6. Remains'
    <3> SUFFICES ASSUME "expire" \notin plan.faults, NEW w \in expired'
                 PROVE  files'[w] \subseteq {"diag"}
      BY <1>1 DEF Remains
    <3>1. CASE w = Head(retained)
      BY <2>3, <2>4, <3>1
    <3>2. CASE w # Head(retained)
      BY <2>1, <2>4, <3>2, Elements DEF Disk, Remains
    <3> QED
      BY <3>1, <3>2
  <2>7. RetainedWhole'
    <3> SUFFICES ASSUME NEW i \in 1..Len(retained'), retained'[i] \notin failed
                 PROVE  {"pprof", "diag"} \subseteq files'[retained'[i]]
      BY <2>1 DEF RetainedWhole
    <3>1. retained'[i] = retained[i + 1] /\ i + 1 \in 1..Len(retained) /\ 1 < i + 1
      BY <2>2
    <3>2. retained[1] < retained[i + 1]
      BY <2>2, <3>1 DEF Histories, Increasing
    <3>3. retained[i + 1] \in Windows /\ retained[i + 1] # Head(retained)
      BY <2>2, <3>1, <3>2, Elements
    <3>4. {"pprof", "diag"} \subseteq files[retained[i + 1]]
      BY <3>1 DEF Disk, RetainedWhole
    <3> QED
      BY <2>4, <3>1, <3>3, <3>4
  <2> QED
    BY <2>1, <2>5, <2>6, <2>7 DEF Disk, JobWritten
<1>7. CASE SubmitExport
  <2>1. Busy /\ wpc' = "written" /\ UNCHANGED <<failed, expired, retained>>
    BY <1>7 DEF SubmitExport, Busy
  <2>2. Publish(job.window, "diag") \/ UNCHANGED files
    BY <1>7 DEF SubmitExport, Rewrite
  <2>3. /\ Rolled' /\ Remains'
        /\ \A w \in Windows : files[w] \subseteq files'[w]
    BY <1>1, <1>2, <2>1, <2>2, WriteKeepsDisk DEF FileKinds
  <2>4. RetainedWhole'
    BY <2>1, <2>3, Elements DEF Disk, RetainedWhole
  <2> QED
    BY <2>1, <2>3, <2>4 DEF Disk, JobWritten
<1>8. CASE RollBack
  <2>1. /\ Busy /\ wpc' = "idle" /\ UNCHANGED <<expired, retained>>
        /\ failed' = failed \cup {job.window}
        /\ \E left \in SUBSET FileKinds :
              /\ files' = [files EXCEPT ![job.window] = (@ \ FileKinds) \cup (@ \cap left)]
              /\ "rollback" \in plan.faults \/ left = {}
    BY <1>8 DEF RollBack, Busy, WindowOutputs
  <2>2. PICK left \in SUBSET FileKinds :
              /\ files' = [files EXCEPT ![job.window] = (@ \ FileKinds) \cup (@ \cap left)]
              /\ "rollback" \in plan.faults \/ left = {}
    BY <2>1
  <2>3. /\ files'[job.window] = (files[job.window] \ FileKinds) \cup (files[job.window] \cap left)
        /\ files[job.window] \subseteq FileKinds
        /\ \A w \in Windows : w # job.window => files'[w] = files[w]
    BY <1>2, <2>1, <2>2 DEF Typing, TypeOK
  <2>4. Rolled'
    BY <1>1, <1>2, <2>1, <2>2, <2>3, Elements DEF Disk, Rolled
  <2>5. Remains'
    BY <1>1, <1>2, <2>1, <2>3, Elements DEF Disk, Remains
  <2>6. RetainedWhole'
    BY <2>1, <2>3, Elements DEF Disk, RetainedWhole
  <2> QED
    BY <2>1, <2>4, <2>5, <2>6 DEF Disk, JobWritten
<1> QED
  BY <1>3, <1>4, <1>5, <1>6, <1>7, <1>8 DEF Worker

LEMMA DiskInvariant == Spec => []Disk
<1>1. Typing /\ Histories /\ Disk /\ [Next]_vars => Disk'
  <2>1. CASE UNCHANGED vars
    BY <2>1 DEF vars, Disk, Rolled, RetainedWhole, JobWritten, Remains
  <2>2. CASE Recorder
    BY <2>2, RecorderFrame DEF Disk, Rolled, RetainedWhole, JobWritten, Remains
  <2> QED
    BY <2>1, <2>2, WorkerDisk, ExporterDisk DEF Next, Terminating
<1> QED
  BY <1>1, DiskInit, HistoriesInvariant, TypingInvariant, PTL DEF Spec

(* Transactional publication: of a window whose write failed nothing stays *)
(* on the disk and nothing is exported, unless its files could not be      *)
(* removed.                                                                *)
THEOREM FailedWindowsVanish == Spec => []FailedLeavesNothing
<1>1. Histories /\ Disk => FailedLeavesNothing
  BY DEF Histories, Shipped, Disk, Rolled, FailedLeavesNothing, Active
<1> QED
  BY <1>1, HistoriesInvariant, DiskInvariant, PTL

(* Retention keeps all of the windows it keeps, and of those it expires at *)
(* most a diagnostics file that an export rewrote.                         *)
THEOREM RetentionIsExact == Spec => []RetentionExact
<1>1. Disk => RetentionExact
  BY DEF Disk, RetainedWhole, Remains, RetentionExact
<1> QED
  BY <1>1, DiskInvariant, PTL

-----------------------------------------------------------------------------
(* The end of a recording.                                                 *)

(* Where a window that was closed can be.                                  *)
Retained(w) == \E i \in 1..Len(retained) : retained[i] = w
InHand(w) ==
    \/ w \in failed \/ w \in expired \/ Retained(w)
    \/ Busy /\ w = job.window
    \/ IsWindow(slot) /\ w = slot.window
    \/ IsWindow(hold) /\ w = hold.window
NoneForgotten == \A w \in 1..opened : InHand(w)

(* In which order the threads end, and that a failure is not overlooked.   *)
Closing ==
    /\ closed => rpc \notin {"collect", "send"}
    /\ wpc = "done" => closed /\ ~IsWindow(slot)
    /\ rpc \in {"flush", "succeeded", "cancel", "aborted"} => wpc = "done"
    /\ rpc \in {"flush", "succeeded"} => failed = {}
    /\ failed # {} /\ rpc \in {"collect", "send", "join"} =>
          \E i \in 1..Len(completions) : completions[i] = FALSE

LEMMA ClosingInit == Init => NoneForgotten /\ Closing
  BY DEF Init, NoneForgotten, Closing

LEMMA RecorderCloses == Typing /\ Flow /\ NoneForgotten /\ Closing /\ Recorder => NoneForgotten' /\ Closing'
<1> USE DEF IsWindow
<1> SUFFICES ASSUME Typing, Flow, NoneForgotten, Closing, Recorder PROVE NoneForgotten' /\ Closing'
  OBVIOUS
<1>1. UNCHANGED <<wpc, job, retained, failed, expired>> /\ NoCommand.kind = "none" /\ opened \in Nat
  BY RecorderFrame, Limits DEF NoCommand, Typing, TypeOK
<1>2. AllWritten /\ rpc \in {"collect", "send", "join"} => failed = {}
  BY DEF AllWritten, Closing
<1>3. CASE CloseWindow
  <2>1. UNCHANGED <<slot, closed>> /\ rpc = "collect" /\ ~IsWindow(hold)
    BY <1>3 DEF CloseWindow, Flow, HoldLatest
  <2>2. CASE AllWritten
    <3>1. rpc' = "send" /\ opened' = opened + 1 /\ hold'.kind = "window" /\ hold'.window = opened + 1
      BY <1>3, <2>2 DEF CloseWindow
    <3>2. \A w \in 1..opened' : w \in 1..opened \/ w = hold'.window
      BY <1>1, <3>1
    <3>3. NoneForgotten'
      BY <1>1, <2>1, <3>1, <3>2 DEF NoneForgotten, InHand, Retained, Busy
    <3> QED
      BY <1>1, <1>2, <2>1, <2>2, <3>1, <3>3 DEF Closing
  <2>3. CASE ~AllWritten
    <3>1. rpc' = "drop" /\ UNCHANGED <<opened, hold>>
      BY <1>3, <2>3 DEF CloseWindow
    <3> QED
      BY <1>1, <2>1, <3>1 DEF NoneForgotten, InHand, Retained, Busy, Closing
  <2> QED
    BY <2>2, <2>3
<1>4. CASE ReplaceSymbolizer
  <2>1. UNCHANGED <<opened, slot, closed>> /\ rpc = "collect" /\ ~IsWindow(hold)
    BY <1>4 DEF ReplaceSymbolizer, Flow, HoldLatest
  <2>2. NoneForgotten'
    BY <1>1, <2>1 DEF NoneForgotten, InHand, Retained, Busy
  <2>3. rpc' = "drop" \/ (rpc' = "send" /\ AllWritten)
    BY <1>4 DEF ReplaceSymbolizer
  <2> QED
    BY <1>1, <1>2, <2>1, <2>2, <2>3 DEF Closing
<1>5. CASE Poll
  <2>1. UNCHANGED <<opened, slot, hold, closed>> /\ rpc = "collect"
    BY <1>5 DEF Poll
  <2>2. rpc' = "drop" \/ (rpc' = "collect" /\ AllWritten)
    BY <1>5 DEF Poll
  <2> QED
    BY <1>1, <1>2, <2>1, <2>2 DEF NoneForgotten, InHand, Retained, Busy, Closing
<1>6. CASE Send
  <2>1. /\ UNCHANGED <<opened, closed, completions>> /\ rpc = "send" /\ rpc' = "collect"
        /\ slot = NoCommand /\ slot' = hold /\ hold' = NoCommand
    BY <1>6 DEF Send
  <2> QED
    BY <1>1, <2>1 DEF NoneForgotten, InHand, Retained, Busy, Closing
<1>7. CASE JoinWorker
  <2>1. UNCHANGED <<opened, slot, hold, closed>> /\ rpc = "join" /\ wpc = "done"
    BY <1>7 DEF JoinWorker
  <2>2. rpc' = "drop" \/ (rpc' = "flush" /\ AllWritten)
    BY <1>7 DEF JoinWorker
  <2> QED
    BY <1>1, <1>2, <2>1, <2>2 DEF NoneForgotten, InHand, Retained, Busy, Closing
<1>8. CASE CollectError \/ Finish \/ JoinExporter \/ DropCommands \/ CancelExporter \/ JoinCancelled
  <2>1. /\ UNCHANGED <<opened, slot, hold, completions>>
        /\ \/ rpc = "collect" /\ rpc' = "drop" /\ closed' = closed
           \/ rpc = "collect" /\ rpc' = "join" /\ closed' = TRUE
           \/ rpc = "flush" /\ rpc' = "succeeded" /\ closed' = closed
           \/ rpc = "drop" /\ rpc' = "drop" /\ closed' = TRUE
           \/ rpc = "drop" /\ rpc' = "cancel" /\ closed' = closed /\ wpc = "done"
           \/ rpc = "cancel" /\ rpc' = "aborted" /\ closed' = closed
    BY <1>8 DEF CollectError, Finish, JoinExporter, DropCommands, CancelExporter, JoinCancelled
  <2> QED
    BY <1>1, <2>1 DEF NoneForgotten, InHand, Retained, Busy, Closing
<1> QED
  BY <1>3, <1>4, <1>5, <1>6, <1>7, <1>8 DEF Recorder

LEMMA WorkerCloses ==
    Typing /\ Histories /\ NoneForgotten /\ Closing /\ Worker => NoneForgotten' /\ Closing'
<1> USE DEF IsWindow
<1> SUFFICES ASSUME Typing, Histories, NoneForgotten, Closing, Worker PROVE NoneForgotten' /\ Closing'
  OBVIOUS
<1>1. UNCHANGED <<rpc, opened, hold, closed>> /\ NoCommand.kind = "none"
  BY WorkerFrame DEF NoCommand
<1>2. \A w \in 1..opened : InHand(w)
  BY DEF NoneForgotten
<1>3. CASE TakeSymbolizer \/ TakeWindow
  <2>1. /\ UNCHANGED <<failed, expired, retained, completions>> /\ wpc = "idle" /\ wpc' # "done" /\ slot' = NoCommand
        /\ slot.kind = "window" => job' = slot /\ Busy'
    BY <1>3 DEF TakeSymbolizer, TakeWindow, Busy
  <2>2. NoneForgotten'
    BY <1>1, <2>1 DEF NoneForgotten, InHand, Retained, Busy
  <2> QED
    BY <1>1, <2>1, <2>2 DEF Closing
<1>4. CASE WorkerExit
  <2>1. /\ UNCHANGED <<failed, expired, retained, slot, completions>> /\ wpc = "idle" /\ wpc' = "done" /\ closed
        /\ slot = NoCommand
    BY <1>4 DEF WorkerExit
  <2> QED
    BY <1>1, <2>1 DEF NoneForgotten, InHand, Retained, Busy, Closing
<1>5. CASE WritePprof \/ WriteDerived \/ Announce \/ SubmitExport
  <2>1. UNCHANGED <<failed, expired, retained, slot, job, completions>> /\ Busy /\ Busy' /\ wpc' # "done"
    BY <1>5 DEF WritePprof, WriteDerived, WriteFails, Announce, SubmitExport, Busy
  <2> QED
    BY <1>1, <2>1 DEF NoneForgotten, InHand, Retained, Closing, Busy
<1>6. CASE WriteDiagnostics
  <2>1. /\ UNCHANGED <<failed, expired, slot, job, completions>> /\ Busy /\ Busy' /\ wpc' # "done"
        /\ retained' = retained \/ retained' = Append(retained, job.window)
    BY <1>6 DEF WriteDiagnostics, WriteFails, Busy
  <2>2. /\ Len(retained) <= Len(retained') /\ Len(retained') \in Nat
        /\ \A i \in 1..Len(retained) : retained'[i] = retained[i]
    BY <2>1, Elements, AppendProperties DEF Typing, BusyHasWindow
  <2>3. \A i \in 1..Len(retained) : i \in 1..Len(retained')
    BY <2>2, Elements
  <2>4. \A w : Retained(w) => \E i \in 1..Len(retained') : retained'[i] = w
    BY <2>2, <2>3 DEF Retained
  <2> QED
    BY <1>1, <2>1, <2>4 DEF NoneForgotten, InHand, Retained, Closing, Busy
<1>7. CASE ExpireOldest
  <2>1. /\ UNCHANGED <<failed, slot, job, completions>> /\ Busy /\ Busy' /\ wpc' # "done"
        /\ Len(retained) > KeepWindows
        /\ retained' = Tail(retained) /\ expired' = expired \cup {Head(retained)}
    BY <1>7 DEF ExpireOldest, Oldest, Busy
  <2>2. /\ Len(retained') = Len(retained) - 1
        /\ \A i \in 1..Len(retained') : retained'[i] = retained[i + 1]
        /\ Head(retained) = retained[1]
    <3>1. retained # <<>>
      BY <2>1, Limits, Elements
    <3> QED
      BY <2>1, <3>1, Elements, HeadTailProperties
  <2>3. \A i \in 1..Len(retained) : i = 1 \/ (i - 1 \in 1..Len(retained') /\ retained'[i - 1] = retained[i])
    BY <2>2, Elements
  <2>4. \A w : Retained(w) => w = Head(retained) \/ \E i \in 1..Len(retained') : retained'[i] = w
    BY <2>2, <2>3 DEF Retained
  <2> QED
    BY <1>1, <2>1, <2>4 DEF NoneForgotten, InHand, Retained, Closing, Busy
<1>8. CASE Complete
  <2>1. UNCHANGED <<failed, expired, retained, slot>> /\ wpc = "written" /\ wpc' = "idle" /\ completions' = Append(completions, TRUE)
    BY <1>8 DEF Complete
  <2>2. Retained(job.window)
    BY <2>1, Elements DEF Histories, JobLast, Retained
  <2>3. NoneForgotten'
    BY <1>1, <2>1, <2>2 DEF NoneForgotten, InHand, Retained, Busy
  <2>4. /\ \A i \in 1..Len(completions) : i \in 1..Len(completions') /\ completions'[i] = completions[i]
    BY <2>1, AppendProperties DEF Typing, TypeOK
  <2> QED
    BY <1>1, <2>1, <2>3, <2>4 DEF Closing
<1>9. CASE RollBack
  <2>1. /\ UNCHANGED <<expired, retained, slot>> /\ Busy /\ ~Busy' /\ wpc' = "idle" /\ wpc = "rollback"
        /\ failed' = failed \cup {job.window} /\ completions' = Append(completions, FALSE)
    BY <1>9 DEF RollBack, Busy
  <2>2. NoneForgotten'
    BY <1>1, <2>1 DEF NoneForgotten, InHand, Retained, Busy
  <2>3. Len(completions') \in 1..Len(completions') /\ completions'[Len(completions')] = FALSE
    BY <2>1, AppendProperties DEF Typing, TypeOK
  <2> QED
    BY <1>1, <2>1, <2>2, <2>3 DEF Closing
<1> QED
  BY <1>3, <1>4, <1>5, <1>6, <1>7, <1>8, <1>9 DEF Worker

LEMMA ClosingInvariant == Spec => [](NoneForgotten /\ Closing)
<1>1. Typing /\ Flow /\ Histories /\ NoneForgotten /\ Closing /\ [Next]_vars => NoneForgotten' /\ Closing'
  <2>1. CASE UNCHANGED vars
    BY <2>1 DEF vars, NoneForgotten, InHand, Retained, Busy, IsWindow, Closing
  <2>2. CASE Exporter
    BY <2>2, ExporterFrame DEF NoneForgotten, InHand, Retained, Busy, IsWindow, Closing
  <2> QED
    BY <2>1, <2>2, RecorderCloses, WorkerCloses DEF Next, Terminating
<1> QED
  BY <1>1, ClosingInit, HistoriesInvariant, TypingInvariant, PTL DEF Spec

(* A recording that returns success has written every window it closed,    *)
(* and none of them is missing that retention has not taken.               *)
THEOREM SuccessIsComplete == Spec => []SuccessMeansWritten
<1>1. Flow /\ Disk /\ NoneForgotten /\ Closing => SuccessMeansWritten
  <2> SUFFICES ASSUME Flow, Disk, NoneForgotten, Closing, rpc = "succeeded", NEW w \in 1..opened
               PROVE  w \notin failed /\ (w \in expired \/ {"pprof", "diag"} \subseteq files[w])
    BY DEF SuccessMeansWritten
  <2>1. failed = {} /\ ~Busy /\ ~IsWindow(slot) /\ ~IsWindow(hold)
    BY DEF Closing, Busy, Flow, HoldLatest
  <2>2. w \in expired \/ Retained(w)
    BY <2>1 DEF NoneForgotten, InHand
  <2> QED
    BY <2>1, <2>2 DEF Retained, Disk, RetainedWhole
<1> QED
  BY <1>1, HistoriesInvariant, DiskInvariant, ClosingInvariant, PTL

-----------------------------------------------------------------------------
(* Where a window can be whose diagnostics promise an export.              *)
Queued(w) == \E i \in 1..Len(exports) : exports[i] = w
Promised(w) ==
    \/ w = job.window /\ wpc \in {"prune", "export", "rollback"}
    \/ Queued(w)
    \/ Active /\ w = shipping.window

(* What could not be written or removed breaks a promise.                  *)
Sound == plan.faults \subseteq {"collect", "write", "encode"}
Promises ==
    Sound => \A w \in Windows : "diag" \in files[w] /\ status[w] = "pending" => Promised(w)

(* Without an endpoint nothing is promised, and the exporter ends after    *)
(* the worker and its queue, and before the recording.                     *)
Exporting ==
    /\ ~Otlp => /\ exports = <<>> /\ wpc # "export"
                /\ \A w \in Windows : status[w] # "pending"
    /\ epc = "done" => exports = <<>> /\ (wpc = "done" \/ ~Otlp)
    /\ Over => epc = "done"

LEMMA PromisesInit == Init => Promises /\ Exporting
  BY DEF Init, Promises, Exporting, Over

LEMMA FirstStatusKinds ==
    ASSUME NEW c, NEW encoded
    PROVE  ~Otlp => FirstStatus(c, encoded) = "disabled"
  BY DEF FirstStatus, WantsExport

LEMMA RecorderPromises == Promises /\ Exporting /\ Recorder => Promises' /\ Exporting'
<1> SUFFICES ASSUME Promises, Exporting, Recorder PROVE Promises' /\ Exporting'
  OBVIOUS
<1>1. UNCHANGED <<wpc, job, exports, epc, shipping, files, status, plan>>
  BY RecorderFrame
<1>2. Over' => epc = "done"
  BY DEF Recorder, Poll, CloseWindow, ReplaceSymbolizer, Send, CollectError, Finish, JoinWorker,
         JoinExporter, DropCommands, CancelExporter, JoinCancelled, Over, Exporting
<1> QED
  BY <1>1, <1>2 DEF Promises, Exporting, Promised, Queued, Active, Sound

LEMMA ExporterPromises ==
    Typing /\ Promises /\ Exporting /\ Exporter => Promises' /\ Exporting'
<1> SUFFICES ASSUME Typing, Promises, Exporting, Exporter PROVE Promises' /\ Exporting'
  OBVIOUS
<1>1. UNCHANGED <<rpc, wpc, job, plan>>
  BY ExporterFrame
<1>2. CASE TakeExport
  <2>1. /\ UNCHANGED <<files, status>> /\ exports # <<>> /\ exports' = Tail(exports)
        /\ shipping'.window = Head(exports) /\ epc' \in {"send", "persist"} /\ epc = "idle"
    BY <1>2 DEF TakeExport
  <2>2. /\ Len(exports') = Len(exports) - 1
        /\ \A i \in 1..Len(exports') : exports'[i] = exports[i + 1]
        /\ Head(exports) = exports[1]
    BY <2>1, Elements, HeadTailProperties
  <2>3. \A i \in 1..Len(exports) : i = 1 \/ (i - 1 \in 1..Len(exports') /\ exports'[i - 1] = exports[i])
    BY <2>2, Elements
  <2>4. \A w : Queued(w) => w = shipping'.window \/ \E i \in 1..Len(exports') : exports'[i] = w
    BY <2>1, <2>2, <2>3 DEF Queued
  <2>5. Promises'
    BY <1>1, <2>1, <2>4 DEF Promises, Promised, Queued, Active, Sound
  <2>6. Exporting'
    BY <1>1, <2>1 DEF Exporting, Over
  <2> QED
    BY <2>5, <2>6
<1>3. CASE ShipExport
  <2>1. /\ UNCHANGED <<files, status, exports>> /\ shipping'.window = shipping.window
        /\ epc = "send" /\ epc' = "persist"
    BY <1>3 DEF ShipExport, Typing, TypeOK
  <2> QED
    BY <1>1, <2>1 DEF Promises, Promised, Queued, Active, Sound, Exporting, Over
<1>4. CASE LookForDiagnostics
  <2>1. /\ UNCHANGED <<files, status, exports, shipping>> /\ epc = "persist"
        /\ epc' = "rewrite" \/ (epc' = "idle" /\ "diag" \notin files[shipping.window])
    BY <1>4 DEF LookForDiagnostics
  <2> QED
    BY <1>1, <2>1 DEF Promises, Promised, Queued, Active, Sound, Exporting, Over
<1>5. CASE RewriteDiagnostics
  <2>1. UNCHANGED <<exports, shipping>> /\ epc = "rewrite" /\ epc' = "idle" /\ exports' = exports
    BY <1>5 DEF RewriteDiagnostics
  <2>2. shipping.window \in Windows /\ shipping.outcome \in Outcomes /\ shipping.outcome # "pending"
    BY <2>1 DEF Typing, TypeOK, ShippingHasWindow, Outcomes
  <2>3. \/ /\ Publish(shipping.window, "diag")
           /\ status' = [status EXCEPT ![shipping.window] = shipping.outcome]
        \/ ("persist" \in plan.faults /\ UNCHANGED <<files, status>>)
    BY <1>5 DEF RewriteDiagnostics, Rewrite
  <2>4. \A w \in Windows :
            /\ status'[w] = "pending" => status[w] = "pending"
            /\ Sound /\ w = shipping.window => status'[w] # "pending"
            /\ w # shipping.window => status'[w] = status[w] /\ files'[w] = files[w]
    BY <2>2, <2>3, PublishFacts DEF Typing, TypeOK, Sound
  <2>5. Promises'
    BY <1>1, <2>1, <2>4 DEF Promises, Promised, Queued, Active, Sound
  <2>6. Exporting'
    BY <1>1, <2>1, <2>4 DEF Exporting, Over
  <2> QED
    BY <2>5, <2>6
<1>6. CASE ExporterExit
  <2>1. UNCHANGED <<files, status, exports, shipping>> /\ epc = "idle" /\ epc' = "done" /\ exports = <<>> /\ wpc = "done"
    BY <1>6 DEF ExporterExit
  <2> QED
    BY <1>1, <2>1 DEF Promises, Promised, Queued, Active, Sound, Exporting, Over
<1> QED
  BY <1>2, <1>3, <1>4, <1>5, <1>6 DEF Exporter

LEMMA WorkerPromises ==
    Typing /\ Histories /\ Promises /\ Exporting /\ Worker => Promises' /\ Exporting'
<1> SUFFICES ASSUME Typing, Histories, Promises, Exporting, Worker PROVE Promises' /\ Exporting'
  OBVIOUS
<1>1. UNCHANGED <<rpc, epc, shipping, plan>>
  BY WorkerFrame
<1>2. Busy => job.window \in Windows
  BY DEF Typing, BusyHasWindow
<1>3. wpc # "done"
  BY DEF Worker, TakeSymbolizer, TakeWindow, WorkerExit, WritePprof, WriteDerived, WriteDiagnostics,
         ExpireOldest, Announce, SubmitExport, Complete, RollBack
<1>4. CASE TakeSymbolizer \/ TakeWindow \/ WorkerExit \/ Complete
  <2>1. UNCHANGED <<files, status, exports>> /\ wpc \in {"idle", "written"} /\ wpc' # "export"
    BY <1>4 DEF TakeSymbolizer, TakeWindow, WorkerExit, Complete
  <2> QED
    BY <1>1, <1>3, <2>1 DEF Promises, Promised, Queued, Active, Sound, Exporting, Over
<1>5. CASE WritePprof \/ WriteDerived
  <2>1. UNCHANGED <<status, exports, job>> /\ Busy /\ wpc \in {"pprof", "derived"} /\ wpc' \in {"derived", "diag", "rollback"}
    BY <1>5 DEF WritePprof, WriteDerived, WriteFails, Busy
  <2>2. Publish(job.window, "pprof") \/ Publish(job.window, "derived") \/ UNCHANGED files
    BY <1>5 DEF WritePprof, WriteDerived, WriteFails
  <2>3. \A w \in Windows : "diag" \in files'[w] => "diag" \in files[w]
    BY <1>2, <2>1, <2>2, PublishFacts
  <2> QED
    BY <1>1, <1>3, <2>1, <2>3 DEF Promises, Promised, Queued, Active, Sound, Exporting, Over
<1>6. CASE WriteDiagnostics
  <2>1. UNCHANGED <<exports, job>> /\ Busy /\ wpc = "diag" /\ wpc' \in {"prune", "rollback"}
    BY <1>6 DEF WriteDiagnostics, WriteFails, Busy
  <2>2. Publish(job.window, "diag") \/ UNCHANGED files
    BY <1>6 DEF WriteDiagnostics, WriteFails
  <2>3. PICK encoded \in BOOLEAN :
            \/ status' = [status EXCEPT ![job.window] = FirstStatus(job, encoded)]
            \/ status' = [status EXCEPT ![job.window] =
                            IF "diag" \in files'[job.window] THEN FirstStatus(job, encoded) ELSE @]
    BY <1>6 DEF WriteDiagnostics
  <2>4. \A w \in Windows : w # job.window => files'[w] = files[w] /\ status'[w] = status[w]
    BY <1>2, <2>1, <2>2, <2>3, PublishFacts DEF Typing, TypeOK
  <2>5. ~Otlp => status'[job.window] # "pending"
    <3>1. ~Otlp => FirstStatus(job, encoded) # "pending" /\ status[job.window] # "pending"
      BY <1>2, <2>1, FirstStatusKinds DEF Exporting
    <3>2. status'[job.window] \in {FirstStatus(job, encoded), status[job.window]}
      BY <1>2, <2>1, <2>3 DEF Typing, TypeOK
    <3> QED
      BY <3>1, <3>2
  <2>6. Promises'
    BY <1>1, <2>1, <2>4 DEF Promises, Promised, Queued, Active, Sound
  <2>7. Exporting'
    BY <1>1, <1>3, <2>1, <2>4, <2>5 DEF Exporting, Over
  <2> QED
    BY <2>6, <2>7
<1>7. CASE ExpireOldest
  <2>1. /\ UNCHANGED <<status, exports, job>> /\ wpc = "prune" /\ wpc' \in {"prune", "rollback"}
        /\ \E left : files' = [files EXCEPT ![Head(retained)] = @ \ left]
        /\ Len(retained) > KeepWindows
    BY <1>7 DEF ExpireOldest, Oldest
  <2>2. \A w \in Windows : files'[w] \subseteq files[w]
    BY <2>1 DEF Typing, TypeOK
  <2> QED
    BY <1>1, <1>3, <2>1, <2>2 DEF Promises, Promised, Queued, Active, Sound, Exporting, Over
<1>8. CASE Announce
  <2>1. /\ UNCHANGED <<files, status, exports, job>> /\ Busy /\ wpc = "prune"
        /\ IF status[job.window] = "pending" THEN wpc' = "export" ELSE wpc' = "written"
    BY <1>8 DEF Announce, Busy
  <2> QED
    BY <1>1, <1>2, <1>3, <2>1 DEF Promises, Promised, Queued, Active, Sound, Exporting, Over
<1>9. CASE SubmitExport
  <2>1. UNCHANGED <<job>> /\ Busy /\ wpc = "export" /\ wpc' = "written" /\ Otlp
    BY <1>9 DEF SubmitExport, Busy, Exporting
  <2>2. CASE Len(exports) < ExportCap
    <3>1. exports' = Append(exports, job.window) /\ UNCHANGED <<files, status>>
      BY <1>9, <2>2 DEF SubmitExport
    <3>2. /\ Len(exports') = Len(exports) + 1
          /\ \A i \in 1..Len(exports) : exports'[i] = exports[i]
          /\ exports'[Len(exports) + 1] = job.window
      BY <1>2, <2>1, <3>1, Elements, AppendProperties
    <3>3. /\ \A w : Queued(w) => \E i \in 1..Len(exports') : exports'[i] = w
          /\ \E i \in 1..Len(exports') : exports'[i] = job.window
      <4>1. Len(exports) + 1 \in 1..Len(exports') /\ \A i \in 1..Len(exports) : i \in 1..Len(exports')
        BY <3>2, Elements
      <4> QED
        BY <3>2, <4>1 DEF Queued
    <3> QED
      BY <1>1, <1>3, <2>1, <3>1, <3>3 DEF Promises, Promised, Queued, Active, Sound, Exporting, Over
  <2>3. CASE ~(Len(exports) < ExportCap)
    <3>1. /\ UNCHANGED exports
          /\ \/ /\ Publish(job.window, "diag")
                /\ status' = [status EXCEPT ![job.window] = "dropped"]
             \/ "persist" \in plan.faults
      BY <1>9, <2>3 DEF SubmitExport, Rewrite
    <3>2. Sound => \A w \in Windows :
              /\ w = job.window => status'[w] # "pending"
              /\ w # job.window => status'[w] = status[w] /\ files'[w] = files[w]
      BY <1>2, <2>1, <3>1, PublishFacts DEF Sound, Typing, TypeOK
    <3>3. Promises'
      BY <1>1, <2>1, <3>1, <3>2 DEF Promises, Promised, Queued, Active, Sound
    <3>4. Exporting'
      BY <1>1, <1>3, <2>1, <3>1 DEF Exporting, Over
    <3> QED
      BY <3>3, <3>4
  <2> QED
    BY <2>2, <2>3
<1>10. CASE RollBack
  <2>1. UNCHANGED <<status, exports>> /\ Busy /\ wpc = "rollback" /\ wpc' = "idle"
    BY <1>10 DEF RollBack, Busy
  <2>2. PICK left \in SUBSET FileKinds :
              /\ files' = [files EXCEPT ![job.window] = (@ \ FileKinds) \cup (@ \cap left)]
              /\ "rollback" \in plan.faults \/ left = {}
    BY <1>10 DEF RollBack, WindowOutputs, FileKinds
  <2>3. /\ \A w \in Windows : w # job.window => files'[w] = files[w]
        /\ Sound => "diag" \notin files'[job.window]
    BY <1>2, <2>1, <2>2 DEF Typing, TypeOK, FileKinds, Sound
  <2> QED
    BY <1>1, <1>3, <2>1, <2>3 DEF Promises, Promised, Queued, Active, Sound, Exporting, Over
<1> QED
  BY <1>4, <1>5, <1>6, <1>7, <1>8, <1>9, <1>10 DEF Worker

LEMMA PromisesInvariant == Spec => [](Promises /\ Exporting)
<1>1. Typing /\ Histories /\ Promises /\ Exporting /\ [Next]_vars => Promises' /\ Exporting'
  <2>1. CASE UNCHANGED vars
    BY <2>1 DEF vars, Promises, Promised, Queued, Active, Sound, Exporting, Over
  <2> QED
    BY <2>1, RecorderPromises, WorkerPromises, ExporterPromises DEF Next, Terminating
<1> QED
  BY <1>1, PromisesInit, HistoriesInvariant, TypingInvariant, PTL DEF Spec

(* When a recording is over, with success or with an error, every export   *)
(* that a diagnostics file promised has been decided in that file.         *)
THEOREM NothingPending == Spec => []NoPendingAtEnd
<1>1. Closing /\ Promises /\ Exporting => NoPendingAtEnd
  <2> SUFFICES ASSUME Closing, Promises, Exporting, Over, Sound, NEW w \in Windows, "diag" \in files[w]
               PROVE  status[w] # "pending"
    BY DEF NoPendingAtEnd, Sound
  <2>1. wpc = "done" /\ epc = "done" /\ exports = <<>>
    BY DEF Closing, Exporting, Over
  <2>2. ~Promised(w)
    BY <2>1 DEF Promised, Queued, Active
  <2> QED
    BY <2>2 DEF Promises
<1> QED
  BY <1>1, ClosingInvariant, PromisesInvariant, PTL

-----------------------------------------------------------------------------
(* OutputPipeline implements WindowLedger, for every number of windows and *)
(* every limit.  Three facts make the ledger's steps out of the pipeline's:*)
(* the windows in flight have consecutive names, what is not published yet *)
(* is the last window of the list, and the list is one too long at most.   *)

USE DEF Windows, recorderVars, channelVars, workerVars, exporterVars, diskVars, historyVars

(* Every window between the recorder and the disk has the name that the    *)
(* number of those behind it leaves.                                       *)
Consecutive ==
    /\ IsWindow(hold) => hold.window = opened
    /\ IsWindow(slot) => slot.window = opened - Count(IsWindow(hold))
    /\ Busy => job.window = opened - Count(IsWindow(hold)) - Count(IsWindow(slot))

Limited == Reliable => Len(retained) <= KeepWindows + Count(wpc = "prune")

Ledgered == Consecutive /\ Limited

LEMMA LedgeredInit == Init => Ledgered
  BY Limits DEF Init, Ledgered, Consecutive, Limited, Busy, IsWindow, NoCommand, Count

LEMMA RecorderLedgered == Typing /\ Flow /\ Ledgered /\ Recorder => Ledgered'
<1> USE DEF IsWindow, Count
<1> SUFFICES ASSUME Typing, Flow, Ledgered, Recorder PROVE Ledgered'
  OBVIOUS
<1>1. UNCHANGED <<wpc, job, retained, plan>> /\ NoCommand.kind = "none" /\ opened \in Nat
  BY RecorderFrame, Limits DEF NoCommand, Typing, TypeOK
<1>2. Limited'
  BY <1>1 DEF Ledgered, Limited, Reliable
<1>3. Busy => job.window \in Nat
  BY DEF Typing, BusyHasWindow
<1>4. IsWindow(slot) => slot.window \in Nat
  BY DEF Typing, SlotHasWindow
<1>5. CASE CloseWindow
  <2>1. UNCHANGED slot /\ ~IsWindow(hold)
    BY <1>5 DEF CloseWindow, Flow, HoldLatest
  <2>2. \/ UNCHANGED <<opened, hold>>
        \/ opened' = opened + 1 /\ hold'.kind = "window" /\ hold'.window = opened + 1
    BY <1>5 DEF CloseWindow
  <2> QED
    BY <1>1, <1>2, <1>3, <1>4, <2>1, <2>2 DEF Ledgered, Consecutive, Busy
<1>6. CASE Send
  <2>1. UNCHANGED opened /\ slot = NoCommand /\ slot' = hold /\ hold' = NoCommand
    BY <1>6 DEF Send
  <2> QED
    BY <1>1, <1>2, <1>3, <2>1 DEF Ledgered, Consecutive, Busy
<1>7. CASE ReplaceSymbolizer
  <2>1. UNCHANGED <<opened, slot>> /\ ~IsWindow(hold) /\ ~IsWindow(hold')
    BY <1>7 DEF ReplaceSymbolizer, Flow, HoldLatest
  <2> QED
    BY <1>1, <1>2, <2>1 DEF Ledgered, Consecutive, Busy
<1>8. CASE Poll \/ CollectError \/ Finish \/ JoinWorker \/ JoinExporter \/ DropCommands \/ CancelExporter \/ JoinCancelled
  <2>1. UNCHANGED <<opened, slot, hold>>
    BY <1>8 DEF Poll, CollectError, Finish, JoinWorker, JoinExporter, DropCommands, CancelExporter, JoinCancelled
  <2> QED
    BY <1>1, <1>2, <2>1 DEF Ledgered, Consecutive, Busy
<1> QED
  BY <1>5, <1>6, <1>7, <1>8 DEF Recorder

LEMMA WorkerLedgered == Typing /\ Ledgered /\ Worker => Ledgered'
<1> USE DEF IsWindow, Count
<1> SUFFICES ASSUME Typing, Ledgered, Worker PROVE Ledgered'
  OBVIOUS
<1>1. UNCHANGED <<opened, hold, plan>> /\ NoCommand.kind = "none" /\ opened \in Nat
  BY WorkerFrame, Limits DEF NoCommand, Typing, TypeOK
<1>2. Len(retained) \in Nat /\ KeepWindows \in Nat /\ retained \in Seq(Windows)
  BY Elements, Limits
<1>3. IsWindow(slot) => slot.window \in Nat
  BY DEF Typing, SlotHasWindow
<1>4. CASE TakeSymbolizer \/ TakeWindow
  <2>1. /\ UNCHANGED retained /\ wpc = "idle" /\ wpc' # "prune" /\ slot' = NoCommand
        /\ (slot.kind = "symbolizer" /\ ~Busy') \/ (slot.kind = "window" /\ job' = slot)
    BY <1>4 DEF TakeSymbolizer, TakeWindow, Busy
  <2> QED
    BY <1>1, <1>2, <1>3, <2>1 DEF Ledgered, Consecutive, Limited, Reliable, Busy
<1>5. CASE WorkerExit \/ Complete \/ RollBack
  <2>1. UNCHANGED <<slot, retained>> /\ ~Busy' /\ wpc # "prune" /\ wpc' # "prune"
    BY <1>5 DEF WorkerExit, Complete, RollBack, Busy
  <2> QED
    BY <1>1, <2>1 DEF Ledgered, Consecutive, Limited, Reliable
<1>6. CASE WritePprof \/ WriteDerived \/ SubmitExport
  <2>1. UNCHANGED <<slot, job, retained>> /\ Busy /\ wpc # "prune" /\ wpc' # "prune"
    BY <1>6 DEF WritePprof, WriteDerived, WriteFails, SubmitExport, Busy
  <2> QED
    BY <1>1, <2>1 DEF Ledgered, Consecutive, Limited, Reliable
<1>7. CASE WriteDiagnostics
  <2>1. /\ UNCHANGED <<slot, job>> /\ Busy /\ wpc = "diag"
        /\ \/ retained' = retained /\ wpc' = "rollback"
           \/ retained' = Append(retained, job.window) /\ wpc' = "prune"
    BY <1>7 DEF WriteDiagnostics, WriteFails, Busy
  <2>2. Len(Append(retained, job.window)) = Len(retained) + 1
    BY <1>2, <2>1, AppendProperties DEF Typing, BusyHasWindow
  <2> QED
    BY <1>1, <1>2, <2>1, <2>2 DEF Ledgered, Consecutive, Limited, Reliable
<1>8. CASE ExpireOldest
  <2>1. /\ UNCHANGED <<slot, job>> /\ Busy /\ wpc = "prune" /\ Len(retained) > KeepWindows
        /\ retained' = Tail(retained)
    BY <1>8 DEF ExpireOldest, Oldest, Busy
  <2>2. Len(retained') = Len(retained) - 1
    <3>1. retained # <<>>
      BY <1>2, <2>1, EmptySeq
    <3> QED
      BY <1>2, <2>1, <3>1, HeadTailProperties
  <2> QED
    BY <1>1, <1>2, <2>1, <2>2 DEF Ledgered, Consecutive, Limited, Reliable
<1>9. CASE Announce
  <2>1. UNCHANGED <<slot, job, retained>> /\ Busy /\ Len(retained) <= KeepWindows
    BY <1>9 DEF Announce, Busy
  <2> QED
    BY <1>1, <1>2, <2>1 DEF Ledgered, Consecutive, Limited
<1> QED
  BY <1>4, <1>5, <1>6, <1>7, <1>8, <1>9 DEF Worker

LEMMA LedgeredInvariant == Spec => []Ledgered
<1>1. Typing /\ Flow /\ Ledgered /\ [Next]_vars => Ledgered'
  <2>1. CASE UNCHANGED vars
    BY <2>1 DEF vars, Ledgered, Consecutive, Limited, Reliable, Busy, IsWindow, Count
  <2>2. CASE Exporter
    BY <2>2, ExporterFrame DEF Ledgered, Consecutive, Limited, Reliable, Busy, IsWindow, Count
  <2> QED
    BY <2>1, <2>2, RecorderLedgered, WorkerLedgered DEF Next, Terminating
<1> QED
  BY <1>1, LedgeredInit, HistoriesInvariant, TypingInvariant, PTL DEF Spec

-----------------------------------------------------------------------------
(* The ledger's view of a step.                                            *)

(* What the worker's list shows of the ledger's log.                       *)
LEMMA PublishedIs ==
    ASSUME Typing, Histories
    PROVE  /\ wpc # "prune" => Published = retained
           /\ wpc = "prune" =>
                 /\ Published \in Seq(Windows) /\ Len(Published) = Len(retained) - 1
                 /\ \A i \in 1..(Len(retained) - 1) : Published[i] = retained[i]
                 /\ retained = Append(Published, job.window)
<1>1. retained \in Seq(Windows) /\ Len(retained) \in Nat /\ \A i \in 1..Len(retained) : retained[i] \in Windows
  BY Elements
<1>2. CASE wpc = "prune"
  <2>1. Len(retained) > 0 /\ retained[Len(retained)] = job.window
    BY <1>2 DEF Histories, JobLast
  <2>2. /\ Published \in Seq(Windows) /\ Len(Published) = Len(retained) - 1
        /\ \A i \in 1..(Len(retained) - 1) : Published[i] = retained[i]
    <3>1. Published = SubSeq(retained, 1, Len(retained) - 1)
      BY <1>2 DEF Published
    <3>2. \A i \in 1..(Len(retained) - 1) : retained[i] \in Windows
      BY <1>1
    <3>3. 1 \in Int /\ Len(retained) - 1 \in Int
      BY <1>1
    <3>4. /\ SubSeq(retained, 1, Len(retained) - 1) \in Seq(Windows)
          /\ Len(SubSeq(retained, 1, Len(retained) - 1)) =
                (IF 1 <= Len(retained) - 1 THEN Len(retained) - 1 - 1 + 1 ELSE 0)
          /\ \A i \in 1..(Len(retained) - 1 - 1 + 1) :
                SubSeq(retained, 1, Len(retained) - 1)[i] = retained[1 + i - 1]
      BY <3>2, <3>3, SubSeqProperties
    <3>5. 1..(Len(retained) - 1 - 1 + 1) = 1..(Len(retained) - 1)
      BY <1>1
    <3>6. ASSUME NEW i \in 1..(Len(retained) - 1)
          PROVE  Published[i] = retained[i]
      <4>1. i \in 1..(Len(retained) - 1 - 1 + 1) /\ 1 + i - 1 = i
        BY <3>5
      <4> QED
        BY <3>1, <3>4, <4>1
    <3>7. Len(Published) = Len(retained) - 1
      <4>1. CASE Len(retained) = 1
        BY <3>1, <3>4, <4>1
      <4>2. CASE Len(retained) > 1
        BY <1>1, <3>1, <3>4, <4>2
      <4>3. Len(retained) \in Nat /\ Len(retained) > 0
        BY <1>1, <2>1
      <4>4. \A n \in Nat : n > 0 => n = 1 \/ n > 1
        OBVIOUS
      <4> QED
        BY <4>1, <4>2, <4>3, <4>4
    <3> QED
      BY <3>1, <3>4, <3>6, <3>7
  <2>3. retained = Append(Published, job.window)
    <3>1. job.window \in Windows
      BY <1>1, <2>1
    <3>2. /\ Append(Published, job.window) \in Seq(Windows)
          /\ Len(Append(Published, job.window)) = Len(Published) + 1
          /\ \A i \in 1..Len(Published) : Append(Published, job.window)[i] = Published[i]
          /\ Append(Published, job.window)[Len(Published) + 1] = job.window
      BY <2>2, <3>1, AppendProperties
    <3>3. \A i \in 1..Len(retained) : retained[i] = Append(Published, job.window)[i]
      BY <1>1, <2>1, <2>2, <3>2
    <3> QED
      BY <1>1, <2>2, <3>2, <3>3, SeqEqual
  <2> QED
    BY <1>2, <2>2, <2>3
<1>3. CASE wpc # "prune"
  BY <1>3 DEF Published
<1> QED
  BY <1>2, <1>3

LEMMA InitImplements == Init => Ledger!Init
<1> SUFFICES ASSUME Init PROVE Ledger!Init
  OBVIOUS
<1>1. Decided = 0
  <2>1. opened = 0 /\ hold.kind = "none" /\ slot.kind = "none" /\ wpc = "idle"
    BY DEF Init, NoCommand
  <2>2. ~IsWindow(hold) /\ ~IsWindow(slot) /\ ~Undecided
    BY <2>1 DEF IsWindow, Undecided
  <2>3. Count(IsWindow(hold)) = 0 /\ Count(IsWindow(slot)) = 0 /\ Count(Undecided) = 0
    BY <2>2, Zenon DEF Count
  <2>4. opened - Count(IsWindow(hold)) - Count(IsWindow(slot)) - Count(Undecided) = 0
    BY <2>1, <2>3
  <2> QED
    BY <2>4 DEF Decided
<1>2. Published = <<>> /\ failed = {}
  BY DEF Init, Published
<1> QED
  BY <1>1, <1>2 DEF Ledger!Init

Unseen == Decided' = Decided /\ Published' = Published /\ failed' = failed

LEMMA RecorderImplements == Typing /\ Typing' /\ Flow /\ Histories /\ Recorder => Unseen
<1> USE DEF IsWindow, Count
<1> SUFFICES ASSUME Typing, Typing', Flow, Histories, Recorder PROVE Unseen
  OBVIOUS
<1>1. UNCHANGED <<wpc, job, retained, failed>> /\ NoCommand.kind = "none" /\ opened \in Nat
  BY RecorderFrame, Limits DEF NoCommand, Typing, TypeOK
<1>2. Published' = Published /\ Undecided' = Undecided
  BY <1>1 DEF Published, Undecided
<1>3. Decided' = Decided
  <2>1. CASE CloseWindow
    <3>1. UNCHANGED slot /\ ~IsWindow(hold)
      BY <2>1 DEF CloseWindow, Flow, HoldLatest
    <3>2. \/ UNCHANGED <<opened, hold>>
          \/ opened' = opened + 1 /\ hold'.kind = "window"
      BY <2>1 DEF CloseWindow
    <3> QED
      BY <1>1, <1>2, <3>1, <3>2 DEF Decided
  <2>2. CASE Send
    <3>1. UNCHANGED opened /\ slot = NoCommand /\ slot' = hold /\ hold' = NoCommand
      BY <2>2 DEF Send
    <3> QED
      BY <1>1, <1>2, <3>1 DEF Decided
  <2>3. CASE ReplaceSymbolizer
    <3>1. UNCHANGED <<opened, slot>> /\ ~IsWindow(hold) /\ ~IsWindow(hold')
      BY <2>3 DEF ReplaceSymbolizer, Flow, HoldLatest
    <3> QED
      BY <1>2, <3>1 DEF Decided
  <2>4. CASE Poll \/ CollectError \/ Finish \/ JoinWorker \/ JoinExporter \/ DropCommands \/ CancelExporter \/ JoinCancelled
    <3>1. UNCHANGED <<opened, slot, hold>>
      BY <2>4 DEF Poll, CollectError, Finish, JoinWorker, JoinExporter, DropCommands, CancelExporter, JoinCancelled
    <3> QED
      BY <1>2, <3>1 DEF Decided
  <2> QED
    BY <2>1, <2>2, <2>3, <2>4 DEF Recorder
<1> QED
  BY <1>1, <1>2, <1>3 DEF Unseen

(* The worker decides windows when it announces them and when it has       *)
(* rolled them back, and expires one when it has one too many.             *)
Announces == /\ Len(Published) < KeepWindows /\ Decided' = Decided + 1
             /\ Published' = Append(Published, Decided + 1) /\ failed' = failed
GivesUp   == Decided' = Decided + 1 /\ failed' = failed \cup {Decided + 1} /\ Published' = Published
Drops     == /\ Len(Published) = KeepWindows /\ Published' = Tail(Published)
             /\ Decided' = Decided /\ failed' = failed

LEMMA WorkerImplements ==
    Typing /\ Typing' /\ Histories /\ Histories' /\ Ledgered /\ Reliable /\ Worker =>
        Unseen \/ Announces \/ GivesUp \/ Drops
<1> USE DEF IsWindow, Count
<1> SUFFICES ASSUME Typing, Typing', Histories, Histories', Ledgered, Reliable, Worker
             PROVE  Unseen \/ Announces \/ GivesUp \/ Drops
  OBVIOUS
<1>1. UNCHANGED <<opened, hold>> /\ NoCommand.kind = "none" /\ opened \in Nat
  BY WorkerFrame, Limits DEF NoCommand, Typing, TypeOK
<1>2. Len(retained) \in Nat /\ KeepWindows \in Nat \ {0} /\ retained \in Seq(Windows)
  BY Elements, Limits
<1>3. Undecided => job.window = Decided + 1
  <2>1. Undecided => Busy
    BY DEF Undecided, Busy
  <2> QED
    BY <1>1, <2>1 DEF Ledgered, Consecutive, Decided
<1>4. CASE TakeSymbolizer \/ TakeWindow
  <2>1. /\ UNCHANGED <<retained, failed>> /\ ~Undecided /\ slot' = NoCommand /\ wpc # "prune" /\ wpc' # "prune"
        /\ (slot.kind = "symbolizer" /\ ~Undecided') \/ (slot.kind = "window" /\ Undecided')
    BY <1>4 DEF TakeSymbolizer, TakeWindow, Undecided
  <2> QED
    BY <1>1, <2>1 DEF Unseen, Decided, Published
<1>5. CASE WorkerExit \/ Complete \/ SubmitExport
  <2>1. UNCHANGED <<retained, failed, slot>> /\ ~Undecided /\ ~Undecided' /\ wpc # "prune" /\ wpc' # "prune"
    BY <1>5 DEF WorkerExit, Complete, SubmitExport, Undecided
  <2> QED
    BY <1>1, <2>1 DEF Unseen, Decided, Published
<1>6. CASE WritePprof \/ WriteDerived
  <2>1. UNCHANGED <<retained, failed, slot>> /\ Undecided /\ Undecided' /\ wpc # "prune" /\ wpc' # "prune"
    BY <1>6 DEF WritePprof, WriteDerived, WriteFails, Undecided
  <2> QED
    BY <1>1, <2>1 DEF Unseen, Decided, Published
<1>7. CASE WriteDiagnostics
  <2>1. /\ UNCHANGED <<failed, slot, job>> /\ Undecided /\ Undecided' /\ wpc = "diag" /\ Busy
        /\ \/ retained' = retained /\ wpc' = "rollback"
           \/ retained' = Append(retained, job.window) /\ wpc' = "prune"
    BY <1>7 DEF WriteDiagnostics, WriteFails, Undecided, Busy
  <2>2. Decided' = Decided
    BY <1>1, <2>1 DEF Decided
  <2>3. CASE retained' = retained /\ wpc' = "rollback"
    BY <2>1, <2>2, <2>3 DEF Unseen, Published
  <2>4. CASE retained' = Append(retained, job.window) /\ wpc' = "prune"
    <3>1. Published = retained
      BY <2>1, PublishedIs
    <3>2. /\ Len(retained') = Len(retained) + 1
          /\ \A i \in 1..Len(retained) : retained'[i] = retained[i]
      BY <1>2, <2>1, <2>4, AppendProperties DEF Typing, BusyHasWindow
    <3>3. /\ Published' \in Seq(Windows) /\ Len(Published') = Len(retained') - 1
          /\ \A i \in 1..(Len(retained') - 1) : Published'[i] = retained'[i]
      <4>1. Published' = SubSeq(retained', 1, Len(retained))
        BY <1>2, <2>4, <3>2 DEF Published
      <4>2. \A i \in 1..Len(retained) : retained'[i] \in Windows
        BY <3>2, Elements
      <4>3. 1 \in Int /\ Len(retained) \in Int
        BY <1>2
      <4>4. /\ SubSeq(retained', 1, Len(retained)) \in Seq(Windows)
            /\ Len(SubSeq(retained', 1, Len(retained))) =
                  (IF 1 <= Len(retained) THEN Len(retained) - 1 + 1 ELSE 0)
            /\ \A i \in 1..(Len(retained) - 1 + 1) :
                  SubSeq(retained', 1, Len(retained))[i] = retained'[1 + i - 1]
        BY <4>2, <4>3, SubSeqProperties
      <4> QED
        BY <1>2, <3>2, <4>1, <4>4
    <3>4. Published' = retained
      BY <1>2, <3>2, <3>3, SeqEqual
    <3> QED
      BY <2>1, <2>2, <3>1, <3>4 DEF Unseen
  <2> QED
    BY <2>1, <2>3, <2>4
<1>8. CASE ExpireOldest
  <2>1. /\ UNCHANGED <<failed, slot, job>> /\ wpc = "prune" /\ wpc' = "prune" /\ Len(retained) > KeepWindows
        /\ retained' = Tail(retained) /\ Undecided /\ Undecided'
    BY <1>8 DEF ExpireOldest, Oldest, Undecided, Reliable
  <2>2. Decided' = Decided
    BY <1>1, <2>1 DEF Decided
  <2>3. /\ Published \in Seq(Windows) /\ Len(Published) = Len(retained) - 1
        /\ \A i \in 1..(Len(retained) - 1) : Published[i] = retained[i]
    BY <2>1, PublishedIs
  <2>4. Len(Published) = KeepWindows
    BY <1>2, <2>1, <2>3 DEF Ledgered, Limited
  <2>5. Len(retained') = Len(retained) - 1 /\ \A i \in 1..Len(retained') : retained'[i] = retained[i + 1]
    <3>1. retained # <<>>
      BY <1>2, <2>1, EmptySeq
    <3> QED
      BY <1>2, <2>1, <3>1, HeadTailProperties
  <2>6. /\ Tail(Published) \in Seq(Windows) /\ Len(Tail(Published)) = Len(Published) - 1
        /\ \A i \in 1..Len(Tail(Published)) : Tail(Published)[i] = Published[i + 1]
    <3>1. Published # <<>>
      BY <1>2, <2>3, <2>4, EmptySeq
    <3> QED
      BY <2>3, <3>1, HeadTailProperties
  <2>7. /\ Published' \in Seq(Windows) /\ Len(Published') = Len(retained') - 1
        /\ \A i \in 1..(Len(retained') - 1) : Published'[i] = retained'[i]
    <3>1. Published' = SubSeq(retained', 1, Len(retained') - 1)
      BY <2>1 DEF Published
    <3>2. ASSUME NEW i \in 1..(Len(retained') - 1)
          PROVE  retained'[i] \in Windows
      <4>1. i \in 1..Len(retained') /\ i + 1 \in 1..Len(retained)
        BY <1>2, <2>1, <2>5
      <4>2. retained[i + 1] \in Windows
        BY <4>1, Elements
      <4> QED
        BY <2>5, <4>1, <4>2
    <3>3. 1 \in Int /\ Len(retained') - 1 \in Int
      BY <1>2, <2>5
    <3>4. /\ SubSeq(retained', 1, Len(retained') - 1) \in Seq(Windows)
          /\ Len(SubSeq(retained', 1, Len(retained') - 1)) =
                (IF 1 <= Len(retained') - 1 THEN Len(retained') - 1 - 1 + 1 ELSE 0)
          /\ \A i \in 1..(Len(retained') - 1 - 1 + 1) :
                SubSeq(retained', 1, Len(retained') - 1)[i] = retained'[1 + i - 1]
      BY <3>2, <3>3, SubSeqProperties
    <3> QED
      BY <1>2, <2>1, <2>5, <3>1, <3>4
  <2>8. Published' = Tail(Published)
    <3>1. Len(Published') = Len(Tail(Published))
      BY <2>3, <2>5, <2>6, <2>7
    <3>2. \A i \in 1..Len(Published') : Published'[i] = Tail(Published)[i]
      BY <1>2, <2>3, <2>5, <2>6, <2>7
    <3> QED
      BY <2>6, <2>7, <3>1, <3>2, SeqEqual
  <2> QED
    BY <2>1, <2>2, <2>4, <2>8 DEF Drops
<1>9. CASE Announce
  <2>1. /\ UNCHANGED <<failed, slot, job, retained>> /\ wpc = "prune" /\ wpc' # "prune" /\ Len(retained) <= KeepWindows
        /\ Undecided /\ ~Undecided'
    BY <1>9 DEF Announce, Undecided
  <2>2. Decided' = Decided + 1
    BY <1>1, <2>1 DEF Decided
  <2>3. retained = Append(Published, Decided + 1) /\ Len(Published) = Len(retained) - 1
    BY <1>3, <2>1, PublishedIs
  <2>4. Published' = retained
    BY <2>1 DEF Published
  <2> QED
    BY <1>2, <2>1, <2>2, <2>3, <2>4 DEF Announces
<1>10. CASE RollBack
  <2>1. /\ UNCHANGED <<retained, slot>> /\ wpc = "rollback" /\ wpc' = "idle" /\ failed' = failed \cup {job.window}
        /\ Undecided /\ ~Undecided'
    BY <1>10 DEF RollBack, Undecided
  <2>2. Decided' = Decided + 1
    BY <1>1, <2>1 DEF Decided
  <2> QED
    BY <1>3, <2>1, <2>2 DEF GivesUp, Published
<1> QED
  BY <1>4, <1>5, <1>6, <1>7, <1>8, <1>9, <1>10 DEF Worker

LEMMA StepImplements ==
    /\ Typing /\ Typing' /\ Flow /\ Histories /\ Histories' /\ Ledgered
    /\ [Next]_vars
    => [Ledger!Next]_Ledger!ledgerVars
<1> SUFFICES ASSUME Typing, Typing', Flow, Histories, Histories', Ledgered, [Next]_vars
             PROVE  [Ledger!Next]_Ledger!ledgerVars
  OBVIOUS
<1>1. UNCHANGED plan
  BY RecorderFrame, WorkerFrame, ExporterFrame DEF Next, Terminating, vars
<1>2. Unseen \/ (Reliable => Announces \/ GivesUp \/ Drops)
  <2>1. CASE Exporter
    BY <2>1, ExporterFrame DEF Unseen, Decided, Published, Undecided
  <2>2. CASE UNCHANGED vars
    BY <2>2 DEF vars, Unseen, Decided, Published, Undecided
  <2> QED
    BY <2>1, <2>2, RecorderImplements, WorkerImplements DEF Next, Terminating
<1>3. Reliable' = Reliable
  BY <1>1 DEF Reliable
<1>4. CASE ~Reliable
  BY <1>3, <1>4 DEF Ledger!ledgerVars
<1>5. CASE Reliable /\ Unseen
  BY <1>3, <1>5 DEF Ledger!ledgerVars, Unseen
<1>6. CASE Reliable /\ (Announces \/ GivesUp \/ Drops)
  BY <1>3, <1>6 DEF Ledger!Next, Ledger!Publish, Ledger!Lose, Ledger!Expire, Announces, GivesUp, Drops
<1> QED
  BY <1>2, <1>4, <1>5, <1>6

(* The output pipeline publishes, loses and expires windows exactly as the *)
(* ledger allows: in closing order, one at a time, the oldest only to make *)
(* room, unless removing an expired window fails.                          *)
THEOREM PipelineImplementsLedger == Spec => ImplementsLedger
<1>1. Init => Ledger!Init
  BY InitImplements
<1>2. Typing /\ Typing' /\ Flow /\ Histories /\ Histories' /\ Ledgered /\ [Next]_vars
      => [Ledger!Next]_Ledger!ledgerVars
  BY StepImplements
<1> QED
  BY <1>1, <1>2, TypingInvariant, HistoriesInvariant, LedgeredInvariant, PTL
  DEF Spec, ImplementsLedger, Ledger!Spec
=============================================================================
