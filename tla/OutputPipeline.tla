---------------------------- MODULE OutputPipeline ----------------------------
(***************************************************************************)
(* The output side of a recording: three threads of                        *)
(* src/src/platform/linux/record.rs and the files they share.              *)
(*                                                                         *)
(*   recorder --(commands: bounded(1))--> output worker                    *)
(*   recorder <-(completions: unbounded)- output worker                    *)
(*   output worker --(export jobs: bounded(4))--> OTLP exporter            *)
(*                                                                         *)
(* The recorder closes windows and hands them to the worker; the worker    *)
(* writes the window's files one after another, rolls back on an error,    *)
(* expires the oldest window and passes the encoded window on; the         *)
(* exporter sends it and rewrites the window's diagnostics file with the   *)
(* outcome.  The three threads meet on the disk: the exporter rewrites a   *)
(* file of a window the worker may be removing.                            *)
(*                                                                         *)
(* A window's outputs are abstracted to three file kinds, written in this  *)
(* order: "pprof" (every authoritative profile), "derived" (SVG and        *)
(* Firefox files) and "diag" (the diagnostics JSON).  Panics of a thread   *)
(* are not modelled.                                                       *)
(***************************************************************************)
EXTENDS Naturals, Sequences

CONSTANTS
    MaxWindows,  \* bound: windows one recording closes
    MaxSyms,     \* bound: symbolizer replacements in one recording
    KeepWindows, \* --keep-windows
    ExportCap,   \* capacity of the export queue (4 in the code)
    Otlp,        \* an OTLP endpoint is configured
    Derived,     \* SVG or Firefox files are configured
    Plans        \* windows and symbolizers at most, and what may fail meanwhile

(* The operations that may fail.                                           *)
Operations == {"collect", "write", "encode", "expire", "rollback", "persist"}

ASSUME ConstantsAssumption ==
    /\ MaxWindows \in Nat
    /\ MaxSyms \in Nat
    /\ KeepWindows \in Nat \ {0}
    /\ ExportCap \in Nat \ {0}
    /\ Otlp \in BOOLEAN
    /\ Derived \in BOOLEAN
    /\ Plans \subseteq [windows : 0..MaxWindows, syms : 0..MaxSyms, faults : SUBSET Operations]

VARIABLES
    rpc,         \* recorder: where its thread is
    opened,      \* recorder: windows closed so far; their names are 1..opened
    sym,         \* recorder: version of the symbolizer it sent last
    hold,        \* recorder: the command it is trying to send
    pending,     \* recorder: OutputWriter.pending
    slot,        \* the command channel, bounded(1)
    closed,      \* OutputWriter.commands was taken
    completions, \* the completion channel: one Boolean per written window
    wpc,         \* worker: where its thread is
    job,         \* worker: the command it is executing
    symbolizer,  \* worker: version of the symbolizer it owns
    retained,    \* worker: the windows it still has to expire, oldest first
    exports,     \* the export queue, a sequence of windows
    epc,         \* exporter: where its thread is
    shipping,    \* exporter: [window, outcome] of the job it holds
    detached,    \* OtlpExporter.sender was dropped by the recorder
    stopping,    \* OtlpExporter.stopping
    files,       \* disk: the output files of every window
    status,      \* disk: otlp.status in the window's diagnostics file
    failed,      \* history: windows whose write returned an error
    expired,     \* history: windows taken from the front of retained
    plan         \* the one of Plans that this recording is about

recorderVars == <<rpc, opened, sym, hold, pending>>
channelVars  == <<slot, closed, completions>>
workerVars   == <<wpc, job, symbolizer, retained>>
exporterVars == <<exports, epc, shipping, detached, stopping>>
diskVars     == <<files, status>>
historyVars  == <<failed, expired, plan>>
vars == <<recorderVars, channelVars, workerVars, exporterVars, diskVars, historyVars>>

Windows   == 1..MaxWindows
FileKinds == {"pprof", "derived", "diag"}
Outcomes  == {"exported", "partial", "failed"}
Statuses  == Outcomes \cup {"none", "disabled", "pending", "dropped"}

(* A command: a window with the pending count it was shed for (0: nothing  *)
(* shed) and the recorder's symbolizer when it was closed, or a new        *)
(* symbolizer.  NoCommand marks an empty channel or idle thread.           *)
Commands ==
    [kind : {"window", "symbolizer"}, window : 0..MaxWindows, shed : Nat, sym : 0..MaxSyms]
NoCommand == [kind |-> "none", window |-> 0, shed |-> 0, sym |-> 0]
NoJob     == [window |-> 0, outcome |-> "failed"]

WritesDerived(c) == Derived /\ c.shed = 0
WantsExport(c)   == Otlp /\ c.shed = 0

Init ==
    /\ rpc = "collect" /\ opened = 0 /\ sym = 0 /\ hold = NoCommand /\ pending = 0
    /\ slot = NoCommand /\ closed = FALSE /\ completions = <<>>
    /\ wpc = "idle" /\ job = NoCommand /\ symbolizer = 0 /\ retained = <<>>
    /\ exports = <<>> /\ epc = (IF Otlp THEN "idle" ELSE "done") /\ shipping = NoJob
    /\ detached = FALSE /\ stopping = FALSE
    /\ files = [w \in Windows |-> {}] /\ status = [w \in Windows |-> "none"]
    /\ failed = {} /\ expired = {} /\ plan \in Plans

-----------------------------------------------------------------------------
(* Recorder                                                                *)

(* check_completed: take every completion, one off pending for each.       *)
(* (Mutants: one per call, one too many, only the last result looked at.)  *)
SettledOnce(p)  == IF p > 0 /\ completions # <<>> THEN p - 1 ELSE p
SettledTwice(p) == p - 2 * Len(completions)
LastWritten     == completions = <<>> \/ completions[Len(completions)]
Settled(p) == IF p > Len(completions) THEN p - Len(completions) ELSE 0
AllWritten == \A i \in 1..Len(completions) : completions[i]
CheckCompleted ==
    /\ pending' = Settled(pending)
    /\ completions' = <<>>

(* The polling loop: an error of an earlier window ends the recording.     *)
Poll ==
    /\ rpc = "collect"
    /\ completions # <<>>
    /\ CheckCompleted
    /\ rpc' = (IF AllWritten THEN "collect" ELSE "drop")
    /\ UNCHANGED <<opened, sym, hold, slot, closed, workerVars, exporterVars, diskVars, historyVars>>

(* submit: check, shed the derived outputs if the worker is behind, send.  *)
CloseWindow ==
    /\ rpc = "collect"
    /\ opened < plan.windows
    /\ CheckCompleted
    /\ IF AllWritten
       THEN /\ rpc' = "send"
            /\ opened' = opened + 1
            /\ hold' = [kind |-> "window", window |-> opened + 1, shed |-> pending', sym |-> sym]
       ELSE rpc' = "drop" /\ UNCHANGED <<opened, hold>>
    /\ UNCHANGED <<sym, slot, closed, workerVars, exporterVars, diskVars, historyVars>>

(* Mutant of ReplaceSymbolizer: the worker's symbolizer is shared, not     *)
(* replaced in the order of the commands.                                  *)
ShareSymbolizer ==
    /\ rpc = "collect"
    /\ sym < plan.syms
    /\ sym' = sym + 1
    /\ symbolizer' = sym + 1
    /\ UNCHANGED <<rpc, opened, hold, pending, channelVars, wpc, job, retained, exporterVars, diskVars, historyVars>>

(* replace_symbolizer: check, send; new mappings, an exec or a restart.    *)
ReplaceSymbolizer ==
    /\ rpc = "collect"
    /\ sym < plan.syms
    /\ CheckCompleted
    /\ IF AllWritten
       THEN /\ rpc' = "send"
            /\ sym' = sym + 1
            /\ hold' = [kind |-> "symbolizer", window |-> 0, shed |-> 0, sym |-> sym + 1]
       ELSE rpc' = "drop" /\ UNCHANGED <<sym, hold>>
    /\ UNCHANGED <<opened, slot, closed, workerVars, exporterVars, diskVars, historyVars>>

(* send blocks until the channel has room; submit then counts the window.  *)
Send ==
    /\ rpc = "send"
    /\ slot = NoCommand
    /\ slot' = hold
    /\ hold' = NoCommand
    /\ pending' = (IF hold.kind = "window" THEN pending + 1 ELSE pending)
    /\ rpc' = "collect"
    /\ UNCHANGED <<opened, sym, closed, completions, workerVars, exporterVars, diskVars, historyVars>>

(* Any other error of the recording loop drops the OutputWriter.           *)
CollectError ==
    /\ "collect" \in plan.faults
    /\ rpc = "collect"
    /\ rpc' = "drop"
    /\ UNCHANGED <<opened, sym, hold, pending, channelVars, workerVars, exporterVars, diskVars, historyVars>>

(* The loop stops after a window: a stop request, the deadline, the exit of *)
(* the target.  finish closes the commands, joins the worker, checks, and  *)
(* flushes the exporter.                                                   *)
Finish ==
    /\ rpc = "collect"
    /\ opened > 0
    /\ rpc' = "join"
    /\ closed' = TRUE
    /\ UNCHANGED <<opened, sym, hold, pending, slot, completions, workerVars, exporterVars, diskVars, historyVars>>

JoinWorker ==
    /\ rpc = "join"
    /\ wpc = "done"
    /\ CheckCompleted
    /\ IF AllWritten /\ pending' = 0
       THEN rpc' = "flush" /\ detached' = TRUE
       ELSE rpc' = "drop" /\ UNCHANGED detached
    /\ UNCHANGED <<opened, sym, hold, slot, closed, workerVars, exports, epc, shipping, stopping, diskVars, historyVars>>

JoinExporter ==
    /\ rpc = "flush"
    /\ epc = "done"
    /\ rpc' = "succeeded"
    /\ UNCHANGED <<opened, sym, hold, pending, channelVars, workerVars, exporterVars, diskVars, historyVars>>

(* Drop: close the commands, join the worker, cancel the exporter.         *)
DropCommands ==
    /\ rpc = "drop"
    /\ ~closed
    /\ closed' = TRUE
    /\ UNCHANGED <<recorderVars, slot, completions, workerVars, exporterVars, diskVars, historyVars>>

CancelExporter ==
    /\ rpc = "drop"
    /\ closed
    /\ wpc = "done"
    /\ rpc' = "cancel"
    /\ stopping' = TRUE
    /\ detached' = TRUE
    /\ UNCHANGED <<opened, sym, hold, pending, channelVars, workerVars, exports, epc, shipping, diskVars, historyVars>>

JoinCancelled ==
    /\ rpc = "cancel"
    /\ epc = "done"
    /\ rpc' = "aborted"
    /\ UNCHANGED <<opened, sym, hold, pending, channelVars, workerVars, exporterVars, diskVars, historyVars>>

Recorder ==
    \/ Poll \/ CloseWindow \/ ReplaceSymbolizer \/ Send \/ CollectError
    \/ Finish \/ JoinWorker \/ JoinExporter
    \/ DropCommands \/ CancelExporter \/ JoinCancelled

-----------------------------------------------------------------------------
(* Output worker                                                           *)

(* recv of a new symbolizer: the worker's own is replaced.                 *)
TakeSymbolizer ==
    /\ wpc = "idle"
    /\ slot.kind = "symbolizer"
    /\ symbolizer' = slot.sym
    /\ slot' = NoCommand
    /\ UNCHANGED <<recorderVars, closed, completions, wpc, job, retained, exporterVars, diskVars, historyVars>>

(* recv of a window: start writing its files.                              *)
TakeWindow ==
    /\ wpc = "idle"
    /\ slot.kind = "window"
    /\ job' = slot
    /\ slot' = NoCommand
    /\ wpc' = "pprof"
    /\ UNCHANGED <<recorderVars, closed, completions, symbolizer, retained, exporterVars, diskVars, historyVars>>

(* recv fails once the channel is empty and its sender gone.  (Mutant: as  *)
(* soon as its sender is gone.)                                            *)
WorkerExitEarly ==
    /\ wpc = "idle"
    /\ closed
    /\ wpc' = "done"
    /\ UNCHANGED <<recorderVars, channelVars, job, symbolizer, retained, exporterVars, diskVars, historyVars>>

WorkerExit ==
    /\ wpc = "idle"
    /\ slot = NoCommand
    /\ closed
    /\ wpc' = "done"
    /\ UNCHANGED <<recorderVars, channelVars, job, symbolizer, retained, exporterVars, diskVars, historyVars>>

(* atomic_write publishes f by a rename, or fails before the rename, or    *)
(* fails after it, in the sync of the directory.                           *)
Publish(w, f) == files' = [files EXCEPT ![w] = @ \cup {f}]
WriteFails(f) ==
    /\ "write" \in plan.faults
    /\ \/ Publish(job.window, f)
       \/ UNCHANGED files
    /\ wpc' = "rollback"

WritePprof ==
    /\ wpc = "pprof"
    /\ \/ /\ Publish(job.window, "pprof")
          /\ wpc' = (IF WritesDerived(job) THEN "derived" ELSE "diag")
       \/ WriteFails("pprof")
    /\ UNCHANGED <<recorderVars, channelVars, job, symbolizer, retained, exporterVars, status, historyVars>>

WriteDerived ==
    /\ wpc = "derived"
    /\ \/ /\ Publish(job.window, "derived")
          /\ wpc' = "diag"
       \/ WriteFails("derived")
    /\ UNCHANGED <<recorderVars, channelVars, job, symbolizer, retained, exporterVars, status, historyVars>>

(* The OTLP status the diagnostics are first written with.                 *)
FirstStatus(c, encoded) ==
    CASE ~Otlp                    -> "disabled"
      [] Otlp /\ c.shed # 0       -> "dropped"
      [] WantsExport(c) /\ encoded -> "pending"
      [] OTHER                    -> "failed"

(* Encode the export payload, write the diagnostics, retain the window.    *)
WriteDiagnostics ==
    /\ wpc = "diag"
    /\ \E encoded \in (IF WantsExport(job) /\ "encode" \in plan.faults THEN BOOLEAN ELSE {TRUE}) :
         \/ /\ Publish(job.window, "diag")
            /\ status' = [status EXCEPT ![job.window] = FirstStatus(job, encoded)]
            /\ retained' = Append(retained, job.window)
            /\ wpc' = "prune"
         \/ /\ WriteFails("diag")
            /\ status' = [status EXCEPT ![job.window] =
                            IF "diag" \in files'[job.window] THEN FirstStatus(job, encoded) ELSE @]
            /\ UNCHANGED retained
    /\ UNCHANGED <<recorderVars, channelVars, job, symbolizer, exporterVars, historyVars>>

(* diagnostics.outputs, the list of a window's files by which it is expired *)
(* and rolled back.  (Mutant: the diagnostics file itself is forgotten.)   *)
ProfilesOnly  == {"pprof", "derived"}
WindowOutputs == FileKinds

(* The window prune_session_windows removes.  (Mutant: the latest one.)    *)
Latest == retained[Len(retained)]
Oldest == Head(retained)

(* Mutant of ExpireOldest: the files are removed, the list is not.         *)
ExpireFilesOnly ==
    /\ wpc = "prune"
    /\ Len(retained) > KeepWindows
    /\ files' = [files EXCEPT ![Oldest] = {}]
    /\ expired' = expired \cup {Oldest}
    /\ wpc' = (IF status[job.window] = "pending" THEN "export" ELSE "written")
    /\ UNCHANGED <<recorderVars, channelVars, job, symbolizer, retained, exporterVars, status, failed, plan>>

(* prune_session_windows: the oldest window leaves the list, then its files *)
(* are removed one after another; a removal that fails leaves the rest.    *)
ExpireOldest ==
    /\ wpc = "prune"
    /\ Len(retained) > KeepWindows
    /\ retained' = Tail(retained)
    /\ expired' = expired \cup {Oldest}
    /\ \/ /\ files' = [files EXCEPT ![Oldest] = @ \ WindowOutputs]
          /\ UNCHANGED wpc
       \/ /\ "expire" \in plan.faults
          /\ \E removed \in {{}, {"pprof"}, {"pprof", "derived"}} :
                files' = [files EXCEPT ![Oldest] = @ \ removed]
          /\ wpc' = "rollback"
    /\ UNCHANGED <<recorderVars, channelVars, job, symbolizer, exporterVars, status, failed, plan>>

(* Retention succeeded: the outputs are announced, the export job queued.  *)
Announce ==
    /\ wpc = "prune"
    /\ Len(retained) <= KeepWindows
    /\ wpc' = (IF status[job.window] = "pending" THEN "export" ELSE "written")
    /\ UNCHANGED <<recorderVars, channelVars, job, symbolizer, retained, exporterVars, diskVars, historyVars>>

(* update_export_diagnostics' rewrite of w's diagnostics file; a failed    *)
(* one is only reported on stderr.                                         *)
Rewrite(w, outcome) ==
    \/ /\ Publish(w, "diag")
       /\ status' = [status EXCEPT ![w] = outcome]
    \/ "persist" \in plan.faults /\ UNCHANGED diskVars

(* submit_export: try_send; a full queue drops the job and says so.        *)
SubmitExport ==
    /\ wpc = "export"
    /\ wpc' = "written"
    /\ IF Len(exports) < ExportCap
       THEN exports' = Append(exports, job.window) /\ UNCHANGED diskVars
       ELSE Rewrite(job.window, "dropped") /\ UNCHANGED exports
    /\ UNCHANGED <<recorderVars, channelVars, job, symbolizer, retained, epc, shipping, detached, stopping, historyVars>>

(* The completion goes back to the recorder.                               *)
Complete ==
    /\ wpc = "written"
    /\ completions' = Append(completions, TRUE)
    /\ wpc' = "idle"
    /\ job' = NoCommand
    /\ UNCHANGED <<recorderVars, slot, closed, symbolizer, retained, exporterVars, diskVars, historyVars>>

(* rollback_incomplete_window removes every output of the window it can.   *)
RollBack ==
    /\ wpc = "rollback"
    /\ \E left \in (IF "rollback" \in plan.faults THEN SUBSET WindowOutputs ELSE {{}}) :
          files' = [files EXCEPT ![job.window] = (@ \ WindowOutputs) \cup (@ \cap left)]
    /\ failed' = failed \cup {job.window}
    /\ completions' = Append(completions, FALSE)
    /\ wpc' = "idle"
    /\ job' = NoCommand
    /\ UNCHANGED <<recorderVars, slot, closed, symbolizer, retained, exporterVars, status, expired, plan>>

Worker ==
    \/ TakeSymbolizer \/ TakeWindow \/ WorkerExit
    \/ WritePprof \/ WriteDerived \/ WriteDiagnostics
    \/ ExpireOldest \/ Announce \/ SubmitExport \/ Complete \/ RollBack

-----------------------------------------------------------------------------
(* OTLP exporter                                                           *)

(* recv; after a cancel the job is not sent any more.                      *)
TakeExport ==
    /\ epc = "idle"
    /\ exports # <<>>
    /\ shipping' = [window |-> Head(exports), outcome |-> "failed"]
    /\ exports' = Tail(exports)
    /\ epc' = (IF stopping THEN "persist" ELSE "send")
    /\ UNCHANGED <<recorderVars, channelVars, workerVars, detached, stopping, diskVars, historyVars>>

(* ExportClient::export returns after at most five attempts, earlier when  *)
(* stopping is set.                                                        *)
ShipExport ==
    /\ epc = "send"
    /\ \E outcome \in Outcomes : shipping' = [shipping EXCEPT !.outcome = outcome]
    /\ epc' = "persist"
    /\ UNCHANGED <<recorderVars, channelVars, workerVars, exports, detached, stopping, diskVars, historyVars>>

(* update_export_diagnostics first looks whether the file still exists ... *)
LookForDiagnostics ==
    /\ epc = "persist"
    /\ epc' = (IF "diag" \in files[shipping.window] THEN "rewrite" ELSE "idle")
    /\ UNCHANGED <<recorderVars, channelVars, workerVars, exports, shipping, detached, stopping, diskVars, historyVars>>

(* ... and then writes it, whatever happened to it in between.             *)
RewriteDiagnostics ==
    /\ epc = "rewrite"
    /\ Rewrite(shipping.window, shipping.outcome)
    /\ epc' = "idle"
    /\ UNCHANGED <<recorderVars, channelVars, workerVars, exports, shipping, detached, stopping, historyVars>>

(* recv fails when the queue is empty and both senders, the recorder's and *)
(* the worker's, are gone.  (Mutant: a cancelled exporter leaves its       *)
(* queue.)                                                                 *)
ExporterExitCancelled ==
    /\ epc = "idle"
    /\ exports = <<>> \/ stopping
    /\ detached
    /\ wpc = "done"
    /\ epc' = "done"
    /\ UNCHANGED <<recorderVars, channelVars, workerVars, exports, shipping, detached, stopping, diskVars, historyVars>>

ExporterExit ==
    /\ epc = "idle"
    /\ exports = <<>>
    /\ detached
    /\ wpc = "done"
    /\ epc' = "done"
    /\ UNCHANGED <<recorderVars, channelVars, workerVars, exports, shipping, detached, stopping, diskVars, historyVars>>

Exporter == TakeExport \/ ShipExport \/ LookForDiagnostics \/ RewriteDiagnostics \/ ExporterExit

-----------------------------------------------------------------------------

(* The recording has returned.                                             *)
Over == rpc \in {"succeeded", "aborted"}
Terminating == Over /\ UNCHANGED vars

Next == Recorder \/ Worker \/ Exporter \/ Terminating

Spec == Init /\ [][Next]_vars

(* Threads run, blocking calls return, an export gives up after its last   *)
(* attempt: each thread's steps are weakly fair.  Only the steps that      *)
(* leave the recording loop are: nothing forces a new window or symbolizer.*)
FairSpec ==
    /\ Spec
    /\ WF_vars(Send \/ JoinWorker \/ JoinExporter \/ DropCommands \/ CancelExporter \/ JoinCancelled)
    /\ WF_vars(Worker)
    /\ WF_vars(Exporter)

-----------------------------------------------------------------------------
(* Properties                                                              *)

Busy == wpc \notin {"idle", "done"}
IsWindow(c) == c.kind = "window"
Count(condition) == IF condition THEN 1 ELSE 0

(* Every variable holds a value of its kind.                               *)
TypeOK ==
    /\ rpc \in {"collect", "send", "join", "flush", "drop", "cancel", "succeeded", "aborted"}
    /\ opened \in 0..MaxWindows
    /\ sym \in 0..MaxSyms
    /\ hold \in Commands \cup {NoCommand}
    /\ pending \in Nat
    /\ slot \in Commands \cup {NoCommand}
    /\ closed \in BOOLEAN
    /\ completions \in Seq(BOOLEAN)
    /\ wpc \in {"idle", "pprof", "derived", "diag", "prune", "export", "written", "rollback", "done"}
    /\ job \in Commands \cup {NoCommand}
    /\ symbolizer \in 0..MaxSyms
    /\ retained \in Seq(Windows)
    /\ exports \in Seq(Windows)
    /\ epc \in {"idle", "send", "persist", "rewrite", "done"}
    /\ shipping \in [window : 0..MaxWindows, outcome : Outcomes]
    /\ detached \in BOOLEAN
    /\ stopping \in BOOLEAN
    /\ files \in [Windows -> SUBSET FileKinds]
    /\ status \in [Windows -> Statuses]
    /\ failed \subseteq Windows
    /\ expired \subseteq Windows
    /\ plan \in Plans

(* OutputWriter.pending counts exactly the windows that are queued, being  *)
(* written or finished and not yet looked at: the saturating subtraction   *)
(* of check_completed never saturates and finish never reports a window    *)
(* that is still pending.                                                  *)
PendingAccounting ==
    pending = Count(IsWindow(slot)) + Count(Busy) + Len(completions)

(* Collection runs at most three windows ahead of the disk, and the        *)
(* output_backpressure diagnostics of a shed window report at most two.    *)
BacklogBounded ==
    /\ pending <= 3
    /\ rpc = "send" => pending <= 2 /\ hold.shed <= 2

(* A window is symbolized by the symbolizer that was current when it was   *)
(* closed, however far the worker is behind an exec or a restart.          *)
SymbolizerMatchesWindow == Busy => symbolizer = job.sym

(* Transactional publication: a window whose write failed has no file on   *)
(* disk, then or later, and is never exported; unless its files could not  *)
(* be removed, which the error of the write then says too.                 *)
FailedLeavesNothing ==
    "rollback" \notin plan.faults => \A w \in failed :
        /\ files[w] = {}
        /\ \A i \in 1..Len(exports) : exports[i] # w
        /\ epc \in {"send", "persist", "rewrite"} => shipping.window # w

(* Retention: nothing is left of a window once it has expired.             *)
ExpiredWindowGone == \A w \in expired : files[w] = {}

(* Within the retention limit nothing of a published window is missing,    *)
(* and what an export rewrite can leave of an expired window is its        *)
(* diagnostics file; unless a file of it could not be removed, which ends  *)
(* the recording (prune_session_windows).                                  *)
RetentionExact ==
    /\ \A i \in 1..Len(retained) :
          retained[i] \notin failed => {"pprof", "diag"} \subseteq files[retained[i]]
    /\ "expire" \notin plan.faults => \A w \in expired : files[w] \subseteq {"diag"}

(* A recording that returns success has written every window it closed.    *)
SuccessMeansWritten ==
    rpc = "succeeded" =>
        \A w \in 1..opened :
            /\ w \notin failed
            /\ w \in expired \/ {"pprof", "diag"} \subseteq files[w]

(* When the recording returns, with success or with an error, no           *)
(* diagnostics file on disk says that its export is still pending, unless  *)
(* a diagnostics file could not be written or removed.                     *)
NoPendingAtEnd ==
    Over /\ plan.faults \subseteq {"collect", "write", "encode"} => \A w \in Windows : "diag" \in files[w] => status[w] # "pending"

(* Every window that was closed is written or reported as failed, even if  *)
(* the recording is aborted while it is queued, and both ways out of a     *)
(* recording return: the joins of the worker and of the exporter never     *)
(* wait for each other.                                                    *)
EveryWindowDecided ==
    /\ \A w \in Windows :
          (opened >= w) ~> (\/ w \in failed \cup expired
                            \/ \E i \in 1..Len(retained) : retained[i] = w)
    /\ (rpc \in {"join", "drop"}) ~> Over
=============================================================================
