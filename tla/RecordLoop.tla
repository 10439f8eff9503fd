------------------------------ MODULE RecordLoop ------------------------------
(***************************************************************************)
(* The recording loop of record.rs: a target is resolved, inspected and    *)
(* opened as a pidfd; an unwind mode is selected; symbols are loaded and   *)
(* the collectors attached; then windows follow each other until the       *)
(* recording is stopped, its deadline passes, or the target is gone.  A    *)
(* window ends early when the target exits or execs, and what comes next   *)
(* depends on why it ended:                                                *)
(*                                                                         *)
(*   resolve > start > inspect > validate > pidfd > mode (> calibrate) >   *)
(*      symbols > attach (> resume) > identity > maps > open               *)
(*   open > { head > events > tick (> second > secondmaps) } > close >     *)
(*      decide > open, or again from wait (exit), refresh (exec) or        *)
(*      attach (low frame-pointer quality)                                 *)
(*                                                                         *)
(* Every step reads /proc or the kernel at one moment, and the target runs *)
(* on between two of them.  What a window holds and how it is written are  *)
(* the subject of the other modules; a failure they return is Fails.       *)
(***************************************************************************)
EXTENDS TargetResolver

CONSTANTS
    Setups,         \* [kind, launch, unwind, bpf, info, partial]: what is recorded, and how
    WindowTicks,    \* --window, in polls of the loop
    ReconcileTicks  \* RECONCILE_INTERVAL, in polls of the loop

ASSUME LoopAssumption ==
    /\ WindowTicks \in Nat \ {0} /\ ReconcileTicks \in Nat \ {0}
    /\ \A s \in Setups :
          /\ s.kind \in {"process", "docker", "kubernetes"}
          /\ s.unwind \in {"auto", "fp", "dwarf"}
          /\ s.launch \in BOOLEAN /\ s.bpf \in BOOLEAN /\ s.partial \in BOOLEAN
          /\ s.info \subseteq Images   \* the images with an unwind table
          /\ s.launch => s.kind = "process"

VARIABLES
    setup,
    pc, phase, cause,    \* where the recorder is, why it (re)attaches, why it failed
    preflight,           \* start time and image of the last inspection
    validated,           \* history: the process validate_current looked at
    pidfd,               \* the process the pidfd refers to
    mode,                \* selected_mode
    symbols, raced,      \* the run the symbolizer was loaded from; history: maps were read of another
    collectors, events,  \* the process the collectors are attached to; flags of LifecycleNotifier
    identity, maps,      \* exe_identity and maps
    exited, execd, low,  \* target_exited, exec_detected, low_fp_quality
    tick,                \* polls made in the window
    stopped, deadline,   \* a signal has come; the recording's deadline has passed
    span                 \* history: what the target ran since the window began

attachVars == <<preflight, validated, pidfd, mode, symbols, raced, collectors, identity, maps>>
windowVars == <<exited, execd, low, tick>>
callerVars == <<setup, stopped, deadline>>
vars == <<worldVars, resolverVars, callerVars, pc, phase, cause, attachVars, events, windowVars, span>>

Done  == pc \in {"ended", "failed"}
Image == proc[last.pid].image
Alive == proc[last.pid] # Nobody
NoRun == <<0, 0>>

(* Combinations with --resume-pid and --unwind.                            *)
LaunchAuto == setup.launch /\ setup.unwind = "auto"
HasTable   == preflight.image \in setup.info \/ setup.partial

Init ==
    /\ setup \in Setups
    /\ WorldInit({setup.kind}, setup.launch)
    /\ pc = "resolve" /\ phase = "initial" /\ cause = "none"
    /\ preflight = [birth |-> 0, image |-> 0] /\ validated = 0 /\ pidfd = 0
    /\ mode = "fp" /\ symbols = NoRun /\ raced = FALSE
    /\ collectors = 0 /\ events = {} /\ identity = 0 /\ maps = NoRun
    /\ exited = FALSE /\ execd = FALSE /\ low = FALSE /\ tick = 0
    /\ stopped = FALSE /\ deadline = FALSE /\ span = {}

-----------------------------------------------------------------------------
(* Steps of the recorder                                                   *)

At(label)  == pc = label /\ UNCHANGED <<worldVars, callerVars>>
Goto(next) == pc' = next /\ UNCHANGED <<phase, cause>>
Fail(why)  == pc' = "failed" /\ cause' = why /\ UNCHANGED phase
Nothing    == UNCHANGED <<resolverVars, attachVars, events, windowVars, span>>

(* TargetResolver::resolve_initial, and refresh in the wait for a restart. *)
Resolve ==
    /\ At("resolve")
    /\ \/ BeginResolution /\ Goto("start")
       \/ Candidates = {} /\ Fail("resolve") /\ UNCHANGED resolverVars
    /\ UNCHANGED <<attachVars, events, windowVars, span>>

(* process_start_time of what the control plane named.  A process that is  *)
(* gone is waited for, the same process again is not a restart.            *)
(* (Mutant: only the ids are compared.)                                    *)
SamePid == last'.pid = last.pid
Previous == last' = [pid |-> last.pid, birth |-> preflight.birth]
StartTime ==
    /\ At("start")
    /\ \/ /\ EndResolution
          /\ Goto(IF phase = "restart" /\ Previous THEN "wait" ELSE "inspect")
       \/ /\ Disappeared /\ found' = NoPid /\ UNCHANGED last
          /\ IF phase = "restart" THEN Goto("wait") ELSE Fail("exit")
    /\ UNCHANGED <<attachVars, events, windowVars, span>>

(* cgroup_path and process::inspect.                                       *)
Inspect ==
    /\ At("inspect")
    /\ IF Alive THEN /\ preflight' = [birth |-> last.birth, image |-> Image]
                     /\ Goto("validate")
                ELSE Fail("exit") /\ UNCHANGED preflight
    /\ UNCHANGED <<resolverVars, validated, pidfd, mode, symbols, raced, collectors, identity, maps>>
    /\ UNCHANGED <<events, windowVars, span>>

Validate ==
    /\ At("validate")
    /\ IF StillTheSame THEN Goto("pidfd") ELSE Fail("changed")
    /\ validated' = proc[last.pid].birth
    /\ UNCHANGED <<resolverVars, preflight, pidfd, mode, symbols, raced, collectors, identity, maps>>
    /\ UNCHANGED <<events, windowVars, span>>

(* PidFd::open: whoever has the id now.                                    *)
OpenPidFd ==
    /\ At("pidfd")
    /\ IF Alive THEN pidfd' = proc[last.pid].birth /\ Goto("mode")
                ELSE Fail("exit") /\ UNCHANGED pidfd
    /\ UNCHANGED <<resolverVars, preflight, validated, mode, symbols, raced, collectors, identity, maps>>
    /\ UNCHANGED <<events, windowVars, span>>

(* PidFd::exited.  (Mutant: it is not looked at.)                          *)
NeverSeen == FALSE
PidFdExited == \A p \in Pids : proc[p].birth # pidfd

(* A read of /proc failed: that is the end of the target if the pidfd says *)
(* so, and otherwise an error.  (Mutant: always an error.)                 *)
NotAsked(next) == Fail("exit") /\ UNCHANGED exited
Lost(next) ==
    IF PidFdExited THEN exited' = TRUE /\ Goto(next) ELSE Fail("exit") /\ UNCHANGED exited

(* select_unwind_mode, or its caller when a launch calibrates in windows.  *)
SelectMode ==
    /\ At("mode")
    /\ IF setup.unwind = "auto" /\ ~LaunchAuto
       THEN /\ IF Alive THEN identity' = Image /\ Goto("calibrate")
                        ELSE Fail("exit") /\ UNCHANGED identity
            /\ UNCHANGED mode
       ELSE mode' = (IF LaunchAuto THEN "fp" ELSE setup.unwind) /\ Goto("symbols") /\ UNCHANGED identity
    /\ events' = {}
    /\ UNCHANGED <<resolverVars, preflight, validated, pidfd, symbols, raced, collectors, maps, windowVars, span>>

(* The calibration sees the target exit or exec, is interrupted, or ends.  *)
Calibrate ==
    /\ At("calibrate")
    /\ \/ stopped /\ Fail("interrupt") /\ UNCHANGED mode
       \/ ~stopped /\ PidFdExited /\ Fail("exit") /\ UNCHANGED mode
       \/ /\ ~stopped /\ ("exec" \in events \/ Image # identity)
          /\ Goto("recalibrate") /\ UNCHANGED mode
       \/ /\ "exec" \notin events
          /\ \/ mode' = "fp" /\ Goto("symbols")
             \/ HasTable /\ mode' = "dwarf" /\ Goto("symbols")
             \/ ~HasTable /\ Fail("info") /\ UNCHANGED mode
    /\ UNCHANGED <<resolverVars, preflight, validated, pidfd, symbols, raced, collectors, identity, maps>>
    /\ UNCHANGED <<events, windowVars, span>>

(* refresh_preflight_after_exec.                                           *)
RefreshPreflight ==
    /\ pc \in {"refresh", "recalibrate"} /\ At(pc)
    /\ IF Alive THEN /\ preflight' = [birth |-> proc[last.pid].birth, image |-> Image]
                     /\ Goto("mode")
                ELSE Fail("exit") /\ UNCHANGED preflight
    /\ UNCHANGED <<resolverVars, validated, pidfd, mode, symbols, raced, collectors, identity, maps>>
    /\ UNCHANGED <<events, windowVars, span>>

(* Symbolizer::for_process; the output worker is given it.                 *)
LoadSymbols ==
    /\ At("symbols")
    /\ IF Alive THEN symbols' = Run(last.pid) /\ Goto("attach")
                ELSE Fail("exit") /\ UNCHANGED symbols
    /\ UNCHANGED <<resolverVars, preflight, validated, pidfd, mode, raced, collectors, identity, maps>>
    /\ UNCHANGED <<events, windowVars, span>>

(* Collectors::start.                                                      *)
Attach ==
    /\ At("attach")
    /\ \/ mode = "dwarf" /\ ~HasTable /\ Fail("info") /\ UNCHANGED collectors
       \/ ~Alive /\ Fail("exit") /\ UNCHANGED collectors
       \/ Fail("attach") /\ UNCHANGED collectors
       \/ /\ mode = "fp" \/ HasTable
          /\ Alive
          /\ collectors' = proc[last.pid].birth
          /\ Goto(CASE phase = "low"               -> "open"
                    [] phase # "low" /\ suspended  -> "resume"
                    [] phase # "low" /\ ~suspended -> "identity")
    /\ events' = {}
    /\ UNCHANGED <<resolverVars, preflight, validated, pidfd, mode, symbols, raced, identity, maps, windowVars, span>>

Resume ==
    /\ pc = "resume"
    /\ suspended' = FALSE
    /\ Goto("identity")
    /\ UNCHANGED <<kind, proc, births, changes, ours, report, callerVars>> /\ Nothing

ReadIdentity ==
    /\ At("identity")
    /\ IF Alive THEN identity' = Image /\ Goto("maps") ELSE Fail("exit") /\ UNCHANGED identity
    /\ UNCHANGED <<resolverVars, preflight, validated, pidfd, mode, symbols, raced, collectors, maps>>
    /\ UNCHANGED <<events, windowVars, span>>

ReadMaps ==
    /\ At("maps")
    /\ IF Alive THEN /\ maps' = Run(last.pid) /\ raced' = (symbols # maps')
                     /\ exited' = FALSE
                     /\ pc' = "open" /\ phase' = "loop" /\ UNCHANGED cause
                ELSE Fail("exit") /\ UNCHANGED <<maps, raced, exited>>
    /\ UNCHANGED <<resolverVars, preflight, validated, pidfd, mode, symbols, collectors, identity>>
    /\ UNCHANGED <<events, execd, low, tick, span>>

-----------------------------------------------------------------------------
(* The window                                                              *)

RunsIn(f) == {<<f[p].birth, f[p].maps, f[p].image>> : p \in {q \in Pids : f[q].birth = pidfd}}

OpenWindow ==
    /\ At("open")
    /\ IF stopped \/ deadline
       THEN Goto("ended") /\ UNCHANGED <<phase, tick, execd, span>>
       ELSE /\ pc' = "head" /\ phase' = "loop" /\ UNCHANGED cause
            /\ tick' = 0 /\ execd' = FALSE /\ span' = RunsIn(proc)
    /\ UNCHANGED <<resolverVars, attachVars, events, exited, low>>

(* The loop's condition, the worker's result and the pidfd.  (Mutant: one  *)
(* poll too many.)                                                         *)
OnePollMore == stopped \/ deadline \/ tick > WindowTicks
WindowOver == stopped \/ deadline \/ tick >= WindowTicks
Head ==
    /\ At("head")
    /\ IF WindowOver \/ PidFdExited
       THEN Goto("close") /\ exited' = (exited \/ (~WindowOver /\ PidFdExited))
       ELSE Goto("events") /\ UNCHANGED exited
    /\ UNCHANGED <<resolverVars, attachVars, events, execd, low, tick, span>>

(* LifecycleNotifier::consume: the callback flags are taken and cleared.   *)
(* reconcile_collectors may fail once the target is gone.                  *)
Events ==
    /\ At("events")
    /\ events' = {}
    /\ \/ "exec" \in events /\ execd' = TRUE /\ Goto("close") /\ UNCHANGED exited
       \/ "exec" \notin events /\ Goto("tick") /\ UNCHANGED <<exited, execd>>
       \/ /\ events = {"thread"} /\ ~Alive
          /\ Lost("close") /\ UNCHANGED execd
    /\ UNCHANGED <<resolverVars, attachVars, low, tick, span>>

(* The collectors are drained; the last reconciliation is a window's start *)
(* or ReconcileTicks ago.                                                  *)
Tick ==
    /\ At("tick")
    /\ tick' = tick + 1
    /\ Goto(IF tick' % ReconcileTicks = 0 THEN "second" ELSE "head")
    /\ UNCHANGED <<resolverVars, attachVars, events, exited, execd, low, span>>

(* The identity once a second.  (Mutant: it is read but not compared.)     *)
NotCompared == FALSE
Differs == Image # identity
Second ==
    /\ At("second")
    /\ \/ ~Alive /\ Lost("close") /\ UNCHANGED execd
       \/ Alive /\ Differs /\ execd' = TRUE /\ Goto("close") /\ UNCHANGED exited
       \/ Alive /\ ~Differs /\ Goto("secondmaps") /\ UNCHANGED <<exited, execd>>
    /\ UNCHANGED <<resolverVars, attachVars, events, low, tick, span>>

(* Threads and maps once a second; new mappings reload the symbols.        *)
(* (Mutant: the maps are kept and the symbols are not reloaded.)           *)
KeptSymbols(run) == symbols
Reloaded(run) == run
SecondMaps ==
    /\ At("secondmaps")
    /\ \/ ~Alive /\ Lost("close") /\ UNCHANGED <<maps, symbols, raced>>
       \/ /\ Alive
          /\ maps' = Run(last.pid)
          /\ symbols' = IF maps' = maps THEN symbols ELSE Reloaded(maps')
          /\ raced' = (raced /\ maps' = maps)
          /\ Goto("head") /\ UNCHANGED exited
    /\ UNCHANGED <<resolverVars, preflight, validated, pidfd, mode, collectors, identity>>
    /\ UNCHANGED <<events, execd, low, tick, span>>

(* The window is drained, finished and submitted, and its frame-pointer    *)
(* ratio compared.                                                         *)
Close ==
    /\ At("close")
    /\ \E verdict \in BOOLEAN :
          /\ verdict => setup.unwind = "auto" /\ mode = "fp"
          /\ low' = verdict
    /\ span' = {}
    /\ Goto("decide")
    /\ UNCHANGED <<resolverVars, attachVars, events, exited, execd, tick>>

-----------------------------------------------------------------------------
(* Between two windows: of several reasons the first in this order counts. *)
Reason ==
    IF stopped \/ deadline \/ (exited /\ ~SupportsRestart) THEN "end"
    ELSE IF exited THEN "restart"
    ELSE IF execd THEN "exec"
    ELSE IF low THEN "low" ELSE "none"

Again(next, why) == pc' = next /\ phase' = why /\ UNCHANGED cause
Decide ==
    /\ At("decide")
    /\ CASE Reason = "end"               -> Goto("ended") /\ UNCHANGED <<mode, collectors>>
         [] Reason = "restart"           -> Again("wait", "restart") /\ collectors' = 0 /\ UNCHANGED mode
         [] Reason = "exec"              -> Again("refresh", "exec") /\ collectors' = 0 /\ UNCHANGED mode
         [] Reason = "low" /\ ~HasTable  -> Fail("info") /\ UNCHANGED <<mode, collectors>>
         [] Reason = "low" /\ HasTable   -> Again("attach", "low") /\ mode' = "dwarf" /\ collectors' = 0
         [] Reason = "none"              -> Goto("open") /\ UNCHANGED <<mode, collectors>>
    /\ low' = FALSE
    /\ UNCHANGED <<resolverVars, preflight, validated, pidfd, symbols, raced, identity, maps>>
    /\ UNCHANGED <<events, exited, execd, tick, span>>

(* wait_for_restarted_target: once a second.  (Mutant: without the flag.)  *)
OnlyDeadline == deadline
GivenUp == stopped \/ deadline
Wait ==
    /\ At("wait")
    /\ GivenUp \/ Gone \/ Candidates # {}
    /\ IF GivenUp \/ Gone
       THEN Goto("ended") /\ UNCHANGED resolverVars
       ELSE BeginResolution /\ Goto("start")
    /\ UNCHANGED <<attachVars, events, windowVars, span>>

(* A call whose failure ends the recording: the output worker's result, a  *)
(* perf or BPF call, the control plane while the target is waited for.     *)
Fails ==
    /\ pc \in {"head", "close", "wait"} /\ At(pc)
    /\ Fail("call") /\ Nothing

Recorder ==
    \/ Resolve \/ StartTime \/ Inspect \/ Validate \/ OpenPidFd \/ SelectMode \/ Calibrate
    \/ RefreshPreflight \/ LoadSymbols \/ Attach \/ Resume \/ ReadIdentity \/ ReadMaps
    \/ OpenWindow \/ Head \/ Events \/ Tick \/ Second \/ SecondMaps \/ Close \/ Decide \/ Wait

-----------------------------------------------------------------------------
(* The target, the control plane and the signals                           *)

(* emit_if_target: the programs look at the thread group's id; a full ring *)
(* loses the event.                                                        *)
Watching == setup.bpf /\ (collectors # 0 \/ pc = "calibrate") /\ last.pid \in Target
Emit(flag) == events' \in IF Watching THEN {events, events \cup {flag}} ELSE {events}

Track == span' = IF span = {} THEN {} ELSE span \cup RunsIn(proc')
Environment ==
    /\ ~Done
    /\ \/ TargetExits /\ Emit("thread")
       \/ TargetExecs /\ Emit("exec")
       \/ (TargetRestarts \/ PidReused \/ TargetMaps \/ Reported \/ Removed) /\ UNCHANGED events
    /\ Track
    /\ UNCHANGED <<resolverVars, callerVars, pc, phase, cause, attachVars, windowVars>>

(* SIGINT or SIGTERM: until signal_flag has registered the handlers the    *)
(* profiler simply dies.                                                   *)
Registered == ~(phase = "initial" /\ pc \in {"resolve", "start", "inspect", "validate", "pidfd"})
Signal ==
    /\ ~Done /\ ~stopped
    /\ IF Registered THEN UNCHANGED <<pc, phase, cause>> ELSE Fail("killed")
    /\ stopped' = TRUE
    /\ UNCHANGED <<worldVars, setup, deadline>> /\ Nothing

DeadlinePasses ==
    /\ ~Done /\ ~deadline /\ phase # "initial"
    /\ deadline' = TRUE
    /\ UNCHANGED <<worldVars, setup, stopped, pc, phase, cause>> /\ Nothing

Next == Recorder \/ Fails \/ Environment \/ Signal \/ DeadlinePasses
Spec == Init /\ [][Next]_vars

(* The loop runs on; the control plane reports a process it has started.   *)
FairSpec ==
    /\ Spec /\ WF_vars(Recorder)
    /\ WF_vars(Reported /\ UNCHANGED <<resolverVars, callerVars, pc, phase, cause, attachVars, events, windowVars, span>>)

-----------------------------------------------------------------------------
(* Properties                                                              *)

(* Only the calibration and the loop have a use for lifecycle events, and  *)
(* an open window belongs to a run of the target.                          *)
TypeOK ==
    /\ WorldTypeOK /\ setup \in Setups
    /\ pc \in {"resolve", "start", "inspect", "validate", "pidfd", "mode", "calibrate", "recalibrate",
               "refresh", "symbols", "attach", "resume", "identity", "maps", "open", "head", "events",
               "tick", "second", "secondmaps", "close", "decide", "wait", "ended", "failed"}
    /\ phase \in {"initial", "loop", "restart", "exec", "low"}
    /\ cause \in {"none", "exit", "resolve", "changed", "info", "attach", "call", "interrupt", "killed"}
    /\ preflight \in [birth : 0..births, image : Images \cup {0}]
    /\ validated \in 0..births /\ pidfd \in 0..births /\ collectors \in 0..births
    /\ mode \in {"fp", "dwarf"} /\ events \subseteq {"thread", "exec"}
    /\ symbols \in (0..births) \X (0..MaxChanges) /\ maps \in (0..births) \X (0..MaxChanges)
    /\ raced \in BOOLEAN /\ identity \in Images \cup {0}
    /\ exited \in BOOLEAN /\ execd \in BOOLEAN /\ low \in BOOLEAN
    /\ stopped \in BOOLEAN /\ deadline \in BOOLEAN
    /\ tick \in 0..WindowTicks
    /\ \A r \in span : r[1] = pidfd

(* Whatever exited, was restarted or had its id used again in between: the *)
(* collectors and the symbols that a poll of the loop uses are those of    *)
(* the process the pidfd refers to (record.rs pidfd.exited), and that is   *)
(* the process that was resolved, unless the id was used again after       *)
(* validate_current, which nothing notices (target.rs validate_current).   *)
SampledOne ==
    pc = "tick" =>
        /\ collectors = pidfd /\ symbols[1] = pidfd
        /\ validated = pidfd => pidfd = last.birth

FullWindow == pc = "close" /\ ~exited /\ ~execd /\ ~stopped /\ ~deadline /\ ~PidFdExited

(* A window that ends because its time is over, through which the target   *)
(* ran one image with the same executable mappings, is symbolized for      *)
(* them, unless they changed between the load of the symbols and the first *)
(* read of the maps (record.rs, the once-per-second refresh).              *)
FullWindowsSymbolized ==
    FullWindow /\ ~raced => \A r \in span : span = {r} => symbols = <<r[1], r[2]>>

(* A window that ends because its time is over and through which the       *)
(* target ran one image was recorded for that image: an exec before the    *)
(* window has been noticed (record.rs exec_detected).                      *)
ExecNoticed ==
    FullWindow => \A r \in span : (\A s \in span : s[3] = r[3]) => identity = r[3]

(* The target's exit while windows are recorded ends the window, never the *)
(* recording with an error: a read of /proc that fails is followed by a    *)
(* look at the pidfd (record.rs, Err(_) if pidfd.exited()?).               *)
ExitFinalizes == pc = "failed" /\ cause = "exit" => phase # "loop"

(* A signal ends the recording from wherever it is, the wait for a restart *)
(* included (record.rs signal_flag).                                       *)
StopEnds == stopped ~> Done

(* A container that runs again is found and inspected, unless it stops     *)
(* again or the recording is over (record.rs wait_for_restarted_target).   *)
(* It may be missed when the inspection after an exec already met the new  *)
(* instance under the old id and took its start time.                      *)
RestartFollowed ==
    (pc = "wait" /\ preflight.birth = pidfd) ~> (pc = "inspect" \/ Done \/ ~TargetAlive)
=============================================================================
