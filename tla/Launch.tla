------------------------------- MODULE Launch -------------------------------
(***************************************************************************)
(* The launch command of src/src/platform/linux/mod.rs:                    *)
(*                                                                         *)
(*   spawn -> child stops itself -> launch cgroup -> preflight -> record   *)
(*     -> look whether the child runs -> kill the cgroup -> SIGTERM -> wait *)
(*                                                                         *)
(* record is one step up to SIGCONT and one to its end (RecordLoop has the *)
(* rest); it may fail in both.  Every early return drops the locals: the   *)
(* cgroup first, then the guard of the child.  The child may exit, fork    *)
(* into the cgroup and ignore SIGTERM; it keeps its id until it is waited  *)
(* for.  How the arguments are checked is left out.                        *)
(***************************************************************************)
EXTENDS Naturals

CONSTANTS
    MaxForks   \* bound: descendants the child starts

ASSUME LaunchAssumption == MaxForks \in Nat

VARIABLES
    lpc,       \* the launcher: where it is
    child,     \* "none", "starting", "stopped", "running", "zombie" or "reaped"
    stubborn,  \* the child ignores SIGTERM
    pendingTerm, \* a SIGTERM waits for the stopped child
    descendants, \* how many of its descendants live
    forks,     \* history: how many it started
    group,     \* the launch cgroup: "none", "made" or "removed"
    inGroup,   \* the child was moved into it
    killFile,  \* whether the cgroup has cgroup.kill, and writing it works:
               \* "works", "fails" or "absent"
    partial,   \* --allow-partial
    recorded,  \* the result of record: "none", "ok" or "failed"
    stopsChild, \* stopped_by_profiler
    strays     \* history: a signal was sent to an id that was not the child's any more

envVars    == <<child, pendingTerm, descendants>>
launchVars == <<lpc, envVars, stubborn, forks, group, inGroup, killFile, partial, recorded, stopsChild, strays>>

Alive == child \in {"starting", "stopped", "running"}
Steps == {"spawn", "waitStopped", "createCgroup", "prepare", "record", "recording", "look", "terminate",
          "signal", "wait", "dropCgroup", "dropGuard", "returned"}

LaunchInit ==
    /\ lpc = "spawn" /\ child = "none" /\ stubborn \in BOOLEAN /\ pendingTerm = FALSE
    /\ descendants = 0 /\ forks = 0 /\ group = "none" /\ inGroup = FALSE
    /\ killFile \in {"works", "fails", "absent"} /\ partial \in BOOLEAN
    /\ recorded = "none" /\ stopsChild = FALSE /\ strays = FALSE

-----------------------------------------------------------------------------
(* The child                                                               *)

Stops ==
    /\ child = "starting"
    /\ child' = "stopped"
    /\ UNCHANGED <<lpc, pendingTerm, descendants, stubborn, forks, group, inGroup, killFile, partial, recorded, stopsChild, strays>>

Forks ==
    /\ child = "running" /\ forks < MaxForks
    /\ forks' = forks + 1 /\ descendants' = descendants + 1
    /\ UNCHANGED <<lpc, child, pendingTerm, stubborn, group, inGroup, killFile, partial, recorded, stopsChild, strays>>

(* The child ends, by itself or by somebody else's signal.                 *)
Ends ==
    /\ Alive
    /\ child' = "zombie"
    /\ UNCHANGED <<lpc, pendingTerm, descendants, stubborn, forks, group, inGroup, killFile, partial, recorded, stopsChild, strays>>

-----------------------------------------------------------------------------
(* The launcher                                                            *)

Goes(step) == lpc' = step

(* The locals that a return drops from here on.                            *)
Unwind == Goes(IF group = "made" THEN "dropCgroup" ELSE "dropGuard")

Spawn ==
    /\ lpc = "spawn"
    /\ \/ child' = "starting" /\ Goes("waitStopped")
       \/ Goes("returned") /\ UNCHANGED child
    /\ UNCHANGED <<pendingTerm, descendants, stubborn, forks, group, inGroup, killFile, partial, recorded, stopsChild, strays>>

(* wait_stopped: waitpid with WUNTRACED; a child that ended is reaped.     *)
WaitStopped ==
    /\ lpc = "waitStopped"
    /\ \/ child = "stopped" /\ Goes("createCgroup") /\ UNCHANGED child
       \/ child = "zombie" /\ child' = "reaped" /\ Unwind
    /\ UNCHANGED <<pendingTerm, descendants, stubborn, forks, group, inGroup, killFile, partial, recorded, stopsChild, strays>>

(* LaunchCgroup::create; when the child cannot be moved the directory is   *)
(* removed.                                                                *)
CreateCgroup ==
    /\ lpc = "createCgroup"
    /\ \/ child # "zombie" /\ group' = "made" /\ inGroup' = TRUE /\ Goes("prepare")
       \/ (IF partial THEN Goes("prepare") ELSE Unwind) /\ UNCHANGED <<group, inGroup>>
    /\ UNCHANGED <<child, pendingTerm, descendants, stubborn, forks, killFile, partial, recorded, stopsChild, strays>>

(* validate_record_args, resolve_initial, inspect, validate_current        *)
Prepare ==
    /\ lpc = "prepare"
    /\ (child # "zombie" /\ Goes("record")) \/ Unwind
    /\ UNCHANGED <<envVars, stubborn, forks, group, inGroup, killFile, partial, recorded, stopsChild, strays>>

(* record fails before it resumes the child, or resumes it (record.rs,     *)
(* 104-111).                                                               *)
RecordFails ==
    /\ lpc = "record"
    /\ recorded' = "failed" /\ Goes("look")
    /\ UNCHANGED <<envVars, stubborn, forks, group, inGroup, killFile, partial, stopsChild, strays>>

ResumeChild ==
    /\ lpc = "record"
    /\ child' = (IF child = "stopped" THEN "running" ELSE child) /\ Goes("recording")
    /\ UNCHANGED <<pendingTerm, descendants, stubborn, forks, group, inGroup, killFile, partial, recorded, stopsChild, strays>>

RecordEnds ==
    /\ lpc = "recording"
    /\ recorded' \in {"ok", "failed"} /\ Goes("look")
    /\ UNCHANGED <<envVars, stubborn, forks, group, inGroup, killFile, partial, stopsChild, strays>>

(* try_wait reaps a child that has ended.                                  *)
Look ==
    /\ lpc = "look"
    /\ stopsChild' = Alive
    /\ child' = (IF Alive THEN child ELSE "reaped")
    /\ Goes(IF group = "made" THEN "terminate" ELSE "signal")
    /\ UNCHANGED <<pendingTerm, descendants, stubborn, forks, group, inGroup, killFile, partial, recorded, strays>>

(* LaunchCgroup::terminate: everything in the cgroup is killed at once,    *)
(* or what cgroup.procs lists, which a fork may escape; a failed write is  *)
(* only a warning.                                                         *)
Terminated ==
    LET killed == IF inGroup /\ Alive THEN "zombie" ELSE child IN
    CASE killFile = "works"  -> child' = killed /\ descendants' = 0
      [] killFile = "absent" -> child' = killed /\ descendants' \in 0..descendants
      [] killFile = "fails"  -> UNCHANGED <<child, descendants>>

TerminateCgroup ==
    /\ lpc = "terminate"
    /\ Terminated
    /\ Goes("signal")
    /\ UNCHANGED <<pendingTerm, stubborn, forks, group, inGroup, killFile, partial, recorded, stopsChild, strays>>

(* SIGTERM for a child that was alive.  A stopped child keeps it pending.  *)
(* (Mutant: it is sent in any case.)                                       *)
Always     == TRUE
NeedsTerm  == stopsChild
SignalChild ==
    /\ lpc = "signal"
    /\ strays' = (strays \/ (NeedsTerm /\ child = "reaped"))
    /\ pendingTerm' = (pendingTerm \/ (NeedsTerm /\ child = "stopped"))
    /\ child' = (IF NeedsTerm /\ child = "running" /\ ~stubborn THEN "zombie" ELSE child)
    /\ Goes("wait")
    /\ UNCHANGED <<descendants, stubborn, forks, group, inGroup, killFile, partial, recorded, stopsChild>>

(* wait blocks until the child has ended; disarm.                          *)
WaitChild ==
    /\ lpc = "wait"
    /\ child \in {"zombie", "reaped"}
    /\ child' = "reaped"
    /\ Goes(IF group = "made" THEN "dropCgroup" ELSE "returned")
    /\ UNCHANGED <<pendingTerm, descendants, stubborn, forks, group, inGroup, killFile, partial, recorded, stopsChild, strays>>

(* Drop of LaunchCgroup: terminate once more and remove the directory,     *)
(* which works when no process lives in it.  (Mutant: terminate is left to *)
(* the end of launch.)                                                     *)
RemovedOnly == UNCHANGED <<child, descendants>>
KilledFirst == Terminated
DropCgroup ==
    /\ lpc = "dropCgroup"
    /\ KilledFirst
    /\ group' = (IF descendants' = 0 /\ child' \notin {"stopped", "running"} THEN "removed" ELSE group)
    /\ Goes("dropGuard")
    /\ UNCHANGED <<pendingTerm, stubborn, forks, inGroup, killFile, partial, recorded, stopsChild, strays>>

(* Drop of SuspendedChild, armed until wait has returned: SIGKILL and      *)
(* wait.  wait_stopped may have reaped the child behind Child's back.      *)
Armed == recorded = "none"
DropGuard ==
    /\ lpc = "dropGuard"
    /\ strays' = (strays \/ (Armed /\ child = "reaped"))
    /\ child' = "reaped"
    /\ Goes("returned")
    /\ UNCHANGED <<pendingTerm, descendants, stubborn, forks, group, inGroup, killFile, partial, recorded, stopsChild>>

LaunchNext ==
    \/ Stops \/ Forks \/ Ends
    \/ Spawn \/ WaitStopped \/ CreateCgroup \/ Prepare \/ RecordFails \/ ResumeChild \/ RecordEnds
    \/ Look \/ TerminateCgroup \/ SignalChild \/ WaitChild \/ DropCgroup \/ DropGuard

LaunchSpec == LaunchInit /\ [][LaunchNext]_launchVars

-----------------------------------------------------------------------------
LaunchTyped ==
    /\ lpc \in Steps
    /\ child \in {"none", "starting", "stopped", "running", "zombie", "reaped"}
    /\ group \in {"none", "made", "removed"} /\ inGroup = (group # "none")
    /\ forks \in 0..MaxForks /\ descendants \in 0..forks
    /\ killFile \in {"works", "fails", "absent"} /\ recorded \in {"none", "ok", "failed"}
    /\ {stubborn, pendingTerm, partial, stopsChild, strays} \subseteq BOOLEAN

(* However launch ends, the child it created is waited for, and no signal  *)
(* goes to its id afterwards, unless it ended before it stopped itself;    *)
(* where the kernel kills a cgroup as a whole, no descendant and no cgroup *)
(* stays behind, either (mod.rs 228-254 and the Drop implementations).     *)
NothingLeftBehind ==
    /\ strays => recorded = "none" /\ group = "none"
    /\ lpc = "returned" =>
         /\ child \in {"none", "reaped"}
         /\ inGroup /\ killFile = "works" => group = "removed" /\ descendants = 0

(* launch never waits for a child that nobody will resume or kill.         *)
(* README.md, lines 624-630: failures of the preflight and of attachment   *)
(* make the command fail.                                                  *)
NeverWaitsForStopped == ~(lpc = "wait" /\ child = "stopped")
=============================================================================
