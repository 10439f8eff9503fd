---------------------------- MODULE TargetResolver ----------------------------
(***************************************************************************)
(* The target of a recording and how it is found: processes that exec,     *)
(* exit and whose ids are used again, a container that the runtime starts  *)
(* again, what Docker or the Kubernetes API says of it, and TargetResolver *)
(* (src/src/target.rs), which turns that into a pid and the start time     *)
(* that tells the process from another one with its id.                    *)
(*                                                                         *)
(*   control plane --inspect--> pid --/proc/pid/stat--> pid, start time    *)
(*                                                                         *)
(* A process is known by its birth, which stands for its start time.  The  *)
(* control plane lags behind the processes.  Its HTTP and JSON, the labels *)
(* of the metadata and the check of the node's name are left out, and so   *)
(* is refresh of a plain process, which nothing calls.                     *)
(***************************************************************************)
EXTENDS Naturals, FiniteSets

CONSTANTS
    Pids,
    Images,     \* executable files
    Program,    \* the one that every process starts with
    MaxBirths,  \* bound: processes, the target's and others
    MaxChanges  \* bound: execs and new executable mappings

ASSUME TargetAssumption ==
    /\ IsFiniteSet(Pids) /\ Pids # {} /\ Pids \subseteq Nat \ {0}
    /\ Images \subseteq Nat /\ Program \in Images
    /\ MaxBirths \in Nat \ {0} /\ MaxChanges \in Nat

VARIABLES
    kind,      \* LogicalIdentity: "process", "docker" or "kubernetes"
    proc,      \* the process with each id
    births,    \* processes started so far
    changes,   \* execs and new mappings so far
    suspended, \* the child of launch has not been continued
    ours,      \* births of the target's instances
    report,    \* what the control plane says of the container
    found,     \* the pid of a resolution that has begun
    last       \* TargetResolver.last

worldVars    == <<kind, proc, births, changes, suspended, ours, report>>
resolverVars == <<found, last>>

Nobody == [birth |-> 0, image |-> 0, maps |-> 0]
NoPid  == 0
Unresolved == [pid |-> NoPid, birth |-> 0]

(* What runs with an id: it changes with every exec and every new mapping. *)
Run(pid) == <<proc[pid].birth, proc[pid].maps>>

Newest(set)  == CHOOSE b \in set : \A c \in set : c <= b
Target       == {p \in Pids : proc[p].birth = Newest(ours)}
TargetAlive  == Target # {}
Container    == kind # "process"

(* Docker tells the container's pid and whether it runs, Kubernetes only   *)
(* the id of the container's instance.                                     *)
WorldInit(kinds, launched) ==
    /\ kind \in kinds
    /\ \E p \in Pids :
          /\ proc = [q \in Pids |-> IF q = p THEN [birth |-> 1, image |-> Program, maps |-> 0] ELSE Nobody]
          /\ report = [state |-> "running", pid |-> p, birth |-> 1]
          /\ last = [pid |-> p, birth |-> 0]
    /\ births = 1 /\ changes = 0 /\ ours = {1} /\ suspended = launched
    /\ found = NoPid

-----------------------------------------------------------------------------
(* The target and the other processes                                      *)

Born(p, image) ==
    /\ proc[p] = Nobody
    /\ births < MaxBirths
    /\ births' = births + 1
    /\ proc' = [proc EXCEPT ![p] = [birth |-> births + 1, image |-> image, maps |-> 0]]

TargetExits ==
    /\ ~suspended
    /\ \E p \in Target : proc' = [proc EXCEPT ![p] = Nobody]
    /\ UNCHANGED <<kind, births, changes, suspended, ours, report>>

(* The runtime starts the container again.                                 *)
TargetRestarts ==
    /\ Container /\ ~TargetAlive /\ report.state # "removed"
    /\ \E p \in Pids : Born(p, Program)
    /\ ours' = ours \cup {births'}
    /\ UNCHANGED <<kind, changes, suspended, report>>

(* Another process gets an id that is free.                                *)
PidReused ==
    /\ \E p \in Pids : Born(p, Program)
    /\ UNCHANGED <<kind, changes, suspended, ours, report>>

Changed(image) ==
    /\ ~suspended
    /\ changes < MaxChanges
    /\ changes' = changes + 1
    /\ \E p \in Target : proc' = [proc EXCEPT ![p].image = image, ![p].maps = @ + 1]
    /\ UNCHANGED <<kind, births, suspended, ours, report>>

TargetExecs == \E image \in Images : Changed(image)
TargetMaps  == \E p \in Target : Changed(proc[p].image)

(* The control plane notices; or the container is removed, the pod gone or *)
(* replaced by one with another uid.                                       *)
Reported ==
    /\ Container /\ report.state # "removed"
    /\ report' = IF TargetAlive
                 THEN [state |-> "running", pid |-> CHOOSE p \in Target : TRUE, birth |-> Newest(ours)]
                 ELSE [report EXCEPT !.state = "stopped"]
    /\ UNCHANGED <<kind, proc, births, changes, suspended, ours>>

Removed ==
    /\ Container /\ ~TargetAlive
    /\ report' = [report EXCEPT !.state = "removed"]
    /\ UNCHANGED <<kind, proc, births, changes, suspended, ours>>

-----------------------------------------------------------------------------
(* TargetResolver                                                          *)

(* docker_target takes the pid that Docker reports; kubernetes_target      *)
(* looks for the init process of the reported instance in /proc.           *)
OfInstance(birth) == {p \in Pids : birth # 0 /\ proc[p].birth = birth}
Candidates ==
    CASE kind = "process"                                  -> {last.pid}
      [] kind = "docker" /\ report.state = "running"       -> {report.pid}
      [] kind = "kubernetes" /\ report.state = "running"   -> OfInstance(report.birth)
      [] OTHER                                             -> {}

(* resolve_again: Resolution::Gone.                                        *)
Gone == report.state = "removed"

BeginResolution ==
    /\ \E p \in Candidates : found' = p
    /\ UNCHANGED last

(* process_start_time, the second half of a resolution.                    *)
Disappeared == proc[found] = Nobody
EndResolution ==
    /\ ~Disappeared
    /\ last' = [pid |-> found, birth |-> proc[found].birth]
    /\ found' = NoPid

(* validate_current: the start time is still that of the resolution.       *)
(* (Mutant: it is not looked at.)                                          *)
NotLookedAt == TRUE
StillTheSame == proc[last.pid].birth = last.birth

SupportsRestart == Container

World == TargetExits \/ TargetRestarts \/ PidReused \/ TargetExecs \/ TargetMaps \/ Reported \/ Removed

(* What the resolver knows comes from a report and from a look at /proc.   *)
WorldTypeOK ==
    /\ kind \in {"process", "docker", "kubernetes"}
    /\ proc \in [Pids -> [birth : 0..MaxBirths, image : Images \cup {0}, maps : 0..MaxChanges]]
    /\ births \in 1..MaxBirths /\ changes \in 0..MaxChanges
    /\ suspended \in BOOLEAN /\ ours \subseteq 1..births
    /\ report \in [state : {"running", "stopped", "removed"}, pid : Pids, birth : ours]
    /\ found \in Pids \cup {NoPid}
    /\ last \in [pid : Pids, birth : 0..births]
=============================================================================
