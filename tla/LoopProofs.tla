------------------------------- MODULE LoopProofs -------------------------------
(***************************************************************************)
(* Which process a recording of RecordLoop samples, for every number of    *)
(* processes and ids and whatever runs, exits and is started again between *)
(* two steps of the recorder.  What is read by the id is read of the       *)
(* process of the pidfd as long as that one lives, and once it has ended   *)
(* no other process is ever taken for it: its birth does not come back.    *)
(***************************************************************************)
EXTENDS RecordLoop, TLAPS

(* Processes are told apart by their births, and a free id has none.       *)
Shaped   == proc = [p \in Pids |-> [birth |-> proc[p].birth, image |-> proc[p].image, maps |-> proc[p].maps]]
Numbered == births \in Nat /\ \A p \in Pids : proc[p].birth \in 0..births
Vacant   == \A p \in Pids : proc[p].birth = 0 => proc[p] = Nobody
Distinct == \A p, q \in Pids : proc[p].birth = proc[q].birth /\ proc[p].birth # 0 => p = q
Living   == Shaped /\ Numbered /\ Vacant /\ Distinct

(* The target's instances, of which one is the newest.                     *)
Instances == ours \subseteq 1..births /\ \E b \in ours : \A c \in ours : c <= b

(* Every id the resolver holds is one.                                     *)
Known == last.pid \in Pids /\ report.pid \in Pids /\ (pc = "start" => found \in Pids)

(* Where the recorder is when the pidfd, the symbolizer and the collectors *)
(* are those of the target it follows.                                     *)
Polling   == {"events", "tick", "second", "secondmaps"}
Sampling  == Polling \cup {"resume", "identity", "maps", "open", "head", "close", "decide"}
Symbolic  == Sampling \cup {"attach"}
Following == Symbolic \cup {"mode", "calibrate", "recalibrate", "refresh", "symbols"}

(* The process of the pidfd has the id that was resolved, or none.         *)
Opened ==
    pc \in Following =>
        /\ pidfd \in 1..births
        /\ \A p \in Pids : proc[p].birth = pidfd => p = last.pid

Verified == pc \in Following \cup {"pidfd"} => validated = last.birth

(* While it lives, what was read by its id is its own.                     *)
Attached ==
    proc[last.pid].birth = pidfd =>
        /\ pc \in Symbolic => symbols[1] = pidfd
        /\ pc \in Sampling => collectors = pidfd

(* From the look at the pidfd to the end of the poll, even when it exits.  *)
Looked == pc \in Polling => symbols[1] = pidfd /\ collectors = pidfd

Followed == Living /\ Instances /\ Known /\ Opened /\ Verified /\ Attached /\ Looked

LEMMA FollowedInit == Init => Followed
<1> SUFFICES ASSUME Init PROVE Followed
  OBVIOUS
<1> USE DEF Init, WorldInit
<1>1. PICK p \in Pids :
        /\ proc = [q \in Pids |-> IF q = p THEN [birth |-> 1, image |-> Program, maps |-> 0] ELSE Nobody]
        /\ report = [state |-> "running", pid |-> p, birth |-> 1]
        /\ last = [pid |-> p, birth |-> 0]
  OBVIOUS
<1>2. Living
  <2>1. Shaped
    BY <1>1 DEF Shaped, Nobody
  <2>2. Numbered /\ Vacant /\ Distinct
    BY <1>1 DEF Numbered, Vacant, Distinct, Nobody
  <2> QED
    BY <2>1, <2>2 DEF Living
<1>3. Known /\ Instances
  BY <1>1 DEF Known, Instances
<1> QED
  BY <1>2, <1>3 DEF Followed, Opened, Verified, Attached, Looked, Following, Symbolic, Sampling, Polling

-----------------------------------------------------------------------------
(* The target and the other processes.                                     *)

(* Nobody is born again.                                                   *)
Fresh ==
    /\ births' \in Nat /\ births <= births'
    /\ \A p \in Pids : proc'[p].birth = proc[p].birth \/ proc'[p].birth = 0 \/ proc'[p].birth > births

LEMMA NewestIs ==
    ASSUME Living, Instances
    PROVE  Newest(ours) \in ours /\ Newest(ours) \in 1..births
  BY DEF Living, Instances, Newest

LEMMA BornFresh ==
    ASSUME Living, NEW p \in Pids, NEW image, Born(p, image)
    PROVE  Living' /\ Fresh
<1> DEFINE new == [birth |-> births + 1, image |-> image, maps |-> 0]
<1>1. births \in Nat /\ births' = births + 1 /\ proc' = [proc EXCEPT ![p] = new] /\ DOMAIN proc = Pids
  BY DEF Living, Numbered, Shaped, Born
<1>2. \A q \in Pids : proc'[q] = IF q = p THEN new ELSE proc[q]
  BY <1>1
<1>3. \A q \in Pids : proc[q].birth \in 0..births
  BY DEF Living, Numbered
<1>4. proc' = [q \in Pids |-> IF q = p THEN new ELSE proc[q]]
  BY <1>1
<1>5. Shaped'
  <2>1. \A q \in Pids : proc[q] = [birth |-> proc[q].birth, image |-> proc[q].image, maps |-> proc[q].maps]
    BY DEF Living, Shaped
  <2>2. \A q \in Pids : proc'[q] = [birth |-> proc'[q].birth, image |-> proc'[q].image, maps |-> proc'[q].maps]
    BY <1>2, <2>1
  <2> QED
    BY <1>4, <2>2 DEF Shaped
<1>6. Numbered' /\ Fresh
  BY <1>1, <1>2, <1>3 DEF Numbered, Fresh
<1>7. Vacant' /\ Distinct'
  BY <1>1, <1>2, <1>3 DEF Living, Vacant, Distinct
<1> QED
  BY <1>5, <1>6, <1>7 DEF Living

LEMMA EndFresh ==
    ASSUME Living, NEW p \in Pids, proc' = [proc EXCEPT ![p] = Nobody], births' = births
    PROVE  Living' /\ Fresh
<1>1. DOMAIN proc = Pids /\ births \in Nat
  BY DEF Living, Shaped, Numbered
<1>2. proc' = [q \in Pids |-> IF q = p THEN Nobody ELSE proc[q]]
  BY <1>1
<1>3. Shaped'
  <2>1. \A q \in Pids : proc[q] = [birth |-> proc[q].birth, image |-> proc[q].image, maps |-> proc[q].maps]
    BY DEF Living, Shaped
  <2>2. \A q \in Pids : proc'[q] = [birth |-> proc'[q].birth, image |-> proc'[q].image, maps |-> proc'[q].maps]
    BY <1>2, <2>1 DEF Nobody
  <2> QED
    BY <1>2, <2>2 DEF Shaped
<1>4. Nobody.birth = 0
  BY DEF Nobody
<1> QED
  BY <1>1, <1>2, <1>3, <1>4 DEF Living, Numbered, Vacant, Distinct, Fresh

LEMMA Executed ==
    ASSUME NEW r, NEW image, r = [birth |-> r.birth, image |-> r.image, maps |-> r.maps]
    PROVE  [[r EXCEPT !.image = image] EXCEPT !.maps = @ + 1]
               = [birth |-> r.birth, image |-> image, maps |-> r.maps + 1]
<1> DEFINE s == [birth |-> r.birth, image |-> image, maps |-> r.maps]
<1>1. DOMAIN r = {"birth", "image", "maps"}
  OBVIOUS
<1>2. [r EXCEPT !.image = image] = [f \in {"birth", "image", "maps"} |-> IF f = "image" THEN image ELSE r[f]]
  BY <1>1
<1>3. s = [f \in {"birth", "image", "maps"} |-> IF f = "image" THEN image ELSE r[f]]
  OBVIOUS
<1>4. [s EXCEPT !.maps = @ + 1] = [birth |-> r.birth, image |-> image, maps |-> r.maps + 1]
  OBVIOUS
<1> QED
  BY <1>2, <1>3, <1>4

LEMMA ChangeFresh ==
    ASSUME Living, Instances, NEW p \in Target, NEW image,
           proc' = [proc EXCEPT ![p].image = image, ![p].maps = @ + 1], births' = births
    PROVE  Living' /\ Fresh
<1>1. DOMAIN proc = Pids /\ births \in Nat /\ p \in Pids
  BY DEF Living, Shaped, Numbered, Target
<1>2. \A q \in Pids : proc[q] = [birth |-> proc[q].birth, image |-> proc[q].image, maps |-> proc[q].maps]
  BY DEF Living, Shaped
<1> DEFINE new == [birth |-> proc[p].birth, image |-> image, maps |-> proc[p].maps + 1]
<1>3. proc' = [q \in Pids |-> IF q = p THEN new ELSE proc[q]]
  <2>1. proc' = [q \in Pids |-> IF q = p
                               THEN [[proc[p] EXCEPT !.image = image] EXCEPT !.maps = @ + 1]
                               ELSE proc[q]]
    BY <1>1
  <2>2. [[proc[p] EXCEPT !.image = image] EXCEPT !.maps = @ + 1] = new
    BY <1>1, <1>2, Executed
  <2> QED
    BY <2>1, <2>2
<1>4. Shaped'
  <2>1. \A q \in Pids : proc'[q] = [birth |-> proc'[q].birth, image |-> proc'[q].image, maps |-> proc'[q].maps]
    BY <1>2, <1>3
  <2> QED
    BY <1>3, <2>1 DEF Shaped
<1>5. \A q \in Pids : proc'[q].birth = proc[q].birth /\ (q # p => proc'[q] = proc[q])
  BY <1>3
<1>6. proc[p].birth # 0
  BY NewestIs DEF Target
<1> QED
  BY <1>1, <1>4, <1>5, <1>6 DEF Living, Numbered, Vacant, Distinct, Fresh

LEMMA WorldFresh ==
    ASSUME Living, Instances, report.pid \in Pids, World
    PROVE  Living' /\ Instances' /\ Fresh /\ report'.pid \in Pids
<1>1. births \in Nat /\ ours \subseteq 1..births
  BY DEF Living, Numbered, Instances
<1>2. CASE TargetExits
  <2>1. PICK p \in Target : proc' = [proc EXCEPT ![p] = Nobody]
    BY <1>2 DEF TargetExits
  <2>2. p \in Pids /\ UNCHANGED <<births, ours, report>>
    BY <1>2, <2>1 DEF TargetExits, Target
  <2> QED
    BY <2>1, <2>2, EndFresh DEF Instances
<1>3. CASE TargetRestarts \/ PidReused
  <2>1. PICK p \in Pids : Born(p, Program)
    BY <1>3 DEF TargetRestarts, PidReused
  <2>2. Living' /\ Fresh
    BY <2>1, BornFresh
  <2>3. births' = births + 1 /\ UNCHANGED report /\ ours' \in {ours, ours \cup {births + 1}}
    BY <1>3, <2>1 DEF TargetRestarts, PidReused, Born
  <2>4. Instances'
    <3>1. \A b \in ours : b <= births
      BY <1>1
    <3> QED
      BY <1>1, <2>3, <3>1 DEF Instances
  <2> QED
    BY <2>2, <2>3, <2>4
<1>4. CASE TargetExecs \/ TargetMaps
  <2>1. PICK image : Changed(image)
    BY <1>4 DEF TargetExecs, TargetMaps
  <2>2. PICK p \in Target : proc' = [proc EXCEPT ![p].image = image, ![p].maps = @ + 1]
    BY <2>1 DEF Changed
  <2>3. UNCHANGED <<births, ours, report>>
    BY <2>1 DEF Changed
  <2> QED
    BY <2>2, <2>3, ChangeFresh DEF Instances
<1>5. CASE Reported \/ Removed
  <2>1. UNCHANGED <<proc, births, ours>>
    BY <1>5 DEF Reported, Removed
  <2>2. Living' /\ Instances' /\ Fresh
    BY <1>1, <2>1 DEF Living, Shaped, Numbered, Vacant, Distinct, Instances, Fresh
  <2>3. report'.pid \in Pids
    <3>1. CASE Reported /\ TargetAlive
      BY <3>1 DEF Reported, TargetAlive, Target
    <3>2. CASE (Reported /\ ~TargetAlive) \/ Removed
      <4>1. PICK state : report' = [report EXCEPT !.state = state]
        BY <3>2 DEF Reported, Removed
      <4> QED
        BY <4>1
    <3> QED
      BY <1>5, <3>1, <3>2
  <2> QED
    BY <2>2, <2>3
<1> QED
  BY <1>2, <1>3, <1>4, <1>5 DEF World

(* The world alone keeps the recorder on its target.                       *)
LEMMA WorldFollowed ==
    ASSUME Followed, Living', Instances', Fresh, report'.pid \in Pids,
           UNCHANGED <<pc, last, found, validated, pidfd, symbols, collectors>>
    PROVE  Followed'
<1>1. pc \in Following => pidfd \in 1..births /\ pidfd \in 1..births' /\ births \in Nat
  BY DEF Followed, Living, Numbered, Opened, Fresh
<1>2. Known'
  BY DEF Followed, Known
<1>3. pc \in Following => \A p \in Pids : proc'[p].birth = pidfd => proc[p].birth = pidfd
  BY <1>1 DEF Followed, Living, Numbered, Fresh
<1>4. Opened'
  BY <1>1, <1>3 DEF Followed, Opened
<1>5. Attached'
  BY <1>2, <1>3 DEF Followed, Attached, Known, Following, Symbolic
<1>6. Verified' /\ Looked'
  BY DEF Followed, Verified, Looked
<1> QED
  BY <1>2, <1>4, <1>5, <1>6 DEF Followed

-----------------------------------------------------------------------------
(* The recorder.                                                           *)

Quiet == UNCHANGED <<proc, births, ours, report>>

(* Away from the target nothing need be known of it.                       *)
LEMMA Aside ==
    ASSUME Followed, Quiet, last'.pid \in Pids,
           pc' \notin Following, pc' # "pidfd", pc' = "start" => found' \in Pids
    PROVE  Followed'
  BY DEF Followed, Living, Shaped, Numbered, Vacant, Distinct, Instances, Known, Opened, Verified,
         Attached, Looked, Quiet, Following, Symbolic, Sampling, Polling

(* A step that reads nothing new.                                          *)
LEMMA Onward ==
    ASSUME Followed, Quiet, pc \in Following, pc' # "start", UNCHANGED <<last, pidfd, validated>>,
           Attached', Looked'
    PROVE  Followed'
  BY DEF Followed, Living, Shaped, Numbered, Vacant, Distinct, Instances, Known, Opened, Verified, Quiet

(* A read by the id is one of the process of the pidfd, if that one lives. *)
LEMMA Reads ==
    ASSUME Followed
    PROVE  /\ Alive => proc[last.pid].birth \in 1..births
           /\ Run(last.pid)[1] = proc[last.pid].birth
           /\ pc \in Following /\ ~PidFdExited => proc[last.pid].birth = pidfd
<1>1. last.pid \in Pids /\ births \in Nat /\ proc[last.pid].birth \in 0..births
  BY DEF Followed, Known, Living, Numbered
<1>2. Alive => proc[last.pid].birth # 0
  BY <1>1 DEF Followed, Living, Vacant, Alive
<1>3. pc \in Following /\ ~PidFdExited => proc[last.pid].birth = pidfd
  BY DEF Followed, Opened, PidFdExited
<1> QED
  BY <1>1, <1>2, <1>3 DEF Run

(* Before the pidfd is open: the resolution and the inspection.            *)
LEMMA ResolutionFollowed ==
    ASSUME Followed, Resolve \/ StartTime \/ Inspect \/ Validate \/ OpenPidFd \/ Wait
    PROVE  Followed'
<1>1. last.pid \in Pids /\ report.pid \in Pids /\ (pc = "start" => found \in Pids)
  BY DEF Followed, Known
<1>2. CASE Resolve \/ Wait
  <2>1. Quiet /\ last' = last
    BY <1>2 DEF Resolve, Wait, At, worldVars, resolverVars, Quiet, BeginResolution
  <2>2. \/ pc' = "start" /\ found' \in Candidates
        \/ pc' \in {"failed", "ended"}
    BY <1>2 DEF Resolve, Wait, Goto, Fail, BeginResolution
  <2>3. Candidates \subseteq Pids
    BY <1>1 DEF Candidates, OfInstance
  <2> QED
    BY <1>1, <2>1, <2>2, <2>3, Aside DEF Following, Symbolic, Sampling, Polling
<1>3. CASE StartTime
  <2>1. Quiet /\ found \in Pids
    BY <1>1, <1>3 DEF StartTime, At, worldVars, Quiet
  <2>2. last' = last \/ last'.pid = found
    BY <1>3 DEF StartTime, EndResolution
  <2>3. pc' \in {"wait", "inspect", "failed"}
    BY <1>3 DEF StartTime, Goto, Fail
  <2> QED
    BY <1>1, <2>1, <2>2, <2>3, Aside DEF Following, Symbolic, Sampling, Polling
<1>4. CASE Inspect
  <2>1. Quiet /\ last' = last /\ pc' \in {"validate", "failed"}
    BY <1>4 DEF Inspect, At, worldVars, resolverVars, Quiet, Goto, Fail
  <2> QED
    BY <1>1, <2>1, Aside DEF Following, Symbolic, Sampling, Polling
<1>5. CASE Validate
  <2>1. Quiet /\ last' = last
    BY <1>5 DEF Validate, At, worldVars, resolverVars, Quiet
  <2>2. CASE StillTheSame
    <3>1. pc' = "pidfd" /\ validated' = last.birth
      BY <1>5, <2>2 DEF Validate, StillTheSame, Goto
    <3> QED
      BY <1>1, <2>1, <3>1
      DEF Followed, Living, Shaped, Numbered, Vacant, Distinct, Instances, Known, Opened, Verified,
          Attached, Looked, Quiet, Following, Symbolic, Sampling, Polling
  <2>3. CASE ~StillTheSame
    <3>1. pc' = "failed"
      BY <1>5, <2>3 DEF Validate, Fail
    <3> QED
      BY <1>1, <2>1, <3>1, Aside DEF Following, Symbolic, Sampling, Polling
  <2> QED
    BY <2>2, <2>3
<1>6. CASE OpenPidFd
  <2>1. Quiet /\ UNCHANGED <<last, validated>> /\ pc = "pidfd"
    BY <1>6 DEF OpenPidFd, At, worldVars, resolverVars, Quiet
  <2>2. CASE Alive
    <3>1. pc' = "mode" /\ pidfd' = proc[last.pid].birth /\ pidfd' \in 1..births
      BY <1>6, <2>2, Reads DEF OpenPidFd, Goto
    <3>2. \A p \in Pids : proc[p].birth = pidfd' => p = last.pid
      <4>1. births \in Nat /\ pidfd' # 0
        BY <3>1 DEF Followed, Living, Numbered
      <4> QED
        BY <1>1, <3>1, <4>1 DEF Followed, Living, Distinct
    <3>3. Opened' /\ Verified'
      BY <2>1, <3>1, <3>2 DEF Followed, Opened, Verified, Quiet
    <3> QED
      BY <1>1, <2>1, <3>1, <3>3
      DEF Followed, Living, Shaped, Numbered, Vacant, Distinct, Instances, Known,
          Attached, Looked, Quiet, Following, Symbolic, Sampling, Polling
  <2>3. CASE ~Alive
    <3>1. pc' = "failed"
      BY <1>6, <2>3 DEF OpenPidFd, Fail
    <3> QED
      BY <1>1, <2>1, <3>1, Aside DEF Following, Symbolic, Sampling, Polling
  <2> QED
    BY <2>2, <2>3
<1> QED
  BY <1>2, <1>3, <1>4, <1>5, <1>6

(* The collectors are attached: the pidfd and what was read stay.          *)
LEMMA AttachmentFollowed ==
    ASSUME Followed,
           \/ SelectMode \/ Calibrate \/ RefreshPreflight \/ LoadSymbols
           \/ Attach \/ Resume \/ ReadIdentity \/ ReadMaps
    PROVE  Followed'
<1> USE DEF Following, Symbolic, Sampling, Polling
<1>1. Quiet /\ UNCHANGED <<last, pidfd, validated>>
  BY DEF SelectMode, Calibrate, RefreshPreflight, LoadSymbols, Attach, Resume, ReadIdentity, ReadMaps,
         At, Nothing, worldVars, resolverVars, attachVars, Quiet
<1>2. last.pid \in Pids
  BY DEF Followed, Known
<1>3. pc' = "failed" => Followed'
  BY <1>1, <1>2, Aside
<1>4. CASE SelectMode \/ Calibrate \/ RefreshPreflight
  <2>1. pc \in Following /\ pc' \in {"mode", "calibrate", "recalibrate", "symbols", "failed"}
    BY <1>4 DEF SelectMode, Calibrate, RefreshPreflight, At, Goto, Fail
  <2> QED
    BY <1>1, <2>1, Onward DEF Attached, Looked
<1>5. CASE LoadSymbols
  <2>1. pc = "symbols" /\ (pc' = "failed" \/ (pc' = "attach" /\ symbols' = Run(last.pid)))
    BY <1>5 DEF LoadSymbols, At, Goto, Fail
  <2>2. pc' = "attach" => Attached' /\ Looked'
    BY <1>1, <2>1, Reads DEF Attached, Looked, Quiet
  <2> QED
    BY <1>1, <1>3, <2>1, <2>2, Onward
<1>6. CASE Attach
  <2>1. /\ pc = "attach" /\ symbols' = symbols
        /\ pc' = "failed" \/ (pc' \in {"open", "resume", "identity"} /\ collectors' = proc[last.pid].birth)
    BY <1>6 DEF Attach, At, Goto, Fail
  <2>2. pc' # "failed" => Attached' /\ Looked'
    BY <1>1, <2>1 DEF Followed, Attached, Looked, Quiet
  <2> QED
    BY <1>1, <1>3, <2>1, <2>2, Onward
<1>7. CASE Resume \/ ReadIdentity \/ ReadMaps
  <2>1. /\ pc \in {"resume", "identity", "maps"} /\ UNCHANGED <<symbols, collectors>>
        /\ pc' \in {"identity", "maps", "open", "failed"}
    BY <1>7 DEF Resume, ReadIdentity, ReadMaps, At, Nothing, attachVars, Goto, Fail
  <2>2. Attached' /\ Looked'
    BY <1>1, <2>1 DEF Followed, Attached, Looked, Quiet
  <2> QED
    BY <1>1, <2>1, <2>2, Onward
<1> QED
  BY <1>4, <1>5, <1>6, <1>7

(* A window: nothing but new mappings replaces what was read.              *)
LEMMA WindowFollowed ==
    ASSUME Followed,
           OpenWindow \/ Head \/ Events \/ Tick \/ Second \/ SecondMaps \/ Close \/ Decide
    PROVE  Followed'
<1> USE DEF Following, Symbolic, Sampling, Polling
<1>1. Quiet /\ UNCHANGED <<last, pidfd, validated>>
  BY DEF OpenWindow, Head, Events, Tick, Second, SecondMaps, Close, Decide, Lost,
         At, worldVars, resolverVars, attachVars, Quiet
<1>2. last.pid \in Pids
  BY DEF Followed, Known
<1>3. CASE OpenWindow \/ Close
  <2>1. /\ pc \in {"open", "close"} /\ pc' \in {"ended", "head", "decide"}
        /\ UNCHANGED <<symbols, collectors>>
    BY <1>3 DEF OpenWindow, Close, At, Goto, attachVars
  <2>2. CASE pc' = "ended"
    BY <1>1, <1>2, <2>2, Aside
  <2>3. CASE pc' # "ended"
    <3>1. Attached' /\ Looked'
      BY <1>1, <2>1, <2>3 DEF Followed, Attached, Looked, Quiet
    <3> QED
      BY <1>1, <2>1, <3>1, Onward
  <2> QED
    BY <2>2, <2>3
<1>4. CASE Head
  <2>1. /\ pc = "head" /\ UNCHANGED <<symbols, collectors>>
        /\ pc' = "close" \/ (pc' = "events" /\ ~PidFdExited)
    BY <1>4 DEF Head, At, Goto, attachVars
  <2>2. Attached' /\ Looked'
    BY <1>1, <2>1, Reads DEF Followed, Attached, Looked, Quiet
  <2> QED
    BY <1>1, <2>1, <2>2, Onward
<1>5. CASE Events \/ Tick \/ Second
  <2>1. /\ pc \in {"events", "tick", "second"} /\ UNCHANGED <<symbols, collectors>>
        /\ pc' \in {"close", "tick", "second", "head", "secondmaps", "failed"}
    BY <1>5 DEF Events, Tick, Second, Lost, At, Goto, Fail, attachVars
  <2>2. Attached' /\ Looked'
    BY <1>1, <2>1 DEF Followed, Attached, Looked, Quiet
  <2> QED
    BY <1>1, <2>1, <2>2, Onward
<1>6. CASE SecondMaps
  <2>1. /\ pc = "secondmaps" /\ UNCHANGED collectors /\ pc' \in {"close", "head", "failed"}
        /\ symbols' = symbols \/ symbols' = Run(last.pid)
    BY <1>6 DEF SecondMaps, Lost, At, Goto, Fail, Reloaded
  <2>2. Attached' /\ Looked'
    BY <1>1, <2>1, Reads DEF Followed, Attached, Looked, Quiet
  <2> QED
    BY <1>1, <2>1, <2>2, Onward
<1>7. CASE Decide
  <2>1. /\ pc = "decide" /\ UNCHANGED symbols
        /\ \/ pc' \in {"ended", "wait", "failed"}
           \/ pc' = "refresh"
           \/ pc' = "attach"
           \/ pc' = "open" /\ UNCHANGED collectors
    BY <1>7 DEF Decide, Reason, At, Goto, Again, Fail
  <2>2. CASE pc' \in {"ended", "wait", "failed"}
    BY <1>1, <1>2, <2>2, Aside
  <2>3. CASE pc' \in {"refresh", "attach", "open"}
    <3>1. Attached' /\ Looked'
      BY <1>1, <2>1, <2>3 DEF Followed, Attached, Looked, Quiet
    <3> QED
      BY <1>1, <2>1, <2>3, <3>1, Onward
  <2> QED
    BY <2>1, <2>2, <2>3
<1> QED
  BY <1>3, <1>4, <1>5, <1>6, <1>7

LEMMA FollowedStep == Followed /\ [Next]_vars => Followed'
<1> SUFFICES ASSUME Followed, [Next]_vars PROVE Followed'
  OBVIOUS
<1>1. /\ last.pid \in Pids /\ report.pid \in Pids /\ births \in Nat
      /\ \A p \in Pids : proc[p].birth \in 0..births
  BY DEF Followed, Known, Living, Numbered
<1>2. CASE Recorder
  BY <1>2, ResolutionFollowed, AttachmentFollowed, WindowFollowed DEF Recorder
<1>3. CASE Fails
  <2>1. Quiet /\ last' = last /\ pc' = "failed"
    BY <1>3 DEF Fails, At, Fail, Nothing, worldVars, resolverVars, Quiet
  <2> QED
    BY <1>1, <2>1, Aside DEF Following, Symbolic, Sampling, Polling
<1>4. CASE Environment
  <2>1. World /\ UNCHANGED <<pc, last, found, validated, pidfd, symbols, collectors>>
    BY <1>4 DEF Environment, World, resolverVars, attachVars
  <2> QED
    BY <1>1, <2>1, WorldFresh, WorldFollowed DEF Followed
<1>5. CASE Signal \/ DeadlinePasses \/ UNCHANGED vars
  <2>1. /\ UNCHANGED <<proc, births, ours, report, last, found, validated, pidfd, symbols, collectors>>
        /\ pc' = pc \/ pc' = "failed"
    BY <1>5 DEF Signal, DeadlinePasses, Fail, Nothing, vars, worldVars, resolverVars, attachVars
  <2>2. CASE pc' = "failed"
    BY <1>1, <2>1, <2>2, Aside DEF Quiet, Following, Symbolic, Sampling, Polling
  <2>3. CASE pc' = pc
    <3>1. Fresh /\ Living' /\ Instances'
      BY <1>1, <2>1 DEF Followed, Living, Shaped, Numbered, Vacant, Distinct, Instances, Fresh
    <3> QED
      BY <1>1, <2>1, <2>3, <3>1, WorldFollowed
  <2> QED
    BY <2>1, <2>2, <2>3
<1> QED
  BY <1>2, <1>3, <1>4, <1>5 DEF Next

(* Whatever exits, is started again or gets a used id: what a poll of the  *)
(* loop drains and symbolizes is the process the pidfd refers to, and that *)
(* is the one that was resolved, unless its id was used again between      *)
(* validate_current and PidFd::open.                                       *)
THEOREM OneProcessSampled == Spec => []SampledOne
<1>1. Followed => SampledOne
  BY DEF Followed, Looked, Verified, SampledOne, Following, Symbolic, Sampling, Polling
<1> QED
  BY <1>1, FollowedInit, FollowedStep, PTL DEF Spec

-----------------------------------------------------------------------------
(* How a window ends when the target does.                                 *)

Windowed == {"open", "head", "events", "tick", "second", "secondmaps", "close", "decide"}
Phased   == (phase = "loop" => pc \in Windowed \/ Done) /\ ExitFinalizes

(* A read of /proc fails only after the process of the pidfd has ended.    *)
LEMMA LostExits ==
    ASSUME Followed, pc \in Following, ~Alive
    PROVE  PidFdExited
<1>1. proc[last.pid].birth = 0 /\ pidfd # 0
  BY DEF Followed, Opened, Living, Numbered, Alive, Nobody
<1> QED
  BY <1>1 DEF Followed, Opened, PidFdExited

LEMMA PhasedStep == Followed /\ Phased /\ [Next]_vars => Phased'
<1> USE DEF Phased, Windowed, Done, ExitFinalizes
<1> SUFFICES ASSUME Followed, Phased, [Next]_vars PROVE Phased'
  OBVIOUS
<1>1. CASE Resolve \/ StartTime \/ Inspect \/ Validate \/ OpenPidFd \/ SelectMode \/ Calibrate \/ RefreshPreflight
  <2>1. /\ pc \in {"resolve", "start", "inspect", "validate", "pidfd", "mode", "calibrate", "refresh", "recalibrate"}
        /\ phase' = phase
    BY <1>1 DEF Resolve, StartTime, Inspect, Validate, OpenPidFd, SelectMode, Calibrate, RefreshPreflight,
                At, Goto, Fail
  <2> QED
    BY <2>1
<1>2. CASE LoadSymbols \/ Attach \/ Resume \/ ReadIdentity \/ Wait
  <2>1. pc \in {"symbols", "attach", "resume", "identity", "wait"} /\ phase' = phase
    BY <1>2 DEF LoadSymbols, Attach, Resume, ReadIdentity, Wait, At, Goto, Fail
  <2> QED
    BY <2>1
<1>3. CASE ReadMaps
  <2>1. /\ pc = "maps"
        /\ pc' = "open" \/ (pc' = "failed" /\ phase' = phase)
    BY <1>3 DEF ReadMaps, At, Fail
  <2> QED
    BY <2>1
<1>4. CASE OpenWindow \/ Head \/ Tick \/ Close
  <2>1. pc' \in {"ended", "head", "close", "events", "second", "decide"}
    BY <1>4 DEF OpenWindow, Head, Tick, Close, Goto
  <2> QED
    BY <2>1
<1>5. CASE Events \/ Second \/ SecondMaps
  <2>1. pc \in Following
    BY <1>5 DEF Events, Second, SecondMaps, At, Following, Symbolic, Sampling, Polling
  <2>2. ~Alive /\ Lost("close") => pc' = "close"
    BY <2>1, LostExits DEF Lost, Goto
  <2>3. pc' \in {"close", "tick", "secondmaps", "head"}
    BY <1>5, <2>2 DEF Events, Second, SecondMaps, Goto
  <2> QED
    BY <2>3
<1>6. CASE Decide
  <2>1. \/ pc' \in {"ended", "open"}
        \/ pc' = "failed" /\ cause' = "info"
        \/ phase' \in {"restart", "exec", "low"}
    BY <1>6 DEF Decide, Reason, Goto, Again, Fail
  <2>2. pc' \in {"ended", "open"} \/ pc' = "failed" \/ phase' # "loop"
    BY <2>1
  <2>3. pc' = "failed" => cause' = "info"
    BY <1>6 DEF Decide, Reason, Goto, Again, Fail
  <2> QED
    BY <2>2, <2>3
<1>7. CASE Fails \/ Signal
  <2>1. /\ phase' = phase /\ (pc' = pc \/ pc' = "failed")
        /\ (pc' = pc /\ cause' = cause) \/ cause' \in {"call", "killed"}
    BY <1>7 DEF Fails, Signal, Fail
  <2> QED
    BY <2>1
<1>8. CASE Environment \/ DeadlinePasses \/ UNCHANGED vars
  <2>1. UNCHANGED <<pc, phase, cause>>
    BY <1>8 DEF Environment, DeadlinePasses, vars
  <2> QED
    BY <2>1
<1> QED
  BY <1>1, <1>2, <1>3, <1>4, <1>5, <1>6, <1>7, <1>8 DEF Next, Recorder

(* An exit of the target while windows are recorded ends the window and    *)
(* never fails the recording, wherever the exit falls.                     *)
THEOREM ExitsFinalize == Spec => []ExitFinalizes
<1>1. Init => Phased
  BY DEF Init, Phased, ExitFinalizes
<1>2. Phased => ExitFinalizes
  BY DEF Phased
<1> QED
  BY <1>1, <1>2, FollowedInit, FollowedStep, PhasedStep, PTL DEF Spec

-----------------------------------------------------------------------------
(* Which mappings a window is symbolized with.                             *)

Windowing == {"head", "events", "tick", "second", "secondmaps", "close"}

(* An open window knows what its target has run since it began.            *)
Spanned == pc \in Windowing /\ ~PidFdExited => RunsIn(proc) \subseteq span

(* The symbols are those of the maps that were read last.                  *)
Agreed ==
    /\ phase = "low" => pc \in {"attach", "open"} \/ Done
    /\ ~raced /\ (pc \in Windowed \/ (pc = "attach" /\ phase = "low")) => symbols = maps

(* From the first reconciliation of the window on they are those of the    *)
(* target, if it changed nothing since.                                    *)
Reconciled ==
    /\ pc \in Windowing /\ ~raced /\ ~PidFdExited /\ ~exited /\ ~execd
    /\ tick >= ReconcileTicks /\ ~(tick = ReconcileTicks /\ pc \in {"second", "secondmaps"})
Refreshed == Reconciled => \A r \in span : span = {r} => symbols = <<r[1], r[2]>>

(* A window that nothing ends early lasts as long as it should.            *)
Timed ==
    /\ tick \in Nat
    /\ pc = "close" /\ ~exited /\ ~execd => stopped \/ deadline \/ tick >= WindowTicks

Renewed == Spanned /\ Agreed /\ Refreshed /\ Timed

(* Outside a window only what was read last matters.                       *)
LEMMA Between ==
    ASSUME pc' \notin Windowing, Agreed', tick' \in Nat
    PROVE  Renewed'
  BY DEF Renewed, Spanned, Refreshed, Reconciled, Timed, Windowing

(* What is read by the id of the target is all that it runs.               *)
LEMMA OneRun ==
    ASSUME Followed, pc \in Following, ~PidFdExited
    PROVE  /\ RunsIn(proc) = {<<proc[last.pid].birth, proc[last.pid].maps, proc[last.pid].image>>}
           /\ Run(last.pid) = <<proc[last.pid].birth, proc[last.pid].maps>>
<1>1. last.pid \in Pids /\ proc[last.pid].birth = pidfd
  BY Reads DEF Followed, Known
<1>2. \A p \in Pids : proc[p].birth = pidfd => p = last.pid
  BY DEF Followed, Opened
<1> QED
  BY <1>1, <1>2 DEF RunsIn, Run

(* The target runs on: its window sees every change.                       *)
LEMMA WorldRenewed ==
    ASSUME Followed, Renewed, Fresh, Track,
           UNCHANGED <<pc, phase, pidfd, symbols, raced, maps, exited, execd, tick, stopped, deadline>>
    PROVE  Renewed'
<1>1. pc \in Windowing /\ ~PidFdExited' => ~PidFdExited
  <2>1. pc \in Windowing => pidfd \in 1..births
    BY DEF Followed, Opened, Windowing, Following, Symbolic, Sampling, Polling
  <2>2. births \in Nat /\ pidfd' = pidfd
    BY DEF Followed, Living, Numbered
  <2> QED
    BY <2>1, <2>2 DEF PidFdExited, Fresh
<1>2. pc \in Windowing /\ ~PidFdExited => span # {} /\ RunsIn(proc) \subseteq span
  <2>1. ~PidFdExited => RunsIn(proc) # {}
    BY DEF PidFdExited, RunsIn
  <2> QED
    BY <2>1 DEF Renewed, Spanned
<1>3. pc \in Windowing /\ ~PidFdExited' => span \subseteq span' /\ span # {} /\ RunsIn(proc)' \subseteq span'
  <2>1. span # {} => span' = span \cup RunsIn(proc)'
    BY DEF Track, RunsIn
  <2> QED
    BY <1>1, <1>2, <2>1
<1>4. Spanned'
  BY <1>3 DEF Spanned
<1>5. Refreshed'
  <2>1. Reconciled' => Reconciled /\ ~PidFdExited'
    BY <1>1 DEF Reconciled
  <2>2. ASSUME Reconciled', NEW r \in span', span' = {r}
        PROVE  symbols' = <<r[1], r[2]>>
    <3>1. span = {r} /\ Reconciled
      BY <1>3, <2>1, <2>2 DEF Reconciled
    <3> QED
      BY <3>1 DEF Renewed, Refreshed
  <2> QED
    BY <2>2 DEF Refreshed
<1>6. Agreed' /\ Timed'
  BY DEF Renewed, Agreed, Timed, Done
<1> QED
  BY <1>4, <1>5, <1>6 DEF Renewed

(* Before a window is open: what is read last is compared.                 *)
LEMMA AttachmentRenewed ==
    ASSUME Followed, Phased, Renewed,
           \/ Resolve \/ StartTime \/ Inspect \/ Validate \/ OpenPidFd \/ SelectMode \/ Calibrate
           \/ RefreshPreflight \/ LoadSymbols \/ Attach \/ Resume \/ ReadIdentity \/ ReadMaps \/ Wait
    PROVE  Renewed'
<1> USE DEF Windowing, Windowed, Done
<1>1. tick' = tick /\ tick \in Nat
  BY DEF Resolve, StartTime, Inspect, Validate, OpenPidFd, SelectMode, Calibrate, RefreshPreflight,
         LoadSymbols, Attach, Resume, ReadIdentity, ReadMaps, Wait, Nothing, windowVars, Renewed, Timed
<1>2. CASE \/ Resolve \/ StartTime \/ Inspect \/ Validate \/ OpenPidFd \/ SelectMode \/ Calibrate
           \/ RefreshPreflight \/ Resume \/ ReadIdentity \/ Wait
  <2>1. /\ pc \in {"resolve", "start", "inspect", "validate", "pidfd", "mode", "calibrate", "recalibrate",
                   "refresh", "resume", "identity", "wait"}
        /\ pc' \in {"start", "wait", "inspect", "validate", "pidfd", "mode", "calibrate", "recalibrate",
                    "symbols", "identity", "maps", "failed", "ended"}
        /\ phase' = phase
    BY <1>2 DEF Resolve, StartTime, Inspect, Validate, OpenPidFd, SelectMode, Calibrate, RefreshPreflight,
                Resume, ReadIdentity, Wait, At, Goto, Fail
  <2>2. phase' # "low"
    BY <2>1 DEF Renewed, Agreed
  <2> QED
    BY <1>1, <2>1, <2>2, Between DEF Agreed
<1>3. CASE LoadSymbols
  <2>1. pc = "symbols" /\ pc' \in {"attach", "failed"} /\ phase' = phase
    BY <1>3 DEF LoadSymbols, At, Goto, Fail
  <2> QED
    BY <1>1, <2>1, Between DEF Agreed, Renewed
<1>4. CASE Attach
  <2>1. /\ pc = "attach" /\ phase' = phase /\ UNCHANGED <<symbols, maps, raced>>
        /\ pc' = "failed" \/ (pc' = "open" /\ phase = "low") \/ (pc' \in {"resume", "identity"} /\ phase # "low")
    BY <1>4 DEF Attach, At, Goto, Fail
  <2> QED
    BY <1>1, <2>1, Between DEF Agreed, Renewed
<1>5. CASE ReadMaps
  <2>1. /\ pc = "maps"
        /\ \/ pc' = "open" /\ phase' = "loop" /\ raced' = (symbols # maps') /\ symbols' = symbols
           \/ pc' = "failed" /\ phase' = phase
    BY <1>5 DEF ReadMaps, At, Fail
  <2>2. Agreed'
    BY <2>1 DEF Agreed, Renewed
  <2> QED
    BY <1>1, <2>1, <2>2, Between
<1> QED
  BY <1>2, <1>3, <1>4, <1>5

(* A step of a window that reads no maps.                                  *)
LEMMA Unread ==
    ASSUME Renewed, pc \in Windowing, pc' \in Windowing, phase' = phase,
           UNCHANGED <<proc, pidfd, symbols, raced, maps, span>>,
           tick' \in Nat, Reconciled' => Reconciled,
           pc' = "close" /\ ~exited' /\ ~execd' => stopped' \/ deadline' \/ tick' >= WindowTicks
    PROVE  Renewed'
<1>1. Spanned'
  BY DEF Renewed, Spanned, PidFdExited, RunsIn
<1>2. Agreed'
  BY DEF Renewed, Agreed, Windowing, Windowed, Done
<1>3. Refreshed' /\ Timed'
  BY DEF Renewed, Refreshed, Timed
<1> QED
  BY <1>1, <1>2, <1>3 DEF Renewed

LEMMA WindowRenewed ==
    ASSUME Followed, Phased, Renewed,
           OpenWindow \/ Head \/ Events \/ Tick \/ Second \/ SecondMaps \/ Close \/ Decide
    PROVE  Renewed'
<1> USE DEF Windowing
<1>1. tick \in Nat
  BY DEF Renewed, Timed
<1>2. CASE OpenWindow
  <2>1. /\ pc = "open" /\ UNCHANGED <<proc, pidfd, symbols, raced, maps>>
        /\ \/ pc' = "ended" /\ phase' = phase /\ tick' = tick
           \/ pc' = "head" /\ phase' = "loop" /\ tick' = 0 /\ span' = RunsIn(proc)
    BY <1>2 DEF OpenWindow, At, Goto, attachVars, worldVars
  <2>2. Agreed'
    BY <2>1 DEF Renewed, Agreed, Windowed, Done
  <2>3. CASE pc' = "ended"
    BY <1>1, <2>1, <2>2, <2>3, Between
  <2>4. CASE pc' = "head"
    <3>1. Spanned'
      BY <2>1, <2>4 DEF Spanned, RunsIn
    <3>2. tick' = 0 /\ ~(0 >= ReconcileTicks)
      BY <2>1, <2>4, LoopAssumption
    <3>3. Refreshed' /\ Timed'
      BY <2>4, <3>2 DEF Refreshed, Reconciled, Timed
    <3> QED
      BY <2>2, <3>1, <3>3 DEF Renewed
  <2> QED
    BY <2>1, <2>3, <2>4
<1>3. CASE Head
  <2>1. /\ pc = "head" /\ UNCHANGED <<proc, pidfd, symbols, raced, maps, span, phase, execd, tick, stopped, deadline>>
        /\ \/ pc' = "close" /\ exited' = (exited \/ (~WindowOver /\ PidFdExited)) /\ (WindowOver \/ PidFdExited)
           \/ pc' = "events" /\ exited' = exited
    BY <1>3 DEF Head, At, Goto, attachVars, worldVars, callerVars
  <2>2. Reconciled' => Reconciled
    BY <2>1 DEF Reconciled, PidFdExited
  <2>3. pc' = "close" /\ ~exited' => WindowOver
    BY <2>1
  <2> QED
    BY <1>1, <2>1, <2>2, <2>3, Unread DEF WindowOver
<1>4. CASE Events
  <2>1. /\ pc = "events" /\ UNCHANGED <<proc, pidfd, symbols, raced, maps, span, phase, tick>>
        /\ pc' \in {"close", "tick", "failed"}
        /\ pc' = "close" => exited' \/ execd'
        /\ pc' = "tick" => UNCHANGED <<exited, execd>>
    BY <1>4 DEF Events, Lost, At, Goto, Fail, attachVars, worldVars, callerVars
  <2>2. CASE pc' = "failed"
    BY <1>1, <2>1, <2>2, Between DEF Agreed, Renewed, Windowed, Done
  <2>3. CASE pc' # "failed"
    <3>1. Reconciled' => Reconciled
      BY <2>1, <2>3 DEF Reconciled, PidFdExited
    <3> QED
      BY <1>1, <2>1, <2>3, <3>1, Unread
  <2> QED
    BY <2>2, <2>3
<1>5. CASE Tick
  <2>1. /\ pc = "tick" /\ UNCHANGED <<proc, pidfd, symbols, raced, maps, span, phase, exited, execd>>
        /\ tick' = tick + 1
        /\ pc' = IF tick' % ReconcileTicks = 0 THEN "second" ELSE "head"
    BY <1>5 DEF Tick, At, Goto, attachVars, worldVars, callerVars
  <2>2. Reconciled' => Reconciled
    <3>1. ReconcileTicks \in Nat \ {0} /\ ReconcileTicks % ReconcileTicks = 0
      BY LoopAssumption
    <3>2. tick' = ReconcileTicks => pc' = "second"
      BY <2>1, <3>1
    <3>3. tick' > ReconcileTicks => tick >= ReconcileTicks
      BY <1>1, <2>1, <3>1
    <3>4. tick' >= ReconcileTicks => tick' = ReconcileTicks \/ tick' > ReconcileTicks
      BY <1>1, <2>1, <3>1
    <3> QED
      BY <2>1, <3>2, <3>3, <3>4 DEF Reconciled, PidFdExited
  <2> QED
    BY <1>1, <2>1, <2>2, Unread
<1>6. CASE Second
  <2>1. /\ pc = "second" /\ UNCHANGED <<proc, pidfd, symbols, raced, maps, span, phase, tick>>
        /\ pc' \in {"close", "secondmaps", "failed"}
        /\ pc' = "close" => exited' \/ execd'
        /\ pc' = "secondmaps" => UNCHANGED <<exited, execd>>
    BY <1>6 DEF Second, Lost, At, Goto, Fail, attachVars, worldVars, callerVars
  <2>2. CASE pc' = "failed"
    BY <1>1, <2>1, <2>2, Between DEF Agreed, Renewed, Windowed, Done
  <2>3. CASE pc' # "failed"
    <3>1. Reconciled' => Reconciled
      BY <2>1, <2>3 DEF Reconciled, PidFdExited
    <3> QED
      BY <1>1, <2>1, <2>3, <3>1, Unread
  <2> QED
    BY <2>2, <2>3
<1>7. CASE SecondMaps
  <2>1. pc = "secondmaps" /\ UNCHANGED <<proc, pidfd, span, phase, execd, tick>>
    BY <1>7 DEF SecondMaps, Lost, At, Goto, Fail, attachVars, worldVars, callerVars
  <2>2. CASE ~Alive
    <3>1. pc \in Following
      BY <2>1 DEF Following, Symbolic, Sampling, Polling
    <3>2. pc' = "close" /\ exited' /\ UNCHANGED <<symbols, raced, maps>>
      BY <1>7, <2>2, <3>1, LostExits DEF SecondMaps, Lost, Goto
    <3> QED
      BY <1>1, <2>1, <3>2, Unread DEF Reconciled
  <2>3. CASE Alive
    <3>1. /\ maps' = Run(last.pid) /\ pc' = "head" /\ exited' = exited
          /\ symbols' = IF maps' = maps THEN symbols ELSE Run(last.pid)
          /\ raced' = (raced /\ maps' = maps)
      BY <1>7, <2>3 DEF SecondMaps, Goto, Reloaded
    <3>2. ~raced' => symbols' = Run(last.pid) /\ symbols' = maps'
      <4>1. ~raced => symbols = maps
        BY <2>1 DEF Renewed, Agreed, Windowed
      <4> QED
        BY <3>1, <4>1
    <3>3. Agreed'
      BY <2>1, <3>1, <3>2 DEF Renewed, Agreed, Windowed, Done
    <3>4. Spanned'
      BY <2>1, <3>1 DEF Renewed, Spanned, PidFdExited, RunsIn
    <3>5. ASSUME Reconciled', NEW r \in span', span' = {r}
          PROVE  symbols' = <<r[1], r[2]>>
      <4>1. ~PidFdExited /\ ~raced'
        BY <2>1, <3>5 DEF Reconciled, PidFdExited
      <4>2. RunsIn(proc) = {<<proc[last.pid].birth, proc[last.pid].maps, proc[last.pid].image>>}
        BY <2>1, <4>1, OneRun DEF Following, Symbolic, Sampling, Polling
      <4>3. r = <<proc[last.pid].birth, proc[last.pid].maps, proc[last.pid].image>>
        BY <2>1, <3>5, <4>1, <4>2 DEF Renewed, Spanned
      <4> QED
        BY <3>2, <4>1, <4>3 DEF Run
    <3>6. Refreshed' /\ Timed'
      BY <1>1, <2>1, <3>1, <3>5 DEF Refreshed, Timed
    <3> QED
      BY <3>3, <3>4, <3>6 DEF Renewed
  <2> QED
    BY <2>2, <2>3
<1>8. CASE Close \/ Decide
  <2>1. /\ tick' = tick /\ UNCHANGED <<symbols, raced, maps>>
        /\ \/ pc = "close" /\ pc' = "decide" /\ phase' = phase
           \/ pc = "decide" /\ pc' \in {"ended", "failed", "open"} /\ phase' = phase
           \/ pc = "decide" /\ pc' \in {"wait", "refresh"} /\ phase' # "low"
           \/ pc = "decide" /\ pc' = "attach"
    BY <1>8 DEF Close, Decide, Reason, At, Goto, Again, Fail, attachVars
  <2>2. Agreed'
    BY <2>1 DEF Renewed, Agreed, Windowed, Done
  <2> QED
    BY <1>1, <2>1, <2>2, Between
<1> QED
  BY <1>2, <1>3, <1>4, <1>5, <1>6, <1>7, <1>8

LEMMA RenewedStep == Followed /\ Phased /\ Renewed /\ [Next]_vars => Renewed'
<1> SUFFICES ASSUME Followed, Phased, Renewed, [Next]_vars PROVE Renewed'
  OBVIOUS
<1>1. CASE Recorder
  BY <1>1, AttachmentRenewed, WindowRenewed DEF Recorder
<1>2. CASE Fails
  <2>1. pc' = "failed" /\ UNCHANGED <<phase, tick>>
    BY <1>2 DEF Fails, At, Fail, Nothing, windowVars
  <2> QED
    BY <2>1, Between DEF Windowing, Windowed, Agreed, Renewed, Timed, Done
<1>3. CASE Environment
  <2>1. World /\ Track /\ UNCHANGED <<pc, phase, pidfd, symbols, raced, maps, exited, execd, tick, stopped, deadline>>
    BY <1>3 DEF Environment, World, attachVars, windowVars, callerVars
  <2>2. Fresh
    BY <2>1, WorldFresh DEF Followed, Known
  <2> QED
    BY <2>1, <2>2, WorldRenewed
<1>4. CASE Signal \/ DeadlinePasses \/ UNCHANGED vars
  <2>1. /\ UNCHANGED <<proc, pidfd, symbols, raced, maps, exited, execd, tick, span, phase>>
        /\ pc' = "failed" \/ pc' = pc
        /\ stopped => stopped'
        /\ deadline => deadline'
    BY <1>4 DEF Signal, DeadlinePasses, Fail, Nothing, vars, worldVars, callerVars, attachVars, windowVars
  <2>2. CASE pc' = "failed"
    BY <2>1, <2>2, Between DEF Windowing, Windowed, Agreed, Renewed, Timed, Done
  <2>3. CASE pc' = pc
    BY <2>1, <2>3 DEF Renewed, Spanned, Agreed, Refreshed, Reconciled, Timed, PidFdExited, RunsIn, Done
  <2> QED
    BY <2>1, <2>2, <2>3
<1> QED
  BY <1>1, <1>2, <1>3, <1>4 DEF Next

(* A window of at least a second through which the target kept its         *)
(* mappings is symbolized for them, whatever happened in earlier windows,  *)
(* unless they changed between the load of the symbols and the first read  *)
(* of the maps.  (A shorter --window ends before its reconciliation and    *)
(* may be symbolized for mappings of an earlier one.)                      *)
THEOREM WindowsSymbolized ==
    ASSUME ReconcileTicks <= WindowTicks
    PROVE  Spec => []FullWindowsSymbolized
<1>1. Init => Phased /\ Renewed
  BY DEF Init, Phased, ExitFinalizes, Renewed, Spanned, Agreed, Refreshed, Reconciled, Timed, Windowing, Windowed
<1>2. Followed /\ Renewed => FullWindowsSymbolized
  <2> SUFFICES ASSUME Renewed, FullWindow, ~raced, NEW r \in span, span = {r}
               PROVE  symbols = <<r[1], r[2]>>
    BY DEF FullWindowsSymbolized
  <2>1. pc = "close" /\ ~exited /\ ~execd /\ ~PidFdExited /\ tick \in Nat /\ tick >= WindowTicks
    BY DEF FullWindow, Renewed, Timed
  <2>2. tick >= ReconcileTicks
    BY <2>1, LoopAssumption
  <2> QED
    BY <2>1, <2>2 DEF Renewed, Refreshed, Reconciled, Windowing
<1> QED
  BY <1>1, <1>2, FollowedInit, FollowedStep, PhasedStep, RenewedStep, PTL DEF Spec

-----------------------------------------------------------------------------
(* Every variable of the loop keeps its type.                              *)

(* Mappings are no more than the changes that made them; a window's poll   *)
(* begins before the window's time is over; what the target ran is noted   *)
(* in a window only.                                                       *)
Bounded ==
    /\ \A p \in Pids : proc[p].maps <= changes
    /\ pc \in {"events", "tick"} => tick < WindowTicks
    /\ span # {} => pc \in {"head", "events", "tick", "second", "secondmaps", "close", "failed"}

Typed == TypeOK /\ Bounded

Process == [birth : 0..MaxBirths, image : Images \cup {0}, maps : 0..MaxChanges]

LEMMA LoopConstants ==
    /\ MaxBirths \in Nat \ {0} /\ MaxChanges \in Nat /\ Images \subseteq Nat /\ Program \in Images
    /\ WindowTicks \in Nat \ {0} /\ ReconcileTicks \in Nat \ {0}
  BY TargetAssumption, LoopAssumption DEF TargetAssumption, LoopAssumption

LEMMA SetupIs ==
    ASSUME setup \in Setups
    PROVE  /\ setup.kind \in {"process", "docker", "kubernetes"}
           /\ setup.unwind \in {"auto", "fp", "dwarf"} /\ setup.launch \in BOOLEAN
  BY LoopAssumption DEF LoopAssumption

LEMMA TypedInit == Init => Typed
<1> SUFFICES ASSUME Init PROVE Typed
  OBVIOUS
<1>1. PICK p \in Pids :
        /\ proc = [q \in Pids |-> IF q = p THEN [birth |-> 1, image |-> Program, maps |-> 0] ELSE Nobody]
        /\ report = [state |-> "running", pid |-> p, birth |-> 1]
        /\ last = [pid |-> p, birth |-> 0]
  BY DEF Init, WorldInit
<1>2. /\ births = 1 /\ changes = 0 /\ ours = {1} /\ suspended \in BOOLEAN /\ found = NoPid /\ kind = setup.kind
      /\ setup \in Setups
  <2>1. setup \in Setups /\ WorldInit({setup.kind}, setup.launch)
    BY DEF Init
  <2> QED
    BY <2>1, SetupIs DEF WorldInit
<1>3. WorldTypeOK
  <2>1. kind \in {"process", "docker", "kubernetes"}
    BY <1>2, SetupIs
  <2>2. proc \in [Pids -> Process]
    BY <1>1, LoopConstants DEF Process, Nobody
  <2>3. report \in [state : {"running", "stopped", "removed"}, pid : Pids, birth : ours]
    BY <1>1, <1>2
  <2>4. last \in [pid : Pids, birth : 0..births]
    BY <1>1, <1>2
  <2> QED
    BY <1>2, <2>1, <2>2, <2>3, <2>4, LoopConstants DEF WorldTypeOK, Process
<1>4. Bounded
  BY <1>1, <1>2 DEF Bounded, Nobody, Init
<1>5. /\ preflight \in [birth : 0..births, image : Images \cup {0}]
      /\ symbols \in (0..births) \X (0..MaxChanges) /\ maps \in (0..births) \X (0..MaxChanges)
  BY <1>2, LoopConstants DEF Init, NoRun
<1>6. tick \in 0..WindowTicks
  BY LoopConstants DEF Init
<1> QED
  BY <1>2, <1>3, <1>4, <1>5, <1>6 DEF Typed, TypeOK, Init

(* The world's own steps.                                                  *)
LEMMA WorldTyped ==
    ASSUME Followed, Typed, World, UNCHANGED <<found, last>>
    PROVE  /\ WorldTypeOK' /\ births' \in Nat /\ births <= births'
           /\ \A p \in Pids : proc'[p].maps <= changes'
<1>0. /\ WorldTypeOK /\ births \in 1..MaxBirths /\ changes \in 0..MaxChanges /\ proc \in [Pids -> Process]
      /\ ours \subseteq 1..births /\ report \in [state : {"running", "stopped", "removed"}, pid : Pids, birth : ours]
      /\ last \in [pid : Pids, birth : 0..births] /\ \A p \in Pids : proc[p].maps <= changes
  BY DEF Typed, TypeOK, WorldTypeOK, Process, Bounded
<1>1. births \in Nat /\ MaxBirths \in Nat /\ MaxChanges \in Nat /\ changes \in Nat
  BY <1>0, LoopConstants
<1>2. CASE TargetExits
  <2>1. PICK p \in Target : proc' = [proc EXCEPT ![p] = Nobody]
    BY <1>2 DEF TargetExits
  <2>2. UNCHANGED <<kind, births, changes, suspended, ours, report>>
    BY <1>2 DEF TargetExits
  <2>3. Nobody \in Process /\ Nobody.maps = 0
    BY <1>1 DEF Nobody, Process
  <2>4. proc' \in [Pids -> Process] /\ \A q \in Pids : proc'[q].maps <= changes
    <3>1. proc' = [q \in Pids |-> IF q = p THEN Nobody ELSE proc[q]]
      BY <1>0, <2>1
    <3> QED
      BY <1>0, <1>1, <2>3, <3>1
  <2> QED
    BY <1>0, <1>1, <2>2, <2>4 DEF WorldTypeOK, Process
<1>3. CASE TargetRestarts \/ PidReused
  <2>1. PICK p \in Pids : Born(p, Program)
    BY <1>3 DEF TargetRestarts, PidReused
  <2>2. /\ births' = births + 1 /\ births' \in 1..MaxBirths
        /\ UNCHANGED <<kind, changes, suspended, report>> /\ ours' \in {ours, ours \cup {births + 1}}
    BY <1>0, <1>1, <1>3, <2>1 DEF TargetRestarts, PidReused, Born
  <2>3. proc' \in [Pids -> Process] /\ \A q \in Pids : proc'[q].maps <= changes
    <3> DEFINE new == [birth |-> births + 1, image |-> Program, maps |-> 0]
    <3>1. new \in Process /\ new.maps = 0
      BY <1>1, <2>2, LoopConstants DEF Process
    <3>2. proc' = [proc EXCEPT ![p] = new]
      BY <2>1 DEF Born
    <3> HIDE DEF new
    <3> QED
      BY <1>0, <1>1, <3>1, <3>2
  <2>4. ours' \subseteq 1..births'
    BY <1>0, <1>1, <2>2
  <2>5. report' \in [state : {"running", "stopped", "removed"}, pid : Pids, birth : ours']
    BY <1>0, <2>2
  <2>6. last' \in [pid : Pids, birth : 0..births']
    BY <1>0, <1>1, <2>2
  <2> QED
    BY <1>0, <1>1, <2>2, <2>3, <2>4, <2>5, <2>6 DEF WorldTypeOK, Process
<1>4. CASE TargetExecs \/ TargetMaps
  <2>1. PICK image \in Images \cup {0} : Changed(image)
    <3>1. \A p \in Target : p \in Pids
      BY DEF Target
    <3> QED
      BY <1>0, <1>4, <3>1 DEF TargetExecs, TargetMaps, Process
  <2>2. PICK p \in Target : proc' = [proc EXCEPT ![p].image = image, ![p].maps = @ + 1]
    BY <2>1 DEF Changed
  <2>3. changes < MaxChanges /\ changes' = changes + 1 /\ UNCHANGED <<kind, births, suspended, ours, report>>
    BY <2>1 DEF Changed
  <2>4. p \in Pids
    BY DEF Target
  <2>5. proc' \in [Pids -> Process] /\ \A q \in Pids : proc'[q].maps <= changes'
    <3> DEFINE new == [birth |-> proc[p].birth, image |-> image, maps |-> proc[p].maps + 1]
    <3>1. proc[p] = [birth |-> proc[p].birth, image |-> proc[p].image, maps |-> proc[p].maps] /\ proc[p] \in Process
      BY <1>0, <2>4 DEF Process
    <3>2. [[proc[p] EXCEPT !.image = image] EXCEPT !.maps = @ + 1] = new
      BY <3>1, Executed
    <3>3. new \in Process /\ new.maps <= changes'
      BY <1>0, <1>1, <2>1, <2>3, <2>4, <3>1 DEF Process
    <3>4. proc' = [q \in Pids |-> IF q = p THEN [[proc[p] EXCEPT !.image = image] EXCEPT !.maps = @ + 1] ELSE proc[q]]
      BY <1>0, <2>2
    <3>5. proc' = [q \in Pids |-> IF q = p THEN new ELSE proc[q]]
      BY <3>2, <3>4
    <3>6. \A q \in Pids : proc[q] \in Process /\ proc[q].maps \in Nat
      BY <1>0 DEF Process
    <3> HIDE DEF new
    <3> QED
      BY <1>0, <1>1, <2>3, <3>3, <3>5, <3>6
  <2>6. changes' \in 0..MaxChanges
    BY <1>1, <2>3
  <2> QED
    BY <1>0, <1>1, <2>3, <2>5, <2>6 DEF WorldTypeOK, Process
<1>5. CASE Reported \/ Removed
  <2>1. UNCHANGED <<kind, proc, births, changes, suspended, ours>>
    BY <1>5 DEF Reported, Removed
  <2>2. report' \in [state : {"running", "stopped", "removed"}, pid : Pids, birth : ours]
    <3>1. CASE Reported /\ TargetAlive
      <4>1. Newest(ours) \in ours
        BY NewestIs DEF Followed
      <4>2. (CHOOSE p \in Target : TRUE) \in Pids
        BY <3>1 DEF TargetAlive, Target
      <4> QED
        BY <3>1, <4>1, <4>2 DEF Reported
    <3>2. CASE Reported /\ ~TargetAlive
      BY <1>0, <3>2 DEF Reported
    <3>3. CASE Removed
      BY <1>0, <3>3 DEF Removed
    <3> QED
      BY <1>5, <3>1, <3>2, <3>3
  <2> QED
    BY <1>0, <1>1, <2>1, <2>2 DEF WorldTypeOK
<1> QED
  BY <1>2, <1>3, <1>4, <1>5 DEF World

(* What a step reads of the target by its id has its type.                 *)
LEMMA ReadTyped ==
    ASSUME Followed, Typed
    PROVE  /\ Image \in Images \cup {0} /\ proc[last.pid].birth \in 0..births /\ last.birth \in 0..births
           /\ Run(last.pid) \in (0..births) \X (0..MaxChanges)
<1>1. last.pid \in Pids /\ last.birth \in 0..births /\ proc[last.pid] \in Process
  BY DEF Typed, TypeOK, WorldTypeOK, Process
<1>2. proc[last.pid].birth \in 0..births
  BY <1>1 DEF Followed, Living, Numbered
<1> QED
  BY <1>1, <1>2 DEF Image, Run, Process

(* A step of the recorder leaves the world as it is.                       *)
LEMMA WorldKept ==
    ASSUME WorldTypeOK, UNCHANGED <<kind, proc, births, changes, ours, report>>, suspended' \in BOOLEAN,
           found' \in Pids \cup {NoPid}, last' \in [pid : Pids, birth : 0..births]
    PROVE  WorldTypeOK'
  BY DEF WorldTypeOK

LEMMA ResolutionTyped ==
    ASSUME Followed, Typed, Resolve \/ StartTime \/ Wait
    PROVE  Typed'
<1>1. /\ UNCHANGED <<kind, proc, births, changes, suspended, ours, report, setup, stopped, deadline, preflight, validated, pidfd,
                     mode, symbols, raced, collectors, events, identity, maps, exited, execd, low, tick, span, phase>>
      /\ pc \in {"resolve", "start", "wait"}
      /\ pc' \in {"start", "failed", "wait", "inspect", "ended"} /\ cause' \in {cause, "resolve", "exit"}
  BY DEF Resolve, StartTime, Wait, At, Goto, Fail, worldVars, callerVars, attachVars, windowVars
<1>2. WorldTypeOK'
  <2>1. WorldTypeOK /\ suspended' \in BOOLEAN /\ last \in [pid : Pids, birth : 0..births]
    BY <1>1 DEF Typed, TypeOK, WorldTypeOK
  <2>2. CASE Resolve \/ Wait
    <3>1. Candidates \subseteq Pids
      BY DEF Followed, Known, Candidates, OfInstance
    <3>2. last' = last /\ (found' \in Candidates \/ found' = found)
      BY <2>2 DEF Resolve, Wait, BeginResolution, resolverVars
    <3>3. found \in Pids \cup {NoPid}
      BY <2>1 DEF WorldTypeOK
    <3> QED
      BY <1>1, <2>1, <3>1, <3>2, <3>3, WorldKept
  <2>3. CASE StartTime
    <3>1. found' = NoPid /\ (last' = last \/ last' = [pid |-> found, birth |-> proc[found].birth])
      BY <2>3 DEF StartTime, EndResolution
    <3>2. found \in Pids
      BY <2>3 DEF StartTime, At, Followed, Known
    <3>3. proc[found].birth \in 0..births
      BY <3>2 DEF Followed, Living, Numbered
    <3> QED
      BY <1>1, <2>1, <3>1, <3>2, <3>3, WorldKept
  <2> QED
    BY <2>2, <2>3
<1>3. Bounded'
  BY <1>1 DEF Typed, Bounded
<1> QED
  BY <1>1, <1>2, <1>3 DEF Typed, TypeOK

(* The steps that attach the collectors.                                   *)
LEMMA AttachmentTyped ==
    ASSUME Followed, Typed,
           \/ Inspect \/ Validate \/ OpenPidFd \/ SelectMode \/ Calibrate \/ RefreshPreflight
           \/ LoadSymbols \/ Attach \/ Resume \/ ReadIdentity \/ ReadMaps
    PROVE  Typed'
<1>1. /\ Image \in Images \cup {0} /\ proc[last.pid].birth \in 0..births /\ last.birth \in 0..births
      /\ Run(last.pid) \in (0..births) \X (0..MaxChanges)
  BY ReadTyped
<1>2. /\ UNCHANGED <<kind, proc, births, changes, ours, report, found, last, setup, stopped, deadline, execd, low, tick, span>>
      /\ pc \in {"inspect", "validate", "pidfd", "mode", "calibrate", "recalibrate", "refresh", "symbols", "attach",
                 "resume", "identity", "maps"}
      /\ suspended' \in {suspended, FALSE}
  BY DEF Inspect, Validate, OpenPidFd, SelectMode, Calibrate, RefreshPreflight, LoadSymbols, Attach, Resume,
         ReadIdentity, ReadMaps, At, Nothing, worldVars, callerVars, resolverVars, windowVars
<1>3. WorldTypeOK'
  <2>1. WorldTypeOK /\ suspended' \in BOOLEAN /\ found' \in Pids \cup {NoPid} /\ last' \in [pid : Pids, birth : 0..births]
    BY <1>2 DEF Typed, TypeOK, WorldTypeOK
  <2> QED
    BY <1>2, <2>1, WorldKept
<1>4. span = {} /\ span' = {}
  BY <1>2 DEF Typed, Bounded
<1>5. /\ pc' \in {"validate", "pidfd", "mode", "calibrate", "recalibrate", "symbols", "attach", "open", "resume", "identity",
                  "maps", "failed"}
      /\ phase' \in {phase, "loop"} /\ cause' \in {cause, "exit", "changed", "interrupt", "info", "attach"}
      /\ preflight' \in {preflight, [birth |-> last.birth, image |-> Image], [birth |-> proc[last.pid].birth, image |-> Image]}
      /\ validated' \in {validated, proc[last.pid].birth} /\ pidfd' \in {pidfd, proc[last.pid].birth}
      /\ mode' \in {mode, "fp", "dwarf", setup.unwind} /\ (mode' = setup.unwind => mode' # "auto" \/ mode' = mode)
      /\ collectors' \in {collectors, proc[last.pid].birth} /\ events' \in {events, {}}
      /\ symbols' \in {symbols, Run(last.pid)} /\ maps' \in {maps, Run(last.pid)}
      /\ raced' \in {raced, symbols # maps'} /\ identity' \in {identity, Image} /\ exited' \in {exited, FALSE}
  <2>1. CASE Inspect
    BY <2>1 DEF Inspect, At, Goto, Fail, windowVars
  <2>2. CASE Validate
    BY <2>2 DEF Validate, At, Goto, Fail, windowVars
  <2>3. CASE OpenPidFd
    BY <2>3 DEF OpenPidFd, At, Goto, Fail, windowVars
  <2>4. CASE SelectMode
    BY <2>4 DEF SelectMode, At, Goto, Fail, windowVars, LaunchAuto
  <2>5. CASE Calibrate
    BY <2>5 DEF Calibrate, At, Goto, Fail, windowVars
  <2>6. CASE RefreshPreflight
    BY <2>6 DEF RefreshPreflight, At, Goto, Fail, windowVars
  <2>7. CASE LoadSymbols
    BY <2>7 DEF LoadSymbols, At, Goto, Fail, windowVars
  <2>8. CASE Attach
    BY <2>8 DEF Attach, At, Goto, Fail, windowVars
  <2>9. CASE Resume
    BY <2>9 DEF Resume, Goto, Nothing, attachVars, windowVars
  <2>10. CASE ReadIdentity
    BY <2>10 DEF ReadIdentity, At, Goto, Fail, windowVars
  <2>11. CASE ReadMaps
    BY <2>11 DEF ReadMaps, At, Goto, Fail
  <2> QED
    BY <2>1, <2>2, <2>3, <2>4, <2>5, <2>6, <2>7, <2>8, <2>9, <2>10, <2>11
<1>6. Bounded'
  BY <1>2, <1>4, <1>5 DEF Typed, Bounded
<1>7. mode' \in {"fp", "dwarf"}
  BY <1>5, SetupIs DEF Typed, TypeOK
<1>8. /\ preflight' \in [birth : 0..births', image : Images \cup {0}]
      /\ validated' \in 0..births' /\ pidfd' \in 0..births' /\ collectors' \in 0..births'
  <2>1. /\ preflight \in [birth : 0..births, image : Images \cup {0}]
        /\ validated \in 0..births /\ pidfd \in 0..births /\ collectors \in 0..births
    BY DEF Typed, TypeOK
  <2> QED
    BY <1>1, <1>2, <1>5, <2>1
<1>9. symbols' \in (0..births') \X (0..MaxChanges) /\ maps' \in (0..births') \X (0..MaxChanges)
  <2>1. symbols \in (0..births) \X (0..MaxChanges) /\ maps \in (0..births) \X (0..MaxChanges)
    BY DEF Typed, TypeOK
  <2> QED
    BY <1>1, <1>2, <1>5, <2>1
<1>10. /\ setup' \in Setups /\ events' \subseteq {"thread", "exec"} /\ raced' \in BOOLEAN
       /\ identity' \in Images \cup {0}
       /\ exited' \in BOOLEAN /\ execd' \in BOOLEAN /\ low' \in BOOLEAN /\ stopped' \in BOOLEAN /\ deadline' \in BOOLEAN
       /\ tick' \in 0..WindowTicks
  <2>1. /\ setup \in Setups /\ events \subseteq {"thread", "exec"} /\ raced \in BOOLEAN
        /\ identity \in Images \cup {0}
        /\ exited \in BOOLEAN /\ execd \in BOOLEAN /\ low \in BOOLEAN /\ stopped \in BOOLEAN /\ deadline \in BOOLEAN
        /\ tick \in 0..WindowTicks
    BY DEF Typed, TypeOK
  <2>2. raced' \in BOOLEAN
    BY <1>5, <2>1
  <2> QED
    BY <1>1, <1>2, <1>5, <2>1, <2>2
<1>11. /\ pc' \in {"resolve", "start", "inspect", "validate", "pidfd", "mode", "calibrate", "recalibrate",
                    "refresh", "symbols", "attach", "resume", "identity", "maps", "open", "head", "events",
                    "tick", "second", "secondmaps", "close", "decide", "wait", "ended", "failed"}
       /\ phase' \in {"initial", "loop", "restart", "exec", "low"}
       /\ cause' \in {"none", "exit", "resolve", "changed", "info", "attach", "call", "interrupt", "killed"}
  BY <1>5 DEF Typed, TypeOK
<1> QED
  BY <1>3, <1>4, <1>6, <1>7, <1>8, <1>9, <1>10, <1>11 DEF Typed, TypeOK

(* The steps of a window and what is decided after it.                     *)
LEMMA WindowTyped ==
    ASSUME Followed, Typed,
           OpenWindow \/ Head \/ Events \/ Tick \/ Second \/ SecondMaps \/ Close \/ Decide
    PROVE  Typed'
<1>1. Run(last.pid) \in (0..births) \X (0..MaxChanges)
  BY ReadTyped
<1>2. /\ UNCHANGED <<worldVars, found, last, setup, stopped, deadline, preflight, validated, pidfd, identity>>
      /\ pc \in {"open", "head", "events", "tick", "second", "secondmaps", "close", "decide"}
  BY DEF OpenWindow, Head, Events, Tick, Second, SecondMaps, Close, Decide, At, worldVars, callerVars, resolverVars,
         attachVars, windowVars
<1>3. WorldTypeOK'
  BY <1>2 DEF worldVars, WorldTypeOK, Typed, TypeOK
<1>4. /\ pc' \in {"ended", "head", "close", "events", "tick", "second", "secondmaps", "decide", "wait", "refresh",
                  "failed", "attach", "open"}
      /\ phase' \in {phase, "loop", "restart", "exec", "low"} /\ cause' \in {cause, "exit", "info"}
      /\ mode' \in {mode, "dwarf"} /\ collectors' \in {collectors, 0} /\ events' \in {events, {}}
      /\ symbols' \in {symbols, Run(last.pid)} /\ maps' \in {maps, Run(last.pid)}
      /\ raced' \in {raced, raced /\ maps' = maps}
      /\ exited' \in {exited, TRUE, exited \/ (~WindowOver /\ PidFdExited)} /\ execd' \in {execd, TRUE, FALSE}
      /\ low' \in BOOLEAN
      /\ tick' \in {tick, 0, tick + 1} /\ (tick' = tick + 1 => tick' = tick \/ pc = "tick")
      /\ span' \in {span, {}, RunsIn(proc)}
  <2>0. low \in BOOLEAN /\ tick \in Nat
    BY LoopConstants DEF Typed, TypeOK
  <2>1. CASE OpenWindow
    <3>1. /\ UNCHANGED <<mode, collectors, events, symbols, maps, raced, exited, low>>
          /\ pc = "open" /\ pc' \in {"ended", "head"} /\ phase' \in {phase, "loop"} /\ cause' = cause
          /\ tick' \in {tick, 0} /\ execd' \in {execd, FALSE} /\ span' \in {span, RunsIn(proc)}
      BY <2>1 DEF OpenWindow, At, Goto, attachVars
    <3>2. tick' = tick + 1 => tick' = tick
      BY <2>0, <3>1
    <3>3. exited' \in {exited, TRUE, exited \/ (~WindowOver /\ PidFdExited)} /\ low' \in BOOLEAN
      BY <2>0, <3>1
    <3> QED
      BY <3>1, <3>2, <3>3
  <2>2. CASE Head
    BY <2>0, <2>2 DEF Head, At, Goto, attachVars
  <2>3. CASE Events
    BY <2>0, <2>3 DEF Events, At, Goto, Lost, Fail, attachVars
  <2>4. CASE Tick
    BY <2>0, <2>4 DEF Tick, At, Goto, attachVars
  <2>5. CASE Second
    BY <2>0, <2>5 DEF Second, At, Goto, Lost, Fail, attachVars
  <2>6. CASE SecondMaps
    BY <2>0, <2>6 DEF SecondMaps, At, Goto, Lost, Fail, Reloaded
  <2>7. CASE Close
    BY <2>0, <2>7 DEF Close, At, Goto, attachVars
  <2>8. CASE Decide
    BY <2>0, <2>8 DEF Decide, At, Goto, Again, Fail, Reason
  <2> QED
    BY <2>1, <2>2, <2>3, <2>4, <2>5, <2>6, <2>7, <2>8
<1>5. Bounded'
  <2>1. pc' \in {"events", "tick"} => tick' < WindowTicks
    <3>1. CASE Head
      BY <3>1, LoopConstants DEF Head, At, Goto, WindowOver, Typed, TypeOK
    <3>2. CASE Events
      BY <3>2 DEF Events, At, Goto, Lost, Fail, Typed, Bounded
    <3>3. CASE OpenWindow \/ Tick \/ Second \/ SecondMaps \/ Close \/ Decide
      <4>1. pc' \notin {"events", "tick"}
        BY <3>3 DEF OpenWindow, Tick, Second, SecondMaps, Close, Decide, At, Goto, Again, Lost, Fail, Reason
      <4> QED
        BY <4>1
    <3> QED
      BY <3>1, <3>2, <3>3
  <2>2. span' # {} => pc' \in {"head", "events", "tick", "second", "secondmaps", "close", "failed"}
    <3>1. CASE OpenWindow
      BY <3>1 DEF OpenWindow, At, Goto, Typed, Bounded
    <3>2. CASE Head
      BY <3>2 DEF Head, At, Goto
    <3>3. CASE Events
      BY <3>3 DEF Events, At, Goto, Lost, Fail
    <3>4. CASE Tick
      BY <3>4 DEF Tick, At, Goto
    <3>5. CASE Second
      BY <3>5 DEF Second, At, Goto, Lost, Fail
    <3>6. CASE SecondMaps
      BY <3>6 DEF SecondMaps, At, Goto, Lost, Fail
    <3>7. CASE Close
      BY <3>7 DEF Close
    <3>8. CASE Decide
      BY <3>8 DEF Decide, At, Typed, Bounded
    <3> QED
      BY <3>1, <3>2, <3>3, <3>4, <3>5, <3>6, <3>7, <3>8
  <2> QED
    BY <1>2, <2>1, <2>2 DEF worldVars, Typed, Bounded
<1>6. tick' \in 0..WindowTicks
  <2>1. tick \in 0..WindowTicks /\ (pc = "tick" => tick < WindowTicks)
    BY DEF Typed, TypeOK, Bounded
  <2> QED
    BY <1>4, <2>1, LoopConstants
<1>7. \A r \in span' : r[1] = pidfd'
  <2>1. \A r \in RunsIn(proc) : r[1] = pidfd
    BY DEF RunsIn
  <2> QED
    BY <1>2, <1>4, <2>1 DEF Typed, TypeOK
<1>8. /\ preflight' \in [birth : 0..births', image : Images \cup {0}]
      /\ validated' \in 0..births' /\ pidfd' \in 0..births' /\ collectors' \in 0..births'
  <2>1. births \in Nat /\ births' = births
    BY <1>2, LoopConstants DEF worldVars, Typed, TypeOK, WorldTypeOK
  <2>2. /\ preflight \in [birth : 0..births, image : Images \cup {0}]
        /\ validated \in 0..births /\ pidfd \in 0..births /\ collectors \in 0..births
    BY DEF Typed, TypeOK
  <2> QED
    BY <1>2, <1>4, <2>1, <2>2
<1>9. symbols' \in (0..births') \X (0..MaxChanges) /\ maps' \in (0..births') \X (0..MaxChanges)
  <2>1. symbols \in (0..births) \X (0..MaxChanges) /\ maps \in (0..births) \X (0..MaxChanges) /\ births' = births
    BY <1>2 DEF worldVars, Typed, TypeOK
  <2> QED
    BY <1>1, <1>4, <2>1
<1>10. /\ setup' \in Setups /\ events' \subseteq {"thread", "exec"} /\ raced' \in BOOLEAN
       /\ identity' \in Images \cup {0} /\ mode' \in {"fp", "dwarf"}
       /\ exited' \in BOOLEAN /\ execd' \in BOOLEAN /\ low' \in BOOLEAN /\ stopped' \in BOOLEAN /\ deadline' \in BOOLEAN
  <2>1. /\ setup \in Setups /\ events \subseteq {"thread", "exec"} /\ raced \in BOOLEAN
        /\ identity \in Images \cup {0} /\ mode \in {"fp", "dwarf"}
        /\ exited \in BOOLEAN /\ execd \in BOOLEAN /\ low \in BOOLEAN /\ stopped \in BOOLEAN /\ deadline \in BOOLEAN
    BY DEF Typed, TypeOK
  <2>2. raced' \in BOOLEAN /\ exited' \in BOOLEAN
    BY <1>4, <2>1
  <2> QED
    BY <1>2, <1>4, <2>1, <2>2
<1>11. /\ pc' \in {"resolve", "start", "inspect", "validate", "pidfd", "mode", "calibrate", "recalibrate",
                    "refresh", "symbols", "attach", "resume", "identity", "maps", "open", "head", "events",
                    "tick", "second", "secondmaps", "close", "decide", "wait", "ended", "failed"}
       /\ phase' \in {"initial", "loop", "restart", "exec", "low"}
       /\ cause' \in {"none", "exit", "resolve", "changed", "info", "attach", "call", "interrupt", "killed"}
  BY <1>4 DEF Typed, TypeOK
<1> QED
  BY <1>3, <1>5, <1>6, <1>7, <1>8, <1>9, <1>10, <1>11 DEF Typed, TypeOK

(* The target and the control plane go on: what the recorder holds was     *)
(* born no later than the newest process.                                  *)
LEMMA EnvironmentTyped ==
    ASSUME Followed, Typed, Environment
    PROVE  Typed'
<1>1. /\ World /\ Track
      /\ UNCHANGED <<found, last, setup, stopped, deadline, pc, phase, cause, preflight, validated, pidfd, mode, symbols,
                     raced, collectors, identity, maps, exited, execd, low, tick>>
      /\ events' \in {events, events \cup {"thread"}, events \cup {"exec"}}
  BY DEF Environment, World, Emit, resolverVars, callerVars, attachVars, windowVars
<1>2. /\ WorldTypeOK' /\ births' \in Nat /\ births <= births'
      /\ \A p \in Pids : proc'[p].maps <= changes'
  BY <1>1, WorldTyped
<1>3. births \in Nat
  BY LoopConstants DEF Typed, TypeOK, WorldTypeOK
<1>4. Bounded'
  BY <1>1, <1>2 DEF Typed, Bounded, Track
<1>5. \A r \in span' : r[1] = pidfd'
  <2>1. \A r \in RunsIn(proc') : r[1] = pidfd
    BY DEF RunsIn
  <2> QED
    BY <1>1, <2>1 DEF Track, Typed, TypeOK
<1>6. /\ preflight' \in [birth : 0..births', image : Images \cup {0}]
      /\ validated' \in 0..births' /\ pidfd' \in 0..births' /\ collectors' \in 0..births'
  <2>1. /\ preflight \in [birth : 0..births, image : Images \cup {0}]
        /\ validated \in 0..births /\ pidfd \in 0..births /\ collectors \in 0..births
    BY DEF Typed, TypeOK
  <2> QED
    BY <1>1, <1>2, <1>3, <2>1
<1>7. symbols' \in (0..births') \X (0..MaxChanges) /\ maps' \in (0..births') \X (0..MaxChanges)
  <2>1. symbols \in (0..births) \X (0..MaxChanges) /\ maps \in (0..births) \X (0..MaxChanges)
    BY DEF Typed, TypeOK
  <2>2. 0..births \subseteq 0..births'
    BY <1>2, <1>3
  <2> QED
    BY <1>1, <2>1, <2>2
<1> QED
  BY <1>1, <1>2, <1>4, <1>5, <1>6, <1>7 DEF Typed, TypeOK

LEMMA TypedStep == Followed /\ Typed /\ [Next]_vars => Typed'
<1> SUFFICES ASSUME Followed, Typed, [Next]_vars PROVE Typed'
  OBVIOUS
<1>1. CASE Resolve \/ StartTime \/ Wait
  BY <1>1, ResolutionTyped
<1>2. CASE \/ Inspect \/ Validate \/ OpenPidFd \/ SelectMode \/ Calibrate \/ RefreshPreflight
           \/ LoadSymbols \/ Attach \/ Resume \/ ReadIdentity \/ ReadMaps
  BY <1>2, AttachmentTyped
<1>3. CASE OpenWindow \/ Head \/ Events \/ Tick \/ Second \/ SecondMaps \/ Close \/ Decide
  BY <1>3, WindowTyped
<1>4. CASE Environment
  BY <1>4, EnvironmentTyped
<1>5. CASE Fails \/ Signal \/ DeadlinePasses \/ UNCHANGED vars
  <2>1. /\ UNCHANGED <<worldVars, resolverVars, setup, attachVars, events, windowVars, span>>
        /\ stopped' \in {stopped, TRUE} /\ deadline' \in {deadline, TRUE}
        /\ pc' \in {pc, "failed"} /\ phase' = phase /\ cause' \in {cause, "call", "killed"}
    BY <1>5 DEF Fails, Signal, DeadlinePasses, At, Fail, Nothing, callerVars, vars
  <2>2. Bounded'
    BY <2>1 DEF Typed, Bounded, worldVars, windowVars
  <2>3. WorldTypeOK'
    BY <2>1 DEF Typed, TypeOK, WorldTypeOK, worldVars, resolverVars
  <2>4. stopped' \in BOOLEAN /\ deadline' \in BOOLEAN /\ cause' \in {cause, "call", "killed"} /\ pc' \in {pc, "failed"}
    BY <2>1 DEF Typed, TypeOK
  <2>5. UNCHANGED <<births, setup, phase, preflight, validated, pidfd, collectors, mode, events, symbols, maps, raced, identity,
                    exited, execd, low, tick, span>>
    BY <2>1 DEF worldVars, attachVars, windowVars
  <2>6. TypeOK'
    BY <2>3, <2>4, <2>5 DEF Typed, TypeOK
  <2> QED
    BY <2>2, <2>6 DEF Typed
<1> QED
  BY <1>1, <1>2, <1>3, <1>4, <1>5 DEF Next, Recorder

(* Whatever the target and the control plane do, every variable of the     *)
(* loop keeps its type; a poll is begun only before the window's time is   *)
(* over, and an open window belongs to runs of the process that the pidfd  *)
(* refers to (record.rs, the window's loop).                               *)
THEOREM LoopTyped == Spec => []TypeOK
<1>1. Typed => TypeOK
  BY DEF Typed
<1> QED
  BY <1>1, FollowedInit, FollowedStep, TypedInit, TypedStep, PTL DEF Spec
=============================================================================
