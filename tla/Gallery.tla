------------------------------- MODULE Gallery -------------------------------
(***************************************************************************)
(* serve --directory of src/src/platform/linux/serve.rs and                *)
(* serve_gallery.rs, beside a recorder that goes on writing and expiring   *)
(* windows in the same directory:                                          *)
(*                                                                         *)
(*   viewer --connection--> handle --permit--> blocking job --> response   *)
(*                                     job --read_dir, stat, open--> files *)
(*                                                                         *)
(* A connection that reaches its time limit is dropped with its handler;   *)
(* its job goes on and keeps its permit.  A window has a Firefox file and  *)
(* a diagnostics file; both appear by a rename, so they are complete.  The *)
(* symbol API, the checks of a request and what is in a file are left out. *)
(***************************************************************************)
EXTENDS Naturals, FiniteSetsExt

CONSTANTS
    Viewers,      \* connections that can be open at once
    MaxConnections, \* MAX_CONNECTIONS
    MaxJobs,      \* MAX_GALLERY_JOBS
    MaxEntries,   \* MAX_DIRECTORY_ENTRIES
    MaxProfiles,  \* MAX_GALLERY_PROFILES
    JobIds,       \* bound: jobs that can run at once
    Kept,         \* the recorder's --keep-windows
    MaxShown      \* bound: windows the recorder writes

ASSUME GalleryAssumption ==
    /\ {MaxConnections, MaxJobs, MaxEntries, MaxProfiles, Kept} \subseteq Nat \ {0}
    /\ MaxShown \in Nat

VARIABLES
    directory, \* the files: <<kind, window>>
    shown,     \* recorder: windows written so far
    doomed,    \* recorder: a window whose Firefox file is removed and whose diagnostics are not, or 0
    viewer,    \* connection: "closed", "open", or the job whose answer it waits for
    permits,   \* gallery_jobs
    job,       \* the blocking jobs
    answered   \* the last answer: what was asked, what came, and what the job met

galleryVars == <<directory, shown, doomed, viewer, permits, job, answered>>

Shown == 1..MaxShown
FirefoxFiles(files) == {w \in Shown : <<"firefox", w>> \in files}

NoJob == [phase |-> "none", wants |-> 0, stable |-> {}, met |-> {}, scanned |-> {}, entries |-> {}, cut |-> {}]
NoReply == [kind |-> "none", job |-> NoJob]

GalleryInit ==
    /\ directory = {} /\ shown = 0 /\ doomed = 0
    /\ viewer = [v \in Viewers |-> "closed"] /\ permits = MaxJobs
    /\ job = [j \in JobIds |-> NoJob] /\ answered = NoReply

Running == {j \in JobIds : job[j].phase # "none"}

-----------------------------------------------------------------------------
(* The recorder (OutputPipeline): a window's Firefox file before its       *)
(* diagnostics, and the same order when it expires.                        *)

(* What a change of the directory means to the jobs: history only.         *)
Watched(files) ==
    [j \in JobIds |-> [job[j] EXCEPT !.stable = @ \cap FirefoxFiles(files),
                                     !.met    = @ \cup FirefoxFiles(files)]]

Changes(files) ==
    /\ directory' = files
    /\ job' = [j \in JobIds |-> IF job[j].phase = "none" THEN NoJob ELSE Watched(files)[j]]

WriteProfile ==
    /\ shown < MaxShown /\ doomed = 0
    /\ \A w \in FirefoxFiles(directory) : <<"diagnostics", w>> \in directory
    /\ Cardinality(FirefoxFiles(directory)) <= Kept
    /\ shown' = shown + 1
    /\ Changes(directory \cup {<<"firefox", shown + 1>>})
    /\ UNCHANGED <<doomed, viewer, permits, answered>>

WriteReport ==
    /\ \E w \in FirefoxFiles(directory) :
         /\ <<"diagnostics", w>> \notin directory
         /\ Changes(directory \cup {<<"diagnostics", w>>})
    /\ UNCHANGED <<shown, doomed, viewer, permits, answered>>

ExpireProfile ==
    /\ doomed = 0 /\ Cardinality(FirefoxFiles(directory)) > Kept
    /\ <<"diagnostics", shown>> \in directory
    /\ doomed' = Min(FirefoxFiles(directory))
    /\ Changes(directory \ {<<"firefox", doomed'>>})
    /\ UNCHANGED <<shown, viewer, permits, answered>>

ExpireReport ==
    /\ doomed # 0
    /\ doomed' = 0
    /\ Changes(directory \ {<<"diagnostics", doomed>>})
    /\ UNCHANGED <<shown, viewer, permits, answered>>

-----------------------------------------------------------------------------
(* Connections; one is kept open for several requests.                     *)

Connected == {v \in Viewers : viewer[v] # "closed"}

(* The accept loop: a connection beyond the limit is closed at once.       *)
Accept(v) ==
    /\ viewer[v] = "closed" /\ Cardinality(Connected) < MaxConnections
    /\ viewer' = [viewer EXCEPT ![v] = "open"]
    /\ UNCHANGED <<directory, shown, doomed, permits, job, answered>>

(* GET /api/profiles and /api/profile/ID: a job takes a permit, or the     *)
(* answer is 503.                                                          *)
Request(v) ==
    /\ viewer[v] = "open"
    /\ permits > 0
    /\ \E j \in JobIds \ Running, w \in 0..shown :
         /\ permits' = permits - 1
         /\ viewer' = [viewer EXCEPT ![v] = j]
         /\ job' = [job EXCEPT ![j] = [NoJob EXCEPT !.phase = "scan", !.wants = w,
                        !.stable = FirefoxFiles(directory), !.met = FirefoxFiles(directory)]]
    /\ UNCHANGED <<directory, shown, doomed, answered>>

(* The answer reaches the viewer, the viewer leaves, or CONNECTION_TIMEOUT *)
(* drops the handler.  (Mutant: the handler, not its job, has the permit.) *)
HeldByHandler(v) == permits + (IF viewer[v] \in JobIds THEN 1 ELSE 0)
HeldByJob(v)     == permits
Close(v) ==
    /\ viewer[v] # "closed"
    /\ viewer' = [viewer EXCEPT ![v] = "closed"]
    /\ permits' = HeldByJob(v)
    /\ UNCHANGED <<directory, shown, doomed, job, answered>>

-----------------------------------------------------------------------------
(* Jobs                                                                    *)

(* read_dir, cut off after MaxEntries entries, in the directory's order,   *)
(* which is any; then the regular files with a Firefox name.               *)
Scan(j) ==
    /\ job[j].phase = "scan"
    /\ \E taken \in kSubset(IF Cardinality(directory) <= MaxEntries THEN Cardinality(directory) ELSE MaxEntries,
                            directory) :
         job' = [job EXCEPT ![j].phase = "inspect", ![j].scanned = FirefoxFiles(taken),
                            ![j].cut = directory \ taken]
    /\ UNCHANGED <<directory, shown, doomed, viewer, permits, answered>>

(* entry_for: a file that is gone is left out.                             *)
Exists(w) == <<"firefox", w>> \in directory
Inspect(j) ==
    /\ job[j].phase = "inspect"
    /\ \E w \in job[j].scanned :
         job' = [job EXCEPT ![j].scanned = @ \ {w},
                            ![j].entries = IF Exists(w) THEN @ \cup {w} ELSE @]
    /\ UNCHANGED <<directory, shown, doomed, viewer, permits, answered>>

(* The newest MaxProfiles entries.                                         *)
Newest(W) == {w \in W : Cardinality({x \in W : x > w}) < MaxProfiles}

Replies(j, kind) ==
    /\ answered' = [kind |-> kind, job |-> [job[j] EXCEPT !.entries = Newest(@)]]
    /\ job' = [job EXCEPT ![j] = NoJob]
    /\ permits' = permits + 1
    /\ viewer' = [v \in Viewers |-> IF viewer[v] = j THEN "open" ELSE viewer[v]]

(* The end of entries: the listing, or find and decode.                    *)
List(j) ==
    /\ job[j].phase = "inspect" /\ job[j].scanned = {}
    /\ \/ job[j].wants = 0 /\ Replies(j, "list")
       \/ job[j].wants # 0 /\ job[j].wants \notin Newest(job[j].entries) /\ Replies(j, "missing")
       \/ /\ job[j].wants \in Newest(job[j].entries)
          /\ job' = [job EXCEPT ![j].phase = "read"]
          /\ UNCHANGED <<viewer, permits, answered>>
    /\ UNCHANGED <<directory, shown, doomed>>

(* read_gzip_bounded opens the file; it may be gone by now.                *)
Decode(j) ==
    /\ job[j].phase = "read"
    /\ Replies(j, IF Exists(job[j].wants) THEN "profile" ELSE "unprocessable")
    /\ UNCHANGED <<directory, shown, doomed>>

GalleryNext ==
    \/ WriteProfile \/ WriteReport \/ ExpireProfile \/ ExpireReport
    \/ \E v \in Viewers : Accept(v) \/ Request(v) \/ Close(v)
    \/ \E j \in JobIds : Scan(j) \/ Inspect(j) \/ List(j) \/ Decode(j)

GallerySpec == GalleryInit /\ [][GalleryNext]_galleryVars

-----------------------------------------------------------------------------
GalleryTyped ==
    /\ directory \subseteq {"firefox", "diagnostics"} \X Shown
    /\ shown \in 0..MaxShown /\ doomed \in 0..MaxShown
    /\ viewer \in [Viewers -> {"closed", "open"} \cup JobIds]
    /\ permits \in 0..MaxJobs
    /\ \A j \in JobIds : job[j].phase \in {"none", "scan", "inspect", "read"}

Newer(w, W) == Cardinality({x \in W : x > w})

(* Never more than MAX_GALLERY_JOBS jobs run, whatever connections close   *)
(* (serve.rs, gallery_jobs); a listing names no window that was gone when  *)
(* it was asked for, and misses none that was there all the while, unless  *)
(* the scan was cut off or MAX_GALLERY_PROFILES newer ones are listed; a   *)
(* window that is there all the while is found and decoded                 *)
(* (serve_gallery.rs, entries and find).                                   *)
GalleryTruthful ==
    LET a == answered.job IN
    /\ Cardinality(Running) <= MaxJobs
    /\ a.entries \subseteq a.met
    /\ \A w \in a.stable \ a.entries :
          a.cut # {} \/ (answered.kind = "list" => Newer(w, a.entries) >= MaxProfiles)
    /\ answered.kind = "missing" /\ a.wants \in a.stable =>
          a.cut # {} \/ Newer(a.wants, a.entries) >= MaxProfiles
    /\ answered.kind = "unprocessable" => a.wants \notin a.stable

(* README.md, lines 233-236: the directory entries that count are those    *)
(* with a Firefox name.                                                    *)
ListsNewestProfiles ==
    LET a == answered.job IN
    answered.kind = "list" =>
        \A w \in a.stable \ a.entries :
            Cardinality(a.met) > MaxEntries \/ Newer(w, a.entries) >= MaxProfiles
=============================================================================
