# A verification development for rustprofile

rustprofile is a Linux sampling profiler: `record` attaches to a process (or a
container, or a command it launches), samples CPU, off-CPU intervals and heap
allocations, and writes one set of files per time window. This directory holds
TLA+ models of its stateful parts, TLC configurations that check them on small
instances, and TLAPS proofs of what matters most. All paths below are relative
to the repository (`src/...` is its root).

Contents: [the system](#1-the-system), [the modules](#2-the-modules-and-the-code),
[the runs](#3-the-runs), [the proofs](#4-the-proofs),
[disagreements and limits](#5-where-code-and-documentation-disagree-and-other-limits),
[what is not modelled](#6-what-is-not-modelled), [what is left](#7-what-is-left).

## 1. The system

| component | source | state | operations | hard part |
|---|---|---|---|---|
| recording loop | `src/src/platform/linux/record.rs:55-666, 1616-2230` | unwind mode, maps, identity of the executable, pidfd, current window | calibrate, attach, poll, reconcile, close a window, exec, restart, FP-to-DWARF fallback | several reasons to end a window at once; the target goes on between any two looks at it |
| lifecycle notifier | `src/src/platform/linux/lifecycle.rs`, `src/bpf/lifecycle.bpf.c` | two pending flags | fork, exit and exec tracepoints, `consume` | events are lost when the ring is full; the 1 s reconciliation is the fallback |
| target resolver | `src/src/target.rs` | pinned container or Pod, PID and start time | resolve, refresh, validate | PID reuse between two looks; a control plane that lags |
| CPU sampling | `perf.rs`, `event.rs`, `record.rs:1282-1972` | one perf ring per thread, a reorder buffer per process, the window | sample, reconcile threads, drain, sort, aggregate | threads and processes that disappear with samples in their rings; late samples; every limit has its counter |
| off-CPU sampling | `src/bpf/off_cpu.bpf.c`, `off_cpu.rs` | open intervals, the window | switch events, drain, apply, split at a window's end | intervals that cross a window, lost events, threads that go away asleep |
| heap sampling, kernel side | `src/bpf/heap.bpf.c` | pending calls, `live_samples` (LRU), event ring, statistics | entry and exit probe of every allocator function | probes of several threads interleave at every map access |
| heap collector | `src/src/platform/linux/heap.rs` | queue, pending stacks, `HeapState`, previous statistics | drain, apply, snapshot, reconcile, clear for exec | lost events must be repaired by a reconciliation |
| heap aggregation | `src/src/heap/state.rs` | live allocations, totals, window totals, drop counters | apply, snapshot, retain, clear | reused pointers, limits, saturation |
| output worker | `record.rs:684-1180`, `pprof.rs:345-391` | command and completion channels, symbolizer, retained windows, files | submit, replace the symbolizer, write, roll back, expire, finish, drop | failures between two files; the recorder is ahead of the worker; shutdown |
| OTLP exporter | `record.rs:1182-1280`, `src/src/otlp/mod.rs` | queue of four, stop flag, attempts, diagnostics files | submit, export with retries, rewrite diagnostics, finish, cancel | shares files with the worker; must not delay the recording |
| encoders | `src/src/pprof.rs`, `src/src/otlp/mod.rs` | tables of a profile and of the dictionary | add a sample, intern, convert | sources number the same things differently |
| launch | `src/src/platform/linux/mod.rs` | suspended child, cgroup | create, attach, resume, clean up | every error path must resume or kill |
| import | `import.rs` | at most four pending windows | read, close windows | late samples |
| viewer server, gallery | `serve.rs`, `serve_gallery.rs` | connections, job permits | list, open a profile | reads files a recorder expires; a handler is dropped while its job runs |
| symbolizer, unwinder, maps, SVG and Firefox writers, CLI | `symbol.rs`, `unwind.rs`, `maps.rs`, `svg.rs`, `firefox.rs`, `cli.rs` | none that interacts | data transformations | - |

How they interact. The recorder thread owns every collector and calls them in a
polling loop of 10 ms. Kernel-side programs run on the target's threads and hand
events over in rings that lose what does not fit. A closed window goes to the
output worker through a channel of capacity one; the worker answers on an
unbounded channel and passes encoded windows to the exporter through a channel of
capacity four with `try_send`. Worker and exporter share the diagnostics files,
and the gallery, in another process, reads the directory they write. `launch`
runs the recorder on a child it has stopped; the recorder resumes it.

What makes each part correct, in one line each: a window is published whole or
not at all, in order, and expires whole; the recorder's count of unwritten
windows is exact; a recording always ends; what is sampled and symbolized is the
process that was resolved; an exit of the target ends a window and never the
recording; every sample and every loss is counted once, except what the switch to
DWARF drops and what a full ring never came to record of a thread that has gone
(section 5); the switch happens when the stacks ask for it; off-CPU time is
attributed once; live heap is what the target has not freed, unless a loss is
reported; an export ends soon after an abort and repeats nothing the endpoint
took for certain; a launch leaves nothing behind; a listing names what is there.

## 2. The modules and the code

`PROJECT.json` maps each definition to its lines. Mutants (definitions named as
such in the modules) are plausible bugs used to show that a property depends on
the code it is about; no specification uses them.

    WindowLedger <--implements-- OutputLedger --extends--> OutputPipeline
    RecordLoop --extends--> TargetResolver
    CpuSampling (a sorter is any set within its limit)
    SorterContract <--implements-- SorterBatches --extends--> EventSorter (the order)
    ExportStep <--implements-- OtlpClient
    HeapPipeline (which allocations are known)   HeapState (what is made of them)
    OffCpu   Encoders   Launch   Import   Gallery
    MCServices --extends--> SorterBatches, Encoders, OtlpClient, Launch, Import, Gallery

### OutputPipeline, OutputLedger, WindowLedger

`OutputPipeline` is three threads and the disk.

* Recorder: `rpc` is where the thread is (`collect`: in the polling loop; `send`:
  blocked on the full channel; `join`, `flush`: in `finish`; `drop`, `cancel`: in
  `Drop` after an error). `Poll`, `CloseWindow` and `ReplaceSymbolizer` all begin
  with `check_completed`, which takes every completion; the first error ends the
  recording. `hold` is the command being sent; `shed` in it is the `pending`
  count for which derived outputs and the export were shed, 0 if they were not.
* Worker: one action per file kind in the order of `write_inner`, each of which
  may fail before or after the rename of `atomic_write`; `WriteDiagnostics` also
  encodes the payload and appends to `retained`; `ExpireOldest` repeats until the
  limit holds; `RollBack` removes every output of the window.
* Exporter: taking a job, sending it, looking whether the diagnostics file still
  exists and rewriting it are four actions, since worker and recorder run in
  between. It ends when its queue is empty and both senders are dropped.

Every profile of a window is one file kind (`pprof`) and every derived file
another, because nothing but their order and their presence matters. A behaviour
starts with a plan: how many windows and symbolizers there will be and which
operations may fail (`write`, `encode`, `collect`, any other error of the loop,
`expire`, `rollback`, `persist`).

`WindowLedger` is the promise: windows are decided in closing order, each
published or lost, and only a full log gives up its oldest. `OutputLedger` states
the refinement mapping: a window is decided when the worker announces it or has
rolled it back.

### TargetResolver, RecordLoop

`TargetResolver` is the world a recording looks at and the resolver's view of it.
A process is its birth (its start time); `proc` says which runs with an id, with
which executable and how many executable mappings. The target execs, maps, exits
and, in a container, is started again; its id may go to a stranger; the control
plane's `report` lags behind. `BeginResolution` and `EndResolution` are the two
halves of a resolution (the control plane's pid, then `/proc/<pid>/stat`), and
`validate_current` compares the start time again.

`RecordLoop` is `record`: `pc` is the next call that looks at the target, and
everything in the world may happen between two of them. `phase` is why the
collectors are being attached (`initial`, `restart`, `exec`, `low`, or `loop`
when they are). `Head`, `Events`, `Tick`, `Second`, `SecondMaps` are a poll in
the order of the code; a read of `/proc` that fails is followed by a look at the
pidfd (`Lost`). `Decide` takes the branch of the first reason that holds
(`Reason`). A reconciliation every two polls and three polls per window give
every interleaving of the once-per-second work with a window's end.

### CpuSampling, EventSorter, SorterBatches, SorterContract

`EventSorter` is the reorder buffer of one process alone, one step per iteration
of the loops of `push` and `flush`. The map of queues is a set of samples
numbered by arrival. `emitted` is history: each sample with its cause, `ready`
(drained by the watermark), `forced` (over the limit) or `flushed`.

`SorterBatches` is that buffer as `ingest_cpu_batch` uses it: a poll's samples are
pushed, at the end of a window the rest is flushed, and what left is looked at
afterwards. `SorterContract` is the one step that `Collect` of `CpuSampling` makes
of all that: of the samples that waited or came, any may wait on within the limit,
and at most as many are reported as forced out as there were too many.
`SorterBatches` implements it (`ImplementsContract`): a batch in progress is mapped to
the buffer as it was when the batch began. Without this, `CpuSampling` would have
its accounting from an assumption about the sorter.

`CpuSampling` is the sampled threads, their rings, the collectors and the window.

* `Spawn`, `Exit` and `Sample` are the target and the kernel: any thread may
  start, be sampled and end between any two steps of the recorder. `Sample` on a
  full ring is a loss that the ring records with the next sample that fits.
* `ReadThreads` and `Reconcile` are two steps, since `/proc` has changed by the
  time perf events are opened. `leftover` is `retired_events`, `retired` the
  collectors of processes that left the cgroup. `cgroup` is chosen at the start;
  without one there is one process (`Main`) and its collector stays.
* `Poll` is `wait_and_ingest` and `EndWindow` is `drain_and_ingest`; both are
  `Collect`, which drains rings, passes the samples through the sorters and puts
  what leaves them into the window. What a sorter keeps is any set within its
  limit: order is the subject of `EventSorter`. A poll may be interrupted, which
  leaves the rings of one process for the next.
  `unrecorded` is history: the losses of a ring that was drained for the last time
  before a sample came to record them, of which no diagnostics tell. `EndWindow`
  also takes what the heap collector counted of its stacks (`heap`, one of
  `HeapCounts`), which is the subject of `HeapPipeline`.
* `Report` takes the statistics for the diagnostics and decides on the switch to
  DWARF by the smaller of the two ratios (`LowQuality`); the switch drops every
  collector. The history `stacks` counts what threads put into rings since the
  window began, and `evidence` keeps it for the window that ended last in FP mode, so
  that the decision can be compared with the stacks and not with the counters it is
  made from.
* `long`, chosen at the start like `cgroup`, says that `--window` is longer than the reconciliation's interval and
  a poll: then no window ends before the threads were read in it (`looked`). The
  clock of the reconciliation starts again with every window (`record.rs:146`), so
  in shorter windows they may never be read. Windows are numbered from 1 to
  `MaxWindows` again and again; a recording is as long as it likes.

### OffCpu

The scheduler program, its ring and the collector. A thread blocks, wakes and
exits, joins or leaves the target; `SwitchOut` and `SwitchIn` are what the
program sends, `Submitted` and `Counted` its ring and its counters. `Drain`
applies what the ring holds, within the queue; `SnapshotDrain` and
`SnapshotSplit` are the two halves of a window's end, between which time passes
and the target runs. `Cut` is what `apply_threads` does to the interval of a
thread that is gone. `slept` is the truth, `attributed` what the profile was
given, `slack` the time between a window's last drain and its boundary.

### HeapPipeline, HeapState

`HeapPipeline` is the target's threads, the kernel maps and the collector. A
thread's call is a sequence of actions that stop wherever the code touches shared
state: `MallocEnter`/`ReallocEnter`/`FreeEnter` (entry probe), `Allocate`/`Release`
(the allocator, external), `Return`, `Untrack`, `Track`, `Announce` (exit probe).
Each sampled allocation has its token; `sampled` is the truth to compare with.
`Consume` is the ring callback, `Drained` the rest of `drain`, `ReadStats`,
`Reconcile`, `Report` the steps of `snapshot_window`. Every choice of what to
sample is possible. `posix_memalign`, `calloc` and the Rust shims behave like
`malloc` here. `NestedEnter` is the entry probe of a malloc inside one of them: if
sampled it takes the place of the outer call in `pending`, and the first exit probe
takes what is there. A stack is worth something or not (`Frames`); the collector
keeps those that wait for their allocation (`stacks`, at most `StackCap`, after
which `Newer` drops the older half) and counts in `failures` what it cannot use,
what it drops, and every allocation whose stack is missing. `failures` is never
reset here, so that it says whether a window has reported one.

`HeapState` (`StateInit`, `StateNext`) has the three hash maps of the code as
total functions, one action per method. `ApplyAllocate` covers reuse of a live
pointer; `SnapshotWindow` admits in-use stacks in any order, since the code walks
a hash map. `MaxU64` and `MaxI64` stand for the integer widths: window totals and
exported values saturate, running totals are u128 and do not. `observed` and
`applied` are history.

`MCHeap` checks both: a run is in one of four scenarios, and `Callers` are the
threads that make calls with the constants of the run.

### Encoders, OtlpClient, ExportStep

`Encoders` follows a window's stacks into a pprof profile per source
(`ProfileBuilder`: mappings, functions and locations with ids of their own) and
from there into one dictionary (`DictionaryBuilder`: interned by what they say).
`EncodeNext` is one iteration of the nested loops over sources, sample types and
samples. The last source is the timeline, with timestamps instead of sums.

`OtlpClient` is `export_loop` around `export`: `Receive`, `PrepareBody`, `Check`
(the stop flag before an attempt), `SendOnce`, the endpoint's answer or its loss
(`Answers`: what the code makes of each and whether the endpoint may have taken
the payload), `Decide`, `Sleep`. `Cancel` may happen at any moment. Delays are
counted in units of the first one, without the jitter. `ExportStep` is what the
exporter of `OutputPipeline` takes the client for: payloads one after the other,
none sent that is taken after the abort, one step with one truthful outcome for
each that is sent. `OtlpClient` implements it (`ImplementsExport`): attempts, waits
and answers are hidden until the outcome is there.

### Launch, Import, Gallery

`Launch` is the launcher step by step beside its child, which stops itself, may
fork into the cgroup, ignore SIGTERM, and end at any time (then it is a zombie
until somebody waits). Every early return drops the locals in the code's order,
the cgroup (`DropCgroup`) and then the guard (`DropGuard`). `killFile` is what
`cgroup.kill` does: works, fails, or is missing, as on older kernels.

`Import` is the loop over a capture: `ReadSample` puts a sample into its window
or drops it as late, `EvictOldest` writes the oldest of too many windows,
`FinishWindow` the rest.

`Gallery` is a directory to which a recorder adds windows and from which it
expires them, a file at a time, and connections whose requests run as blocking
jobs: `Scan`, `Inspect` for every file, `List`, `Decode`. `Close` also stands
for the connection's time limit, which drops the handler and not the job. The
scan itself is one step, although the code reads the directory lazily.

## 3. The runs

Passing runs. Bounds are named in the modules (`Max...`); the capacities are the
code's parameters, taken small enough to be reached. Runs that have several
scenarios choose one in the initial state.

| run | instance | checks |
|---|---|---|
| `output` | OTLP, keep 1, export queue of 1; 4 windows without faults, 3 with write, encode and collection failures and a new symbolizer, 2 with every operation failing; fair | exact count of unwritten windows and backlog bound; the symbolizer of a window; a failed window leaves no file and is not exported; retained windows are complete and expired ones gone; success means everything is written; no `pending` status at the end; refinement of `WindowLedger`; every closed window is decided and the recording ends |
| `record_loop` | 2 ids, 2 images, 2 processes in all, 1 exec or new mapping; a Docker container with lifecycle events, a Pod without, a launched child; windows of 3 polls, a reconciliation every 2; fair | what is sampled and symbolized is the process the pidfd refers to; a whole window is symbolized for what ran in it; an exit never fails the recording; a signal ends it; a container that runs again is found |
| `cpu` | rings of 1, sorters of 1, room for 1 stack, windows numbered 1 and 2 in turn; windows of any length with 1 process with 2 threads, 2 samples, 1 stack, and the id of one thread used up to twice or heap windows without stacks, with 9 usable ones of 10 and with 8 of 9; or with a thread of each of 2 processes of a cgroup that come and go, 3 valid samples, 2 stacks; or windows longer than a reconciliation with 2 or 3 threads and no samples; fair | every sample is counted once and in its window, but for two kinds of loss that are named; forced flushes are reported; the switch to DWARF happens exactly when the stacks of a window ask for it; a thread that stays gets a ring |
| `off_cpu` | 2 threads (symmetric), ring of 2, queue of 1, room for 1 stack, 4 switches, 1 start, join or leave, times 0 and 1, a window's end | every switch-out ends one way; every loss is reported; time off CPU is attributed once; no interval of an untracked thread stays open |
| `heap` | 1 thread, every call, nested ones and stacks without frames too, 2 sampled allocations, ring of 4, queue of 2, live map of 1, 1 waiting stack; or 2 threads, malloc and free, ample buffers; or 2 threads, malloc, 1 waiting stack; or `HeapState` with 2 pointers, 2 stacks, room for 1, weights 1 and 2, i64 up to 4, u64 up to 5; fair | exact while nothing is lost, but for counted stack failures; every eviction of one thread is counted; freed allocations leave the profile; totals equal a recount; snapshots account for what they leave out |
| `services` | the reorder buffer (5 arrivals at times 0 to 4, limit 2, window 2); the encoders (a CPU source with two value types and a timeline, 2 samples each, raw or symbolized); the exporter (2 payloads, 5 attempts, delay cap of 4, `Retry-After` of 0 or 5); a launch (2 forks); an import (2 stacks, 2 open windows, 6 samples at 4 times, room for 1 stack); a gallery (2 viewers, 1 job permit, 3 directory entries, 1 listed profile, a recorder with 3 windows that keeps 1) | order and conservation of the buffer; a batch leaves of the buffer what `CpuSampling` assumes; one truthful outcome per export; every value decodes to what was meant; attempts, repeats and delays of an export; nothing left behind; no sample twice or lost; truthful listings |

Why the bounds suffice. Four windows with one retained put one window into each
of the send, the channel, the worker and the expiry at a time; the worker handles
windows one at a time, so a longer history repeats these states, and the proofs
of section 4 cover every number. In `record_loop` one exec or new mapping and one
other process (a restart or a stranger with the id) meet every step of the
attachment and of a window; a window of three polls has the once-per-second work
once and then ends without it, and is followed by another. Two
addresses and two tokens are enough for an address to be reused by another thread
while events of its previous life are on their way, for a call inside another, and
for the stack of an allocation still to be announced to be pushed out by another
thread's (then `ExactWhenNothingLost` needs its clause on failures). In the state scenario one
allocation more than the stack limit exercises every branch of both limits, and
weights and sizes reach both saturations. In the cgroup scenario three samples in
rings of one are a sample, a loss and the record of that loss; a thread in each
of two windows sees every kind of retirement. In the process scenario one id that
is used again and one that is not meet every order of a look at `/proc`, an exit
and an interrupted poll, and a sample without a valid stack the switch; heap counts
of 9 in 10 and of 8 in 9 usable stacks are the two sides of the threshold, with and
without samples beside them. Two window numbers tell a window from the one before,
which is all that a sample left behind at one window's end can be mistaken for. In
`off_cpu` four switches in a ring of two with a queue of one lose events at both,
and two moments are before and after a window's boundary. A second payload meets
an abort that happened during the first; an endpoint may ask for less and for
more than the cap. Six samples over four windows with room for two evict twice
and leave late samples to both sides. Three windows with one kept make a job meet
a file appear and disappear; the scan's limit is below the number of files there.

Deadlock is not checked in `record_loop`, `record_short_window` and the
`services` runs: a recording, an import and a launch end, and the system with them.
`OutputPipeline` has a step for a recording that is over (`Terminating`); the
collectors of the other runs can always be asked once more.

Fairness. `OutputPipeline`: each thread runs (weak fairness of the worker, of the
exporter and of the recorder's steps that leave a blocking call); exports return
after at most five attempts; nothing forces the recorder to close a window or to
stop. `RecordLoop`: the recorder's thread runs, and the control plane reports in
the end what it has started; no signal, no exit and no deadline need happen.
`HeapPipeline`: the collector keeps draining and windows keep ending (the
step from draining to the statistics is strongly fair: a window's end is a
deadline), a call of the target that has begun returns; the target need not call
again. `CpuSampling`: the loop goes on after what it has begun, and reads the
threads while it does nothing but poll (weak fairness of each); that a window's end
does not come before that again and again is not fairness but the assumption
that `long` makes. `EveryThreadSampled` is claimed under it only: for
`--window` below a second and no lifecycle events it is false, for the reason that
`record_short_window` shows.

Runs with `violation` are section 5.

## 4. The proofs

Each proof holds for every value of the constants that the named assumption of
the module admits, and from nothing else; where a theorem needs more, it says so
(`ASSUME ... PROVE`). Each is an inductive invariant, named below, that was found
to hold by TLC on a run first. `PROJECT.json` lists the theorems.

Output pipeline (`ConstantsAssumption`: at least one window is kept, one place in
the export queue, plans within their bounds). The invariants build on each other:

* `OutputProofs`, counts. `TypeCorrect`: `Spec => []TypeOK`; the invariant
  `Typing` adds that a busy worker, a filled channel, a held command and a shipped
  job name a window of the recording, without which the files indexed by it have
  no type. `BacklogCorrect`: the count of unwritten windows; `CheckSettles` shows
  that after `check_completed` at most the channel and the worker hold a window,
  hence three windows after the send. `SymbolizerCorrect`: the invariant follows
  the symbolizer through the pipeline.
* `OutputProofs`, the disk. `FailedWindowsVanish` and `RetentionIsExact`. What a
  thread does to a window's files must not be undone by another. `Flow` orders
  the windows in flight (sent, in the channel, being written, over); `Histories`
  says where each one that is over can be: failed, expired or in the list, never
  in two of these; `Disk` then says which files each has in each of these places.
  Without `Flow` a write to a window that failed long ago cannot be excluded.
* `OutputProofs`, the end. `SuccessIsComplete`: `NoneForgotten` says that every
  closed window is in hand somewhere, `Closing` in which order the threads end and
  that a failure is waiting in the completions until it is looked at.
  `NothingPending`: a file that says `pending` is matched by an export that is
  queued, being sent or about to be settled (`Promises`), and the exporter ends
  after its queue and before the recording does (`Exporting`).
* `OutputProofs`, the promise. `PipelineImplementsLedger`: `Spec => ImplementsLedger`. The
  windows in flight have consecutive names (`Consecutive`), so that their number
  gives the name of the one decided next, and the list is at most one window too
  long, while it is being pruned (`Limited`). Every step of the worker is then a
  step of the ledger or none; those of the recorder and the exporter are none.

Parts that run beside a recording (`ServiceProofs`):

* Reorder buffer (`SorterAssumption`). `SorterBounded`; `SorterOrdered`, whose
  invariant adds that arrival numbers are unique, that what was emitted as ready
  is not above the watermark, which only rises, and that a waiting sample that was
  in time follows everything emitted as ready; `SorterConserves`, which counts the
  samples by arrival number: those waiting and those emitted are disjoint and make
  up all that arrived. `BatchesKeepContract`: `SorterBatches` refines `SorterContract`.
  Its invariant `Batching` has the balance of a batch: those that wait and those
  that were forced out since it began are together no more than the samples of the
  batch, and no more were forced out than the batch has above the limit. The second
  follows from the first when one is forced out, since more than `MaxPending` wait
  then.
* OTLP client (`OtlpAssumption`). `ExportBounded`: `Paced` keeps what was slept
  within a budget that depends on where the exporter is; `Winding` says that after
  an attempt that began after a stop only the end of the payload is left;
  `Repeatable` that only an answer which leaves open whether the payload was taken
  is followed by another attempt. `ClientTyped` is the type invariant.
  `ClientExports`: the client refines `ExportStep`. It needs of `ExportBounded`'s
  invariant that an answer is only called delivered when the endpoint has taken the
  payload.
* Launch (`LaunchAssumption`). `LaunchCleansUp`: `Followed` says when the child
  exists and when it may have been waited for, `Aimed` when its id may be
  signalled, `Grouped` and `Emptied` what is left of the cgroup. `LauncherTyped`
  is the type invariant.
* Import (`ImportAssumption`). `ImportAccounts`: one sample more changes the sum of
  the open windows by one (`OneSampleMore`), and a window that is written moves its
  samples from one sum to the other (`OneWindowLess`). What is written is before
  `flushed_before` and what is open is not (`Chronological`), so nothing is written
  twice or out of order; `flushed_before` only grows when more than
  `MAX_PENDING_WINDOWS` are open, so that many windows are known at or after it
  (`Outrun`), and a late sample is before all of them.
* Gallery (`GalleryAssumption`). `GalleryAnswers`: the permits that are out are those of
  the blocking jobs that run, whether or not their handlers still do (`Permitted`); what
  a job keeps it has met, and a file that has been there since the job began is not
  yet looked at or kept, unless a limit cut the job short (`Looking`). A limit on what
  is kept drops older files only (`NewestAreNewer`).

Recording loop (`LoopProofs`). `OneProcessSampled`: what is read by the id is read
of the process of the pidfd while that one lives (`Attached`), since births never
come back (`Fresh`), ids are not shared (`Distinct`) and no other id can have the
pidfd's process (`Opened`); from the look at the pidfd to the end of the poll the
collectors and the symbols stay its own even if it exits (`Looked`).
`ExitsFinalize`: a read of `/proc` that fails implies that the pidfd has exited
(`LostExits`), and the calls whose failure is an error are made outside the
windows (`Phased`). `WindowsSymbolized`: the invariant `Renewed` carries what the
symbols and the known maps agree on from the look that renewed them to the end of
the window. It needs `ReconcileTicks <= WindowTicks`, a window of at least the
second between two reconciliations; the code allows any `--window` above zero
(`mod.rs:266`), and for a shorter one the property is false: a window may end
before the look that would have noticed the mappings of the one before it.
`LoopTyped`: the type invariant, which needs that mappings are no more than the
changes that made them, that a poll begins before the window's time is over, and
that what the target ran is noted in an open window only (`Bounded`).

Folds (`FoldTheorems`). The collectors apply queues of events with a fold, and
totals are sums over sets. Induction would need theorems that take an operator,
which the provers cannot use; these state it of functions and sets instead. A
set of naturals has a least element (`LeastNumber`), so a claim about all of a
range fails first somewhere (`BoundedInduction`); the recursion behind `FoldLeft`
has a solution, so that a fold is a path of values one event apart
(`IndexRecursion`, and `Folded` in the modules that use it); and a sum over a
finite set splits, changes with its terms and can be taken over the image of an
injective function (`SigmaSplit`, `SigmaChange`, `SigmaImage`).

CPU sampling (`SamplingProofs`, `SamplingAssumption`). `Sound` has four parts
beside the account itself. `Types`, with the limits of rings, sorters and the
window. `Owned`: a ring is of the id it is filed under and of a generation that
has been, and a ring that is closed is not of a thread that still runs; without
this, a ring that is closed could be one that was closed before, and its losses
would be counted once instead of twice. `Places`: no sample is in two places.
`Numbers`: what is on its way was taken in this window. Losses are two sums, over
the ids for the rings in use and over the closed rings. `Reconcile` moves terms
from one to the other (`Moved`, `SumsMove`), so that neither a thread that ends
nor a process that leaves nor an id used again loses or doubles one; `Collect`
takes the samples that are ready off those on their way (`CollectMoves`) into the
counters (`IngestedIs`); at a window's end nothing is left. What the closed rings
had missed goes to `unrecorded` and what the switch drops to `discarded`, which is 0
before it. From `Sound`, `SamplesAccounted`. `ProcessPressureTold` needs only that
without a cgroup no collector is retired (last part of `Owned`).

`FallbackHasReason` compares the recorder's counters with the stacks. Its invariant
`Tally` says, in FP mode, that the valid and the other stacks put into rings since
the window began are those counted and those on their way, each kind by itself
(`OpenTally`; a sample counts as one of its kind wherever it is, `Sorted`), and,
between the end of a window and its report, that the counters are those of
`evidence` (`EndedTally`). `Places` and `Numbers` are what makes it inductive: a
sample in two places would be counted twice, one of an earlier window against the
wrong stacks. `SamplingTyped` is proved beside it, with the types of the histories
(`Records`).

Off-CPU sampling (`OffCpuProofs`, `OffCpuAssumption`). `Sound` is the types, that
every event and interval begins at a time that has come, which interval and which
event in the ring belongs to which thread, and the three balances, of
switch-outs, of losses and of samples; each is kept by one event (`Applied`),
hence by every drain (`Drains`), and by the cut of a thread that is gone and the
end of a window. From it `TypesOK`, `SwitchOutsAccounted`, `EveryLossReported`
and `GhostsAreStrays`. `TimeIsAttributed` follows each thread through the queue:
from the collector's view of it, a path of views, one per event on its way, ends
in a view that agrees with the thread (`Traced`, `Agrees`): asleep since then, or
awake, with all its time off CPU attributed.

Heap aggregation (`HeapProofs`, `HeapAssumption`). `Books` is the types, that
each running total equals the sum over the live allocations (`TotalsMatchLive`),
that a window's totals and drops make up what was observed (`WindowAccounted`) and
the limits (`WithinRoom`). One event changes one address, so a total changes by
what that address held and holds (`OneChanged`); `StateTypesOK`, `TotalsAreExact`
and, of each snapshot, `SnapshotsAccount`.

Heap sampling (`HeapProofs`, `PipelineAssumption`).

* `PipelineTyped`. An address is the program's, the allocator's or in the hands
  of one call (`Owners`, `Separate`), which is in one of few shapes (`Shape`); from
  this, the types and capacities.
* `NoEvictionMissed`, for one thread (`Alone`): `live_count` is at least the number
  of entries, but between the update that adds one and its count, and an eviction
  is under way only with the count at its limit (`Counted`).
* `KernelAndCollectorExact`. What the collector will know is its state with the
  queue and the ring applied (`Told`); an event more is one application more
  (`ResultAppend`), and moving events from the ring to the queue or applying them
  leaves it alone (`ToldKept`). While nothing is lost (`Lossless`) the kernel's
  map, the target's memory and `Told` agree on every address that no call holds,
  and `AtPtr` and `AtOld` say how far they differ, at the new and at the old
  address of a call, after each of its steps. The collector may lack an allocation,
  never have another one in its place, and only with a failure counted (`Fits`,
  `Failed`): the stack of a call under way waits, or is a failure (`Awaited`,
  `Waits`), and what halving drops it counts (`StackApplied`); that one stack too
  many leaves at most `StackCap` is `NewerFits`. A step changes only addresses of its
  own call, which no other call holds (`Apart`, `Framed`). The theorem is for one
  thread whatever it calls, or any number that only allocate, nested or not, and free with room
  for every address in `live_samples` (`Quiet`): a realloc beside another thread
  breaks it (`heap_realloc_race`), and so does an eviction that two threads cause
  and nobody counts (section 5).
* `HeapTyped` is the type invariant of both halves run as `MCHeap` runs them, where
  the calls are those of the threads in `Callers` (`CallersAssumption`).

Encoders (`EncoderProofs`, `EncodersAssumption`). `EncodersRoundTrip` follows what an
entry means. A table that is interned into only grows, without doubles, and each
entry keeps its place (`InternedOne`, `AllInterned`), so a location of a pprof
profile goes on saying what the symbolizer says of its address (`SoundProfiles`,
`Longer`) and a sample its stack (`Tells`). A location that is taken over into the
dictionary says there, by other numbers, what it says in its source (`EntryRead`),
and everything that was taken over before goes on saying it (`EntryKept`,
`SaysKept`). `ConvertSample` then adds one (stack, labels, value, time) to what the
entries of its sample type say, whether it appends an entry or joins one
(`SaysMore`). The invariant is `Told`: at every point of the nested loops the
entries of each sample type say exactly the samples converted so far, in particular
all at the end; the timestamps are as many as the timeline's samples, so it is not
refused. The loops inside a step are folds; that a fold is a path of tables one
entry apart is shown with `IndexRecursion`.

The parts together (`ServiceProofs`). `ServicesAreTyped`: the invariants of the six
parts of `MCServices` side by side, since a step of one leaves the others alone.
This type invariant, and `Bounded` of the buffer (`pending_len` is exact, the peak
at most one above the limit), are proved and not checked by the run: what they
would catch there, `ImplementsContract` and `ExportsBounded` catch.

Only model-checked: every liveness property (`EveryWindowDecided`, `StopEnds`,
`RestartFollowed`, `ThreadsFreedExpire`, `EveryThreadSampled`). Fairness and ENABLED
are beyond the prover. Every invariant that a passing
run checks is proved, some under the further assumptions named above.

## 5. Where code and documentation disagree, and other limits

Runs that end in a violation:

* `output_expiry_race`: the exporter checks for a diagnostics file and then writes
  it; the worker can expire the window in between. The file comes back and stays.
* `heap_realloc_race`: realloc's exit probe treats the old address as its own
  although the allocator may have given it to another thread, whose allocation is
  then announced as freed.
* `cpu_retired_pressure`: the collectors of processes that left a cgroup are
  drained and cleared before the sorter statistics are taken, which look for them
  there: their forced flushes are in no diagnostics.
* `record_short_window`: the clock of the once-per-second reconciliation starts
  again with every window; with a shorter window and no lifecycle events an exec
  is never noticed.
* `launch_hang`: with `--allow-partial` and no launch cgroup, a recording that
  fails before it resumes the child leaves `launch` waiting for a stopped child.
* `gallery_scan`: entries that are no profiles count against the scan's limit.

Seen by changing the constants of a run, or a property, as given:

* `FreedExpire` under `FairSpec` of `HeapPipeline`, with one thread that calls
  malloc and free, two pointers and two tokens; with `RingCap = 9`,
  `QueueCap = 2`, `LiveCap = 2`: a free lost at the collector's queue is counted but
  repairs nothing (`heap.rs:148-155, 212`); the allocation is reported as in use
  for good.
* The same with `RingCap = 3`, `QueueCap = 9`: a dropped free is counted before
  its key is deleted; a snapshot in between uses up the signal and keeps the
  allocation. With `RingCap = 9`, `QueueCap = 9`, `LiveCap = 1` an eviction between the end of
  `drain` and the statistics is reconciled at once, and the allocation's event,
  applied in the next window, brings it back.
* `EvictionsReported` with two threads that call malloc and free, `RingCap = 9`,
  `QueueCap = 9`, `LiveCap = 1`: two threads that fill the last place of the
  live map evict an entry that is not counted (`EvictionsReported`).
* `EveryThreadSampled` with `~long` for `long`: windows end one after the other
  before the threads are read.
* `FallbackJustified` in `cpu` without `- evidence.omitted` (`Justified`): samples left
  out at `--max-stacks` have valid stacks but are not counted as usable ones for the
  ratio that decides on the permanent switch to DWARF (`record.rs:1957-1967`), which
  happens although every stack is valid.

Seen while reading, and how the models treat them:

* `wait_stopped` (`mod.rs:383`) waits with `waitpid` itself: a child that ended
  before it stopped is reaped there, and `SuspendedChild::drop` then sends SIGKILL
  to an id that may belong to another process by then, although its comment says
  "this targets only the child created by this command". `NothingLeftBehind`
  allows this one case (`strays`).
* A child that ignores SIGTERM and has no cgroup makes `launch` wait for as long
  as it runs.
* A container's new instance with the old PID is missed if
  `refresh_preflight_after_exec` met it already (`RestartFollowed` excepts it). A
  PID used again between `validate_current` and `PidFd::open` is not noticed
  (`SampledOne` excepts it); after an exec verdict caused by a stranger with the
  id, the collectors are attached to it until the pidfd is looked at again.
* After an exec, or when a container crashes again at once, an exit during
  `refresh_preflight`, the inspection or the attachment fails the recording
  instead of finalizing it, and so does an error of the control plane during the
  wait (`ExitFinalizes` is about the windows, `phase = "loop"`). An exec of the
  same file is only noticed by a lifecycle event.
* New mappings between the load of the symbols and the first read of the maps are
  taken for known (`record.rs:86/120, 575/589, 620/634`; `raced`).
* A perf ring that is full records its losses with the next sample that fits
  (`perf.rs:444-458`). When its thread or process is found gone there is no next
  one: the ring is drained once more and closed (`record.rs:1337-1361`), and these
  losses reach no `lost_samples`. `EverySampleCounted` keeps them apart
  (`unrecorded`), beside what the switch to DWARF drops (`discarded`).
* A full lifecycle ring loses events without a counter.
* SIGINT before `signal_flag` has registered its handlers kills the profiler and
  leaves a suspended child and its cgroup.
* Stack failures of off-CPU events are in `incomplete_intervals` twice
  (`off_cpu.rs:261-262, 297-299`; `IntervalsConserved` takes one off). A thread
  that is untracked while its switch-out is in the ring leaves an interval that
  every later window is charged for (`NoGhosts` names it).
* `late_samples_dropped` of an import is printed and in no diagnostics; samples of
  an import that are out of order get overlapping durations.
* The dictionary of an export keeps the `has_*` flags of the first source that
  brings a mapping, where a pprof profile joins those of its samples.
* The hash of a mapped file is read from `/proc/<pid>/map_files` when a window is
  encoded, which may be after an exec or an exit.

## 6. What is not modelled

* Symbolization, unwinding, ranges and stack checks, SVG and Firefox writers,
  the protobuf and gzip formats: functions of their input, with unit tests.
* Command line, configuration and preflight: validation and read-only
  inspection; their limits are the constants of the modules.
* Of the output pipeline: the contents of files, panics of a thread, power
  failures (nothing is recovered at a restart, since retention is per session).
* Of CPU sampling: malformed records, failing system calls, thread limits,
  refreshed mappings, thread names and the timeline. A thread id that is used
  again between two looks at `/proc` keeps the ring of its first owner (`Stale`
  excepts it from `EveryThreadSampled`). Windows that end early (exit, exec), and the
  switch that fails for want of an unwind table (`record.rs:639`).
* Of off-CPU sampling: failing system calls and a full `tracked_tids` map.
* Of heap sampling: the sampling arithmetic (a `calloc` that calls `malloc` has its
  size weighed twice, `heap.bpf.c:252`); a full pending map; an inner call whose
  pointer the outer one does not return; how a stack is unwound; reattachment.
* Of the OTLP client: its configuration, attributes of resource and scope, and
  the cache of file hashes.
* Of the resolver: HTTP, JSON, labels, the node check and the choice of a
  container by name.
* Of the server: the symbol API, authorization and headers.

## 7. What is left

1. `RecordLoop` composed with `OutputPipeline` through the commands it sends
   (`submit`, `replace_symbolizer`); now both are checked against any caller.
2. `CpuSampling` and one `SorterBatches` per process in one module: the contract
   between them is checked and proved on one side (`BatchesKeepContract`) and used on
   the other, and a sample is not followed through both.
