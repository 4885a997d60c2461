# A TLA+ model of nsight-graphics-mcp

nsight-graphics-mcp is an MCP server that runs NVIDIA Nsight Graphics tools on
behalf of trusted clients: it launches an application under the tools, retains
what they produce as artifacts, and answers queries about them.  This directory
models the parts of it that are concurrent, crash-prone or intricate, checks
them with TLC on small instances, and proves most of their safety properties, all
those of the job coordinator, of the process supervisor, of the HTTP server and of
the capture service among them, for every value of the constants, with TLAPS.

All paths below are relative to the repository.

## 1. The system

| Part | Code | State it keeps | Operations | Modelled by |
|---|---|---|---|---|
| JobCoordinator | `src/jobs/Jobs.cpp` | jobs, queue, GPU reservations, a mailbox, one coordinator thread, one thread per running job | submit, cancel, snapshot, wait, shutdown, destruction; the callback's return | `Jobs` |
| ArtifactStore | `src/artifacts/Artifacts.cpp` | a catalogue in memory; `staging`, `bundles`, `trash`, `expired` with manifests and pins on disk; handles (writer, lease) in the callers | begin, update_provenance, snapshot_file, quarantine, resume, both publications, pin, lease, prune; recovery at start | `ArtifactStore` |
| Process supervisor | `src/core/Process.cpp` | one process tree, a supervisor process that is its subreaper, a socket pair between it and the caller | run_process with a timeout, a stop token, a grace and a kill budget | `Supervisor` |
| CaptureService | `src/capture/CaptureService.cpp` | an Attempt per job: writer, source lease, provenance | capture, replay, analyze_timing, finish_attempt, ~Attempt | `CaptureService` |
| Launch environment | `src/capture/LaunchEnvironment.cpp` | none | validation and identity of an overlay | `LaunchEnvironment` |
| Nsight adapter | `src/nsight/` | none | discovery, operations, exports, validation of outputs | `NsightTools` |
| Recorded state | `src/inspection/PushState.cpp`, `DescriptorState.cpp`, `DrawState.cpp` | banks while one recording is read | draws and executions of a generated replay | `PushState`, `DescriptorState`, `DrawState`, `DrawExecutions` |
| Value timeline | `src/inspection/Value*.cpp` | ledgers of memory, uploads, descriptor sets and submissions while one replay is followed | plans for the bytes a draw reads, cheap candidates | `ValueMemory`, `ValueUploads`, `ValueDescriptors`, `ValueTimeline` |
| Readers | `src/inspection/ResourceRead.cpp`, `DescriptorRead.cpp`, the workers | a bundle per read, a snapshot, a confined worker process | read_cpp_resource, read_cpp_descriptor_writes | `SourceWorkers`, `SourceReads` |
| Inspection | `src/inspection/Inspection.cpp` | none between calls | queries over captures | `SourceReads` (those that read) |
| HTTP transport | `src/server/Http.cpp` | sessions, open sockets, the phase of the shutdown | POST/GET/DELETE /mcp, expiry, SIGTERM | `HttpServer` |
| Protocol service, stdio | `src/server/Server.cpp` | phase and revision of a session, one revision for the tools | initialize, initialized, tools/call | `HttpServer` |
| Workflow tools | `src/server/Workflow.cpp` | a CaptureService made on first use | 35 tools: schemas, paging, dispatch | no |
| Experiment runner | `src/experiment/` | none | a pipeline of checks and child processes | no |
| Profile, timing, shader-trace queries | `src/inspection/Profile*.cpp`, `ReplayTiming*.cpp`, `ShaderTrace.cpp` | none between calls; ranges, paths and recordings while one frame is followed | draws of a replay with their durations, counters of a marker, shader traces | `ProfileMarkers`, `DrawTiming` |
| Hash, image, files, capabilities; fixture | `src/core/`, `src/fixture/` | none | byte-level functions; a demo | no |

How they interact.  A tool call (one at a time: the HTTP endpoint and
`ProtocolService` both hold a mutex across it) validates a request, prunes the
store, begins an artifact and submits a job whose callable owns the artifact's
writer and leases.  The coordinator runs the callable on a thread of its own,
which runs Nsight tools through `run_process()`, stops when its stop token is
set, publishes or quarantines the artifact and reports whether all processes
are gone.  Whoever destroys the callable last releases the writer, and the
store's destructor paths decide what becomes of unpublished evidence.
`run_process()` tells its caller whether the whole tree is confirmed gone; that
bit travels through the adapter and the callable to the coordinator (which
keeps the GPU) and to the store (which quarantines the evidence).  Queries read
published captures; some of them open a bundle and run a confined worker of
their own, on the thread of the call.

What is hard, and so what the properties are about:

* **JobCoordinator** - a deadline, a cancellation, a shutdown and the
  callback's own completion race for the outcome; events are observed when they
  are posted and applied later; threads are joined and callables destroyed
  outside the mutex while clients go on; a wake-up may be lost; a GPU must
  never be given out while processes of its last job may be alive.
* **ArtifactStore** - every publication, pin and deletion is several disk
  operations with a crash or a fault possible between any two; prune() works
  from a list made under an earlier lock and deletes without the lock; recovery
  must accept whatever a dying process leaves, its own half-done work included.
* **Process supervisor** - processes fork, change session and are orphaned
  while they are being killed; supervisor and caller each have a deadline on the
  same cleanup; either may die.
* **CaptureService** - a job may fail in any stage, be stopped at any moment or
  never start; publication may have happened although it threw; a tool that was
  not cleaned up must hold back everything after it; the capture it replays must
  neither vanish nor change.
* **Recorded state and values** - long sequences of legal calls on overlapping
  ranges, aliased memory, compatible and incompatible layouts, command buffers
  recorded, submitted and reset in any order: what is reported must be what the
  whole history says, and "unknown" otherwise.
* **Readers** - files, snapshots and the worker itself are checked at one
  moment and used at another; a read fails with its worker perhaps alive.
* **HTTP** - requests of one session arrive over several connections; sessions
  and connections expire while they are used; descriptors are reused; the
  server must stop although clients never let go.

`PROJECT.json` lists each of these hazards at the line where it bites, with the
properties that watch it.

## 2. Modules and runs

A definition whose name ends in `Mutant` (or that says so in its comment) is a
plausible slip in the definition after it.  The models never use one; with it in
place, one property of one run fails.

### Jobs

A job's `Entry` is a record of `jobs`.  `coordinator` says where `run()` is:
while it is in `Locked` the coordinator holds the mutex and no client action
that needs it is enabled; each client's critical section is one action, and
`Notify` and `WorkerNotify` are the notifications made after the mutex was
released.  One turn of `run()` is `Acquire`, then for each event
`ExpireBeforeEvent` and an `Apply...`, then `Drained` (the last expiry),
the `Schedule...` steps with `cursor` as the iterator, `Decide`, and outside the
mutex `StopOne`, `Join`, `ReleaseCallables`, `Finalize`.  The local struct
`Actions` is encoded in fields of the entries (see the module's head).
`GpuLease` is what all this promises about GPUs, without mailbox, threads or
clock: first come first served on each GPU, one holder at a time, and a GPU lost
for ever when its holder's cleanup is not confirmed.

| Run | Instance | Shows |
|---|---|---|
| `jobs_contention` | 2 symmetric clients, 2 jobs, 1 GPU, 3 calls, one deadline, spurious wake-ups, a completion with the wrong identity, cancellation, shutdown, destruction | exclusive GPUs, the life of the callable, deadlines, final outcomes, and the refinement of `GpuLease` |
| `jobs_live` | 1 client, 2 jobs, a deadline, a wait, a completion without confirmed cleanup | deadlines act on their own; destruction ends |

Two jobs on a GPU are a holder and a waiter; three calls are two submissions and
whatever races with them (cancel, shutdown, wait); one tick of the clock lets a
deadline pass before, while or after each step.  A second GPU and a third job
matter only where `schedule()` skips busy GPUs in the one list; that case, and
every larger one, is covered by the proofs (section 3), for which the invariants
were also checked with TLC on 2 GPUs, 3 jobs and 4 calls.

Fairness (`jobs_live`): threads that can run do.  A callback is obliged to
return only once its stop token is set, which is the contract stated in
`Jobs.hpp:100-105`; nobody is obliged to call anything; no timeout of
`wait()` is relied upon.  Hence `DisposeCompletes` needs `RequestStop`.

### ArtifactStore

`entries` is the catalogue, `disk` the directories; each disk operation is an action
of its own where a crash, a fault or the processes of an attempt, which write
without the mutex, can tell it from its neighbours (`holding` is what the mutex's
owner has still to do), and each thread carries its place in the call.  So
`FinalizeSuccess` looks at the usage and `FinalizeCommit` writes the manifest.  A fault makes one operation fail, before
or after its effect where the code cannot tell; a crash empties memory and
handles and restarts through `Recover...`.

| Run | Instance | Shows |
|---|---|---|
| `store` | 2 symmetric threads, 4 calls, 2 bundles, a byte budget for less than both and an age limit, 1 fault, 1 crash at any point (recovery included) | recovery accepts what it finds; memory never promises more than disk; no evidence vanishes unaccounted for; abandoned writers end in quarantine; a success is decided only when all that is stored leaves room for it; nothing protected is claimed; and, by the deadlock check, the two mutexes never block each other |
| `store_rewrite` | 1 thread, 1 bundle, `Rewrites = TRUE` | a violation, see section 4 |

Two bundles are one protected and one eligible, or one claimed and one being
published; sizes are small numbers chosen so that two attempts with their bytes fit the budget
and a final manifest beside them does not.  What other attempts write into staging
between the look at the usage and the commit may exceed the budget, in the code
and in the instance; `SuccessWithinBudget` says that nothing else can.  One fault and one crash give every pair of
adjacent failures.  `store` assumes `Rewrites = FALSE`: a caller does not change
its files between a failed publication and the next manifest it writes.
`store_rewrite` lifts exactly that assumption.

### Supervisor

`procs` is the kernel's view of the tree: who lives, whose child it is (the
supervisor is process 0 and adopts orphans, `Outside` adopts when it is gone),
whether it is in the target's process group and how it takes signals.  `sup` is
`supervise()` with what it read this round, `par` is `run_process()` after
`fork()`, `wire` the socket pair.  What the loops forget from round to round is
reset, so that equal situations are equal states.

| Run | Instance | Shows |
|---|---|---|
| `supervisor` | 2 processes deaf to SIGTERM or to everything, a caller that may die, a supervisor that may hang or die | a confirmed cleanup means that no process of the tree is left; the result is the report, and a program that never ran is reported with the stage that failed; the caller kills only a supervisor that hangs; the tree ends though the caller is dead |

A launch fails in the supervisor (its own `setpgid()` of the target) or in the
target (`setpgid()`, `fchdir()`, `execve()`): `LaunchFails` writes the stage into the
pipe and `_exit(127)` is a step of its own, which a signal may overtake.  `Result`
withholds the exit code 127 for a failed `execve()` only, as the code does
(`Process.cpp:682`): after the other stages the result says 127 beside the stage,
which is why `ResultFaithful` asks for the stage and not for the absence of a code.

Two processes are a target and a child that is orphaned, in a session of its own
or not, before, while or after the target is killed.  A grandchild forked during
the sweep, and any other tree, is left to the proofs, which hold for any number.
Times of one tick give each order of timeout, grace, budget and margin that
rounding can give.  The run assumes `Prompt`: both loops come round between two
ticks.  The code polls every 10 ms and the margin it leaves itself is 1000 ms,
which the instance scales to 3 ticks; without that assumption the kernel could
starve the supervisor and the caller would be right to kill it.  Only `TreeEnds`
needs it: the two safety properties are proved for any scheduling.

### CaptureService

`CaptureService` is the life of an Attempt between two contracts: what `Jobs`
promises (one worker at a time on the GPU, the GPU kept when cleanup is not
confirmed, a callable dropped without having run) and what `ArtifactStore`
promises (a publication happens or not, an operation may fail before or after
its effect, `prune` takes what nothing protects).  `attempt` is the worker with
its place in `Stages` and in `finish_attempt()`, `bundle` the store's memory of
its artifact, `trees` the processes that run; `NsightTools` says what the adapter
concludes from the way a tool ended and from what it left, `LaunchEnvironment`
whether the environment is the one that was submitted.  `Stop` stands for a
cancellation, a deadline and a shutdown alike: the worker sees one stop token.

| Run | Instance | Shows |
|---|---|---|
| `capture_faults` | 1 job of any kind, 2 store operations that fail, tools that end in every way, 1 change of any file or of the tools, a stop at any time | what is published is quiet; success means complete evidence; quarantine only for a reason; every submission ends |
| `capture_pair` | a capture and a replay (of it or of an older bundle), 1 change, pruning | one process tree at a time, on the GPU's holder; a replay's source stays and is what was captured |

One job meets every stage; two faults are a failed publication and a failed
handler of it; one change is enough, because each check compares two moments.
Contents that changed never return to an earlier version: a file restored to the
very bytes that were hashed is no change.  Fairness: a started worker goes on
(`run_process()` returns, no operation of the store blocks: the other modules)
and a deadline passes; nothing forces a job to start.  The system stops when all
jobs are over, so these runs do not check for deadlock.

### Recorded draw, push and descriptor state

`PushState`, `DescriptorState` and `DrawState` are the interpreters, as
operators on one bank; `DrawExecutions` reads recordings call by call with all of
them, and then the calls of the frame that record, reset and submit command
buffers.  `theme` is one replay: what its recordings may hold.  The properties
compare the banks with references that look at the whole recording at once: the
last write that covers a byte, the last bind that no incompatible one disturbed,
the last setter that nothing ended, the recording in force at a submission.

`recorded_state` reads every recording of at most 4 bank calls over one bank at a
time with a draw anywhere, and every frame of at most 5 calls over 2 recordings.
The banks do not read each other, which is why one theme per bank is enough.  Two
writes and a bind in each order, with a third to overlap both, are the shortest
sequences that tell partial from full overlap.  The code's limits (256 bytes, 16
viewports, 4096 draws, ...) are constants with small values that are reached; the
number of queues (64) and the byte budget of the result are not modelled.

### Values

`ValueTimeline` follows the initial calls and the frame with three ledgers:
`ValueUploads` (bytes by buffer over the memory graph of `ValueMemory`),
`ValueDescriptors` (sets, and which recordings hold them) and the submissions in
flight with their fences.  One refused call discards every plan, as in the code;
what remains of a refused replay is reset, so that refusals are one state.  The
references look at the steps alone: the last upload that reached an address
through any alias, the waits that prove a submission over, the calls that touch a
set between recording and proof.

`value_timeline` follows every frame of at most 6 calls of each theme
(uploads and aliases, fences, descriptor changes, command buffers, GPU copies,
mappings), and the replays whose source must not be trusted.  What a shader reads
is a table of the instance, since SPIR-V is not parsed; limits are scaled as
above, byte budgets are not modelled.  The two kinds of exception the code throws
are both a refusal here.  The targets of copies are buffers created for
it, which Vulkan requires of the captured program and the code relies on
(`CopiesAllowed`): a buffer without that usage counts as one the GPU only reads.  A submission with a fence and two
command buffers that use buffers is refused by the code (each registers the use
under the same fence); the model refuses it too.  That is conservative: nothing
wrong is reported.

### Readers

`SourceWorkers` is what the two confined workers answer and what the caller
accepts; `SourceReads` are the queries: load and validate a capture, plan reads,
and for each read open a bundle, snapshot the database, run the worker twice,
check that nothing changed, publish or settle.  A byte is named by where it is
stored, <<version, handle, index>>, so an answer shows which file it came from.
Files change between any two steps and never return to an earlier version; a
change of size is not told from a change of contents.

`source_reads`: one query at a time (calls are serialised), 1 change, 1 failing
operation of the store, workers that fail or stay, deadlines that pass.  A client
follows `next_offset` to the end.  The database reader and the hydrator are
vendor code and external; the confinement of a worker is one step; the lease of
the capture is the store's promise; JSON and response sizes are not modelled.  No
liveness is claimed.  One change and one fault meet every pair of a check and a
use, and every handler.

### Timings

`ProfileMarkers` associates the rows of two exports of a trace, by operators on
one trace.  `DrawTiming` reads the frame of each interval's generated project call
by call, as `correlate_replay_draws()` does (`frame`: active recordings, pools,
open markers, ranges, candidates), and answers two queries: the draws of all
intervals with their durations, and a counter of one exported row.  What a frame
executes is a separate history, `executed`, made from the calls without the
parser's knowledge: the last call that touched a buffer before its submission is
in force.  The profiler is external: its trace has a row for every executed range,
in an order of its own for the counters, and leaves out what a fault says - a range
with everything in it from the one export, and the same or another one from the other.  Rows carry the range they
were measured on, so the properties see whose duration a draw is given.

`draw_timing` has five themes: every recording of up to 4 commands, in every frame
of 3 calls; frames of up to 5 calls in which markers open in one buffer and close
in another, buffers are recorded, allocated and reset, on two queues; a buffer
recorded before the frame, with omitted ranges and unqualified tables; a draw
before the frame, which is refused; and three intervals that repeat paths, with
the right traces, the wrong ones, and groups that are incomplete or mixed.  A
duration belongs to the marker around that one draw (`DurationsAreTheirOwn`); a
draw whose marker is unique and alone gets one (`TimedWhenEvident`), so refusing
everything would not do.  A counter is that of the row it was asked for
(`CountersOfTheRow`), with one exception that the property spells out: where a path
repeats and each export lacks the occurrence that the other has, one is left on
either side, the counts agree (`ProfileMarkers.cpp:81-92`) and the code takes the one
for the other.  Two marker levels, three records and four rows
(`MaxDepth`, `MaxRecords`, `MaxRows`) are enough for nesting across buffers and
for reaching each limit.  An analysis is assumed to hold the project of its own
interval: its chain of evidence (hashes of what the analysis retained) is not
modelled, and its trace is not believed to be of that interval.

### HttpServer

`conns` holds connections with the pool thread that serves them, `sockets` the
table by descriptor number, `main` the main thread's place in the shutdown.  The
endpoint runs under one mutex; since only a tool call takes time under it, each
other request is one action (`Endpoint...`), and a call is `ToolBegins` and
`ToolReturns` with `busy` held in between.  Ages replace clock values and
saturate, so that runs have no last instant.  The pool, the accept loop and
descriptor reuse belong to cpp-httplib and Linux and are marked external.

`http_sessions`: 2 connections with reused descriptors, 2 pool threads, 4
requests, 2 sessions at a time of 3 ever, on different revisions; sessions and
connections expire, the server is told to stop.  Tools run only in their own,
ready session and report its revision; the socket table never names a stranger;
once the main thread waits for the pool, no client can hold it up, and the jobs
are shut down after the last request.  The number of requests is bounded, so that
starvation on an unfair mutex by endless other requests is not part of the model;
no fairness is assumed and no liveness claimed.

### What the runs do not check for

`jobs_*`, `store`, `supervisor` and `http_sessions` check for deadlock (in `store`:
the deletion mutex and the store mutex are always taken in the same order).  The
others say `CHECK_DEADLOCK FALSE`: a job, a replay and a query end, and then
nothing is left to do.

## 3. What is proved

Every safety property of the runs `jobs_contention`, `supervisor`,
`http_sessions`, `capture_faults` and `capture_pair`, every one of `recorded_state`, all but one of
`store` and of `source_reads`, and three of the four of `value_timeline` are proved, for
any values of the constants that satisfy the module's assumptions
(`JobsAssumption`, `SupervisorAssumption`, `HttpAssumption`; `CaptureBounds` and
`KindsKnown`; `StoreAssumption`, which has finitely many threads so that the
leases of a bundle can be counted; `WorkersAssumption`, `CapturesAssumption` and
`QueriesAssumption`, which say what an update, a registration list and a query
have: fields, lists, and numbers where the tools' schemas ask for them;
`DrawStateAssumption` and the `ThemesAssumption` of `DrawExecutions`, which say the same
of layouts and of the qualified calls of a replay, whose arguments the parser has read as
unsigned numbers; the `ThemesAssumption` of `ValueTimeline`, by which what a call or a
read lists is a list, sizes and offsets have no sign, copies write only buffers created
for it, and the sets that a draw has bound are sets that its recording binds, as
`DescriptorsUndisturbed` has it):
any number of clients, jobs and GPUs; of
processes, in any mixture of kinds, with any times; of connections, descriptors,
pool threads, sessions and requests; of captures and replays, failing store
operations, changing files and installations, whatever the tools put out; of
bundles, threads, bytes, failing disk operations and crashes; of queries, captured
payloads, installations, failing store operations and changes of files; of recordings
of any length, with any pipelines, layouts, ranges and values; of frames of any length,
with any descriptor pools and sets, queues, fences and recordings.

| Module | Theorem | States |
|---|---|---|
| `JobsProofs` | `InvariantHolds` | `Spec => []IInv` |
| | `TypeCorrect` | `Spec => []TypeOK` (with the bound on schedule()'s iterator) |
| | `StopReasonAlwaysDecides` | `Spec => []StopReasonDecides` (proved only) |
| | `GpuAlwaysExclusive` | `Spec => []GpuExclusive` |
| | `CallableAlwaysLives` | `Spec => []CallableLifetime` |
| | `OutcomesAreFinal` | `Spec => SettledForever` |
| | `DeadlinesAreRespected` | `Spec => []DeadlineRespected` |
| | `LeaseImplemented` | `Spec => ImplementsLease` |
| `SupervisorProofs` | `SupervisorInvariant` | `Spec => []IInv` |
| | `ConfirmedIsGone` | `Spec => []ConfirmedMeansGone` |
| | `ResultIsFaithful` | `Spec => []ResultFaithful` |
| `HttpProofs` | `HttpInvariant` | `Spec => []IInv` |
| | `SocketsAlwaysOwned` | `Spec => []SocketsOwned` |
| | `ToolAlwaysInItsSession` | `Spec => []ToolInItsSession` |
| | `NobodyEverHoldsTheStop` | `Spec => []NobodyHoldsTheStop` |
| `CaptureServiceProofs` | `CaptureInvariant` | `Spec => []IInv` |
| | `AlwaysTreesConfined` | `Spec => []TreesConfined` |
| | `AlwaysPublishedIsQuiet` | `Spec => []PublishedIsQuiet` |
| | `AlwaysSuccessIsEvidence` | `Spec => []SuccessIsEvidence` |
| | `AlwaysQuarantineMeansDoubt` | `Spec => []QuarantineMeansDoubt` |
| | `AlwaysReplaysTheCapture` | `Spec => []ReplaysTheCapture` |
| `ArtifactStoreProofs` | `StoreInvariant` | `Spec => []IInv` |
| | `AlwaysRecoveryAccepts` | `Spec => []RecoveryAccepts`, if `~Rewrites` |
| | `AlwaysCatalogueMatchesDisk` | `Spec => []CatalogueMatchesDisk` |
| | `AlwaysEvidenceAccounted` | `Spec => []EvidenceAccounted` |
| | `AlwaysAbandonedIsQuarantined` | `Spec => []AbandonedIsQuarantined` |
| | `ProtectedIsNeverClaimed` | `Spec => ProtectedNeverClaimed` |
| `SourceReadsProofs` | `ReadsInvariant` | `Spec => []IInv` |
| | `AlwaysWorkersGone` | `Spec => []WorkersGoneBeforePublication` |
| | `AlwaysReportsAgree` | `Spec => []ReportsAgree` |
| | `AlwaysReadsAreTheDatabase` | `Spec => []ReadsAreTheDatabase` (proved only) |
| | `AnswersAlwaysTheCapture` | `Spec => []AnswersAreTheCapture` |
| `DrawExecutionsProofs` | `RecordedInvariant` | `Spec => []IInv` |
| | `SettingsAreInForce` | `Spec => []SettingsInForce` |
| | `PushDataIsExact` | `Spec => []PushDataExact` |
| | `DescriptorsAreUndisturbed` | `Spec => []DescriptorsUndisturbed` |
| | `ExecutionsAlwaysFollow` | `Spec => []ExecutionsFollowTheFrame` |
| `ValueTimelineProofs` | `TimelineInvariant` | `Spec => []SetsInvariant` |
| | `SetsAlwaysHold` | `Spec => []SetsHoldWhileRecorded` |
| | `PlansAlwaysMatch` | `Spec => []PlansAreCandidates` |
| | `UploadsInvariant` | `Spec => []BytesInvariant` |
| | `BytesAlwaysHold` | `Spec => []BytesHoldInFlight` |

### The coordinator

*The inductive invariant.*  `GpuExclusive` and its like are not inductive.  What
carries them is that an occupied job has `gpu_reserved`, and that `gpu_reserved`
and `reservations` tell the same story (`ReservationInv`), which in turn needs
the shape of each entry in each state (`EntryInv`: Absent, Queued, Running or
Ended, and within Ended whether its thread is joined), that an event "returned"
belongs to a callback that did return (`MailboxInv`), that IDs are given out in
order (`IdInv`) and what `run()` has finished at each place (`PhaseInv`).
`IInv` is their conjunction.  There is one lemma per action that proves the parts
the action can disturb, lemmas for the helpers (`Expire`, `RequestStop`,
`FinishQueued`, `Retire` keep the shape of an entry), and the theorems follow from
`IInv` by the definitions.

*The refinement.*  A step of `schedule()` starts the job at the iterator;
`GpuLease` starts the first waiting job of that GPU.  They agree because of
`QueueInv`: the queue is strictly increasing and holds only IDs already given
out, every queued job is in it, and each position the iterator has passed waits
for a GPU that is reserved.  Each action then maps to one of `GpuLease` (a
submission to `Accept`, expiry, cancellation and shutdown to `Stop`, a start of
`schedule()` to `Start` or `FailToStart`, the end of a callback to `End`, its
join to `GiveBack`) or to a stutter, one lemma per kind of step.

*Outcomes and deadlines.*  `OutcomesAreFinal` is an action property: under
`IInv`, each action leaves a recorded stop reason, a final state and a settled
snapshot alone (`Steady`).  `DeadlinesAreRespected` needs `DeadlineInv`: no
submission and no event is dated in the future, and when an event is about to be
applied every running job whose deadline is not after it has been told to stop;
every entry an action changes stays punctual (`Punctual`).

### The supervisor

The code confirms a cleanup when the target is reaped and waitid() answers
ECHILD: the supervisor has no child left.  That says nothing directly of
grandchildren.  What makes it a proof that nobody is left is `TreeInv`: processes
are numbered in the order of their births, and whoever is left hangs from the
supervisor or from a living process with a smaller number (`Rooted`), because a
process that ends hands its children to the subreaper.  So if anybody but the
target were left, the one with the least number (`Least`, from the
well-foundedness of the naturals) would be a child of the supervisor
(`NobodyLeft`).  `SupInv` says that what the supervisor knows of the target is
still so (an exit it saw stays a zombie until it reaps it), `ExecInv` that an
exec status is read and remembered before the target is reaped, `ReportInv` that
a confirmed report stays true because nobody is left to change it, `WireInv` that
the caller returns what was sent.  The exec status is the stage that `fail_launch()`
wrote, if any: a report without a stage is then of a program that ran.  A step of the tree or a signal changes these
in few ways, which `Onward` names; there is one lemma per action.

### The HTTP server

`IInv` adds to the three properties: descriptors of living connections are
distinct and only a connection that is served loses its socket (`ConnInv`), the
pool's tasks are queued connections, each once (`QueueInv`), the sessions' mutex
is held by the connection whose tool runs and by no other (`BusyInv`), and how
far the shutdown has come (`StopInv`).  Its parts fall into two groups that few
actions disturb together: where each connection is (`Places`) and whose tool runs
(`Tools`); the lemmas are arranged by group and action.

### The capture service

`IInv` has six parts, each a predicate of one attempt.  `Confined`: a tree lives
only while its cleanup is unconfirmed, beside the GPU and in staging.  `Housed`:
where the bundle is, by where the attempt is.  `Collected`: what the passed stages
put into the bundle; this is what makes a success publishable, since
`Required` is a set of outputs and an attempt knows only how many stages it
passed.  `Evident`: a success passed the last stage, and what is complete is
published; the disjunct `faults > 0` of the property is the publication that threw
after its rename, and the invariant shows there is no other way to it.
`Doubted` counts the faults that lead to a quarantine from the moment the handler
is entered.  `Sourced` ties a replay to its source: its lease keeps the source in
`bundles`, and past the second stage it has observed the bytes the retained hash
is of.  Only `Sourced` looks at another bundle, so a step of one attempt is proved
for that attempt, by action, and the others keep theirs (`OthersKept`, `OneMoves`);
`Prune` and `Change`, the steps of nobody's attempt, have lemmas of their own.

### The store

`CatalogueMatchesDisk` and its like speak of an open store whose mutex is free;
what makes them inductive is what holds in between.  For each bundle: `OnDisk`,
the order in which the writes reach the disk (a manifest that announces an
outcome is there only with its pin and its inventory, a receipt only for what is
published or claimed); `Catalogued` and `Attempted`, what the catalogue says of
it, once the bundle is `Read`: always in an open store, and while `recover()`
runs as far as its three loops have come (`Recovery`; what they have not read is
not in memory, and the expirations are still the receipts).  `Attempted` ties
the pin to the attempt: what has a writer, or is quarantined in memory, has its
pin on disk, so that whoever finalizes it leaves a whole bundle.  For the steps
under way: `Holds`, what the owner of the mutex has written and still has to
write (between the look at the usage and the commit: an inventory that is still that of
the attempt, whose writer is the owner); `Calling`, that a publication which pruned in between still owns its
attempt; `Pruning`, that what `prune()` deletes or charges has left `bundles`;
`Closed`, that nobody is served while the store is not open.

A step concerns one bundle: for the others everything it depends on is the `Same`
(`Elsewhere`), and the lemma of an action proves the parts for the one
(`OpenStep`, `RecoveryStep`).  The number of leases in an entry is the number of
threads that hold one, so a bundle `prune()` may claim is leased by nobody.
`ProtectedIsNeverClaimed` adds that only the rename of `prune()` takes a bundle out of
`bundles` (`OnlyClaimed`), and that between its decision and its rename the mutex keeps
the entry as it was.  `AlwaysRecoveryAccepts` assumes `~Rewrites`: without it the theorem is
false, as section 4 shows.

### The readers

*Bundles.*  A bundle is written by the read, or the draw-value query, that opened
it, and by nobody once it is published.  `IInv` therefore says of every bundle that
a published one is quiet and reports what it is (`Sound`), and of the read and the
query how they fit the bundle they have at each stage (`ReadFits`, `QueryFits`): the
report says "succeeded" before the publication, and the handler finds a bundle that
is staged or, after a publication that threw after its rename, one that it must
leave alone; for a query that takes a failed operation, which is why the bundle of
a refused query is a failure when none failed.  A step writes one bundle
(`Touched`) or opens one (`Kept`); the lemma of an action shows that the read fits
again, and `ReadMoves` or `QueryMoves` does the rest.

*Bytes.*  The binary is fingerprinted first, runs twice, and is fingerprinted
again; the copies are fingerprinted when they are made and after the answer.
`EInv` says what follows, at each stage, from nothing having changed since
(`Traced`): while the binary on disk is the one fingerprinted it is the one that
told its profile, and the one that runs is that one; an answer of that binary from
the fingerprinted copies is the range of those copies.  Each clause is an
implication, so a change of a file, which brings a version never seen before,
makes it vacuous, and the last comparison turns it into a fact.
`ReadsAreTheDatabase` is the part of `AnswersAreTheCapture` about single reads,
at any time and not only in an answer.

*Descriptors.*  The helper asks a token for every handle of an update, the worker
turns tokens into objects, and the caller turns objects into the symbols of the
generated source.  `RowObjects` shows that the second undoes the first (each object
has one token, because it is listed once), `SymbolNames` that an object that is
registered unambiguously has one symbol, `RowMeans` that a row then says what its
write says, and `DescriptorMeans` that an answer does.

*Pages and values.*  `Wanting` says what is left to read: requests that the query may
make (`RequestedOk`), and for a resource the one that the client asked for.
`PagesKept` carries the pages from one query to the next: their `next_offset` is where
their bytes end, so the page after it continues the range (`PageJoins`), and when there
is none they reach the end of the payload, provided that all were read of one
database, which is what `Cardinality(pages.inputs) = 1` of the property says.
`ValuesKept` says that assembled values are the captured bytes: every byte lies in
exactly one segment (`Covers`), whose read is the whole segment (`AssembledIs`).

*Induction.*  The requests of a query are made distinct step by step (`Distinct`), the
segments of its plans are joined (`Segments`), and the sets of a bind are bound one
after the other (`RecordBind`).  Of such recursive functions
`Stepwise` shows that the function exists, and `Counting`, which takes a least
counterexample, that what holds of the first value and is kept by each step holds of
the last.

### The recorded state

The properties are about draws that were reported, calls ago; the banks are about
now.  `DrawsHold` therefore keeps each reported draw exact with respect to the calls
that preceded it (`SubSeq(calls, 1, at)`, which no later call changes), and
`BanksHold` keeps what each bank owes to the calls read so far; the report of a draw
turns the one into the other (`ReportExact`).  `IInv` is the two together.

*Settings.*  A set literal, and a set element of an array, is what the last setter of
it left, and nothing has ended it (`ValueHolds`, `ElementHolds`); since the last bind,
a setter of a key leaves the key touched (`BindHolds`).  That is stronger than the
property, which asks for it only of what a draw reports: an array whose count changes
form, or an element that a shorter write leaves behind, must keep its own history.

*Push constants.*  Every byte of every stage points at the write that last covered it
(`ByteHolds`).  A segment is a maximal run of bytes with one owner (`SegmentRows`), so
a byte of it sits in the data of its owner at its own distance from the owner's offset
(`PlacedByte`), and the segments together cover every range of the layout.

*Descriptors.*  The bank forgets: a disturbed slot only remembers a layout.
`SlotHolds` says that an active slot is what its last bind named and that no bind
since disturbed it; `CoverHolds`, which the property does not mention, that a slot
keeps a layout compatible with its last bind as long as every bind since was
compatible with it, which is what makes a lower slot a witness when a higher one is
bound.  One call binds several sets, each of which may disturb the next ones:
`StepHolds` is the invariant of that loop (`BindOne`, `BindAll`), in terms of the slots
before the call, and compatibility is symmetric and transitive up to a slot
(`CompatibleAlgebra`).

*The frame.*  The property is about the frame's calls and the executions alone; the
code decides with maps and stacks it updates call by call.  `FInv` says what each of
them owes to the calls so far: `active` names, for each command buffer, the recording
of its last `RecordCommandBuffer`, if that call was not a later reset, and
`generation` tells two recordings of the buffer apart (`AllActivated`); `once` holds
every one-time recording that was submitted and that its buffer still has (`Spent`), so
that no two places share one (`Apart`); each place executed the draws of its recording (`Ran`); and a
queue's stack is the labels left open (`LabelsOf`).  The last is not inductive in terms
of the property's own count of begins and ends: `Opens` lists the calls whose labels
are open with the depth each sees, a begin puts one on top and an end takes the
innermost away.  A submission flattens the executions of its places, twice nested; the
lemmas on `FlattenSeq` (by `Stepwise` and `Counting`) show that nothing is lost or
added.

### The value timeline

*Sets.*  An accepted plan speaks of calls that came before its submission and after it;
the ledger only counts, for each recording, the submissions in flight, and remembers
whether one of its sets moved.  `SetsInvariant` ties the ledger to the calls so far.
`Counted`: a recording's count is the number of its submissions in flight, so a call that
the ledger lets through because the count is 0 cannot reach what is in flight.
`ActiveHolds`: what a command buffer has active is its last recording, and while that is
valid no call since it was made has reached its sets.  `RowsHold`: every execution is
`Over`, spared from its recording to a call that proved it, or `InFlight`, with its recording
active and valid still; a wait turns the one into the other.  A call acts on
the ledger in many steps (each write of an update, each set of a pool), so what it does
as a whole is one relation, `Moves`: which sets it moved, that nothing in flight binds one
of them and that what binds one is valid no more.  It composes (`MovesOn`), and
`CoversCall` says that the sets moved are at least those that the property's own reading of the call
(`Touches`) says.  A submission goes through its command buffers one after the other
(`Submits`, `Carries`), each of which may add rows and one use.

*Candidates.*  `PlansInvariant` says that the listing of the calls followed so far has
found the active recordings, the selections of the executions and the number of
submissions.  Both walk the same places of a submission (`InOrder`), and buffer by buffer
they add the same rows (`Matches`).  The recursive functions involved exist and are determined
by their steps, as for the readers.

*Bytes.*  `BytesInvariant` does for the upload ledger what `SetsInvariant` does for
that of the sets.  The bytes of a plan lie in a coherent buffer that the GPU only reads
(`PlanPlaced`), and up to a call that proves its submission over (`Unproved`) nothing
has reached them (`Spares`) and the ledger keeps a use of the buffer by that submission.
So a call that the ledger lets through spares the plan: an update through a mapping
may name another buffer of the same memory, and is refused if any buffer it overlaps is
in use; where the mapping starts is the last `MapMemory` of that memory (`MapsHold`).
A wait takes away a use only when it proves that submission over.  `PlanBacked` ties
the plans of a submission to the uses it registers.

### What was checked first, and what is only checked

`IInv`, `QueueInv`, `DeadlineInv` and `TypeOK` of `Jobs`, and the `IInv` of
`Supervisor`, of `HttpServer`, of `CaptureService`, of `ArtifactStore` and of the
readers (with `EInv`, `Wanting`, `PagesKept` and `ValuesKept`), and the invariants of
`ValueTimeline`, were checked with TLC on the instances of their runs before
they were proved, that of the store also with three faults and two crashes on one
bundle, with and without `Rewrites`, `IInv` and `EInv` of the readers also with two faults
and two changes.

Only model-checked: `SuccessWithinBudget` of the store, a sum over the set of
bundles; of the readers `RefusedForAReason`, which would need for every step that
nothing but a disturbance refuses it; of the values `ValueBytesExact`, where
the bytes of a range are gathered by filling holes over the uploads, newest first; the
timings, whose
properties rest on folds and on an order of rows that only a choice fixes;
and all liveness (`DeadlineEnforced`, `DisposeCompletes`, `TreeEnds`,
`Settles`): liveness under fairness and ENABLED are beyond the prover.

## 4. A disagreement between documentation and code

`store_rewrite`.  `finalize_locked()` writes the final manifest
(`Artifacts.cpp:769`) and then renames the bundle (770).  When the rename fails
the final manifest stays in staging and the caller gets an exception.
`finish_attempt()` then saves `raw/report.json` once more, now with the error
(`CaptureService.cpp:345`), before it replaces the manifest through
`update_provenance()` (352); the readers in `ResourceRead.cpp:212` do the same.
If the process dies between the two, recovery finds a prepared manifest whose
inventory does not match the files, throws, and the store refuses to open as a
whole, although `docs/MCP.md:138-139` promises that "Complete/failed publication
is atomic; interrupted staging is reconciled on startup."  It takes two failures
(a rename that fails and a death), and the evidence itself is not lost: it needs
a manual repair.

## 5. Not modelled

* `Workflow.cpp` (schemas, validation of arguments, dispatch) and the rest of
  `Server.cpp` (envelopes, ping, tools/list, stdio): one call at a time under a
  lock that is modelled, over components that are; they keep no state of their own.
* `CppEvidence.cpp` and `ValueSourceContract.cpp`, which turn exported C++ into
  calls and refuse text they do not know, and `SpirvUniforms.cpp` below the table
  of what a shader reads: parsing word by word.  The models start at its output.
* The queries over shader traces and images, the parsers of the vendor's reports
  and tables, and the checks of a timing analysis' chain of evidence: stateless,
  over one bundle per call.
* The experiment runner: a program of its own, one sequential pipeline.
* Hashing, images, files, capabilities: byte-level functions that are better
  served by test vectors.  The fixture is not part of the server.
* In the supervisor: errors of waitid() and kill() other than ECHILD and ESRCH,
  failures to enumerate `/proc`, and a SIGCHLD disposition of the embedding
  program that makes the caller's own waitid() fail.
* In the store: list, read, files, import, the parsing of manifests.
* Not caught by a property: a copied or written descriptor that runs on into the next
  binding, and input of the readers that must be refused (`RefusedForAReason` says
  that nothing else is).
* Throughout: wording, logging, the fields of reports no decision rests on.

## 6. Plan

What would add most, in this order:

1. Proofs: the bytes that an upload leaves in a range (`ValueBytesExact`), the
   invariants of the timings that do not rest on a fold, the readers' refusals.
2. The line framing and the byte limits of the two transports.
3. The chain of evidence between a capture, its replay and its timing analysis.

Checks are limited to small instances throughout: no claim is made about more
crashes, faults or calls than the instances have, except where section 3 lists a
proof.
