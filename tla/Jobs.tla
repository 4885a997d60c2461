-------------------------------- MODULE Jobs --------------------------------
(***************************************************************************)
(* JobCoordinator (src/jobs/Jobs.cpp): one coordinator thread owns every   *)
(* job; clients and worker threads talk to it through a mailbox guarded by *)
(* one mutex and one condition variable.                                   *)
(*                                                                         *)
(* The coordinator holds the mutex while its program counter is in Locked; *)
(* every other critical section is short and is one action.  The vectors   *)
(* of the local struct Actions hold at most one element per job, so being  *)
(* in one is a value of a field of the job:                                *)
(*   actions.stops    ~ stop   = "pending"                                 *)
(*   actions.finished ~ handle = "finished"                                *)
(*   actions.release  ~ worker = "releasing" (and copies, for the extra    *)
(*                      reference every Submit event puts there)           *)
(*   actions.finalizing is always the set with finalization_pending.       *)
(*                                                                         *)
(* A definition named ...Mutant is a plausible slip in the definition that *)
(* follows it.  The model never uses one: they show that a property would  *)
(* notice that slip.                                                       *)
(***************************************************************************)
EXTENDS Integers, FiniteSets, SequencesExt

CONSTANTS
  Clients,        \* threads that call the facade
  Gpus,           \* options.gpu_keys
  Captures,       \* capture IDs that valid_identifier accepts
  MaxJobs,        \* options.max_jobs
  Requests,       \* JobRequests the clients submit
  CancelTargets,  \* job IDs the clients cancel
  WaitTargets,    \* job IDs the clients wait for
  Completions,    \* what a callback may hand back
  MaxClock,       \* bound: the last instant of the modelled clock
  MaxCalls,       \* bound: how many client calls are made in all
  SpuriousWakes   \* whether wait_until may return for no reason

JobId    == 1..MaxJobs
NoJob    == 0
Outcome  == {"succeeded", "failed", "cancelled", "timed_out"}
Terminal == Outcome
Reason   == {"cancellation", "deadline", "shutdown"}
Reply    == {"none", "identity", "rejected", "shutting_down", "requested",
             "already_requested", "already_terminal", "not_found"}

\* A request may name a capture or a GPU the coordinator refuses, and may
\* come without a callable.
RequestAssumption ==
  \A r \in Requests : r.deadline \in Nat /\ r.worker \in BOOLEAN

CompletionType ==
  [valid : BOOLEAN, exception : BOOLEAN, outcome : Outcome, cleanup_confirmed : BOOLEAN]

ASSUME JobsAssumption ==
  /\ MaxJobs \in Nat \ {0}
  /\ MaxClock \in Nat
  /\ MaxCalls \in Nat
  /\ SpuriousWakes \in BOOLEAN
  /\ Gpus # {}
  /\ RequestAssumption
  /\ Completions \subseteq CompletionType
  /\ CancelTargets \subseteq JobId
  /\ WaitTargets \subseteq JobId

VARIABLES
  clock,         \* JobClock::now()
  jobs,          \* Impl::jobs, an entry per ID; state "absent" is not in the map
  next_id,
  queue,         \* Impl::queue
  reservations,  \* Impl::reservations, NoJob for an empty optional
  events,        \* Impl::events, the mailbox
  accepting,
  stopping,
  coordinator,   \* where run() is
  cursor,        \* schedule()'s iterator into queue
  copies,        \* actions.release holds a reference taken by a Submit event
  calls,         \* what each client is doing
  made,          \* calls made so far
  disposing      \* ~JobCoordinator: "no", "begun", "done"

vars == <<clock, jobs, next_id, queue, reservations, events, accepting, stopping,
          coordinator, cursor, copies, calls, made, disposing>>

NoEntry ==
  [state |-> "absent", capture |-> "", gpu |-> "", submitted_at |-> 0, deadline |-> 0,
   launched |-> FALSE, finished_at |-> 0, stop_reason |-> "none",
   worker_running |-> FALSE, finalization_pending |-> FALSE,
   cleanup_confirmed |-> TRUE, gpu_reserved |-> FALSE,
   worker |-> "gone", stop |-> "idle", thread |-> "none", handle |-> "none"]

\* run() between taking and releasing the mutex.
Locked   == {"draining", "applying", "scheduling", "deciding"}
Unlocked == {"ready", "waiting", "stopping", "joining", "releasing", "finalizing", "finished"}
MutexFree == coordinator \notin Locked

Call(phase, job, reply) == [phase |-> phase, job |-> job, reply |-> reply]
Idle == Call("idle", NoJob, "none")

\* Whether a deadline has passed: an exact tie counts as passed.
Expired(deadline, when) == deadline <= when

-----------------------------------------------------------------------------
(* State transition helpers: each maps an entry to the entry it leaves.    *)

\* The callable moves to actions.release and waiters are held until it is gone.
Retire(e) ==
  IF e.worker = "held"
  THEN [e EXCEPT !.worker = "releasing", !.finalization_pending = TRUE]
  ELSE e

FinishQueued(e, state, reason, when) ==
  Retire([e EXCEPT !.state = state, !.stop_reason = reason, !.finished_at = when])

RequestStopUnsentMutant(e, reason) ==
  IF e.stop_reason = "none" THEN [e EXCEPT !.stop_reason = reason] ELSE e

\* Only the first stop reason is recorded, and only it signals the stop token.
RequestStop(e, reason) ==
  IF e.stop_reason = "none"
  THEN [e EXCEPT !.stop_reason = reason, !.stop = "pending"]
  ELSE e

ExpireMutant(js, when) ==
  [j \in JobId |->
     IF ~Expired(js[j].deadline, when) THEN js[j]
     ELSE IF js[j].state = "queued"
          THEN FinishQueued(js[j], "timed_out", "deadline", js[j].deadline)
     ELSE RequestStop(js[j], "deadline")]

Expire(js, when) ==
  [j \in JobId |->
     IF ~Expired(js[j].deadline, when) THEN js[j]
     ELSE IF js[j].state = "queued"
          THEN FinishQueued(js[j], "timed_out", "deadline", js[j].deadline)
     ELSE IF js[j].state = "running" THEN RequestStop(js[j], "deadline")
     ELSE js[j]]

\* changed.notify_all() wakes run() and every client asleep in wait().
WokenCoordinator == IF coordinator = "waiting" THEN "ready" ELSE coordinator
WokenCalls(cs) ==
  [c \in Clients |-> IF cs[c].phase = "sleeping" THEN [cs[c] EXCEPT !.phase = "checking"]
                     ELSE cs[c]]

\* The predicate of wait().
Settled(e) ==
  e.state \in Terminal /\ ~e.worker_running /\ ~e.finalization_pending

-----------------------------------------------------------------------------
Init ==
  /\ clock = 0
  /\ jobs = [j \in JobId |-> NoEntry]
  /\ next_id = 1
  /\ queue = <<>>
  /\ reservations = [g \in Gpus |-> NoJob]
  /\ events = <<>>
  /\ accepting = TRUE
  /\ stopping = FALSE
  /\ coordinator = "ready"
  /\ cursor = 1
  /\ copies = FALSE
  /\ calls = [c \in Clients |-> Idle]
  /\ made = 0
  /\ disposing = "no"

Tick ==
  /\ clock < MaxClock
  /\ clock' = clock + 1
  /\ UNCHANGED <<jobs, next_id, queue, reservations, events, accepting, stopping,
                 coordinator, cursor, copies, calls, made, disposing>>

-----------------------------------------------------------------------------
(* Clients.  A call that posts an event returns when its promise is set.   *)

MayCall(c) ==
  /\ MutexFree
  /\ calls[c].phase = "idle"
  /\ made < MaxCalls
  /\ disposing = "no"
  /\ made' = made + 1

Post(event) == events' = Append(events, event)

SubmitCall(c, r) ==
  /\ MayCall(c)
  /\ IF accepting
     THEN /\ Post([kind |-> "submit", at |-> clock, client |-> c, request |-> r])
          /\ calls' = [calls EXCEPT ![c] = Call("posted", NoJob, "none")]
     ELSE /\ calls' = [calls EXCEPT ![c] = Call("blocked", NoJob, "shutting_down")]
          /\ UNCHANGED events
  /\ UNCHANGED <<clock, jobs, next_id, queue, reservations, accepting, stopping,
                 coordinator, cursor, copies, disposing>>

DirectCancel(j) ==
  IF jobs[j].state = "absent" THEN "not_found"
  ELSE IF jobs[j].state \in Terminal THEN "already_terminal" ELSE "already_requested"

CancelCall(c, j) ==
  /\ MayCall(c)
  /\ IF accepting
     THEN /\ Post([kind |-> "cancel", at |-> clock, client |-> c, job |-> j])
          /\ calls' = [calls EXCEPT ![c] = Call("posted", j, "none")]
     ELSE /\ calls' = [calls EXCEPT ![c] = Call("blocked", j, DirectCancel(j))]
          /\ UNCHANGED events
  /\ UNCHANGED <<clock, jobs, next_id, queue, reservations, accepting, stopping,
                 coordinator, cursor, copies, disposing>>

\* submit() and cancel() notify after they have released the mutex.
Notify(c) ==
  /\ calls[c].phase = "posted"
  /\ calls' = WokenCalls([calls EXCEPT ![c].phase = "blocked"])
  /\ coordinator' = WokenCoordinator
  /\ UNCHANGED <<clock, jobs, next_id, queue, reservations, events, accepting, stopping,
                 cursor, copies, made, disposing>>

\* reply.get()
TakeReply(c) ==
  /\ calls[c].phase = "blocked" /\ calls[c].reply # "none"
  /\ calls' = [calls EXCEPT ![c] = Idle]
  /\ UNCHANGED <<clock, jobs, next_id, queue, reservations, events, accepting, stopping,
                 coordinator, cursor, copies, made, disposing>>

\* A wait for an unknown ID returns at once and is not modelled.
WaitCall(c, j) ==
  /\ MayCall(c)
  /\ jobs[j].state # "absent"
  /\ calls' = [calls EXCEPT ![c] = Call("checking", j, "none")]
  /\ UNCHANGED <<clock, jobs, next_id, queue, reservations, events, accepting, stopping,
                 coordinator, cursor, copies, disposing>>

\* wait() looks at its predicate with the mutex held, then returns or sleeps.
WaitCheck(c) ==
  /\ MutexFree
  /\ calls[c].phase = "checking"
  /\ calls' = [calls EXCEPT ![c] =
                 IF Settled(jobs[calls[c].job]) THEN Idle
                 ELSE [calls[c] EXCEPT !.phase = "sleeping"]]
  /\ UNCHANGED <<clock, jobs, next_id, queue, reservations, events, accepting, stopping,
                 coordinator, cursor, copies, made, disposing>>

\* wait_for's timeout runs out.
WaitTimeout(c) ==
  /\ MutexFree
  /\ calls[c].phase = "sleeping"
  /\ calls' = [calls EXCEPT ![c] = Idle]
  /\ UNCHANGED <<clock, jobs, next_id, queue, reservations, events, accepting, stopping,
                 coordinator, cursor, copies, made, disposing>>

\* shutdown() closes the mailbox once; later calls only wait and report.
CloseMailbox ==
  /\ Post([kind |-> "shutdown", at |-> clock])
  /\ accepting' = FALSE
  /\ coordinator' = WokenCoordinator
  /\ calls' = WokenCalls(calls)

ShutdownCall(c) ==
  /\ MayCall(c)
  /\ accepting
  /\ CloseMailbox
  /\ UNCHANGED <<clock, jobs, next_id, queue, reservations, stopping, cursor, copies,
                 disposing>>

\* ~JobCoordinator, when no client is inside a call any more.
DisposeBegin ==
  /\ MutexFree
  /\ disposing = "no"
  /\ \A c \in Clients : calls[c].phase = "idle"
  /\ disposing' = "begun"
  /\ IF accepting THEN CloseMailbox
                  ELSE UNCHANGED <<events, accepting, coordinator, calls>>
  /\ UNCHANGED <<clock, jobs, next_id, queue, reservations, stopping, cursor, copies, made>>

\* coordinator.join(), then every callable still held is released.
DisposeEnd ==
  /\ disposing = "begun"
  /\ coordinator = "finished"
  /\ disposing' = "done"
  /\ jobs' = [j \in JobId |-> [jobs[j] EXCEPT !.worker = "gone"]]
  /\ UNCHANGED <<clock, next_id, queue, reservations, events, accepting, stopping,
                 coordinator, cursor, copies, calls, made>>

-----------------------------------------------------------------------------
(* Worker threads: the wrapper schedule() starts.                          *)

WorkerReturn(j, completion) ==
  /\ MutexFree
  /\ jobs[j].thread = "running"
  /\ jobs' = [jobs EXCEPT ![j].thread = "returned"]
  /\ Post([kind |-> "returned", at |-> clock, job |-> j, completion |-> completion])
  /\ UNCHANGED <<clock, next_id, queue, reservations, accepting, stopping, coordinator,
                 cursor, copies, calls, made, disposing>>

WorkerNotify(j) ==
  /\ jobs[j].thread = "returned"
  /\ jobs' = [jobs EXCEPT ![j].thread = "exited"]
  /\ coordinator' = WokenCoordinator
  /\ calls' = WokenCalls(calls)
  /\ UNCHANGED <<clock, next_id, queue, reservations, events, accepting, stopping, cursor,
                 copies, made, disposing>>

-----------------------------------------------------------------------------
(* run(): take the mutex, drain the mailbox.                               *)

Acquire ==
  /\ coordinator = "ready"
  /\ coordinator' = "draining"
  /\ UNCHANGED <<clock, jobs, next_id, queue, reservations, events, accepting, stopping,
                 cursor, copies, calls, made, disposing>>

ExpireBeforeEventMutant ==
  /\ coordinator = "draining" /\ events # <<>>
  /\ coordinator' = "applying"
  /\ UNCHANGED <<clock, jobs, next_id, queue, reservations, events, accepting, stopping,
                 cursor, copies, calls, made, disposing>>

\* The deadlines due when the event was posted take effect before the event.
ExpireBeforeEvent ==
  /\ coordinator = "draining" /\ events # <<>>
  /\ jobs' = Expire(jobs, Head(events).at)
  /\ coordinator' = "applying"
  /\ UNCHANGED <<clock, next_id, queue, reservations, events, accepting, stopping, cursor,
                 copies, calls, made, disposing>>

Applying(kind) ==
  /\ coordinator = "applying"
  /\ Head(events).kind = kind
  /\ events' = Tail(events)
  /\ coordinator' = "draining"

Admissible(r) ==
  /\ r.capture \in Captures
  /\ r.worker
  /\ r.gpu \in Gpus
  /\ \A j \in JobId : jobs[j].state # "absent" => jobs[j].capture # r.capture
  /\ next_id <= MaxJobs

Answer(c, j, reply) == calls' = [calls EXCEPT ![c].job = j, ![c].reply = reply]

EnqueuedMutant(q, j) == <<j>> \o q
Enqueued(q, j) == Append(q, j)

ApplySubmit ==
  /\ Applying("submit")
  /\ copies' = TRUE
  /\ LET event == Head(events)
         r     == event.request
     IN IF Admissible(r)
        THEN /\ jobs' = [jobs EXCEPT ![next_id] =
                           [NoEntry EXCEPT !.state = "queued", !.capture = r.capture,
                                           !.gpu = r.gpu, !.submitted_at = event.at,
                                           !.deadline = r.deadline, !.worker = "held"]]
             /\ queue' = Enqueued(queue, next_id)
             /\ next_id' = next_id + 1
             /\ Answer(event.client, next_id, "identity")
        ELSE /\ Answer(event.client, NoJob, "rejected")
             /\ UNCHANGED <<jobs, queue, next_id>>
  /\ UNCHANGED <<clock, reservations, accepting, stopping, cursor, made, disposing>>

CancelResult(e) ==
  IF e.state = "absent" THEN "not_found"
  ELSE IF e.state \in Terminal THEN "already_terminal"
  ELSE IF e.stop_reason # "none" THEN "already_requested"
  ELSE "requested"

ApplyCancel ==
  /\ Applying("cancel")
  /\ LET event == Head(events)
         e     == jobs[event.job]
     IN /\ Answer(event.client, event.job, CancelResult(e))
        /\ jobs' = IF CancelResult(e) # "requested" THEN jobs
                   ELSE [jobs EXCEPT ![event.job] =
                           IF e.state = "queued"
                           THEN FinishQueued(e, "cancelled", "cancellation", event.at)
                           ELSE RequestStop(e, "cancellation")]
  /\ UNCHANGED <<clock, next_id, queue, reservations, accepting, stopping, cursor, copies,
                 made, disposing>>

StopForShutdown(e, when) ==
  IF e.state = "queued" THEN FinishQueued(e, "cancelled", "shutdown", when)
  ELSE IF e.state = "running" THEN RequestStop(e, "shutdown")
  ELSE e

ApplyShutdown ==
  /\ Applying("shutdown")
  /\ stopping' = TRUE
  /\ jobs' = [j \in JobId |-> StopForShutdown(jobs[j], Head(events).at)]
  /\ UNCHANGED <<clock, next_id, queue, reservations, accepting, cursor, copies, calls,
                 made, disposing>>

\* The completion as accepted before any stop reason is looked at.
AcceptedCleanup(done) == done.valid /\ ~done.exception /\ done.cleanup_confirmed
AcceptedState(done) == IF AcceptedCleanup(done) THEN done.outcome ELSE "failed"

CompletedMutant(e, done, when) ==
  [e EXCEPT !.state = AcceptedState(done), !.cleanup_confirmed = AcceptedCleanup(done),
            !.finished_at = when, !.handle = "finished"]

\* A stop reason decides the state whatever the callback reported.
Completed(e, done, when) ==
  [e EXCEPT !.state = IF e.stop_reason = "none" THEN AcceptedState(done)
                      ELSE IF e.stop_reason = "deadline" THEN "timed_out"
                      ELSE "cancelled",
            !.cleanup_confirmed = AcceptedCleanup(done),
            !.finished_at = when,
            !.handle = "finished"]

Expects(e) == e.state = "running" /\ e.worker_running /\ e.handle = "entry"

ApplyReturned ==
  /\ Applying("returned")
  /\ LET event == Head(events)
         j     == event.job
     IN jobs' = IF Expects(jobs[j])
                THEN [jobs EXCEPT ![j] = Completed(jobs[j], event.completion, event.at)]
                ELSE jobs
  /\ UNCHANGED <<clock, next_id, queue, reservations, accepting, stopping, cursor, copies,
                 calls, made, disposing>>

-----------------------------------------------------------------------------
(* run(): the mailbox is empty; expire, schedule, decide.                  *)

Drained ==
  /\ coordinator = "draining" /\ events = <<>>
  /\ jobs' = Expire(jobs, clock)
  /\ coordinator' = IF stopping THEN "deciding" ELSE "scheduling"
  /\ cursor' = 1
  /\ UNCHANGED <<clock, next_id, queue, reservations, events, accepting, stopping, copies,
                 calls, made, disposing>>

AtCursor == queue[cursor]

Visiting ==
  /\ coordinator = "scheduling"
  /\ cursor <= Len(queue)

\* erase() leaves the iterator at the next element.
ScheduleSkipFinished ==
  /\ Visiting
  /\ jobs[AtCursor].state # "queued"
  /\ queue' = RemoveAt(queue, cursor)
  /\ UNCHANGED <<clock, jobs, next_id, reservations, events, accepting, stopping,
                 coordinator, cursor, copies, calls, made, disposing>>

ScheduleExpired ==
  /\ Visiting
  /\ jobs[AtCursor].state = "queued"
  /\ Expired(jobs[AtCursor].deadline, clock)
  /\ jobs' = [jobs EXCEPT ![AtCursor] =
                FinishQueued(@, "timed_out", "deadline", @.deadline)]
  /\ queue' = RemoveAt(queue, cursor)
  /\ UNCHANGED <<clock, next_id, reservations, events, accepting, stopping, coordinator,
                 cursor, copies, calls, made, disposing>>

Schedulable ==
  /\ Visiting
  /\ jobs[AtCursor].state = "queued"
  /\ ~Expired(jobs[AtCursor].deadline, clock)

ScheduleBusy ==
  /\ Schedulable
  /\ reservations[jobs[AtCursor].gpu] # NoJob
  /\ cursor' = cursor + 1
  /\ UNCHANGED <<clock, jobs, next_id, queue, reservations, events, accepting, stopping,
                 coordinator, copies, calls, made, disposing>>

ScheduleLaunch ==
  /\ Schedulable
  /\ reservations[jobs[AtCursor].gpu] = NoJob
  /\ jobs' = [jobs EXCEPT ![AtCursor] =
                [@ EXCEPT !.state = "running", !.launched = TRUE,
                          !.cleanup_confirmed = FALSE, !.gpu_reserved = TRUE,
                          !.worker_running = TRUE, !.thread = "running",
                          !.handle = "entry"]]
  /\ reservations' = [reservations EXCEPT ![jobs[AtCursor].gpu] = AtCursor]
  /\ queue' = RemoveAt(queue, cursor)
  /\ UNCHANGED <<clock, next_id, events, accepting, stopping, coordinator, cursor, copies,
                 calls, made, disposing>>

\* std::thread's constructor throws: the reservation taken is given back.
ScheduleLaunchFails ==
  /\ Schedulable
  /\ reservations[jobs[AtCursor].gpu] = NoJob
  /\ jobs' = [jobs EXCEPT ![AtCursor] =
                Retire([@ EXCEPT !.state = "failed", !.launched = TRUE,
                                 !.finished_at = clock])]
  /\ queue' = RemoveAt(queue, cursor)
  /\ UNCHANGED <<clock, next_id, reservations, events, accepting, stopping, coordinator,
                 cursor, copies, calls, made, disposing>>

\* The notify_all() of the locked part falls here, when schedule() is through.
ScheduleDone ==
  /\ coordinator = "scheduling"
  /\ cursor > Len(queue)
  /\ coordinator' = "deciding"
  /\ UNCHANGED <<clock, jobs, next_id, queue, reservations, events, accepting, stopping,
                 cursor, copies, calls, made, disposing>>

\* All four vectors of Actions but finalizing, which never stands alone.
NoActions ==
  /\ ~copies
  /\ \A j \in JobId : /\ jobs[j].stop # "pending"
                      /\ jobs[j].handle # "finished"
                      /\ jobs[j].worker # "releasing"

AnyWorkers == \E j \in JobId : jobs[j].worker_running

AfterDecision ==
  IF ~NoActions THEN "stopping"
  ELSE IF stopping /\ ~AnyWorkers THEN "finished"
  ELSE "waiting"

Decide ==
  /\ coordinator = "deciding"
  /\ coordinator' = AfterDecision
  /\ calls' = WokenCalls(calls)
  /\ UNCHANGED <<clock, jobs, next_id, queue, reservations, events, accepting, stopping,
                 cursor, copies, made, disposing>>

TimedMutant(e) == e.state = "running" /\ e.stop_reason = "none"

\* next_deadline(): the coordinator sleeps until the earliest of these.
Timed(e) == e.state = "queued" \/ (e.state = "running" /\ e.stop_reason = "none")

DeadlineWake ==
  /\ coordinator = "waiting"
  /\ \E j \in JobId : Timed(jobs[j]) /\ Expired(jobs[j].deadline, clock)
  /\ coordinator' = "ready"
  /\ UNCHANGED <<clock, jobs, next_id, queue, reservations, events, accepting, stopping,
                 cursor, copies, calls, made, disposing>>

SpuriousWake ==
  /\ SpuriousWakes
  /\ coordinator = "waiting"
  /\ coordinator' = "ready"
  /\ UNCHANGED <<clock, jobs, next_id, queue, reservations, events, accepting, stopping,
                 cursor, copies, calls, made, disposing>>

-----------------------------------------------------------------------------
(* run(): the mutex is released; stop, join, release, finalize.            *)

Stops == {j \in JobId : jobs[j].stop = "pending"}
Finished == {j \in JobId : jobs[j].handle = "finished"}

StopOne(j) ==
  /\ coordinator = "stopping" /\ j \in Stops
  /\ jobs' = [jobs EXCEPT ![j].stop = "requested"]
  /\ UNCHANGED <<clock, next_id, queue, reservations, events, accepting, stopping,
                 coordinator, cursor, copies, calls, made, disposing>>

StopsDone ==
  /\ coordinator = "stopping" /\ Stops = {}
  /\ coordinator' = "joining"
  /\ UNCHANGED <<clock, jobs, next_id, queue, reservations, events, accepting, stopping,
                 cursor, copies, calls, made, disposing>>

JoinedMutant(e) ==
  Retire([e EXCEPT !.handle = "none", !.worker_running = FALSE,
                   !.gpu_reserved = ~e.cleanup_confirmed])

\* The entry once its thread is joined: only confirmed cleanup retires it.
Joined(e) ==
  LET joined == [e EXCEPT !.handle = "none", !.worker_running = FALSE]
  IN IF e.cleanup_confirmed THEN Retire([joined EXCEPT !.gpu_reserved = FALSE]) ELSE joined

ReleasedReservationsMutant(res, e) == [res EXCEPT ![e.gpu] = NoJob]

ReleasedReservations(res, e) ==
  IF e.cleanup_confirmed THEN [res EXCEPT ![e.gpu] = NoJob] ELSE res

Join(j) ==
  /\ coordinator = "joining" /\ j \in Finished
  /\ jobs[j].thread = "exited"
  /\ jobs' = [jobs EXCEPT ![j] = Joined(@)]
  /\ reservations' = ReleasedReservations(reservations, jobs[j])
  /\ calls' = WokenCalls(calls)
  /\ UNCHANGED <<clock, next_id, queue, events, accepting, stopping, coordinator, cursor,
                 copies, made, disposing>>

JoinsDone ==
  /\ coordinator = "joining" /\ Finished = {}
  /\ coordinator' = "releasing"
  /\ UNCHANGED <<clock, jobs, next_id, queue, reservations, events, accepting, stopping,
                 cursor, copies, calls, made, disposing>>

\* actions.release.clear(): ownership destructors run without the mutex.
ReleaseCallables ==
  /\ coordinator = "releasing"
  /\ jobs' = [j \in JobId |-> IF jobs[j].worker = "releasing"
                              THEN [jobs[j] EXCEPT !.worker = "gone"] ELSE jobs[j]]
  /\ copies' = FALSE
  /\ coordinator' = "finalizing"
  /\ UNCHANGED <<clock, next_id, queue, reservations, events, accepting, stopping, cursor,
                 calls, made, disposing>>

Finalize ==
  /\ coordinator = "finalizing"
  /\ jobs' = [j \in JobId |-> [jobs[j] EXCEPT !.finalization_pending = FALSE]]
  /\ coordinator' = "ready"
  /\ calls' = WokenCalls(calls)
  /\ UNCHANGED <<clock, next_id, queue, reservations, events, accepting, stopping, cursor,
                 copies, made, disposing>>

-----------------------------------------------------------------------------
\* The facade is gone: nothing is left to do.
Terminated == disposing = "done" /\ UNCHANGED vars

ClientStep(c) ==
  \/ \E r \in Requests : SubmitCall(c, r)
  \/ \E j \in CancelTargets : CancelCall(c, j)
  \/ \E j \in WaitTargets : WaitCall(c, j)
  \/ ShutdownCall(c)
  \/ Notify(c) \/ TakeReply(c) \/ WaitCheck(c) \/ WaitTimeout(c)

WorkerStep(j) ==
  \/ \E completion \in Completions : WorkerReturn(j, completion)
  \/ WorkerNotify(j)

CoordinatorStep ==
  \/ Acquire \/ ExpireBeforeEvent
  \/ ApplySubmit \/ ApplyCancel \/ ApplyShutdown \/ ApplyReturned
  \/ Drained
  \/ ScheduleSkipFinished \/ ScheduleExpired \/ ScheduleBusy
  \/ ScheduleLaunch \/ ScheduleLaunchFails \/ ScheduleDone
  \/ Decide \/ DeadlineWake
  \/ \E j \in JobId : StopOne(j) \/ Join(j)
  \/ StopsDone \/ JoinsDone \/ ReleaseCallables \/ Finalize

Next ==
  \/ Tick
  \/ \E c \in Clients : ClientStep(c)
  \/ \E j \in JobId : WorkerStep(j)
  \/ CoordinatorStep \/ SpuriousWake
  \/ DisposeBegin \/ DisposeEnd
  \/ Terminated

Spec == Init /\ [][Next]_vars

\* A thread that can run runs.  A callback is only obliged to return once its
\* stop token has been set (the contract stated in Jobs.hpp); nobody is
\* obliged to call anything, and timeouts are not relied upon.
Fairness ==
  /\ WF_vars(CoordinatorStep) /\ WF_vars(DisposeEnd)
  /\ \A c \in Clients : WF_vars(Notify(c)) /\ WF_vars(TakeReply(c)) /\ WF_vars(WaitCheck(c))
  /\ \A j \in JobId :
       /\ WF_vars(WorkerNotify(j))
       /\ WF_vars(jobs[j].stop = "requested" /\ \E d \in Completions : WorkerReturn(j, d))

FairSpec == Spec /\ Fairness

-----------------------------------------------------------------------------
(* Types.                                                                  *)

EntryType ==
  [state : {"absent", "queued", "running"} \cup Terminal, capture : Captures \cup {""},
   gpu : Gpus \cup {""}, submitted_at : Nat, deadline : Nat, launched : BOOLEAN,
   finished_at : Nat, stop_reason : Reason \cup {"none"}, worker_running : BOOLEAN,
   finalization_pending : BOOLEAN, cleanup_confirmed : BOOLEAN, gpu_reserved : BOOLEAN,
   worker : {"held", "releasing", "gone"}, stop : {"idle", "pending", "requested"},
   thread : {"none", "running", "returned", "exited"}, handle : {"none", "entry", "finished"}]

EventType ==
  [kind : {"submit"}, at : Nat, client : Clients, request : Requests]
    \cup [kind : {"cancel"}, at : Nat, client : Clients, job : JobId]
    \cup [kind : {"shutdown"}, at : Nat]
    \cup [kind : {"returned"}, at : Nat, job : JobId, completion : CompletionType]

CallType ==
  [phase : {"idle", "posted", "blocked", "checking", "sleeping"}, job : JobId \cup {NoJob},
   reply : Reply]

\* Type invariant.  schedule()'s iterator never runs past the end of the queue,
\* which erasing while iterating (Jobs.cpp:364-421) could make it do.
TypeOK ==
  /\ clock \in Nat
  /\ jobs \in [JobId -> EntryType]
  /\ next_id \in 1..(MaxJobs + 1)
  /\ queue \in Seq(JobId)
  /\ reservations \in [Gpus -> JobId \cup {NoJob}]
  /\ events \in Seq(EventType)
  /\ accepting \in BOOLEAN /\ stopping \in BOOLEAN /\ copies \in BOOLEAN
  /\ coordinator \in Locked \cup Unlocked
  /\ cursor \in Nat \ {0}
  /\ coordinator = "scheduling" => cursor <= Len(queue) + 1
  /\ calls \in [Clients -> CallType]
  /\ made \in Nat
  /\ disposing \in {"no", "begun", "done"}

-----------------------------------------------------------------------------
(* Safety.                                                                 *)

\* A job occupies its GPU from its launch until its thread is gone and its
\* processes are confirmed gone; it may be quarantined there forever.
Occupies(j) ==
  /\ jobs[j].launched
  /\ \/ jobs[j].thread \in {"running", "returned"}
     \/ jobs[j].worker_running
     \/ ~jobs[j].cleanup_confirmed

\* Two jobs never occupy one GPU at a time, whatever a callback reports about
\* its cleanup and however its end races stops, deadlines and new submissions.
GpuExclusive ==
  \A i, j \in JobId :
    Occupies(i) /\ Occupies(j) /\ jobs[i].gpu = jobs[j].gpu => i = j

\* A stopped job's final state is the one its stop reason names: a success
\* the worker reports afterwards does not override it (Jobs.hpp:72-73).
StopReasonDecides ==
  \A j \in JobId :
    jobs[j].state \in Terminal /\ jobs[j].stop_reason # "none" =>
      jobs[j].state = IF jobs[j].stop_reason = "deadline" THEN "timed_out" ELSE "cancelled"

\* What JobSnapshot shows of an entry.
Snapshot(e) ==
  [state |-> e.state, stop_reason |-> e.stop_reason, finished_at |-> e.finished_at,
   worker_running |-> e.worker_running, finalization_pending |-> e.finalization_pending,
   cleanup_confirmed |-> e.cleanup_confirmed, gpu_reserved |-> e.gpu_reserved]

\* The first stop reason and the first final state are the last ones, whatever
\* deadline, cancellation, shutdown or completion comes later; and what wait()
\* returns before its timeout is the last word: no field of that job's
\* snapshot changes afterwards.
SettledForever ==
  [][\A j \in JobId :
       /\ jobs[j].stop_reason # "none" => jobs'[j].stop_reason = jobs[j].stop_reason
       /\ jobs[j].state \in Terminal =>
            jobs'[j].state = jobs[j].state /\ jobs'[j].finished_at = jobs[j].finished_at
       /\ Settled(jobs[j]) => Snapshot(jobs'[j]) = Snapshot(jobs[j])]_vars

\* The callable is held until the job has ended, its thread is joined and its
\* cleanup is confirmed, or until the coordinator is destroyed; and a job
\* wait() calls settled with confirmed cleanup has released it.
CallableLifetime ==
  \A j \in JobId :
    /\ jobs[j].state # "absent" /\ jobs[j].worker # "held" =>
         /\ jobs[j].state \in Terminal
         /\ jobs[j].thread \in {"none", "exited"} /\ jobs[j].handle = "none"
         /\ jobs[j].cleanup_confirmed \/ disposing = "done"
    /\ Settled(jobs[j]) /\ jobs[j].cleanup_confirmed => jobs[j].worker = "gone"

\* Deadlines are absolute: a request that was too late when it was accepted
\* never launches, and a job that succeeded had posted its completion
\* strictly before its deadline, however late the mailbox was drained.
DeadlineRespected ==
  \A j \in JobId :
    /\ jobs[j].launched => jobs[j].submitted_at < jobs[j].deadline
    /\ jobs[j].state = "succeeded" => jobs[j].finished_at < jobs[j].deadline

-----------------------------------------------------------------------------
(* The inductive invariant behind the safety properties.                   *)

\* How the fields of an entry go together in each state.
Absent(e)  ==
  /\ e.state = "absent" /\ ~e.launched /\ e.stop_reason = "none" /\ e.stop = "idle"
  /\ e.worker = "gone" /\ e.thread = "none" /\ e.handle = "none" /\ e.cleanup_confirmed
  /\ ~e.worker_running /\ ~e.gpu_reserved /\ ~e.finalization_pending
Queued(e)  ==
  /\ e.state = "queued" /\ ~e.launched /\ e.stop_reason = "none" /\ e.stop = "idle"
  /\ e.worker = "held" /\ e.thread = "none" /\ e.handle = "none" /\ e.cleanup_confirmed
  /\ ~e.worker_running /\ ~e.gpu_reserved /\ ~e.finalization_pending
Running(e) ==
  /\ e.state = "running" /\ e.launched /\ e.handle = "entry" /\ e.thread # "none"
  /\ ~e.cleanup_confirmed /\ e.worker_running /\ e.gpu_reserved
  /\ e.worker = "held" /\ ~e.finalization_pending
Ended(e)   ==
  /\ e.state \in Terminal
  /\ e.handle = "finished" =>
       e.launched /\ e.thread \in {"returned", "exited"} /\ e.worker_running
       /\ e.gpu_reserved /\ e.worker = "held" /\ ~e.finalization_pending
  /\ e.handle # "finished" =>
       e.handle = "none" /\ e.thread \in {"none", "exited"} /\ ~e.worker_running
       /\ (e.gpu_reserved <=> ~e.cleanup_confirmed)
       /\ (e.worker = "held" => ~e.cleanup_confirmed /\ ~e.finalization_pending)
       /\ (e.worker = "releasing" => e.finalization_pending)

EntryInv == \A j \in JobId :
  Absent(jobs[j]) \/ Queued(jobs[j]) \/ Running(jobs[j]) \/ Ended(jobs[j])

\* The map holds the IDs given out so far, each with a configured GPU.
IdInv == \A j \in JobId :
  IF j < next_id THEN jobs[j].state # "absent" /\ jobs[j].gpu \in Gpus
                 ELSE jobs[j].state = "absent"

\* gpu_reserved and the reservations map tell the same story.
ReservationInv == \A j \in JobId : jobs[j].gpu_reserved => reservations[jobs[j].gpu] = j

\* A completion in the mailbox comes from a callback that has returned; the
\* Shutdown event is the last command, and no job is queued once it is applied.
MailboxInv ==
  /\ coordinator = "applying" => events # <<>>
  /\ \A i \in 1..Len(events) :
       events[i].kind = "returned" => jobs[events[i].job].thread \in {"returned", "exited"}
  /\ \A i, k \in 1..Len(events) :
       events[i].kind = "shutdown" /\ events[k].kind = "submit" => k < i
  /\ accepting => ~stopping /\ \A i \in 1..Len(events) : events[i].kind # "shutdown"
  /\ stopping => /\ \A i \in 1..Len(events) : events[i].kind # "submit"
                 /\ \A j \in JobId : jobs[j].state # "queued"

\* Where run() is tells what it has finished.
PhaseInv ==
  /\ coordinator = "finalizing" => \A j \in JobId : jobs[j].worker # "releasing"
  /\ coordinator = "finished" => stopping /\ ~AnyWorkers
  /\ disposing = "done" => coordinator = "finished"

\* A callable leaves its entry only after confirmed cleanup or at destruction.
CallableInv == \A j \in JobId :
  jobs[j].worker # "held" => jobs[j].cleanup_confirmed \/ disposing = "done"

IInv == /\ TypeOK /\ EntryInv /\ IdInv /\ ReservationInv /\ MailboxInv /\ PhaseInv
        /\ CallableInv /\ StopReasonDecides

\* The queue lists jobs oldest first, every queued one among them; those
\* schedule() has passed over in this round wait for a busy GPU.
QueueInv ==
  /\ \A i, k \in 1..Len(queue) : i < k => queue[i] < queue[k]
  /\ \A i \in 1..Len(queue) : queue[i] < next_id
  /\ \A j \in JobId : jobs[j].state = "queued" => \E i \in 1..Len(queue) : queue[i] = j
  /\ coordinator = "scheduling" =>
       \A i \in 1..Len(queue) : i < cursor => reservations[jobs[queue[i]].gpu] # NoJob

\* Nothing is dated in the future; a job launches before its deadline, and an
\* event about to be applied finds no running job late but unasked to stop.
DeadlineInv ==
  /\ \A i \in 1..Len(events) : events[i].at <= clock
  /\ \A j \in JobId : jobs[j].submitted_at <= clock
  /\ coordinator = "applying" =>
       \A j \in JobId : jobs[j].state = "running" /\ jobs[j].deadline <= Head(events).at =>
         jobs[j].stop_reason # "none"
  /\ DeadlineRespected

-----------------------------------------------------------------------------
(* Liveness, under FairSpec.                                               *)

\* A deadline takes effect although nobody posts anything: a queued job ends
\* and a running one is told to stop.
DeadlineEnforced ==
  \A j \in JobId :
    (jobs[j].state \in {"queued", "running"} /\ Expired(jobs[j].deadline, clock)) ~>
      (jobs[j].state \in Terminal \/ jobs[j].stop = "requested")

\* Destruction ends: queued jobs are cancelled, running workers are told to
\* stop and joined, and the coordinator thread returns.
DisposeCompletes == (disposing = "begun") ~> (disposing = "done")

-----------------------------------------------------------------------------
(* The coordinator implements GpuLease.                                    *)

LeasePhase(state) ==
  CASE state = "absent"  -> "absent"
    [] state = "queued"  -> "waiting"
    [] state = "running" -> "active"
    [] OTHER             -> "ended"

Lease == INSTANCE GpuLease WITH
  phase  <- [j \in JobId |-> LeasePhase(jobs[j].state)],
  gpu    <- [j \in JobId |-> jobs[j].gpu],
  reason <- [j \in JobId |-> jobs[j].stop_reason],
  clean  <- [j \in JobId |-> jobs[j].cleanup_confirmed],
  holder <- reservations

\* Every pass of the coordinator is a series of the lease's steps.
ImplementsLease == Lease!Spec
=============================================================================
