----------------------------- MODULE JobsProofs -----------------------------
(***************************************************************************)
(* Proofs about Jobs: the inductive invariant and what follows from it,    *)
(* that deadlines are absolute although events are applied late, and that  *)
(* an outcome is final although clients, workers and the coordinator go on.*)
(***************************************************************************)
EXTENDS Jobs, TLAPS

LEMMA IdFacts == MaxJobs \in Nat /\ MaxJobs >= 1 /\ NoJob \notin JobId /\ JobId \subseteq Nat
BY JobsAssumption DEF JobsAssumption, JobId, NoJob

LEMMA NoEntryType == NoEntry \in EntryType
BY DEF NoEntry, EntryType, Terminal, Outcome, Reason

LEMMA NoEntryFields ==
  /\ NoEntry.state = "absent" /\ NoEntry.handle = "none" /\ NoEntry.thread = "none"
  /\ NoEntry.worker = "gone" /\ NoEntry.cleanup_confirmed /\ ~NoEntry.gpu_reserved
  /\ ~NoEntry.worker_running /\ NoEntry.stop_reason = "none" /\ ~NoEntry.launched
  /\ NoEntry.stop = "idle" /\ ~NoEntry.finalization_pending
BY DEF NoEntry

LEMMA FieldType ==
  ASSUME NEW e \in EntryType
  PROVE  /\ [e EXCEPT !.worker = "gone"] \in EntryType
         /\ [e EXCEPT !.finalization_pending = FALSE] \in EntryType
         /\ [e EXCEPT !.stop = "requested"] \in EntryType
         /\ [e EXCEPT !.thread = "returned"] \in EntryType
         /\ [e EXCEPT !.thread = "exited"] \in EntryType
<1>1. [e EXCEPT !.worker = "gone"] \in EntryType
  BY ZenonT(60) DEF EntryType
<1>2. [e EXCEPT !.finalization_pending = FALSE] \in EntryType
  BY ZenonT(60) DEF EntryType
<1>3. [e EXCEPT !.stop = "requested"] \in EntryType
  BY ZenonT(60) DEF EntryType
<1>4. [e EXCEPT !.thread = "returned"] \in EntryType
  BY ZenonT(60) DEF EntryType
<1>5. [e EXCEPT !.thread = "exited"] \in EntryType
  BY ZenonT(60) DEF EntryType
<1> QED
  BY <1>1, <1>2, <1>3, <1>4, <1>5

LEMMA RetireType == ASSUME NEW e \in EntryType PROVE Retire(e) \in EntryType
<1>1. [e EXCEPT !.worker = "releasing", !.finalization_pending = TRUE] \in EntryType
  BY ZenonT(60) DEF EntryType
<1> QED
  BY <1>1, Zenon DEF Retire

LEMMA FinishQueuedType ==
  ASSUME NEW e \in EntryType, NEW state \in Terminal, NEW reason \in Reason, NEW when \in Nat
  PROVE  FinishQueued(e, state, reason, when) \in EntryType
<1>1. [e EXCEPT !.state = state, !.stop_reason = reason, !.finished_at = when] \in EntryType
  BY ZenonT(60) DEF EntryType
<1> QED
  BY <1>1, RetireType, Zenon DEF FinishQueued

LEMMA RequestStopType ==
  ASSUME NEW e \in EntryType, NEW reason \in Reason
  PROVE  RequestStop(e, reason) \in EntryType
<1>1. [e EXCEPT !.stop_reason = reason, !.stop = "pending"] \in EntryType
  BY ZenonT(60) DEF EntryType
<1> QED
  BY <1>1, Zenon DEF RequestStop

LEMMA StopForShutdownType ==
  ASSUME NEW e \in EntryType, NEW when \in Nat
  PROVE  StopForShutdown(e, when) \in EntryType
<1>1. "cancelled" \in Terminal /\ "shutdown" \in Reason
  BY DEF Terminal, Outcome, Reason
<1> QED
  BY <1>1, FinishQueuedType, RequestStopType, Zenon DEF StopForShutdown

LEMMA ExpireType ==
  ASSUME NEW js \in [JobId -> EntryType], NEW when \in Nat
  PROVE  Expire(js, when) \in [JobId -> EntryType]
<1> SUFFICES ASSUME NEW j \in JobId PROVE Expire(js, when)[j] \in EntryType
  BY DEF Expire
<1>1. js[j] \in EntryType /\ js[j].deadline \in Nat
  BY DEF EntryType
<1>2. "timed_out" \in Terminal /\ "deadline" \in Reason
  BY DEF Terminal, Outcome, Reason
<1>3. /\ FinishQueued(js[j], "timed_out", "deadline", js[j].deadline) \in EntryType
      /\ RequestStop(js[j], "deadline") \in EntryType
  BY <1>1, <1>2, FinishQueuedType, RequestStopType, Zenon
<1> QED
  BY <1>1, <1>3, Zenon DEF Expire

LEMMA CompletedType ==
  ASSUME NEW e \in EntryType, NEW done \in CompletionType, NEW when \in Nat
  PROVE  Completed(e, done, when) \in EntryType
<1>1. AcceptedCleanup(done) \in BOOLEAN /\ AcceptedState(done) \in Terminal
  BY DEF AcceptedCleanup, AcceptedState, CompletionType, Terminal, Outcome
<1> DEFINE state == IF e.stop_reason = "none" THEN AcceptedState(done)
                    ELSE IF e.stop_reason = "deadline" THEN "timed_out" ELSE "cancelled"
<1>2. state \in Terminal
  BY <1>1 DEF Terminal, Outcome
<1>3. Completed(e, done, when) =
        [e EXCEPT !.state = state, !.cleanup_confirmed = AcceptedCleanup(done),
                  !.finished_at = when, !.handle = "finished"]
  BY DEF Completed
<1> HIDE DEF state
<1>4. [e EXCEPT !.state = state, !.cleanup_confirmed = AcceptedCleanup(done),
                !.finished_at = when, !.handle = "finished"] \in EntryType
  BY <1>1, <1>2, ZenonT(60) DEF EntryType
<1> QED
  BY <1>3, <1>4

LEMMA JoinedType == ASSUME NEW e \in EntryType PROVE Joined(e) \in EntryType
<1> DEFINE joined == [e EXCEPT !.handle = "none", !.worker_running = FALSE]
<1>1. joined \in EntryType
  BY ZenonT(60) DEF EntryType
<1>2. Joined(e) = IF e.cleanup_confirmed
                  THEN Retire([joined EXCEPT !.gpu_reserved = FALSE]) ELSE joined
  BY DEF Joined
<1> HIDE DEF joined
<1>3. [joined EXCEPT !.gpu_reserved = FALSE] \in EntryType
  BY <1>1, ZenonT(60) DEF EntryType
<1> QED
  BY <1>1, <1>2, <1>3, RetireType, Zenon

-----------------------------------------------------------------------------
(* The mailbox.                                                            *)

LEMMA WokenFacts ==
  ASSUME calls \in [Clients -> CallType], coordinator \in Locked \cup Unlocked
  PROVE  /\ WokenCoordinator \in Locked \cup Unlocked
         /\ WokenCalls(calls) \in [Clients -> CallType]
BY DEF WokenCoordinator, WokenCalls, Locked, Unlocked, CallType

LEMMA HeadType ==
  ASSUME events \in Seq(EventType), events # <<>>
  PROVE  /\ Head(events) \in EventType /\ Tail(events) \in Seq(EventType)
         /\ Head(events).at \in Nat
         /\ Head(events).kind = "submit" =>
              Head(events).client \in Clients /\ Head(events).request \in Requests
         /\ Head(events).kind = "cancel" =>
              Head(events).client \in Clients /\ Head(events).job \in JobId
         /\ Head(events).kind = "returned" =>
              Head(events).job \in JobId /\ Head(events).completion \in CompletionType
<1>1. Head(events) \in EventType /\ Tail(events) \in Seq(EventType)
  OBVIOUS
<1> QED
  BY <1>1 DEF EventType

LEMMA PostType ==
  ASSUME events \in Seq(EventType), NEW event \in EventType, Post(event)
  PROVE  events' \in Seq(EventType)
BY DEF Post

LEMMA RemoveAtFacts ==
  ASSUME queue \in Seq(JobId), cursor \in Nat \ {0}, cursor <= Len(queue)
  PROVE  /\ AtCursor \in JobId
         /\ RemoveAt(queue, cursor) \in Seq(JobId)
         /\ Len(RemoveAt(queue, cursor)) = Len(queue) - 1
         /\ \A i \in 1..(Len(queue) - 1) :
              RemoveAt(queue, cursor)[i] = IF i < cursor THEN queue[i] ELSE queue[i + 1]
<1> DEFINE front == SubSeq(queue, 1, cursor - 1)
           back  == SubSeq(queue, cursor + 1, Len(queue))
<1>1. /\ front \in Seq(JobId) /\ Len(front) = cursor - 1
      /\ \A i \in 1..(cursor - 1) : front[i] = queue[i]
  OBVIOUS
<1>2. /\ back \in Seq(JobId) /\ Len(back) = Len(queue) - cursor
      /\ \A i \in 1..(Len(queue) - cursor) : back[i] = queue[cursor + i]
  OBVIOUS
<1>3. RemoveAt(queue, cursor) = front \o back
  BY DEF RemoveAt
<1> HIDE DEF front, back
<1>0. Len(queue) \in Nat /\ cursor \in Nat /\ cursor >= 1
  OBVIOUS
<1>4. front \o back \in Seq(JobId) /\ Len(front \o back) = Len(queue) - 1
  <2>1. front \o back \in Seq(JobId) /\ Len(front \o back) = Len(front) + Len(back)
    BY <1>1, <1>2
  <2> QED
    BY <2>1, <1>0, <1>1, <1>2
<1>5. ASSUME NEW i \in 1..(Len(queue) - 1)
      PROVE  (front \o back)[i] = IF i < cursor THEN queue[i] ELSE queue[i + 1]
  <2>1. (front \o back)[i] = IF i <= Len(front) THEN front[i] ELSE back[i - Len(front)]
    BY <1>1, <1>2
  <2>0. i \in Nat /\ i >= 1
    BY <1>0
  <2>2. CASE i < cursor
    BY <2>0, <2>1, <2>2, <1>0, <1>1
  <2>3. CASE ~(i < cursor)
    <3>1. i - Len(front) \in 1..(Len(queue) - cursor) /\ cursor + (i - Len(front)) = i + 1
      BY <2>0, <2>3, <1>0, <1>1
    <3>2. i > Len(front)
      BY <2>0, <2>3, <1>0, <1>1
    <3>3. back[i - Len(front)] = queue[cursor + (i - Len(front))]
      BY <3>1, <1>2
    <3>4. (front \o back)[i] = back[i - Len(front)]
      BY <2>0, <2>1, <3>2, <1>0, <1>1
    <3> QED
      BY <2>3, <3>1, <3>3, <3>4
  <2> QED
    BY <2>2, <2>3
<1> QED
  BY <1>3, <1>4, <1>5 DEF AtCursor

-----------------------------------------------------------------------------
(* Types are kept by every action.                                         *)

LEMMA UpdateType ==
  ASSUME jobs \in [JobId -> EntryType], NEW j \in JobId, NEW e \in EntryType
  PROVE  [jobs EXCEPT ![j] = e] \in [JobId -> EntryType]
OBVIOUS

\* Every thread of the program but the coordinator.
LEMMA TypeStepClients ==
  ASSUME TypeOK, NEW c \in Clients, ClientStep(c)
  PROVE  TypeOK'
<1>1. ASSUME NEW r \in Requests, SubmitCall(c, r) PROVE TypeOK'
  <2> DEFINE event == [kind |-> "submit", at |-> clock, client |-> c, request |-> r]
  <2>1. event \in EventType
    BY DEF TypeOK, EventType
  <2>2. events \in Seq(EventType) /\ events' \in {events, Append(events, event)}
    BY <1>1 DEF TypeOK, SubmitCall, Post
  <2>3. /\ Call("posted", NoJob, "none") \in CallType
        /\ Call("blocked", NoJob, "shutting_down") \in CallType
    BY DEF Call, CallType, Reply
  <2> HIDE DEF event
  <2>4. events' \in Seq(EventType)
    BY <2>1, <2>2
  <2>5. /\ calls \in [Clients -> CallType]
        /\ \/ calls' = [calls EXCEPT ![c] = Call("posted", NoJob, "none")]
           \/ calls' = [calls EXCEPT ![c] = Call("blocked", NoJob, "shutting_down")]
    BY <1>1 DEF TypeOK, SubmitCall
  <2>6. calls' \in [Clients -> CallType]
    BY <2>3, <2>5
  <2> QED
    BY <1>1, <2>4, <2>6 DEF TypeOK, SubmitCall, MayCall
<1>2. ASSUME NEW j \in CancelTargets, CancelCall(c, j) PROVE TypeOK'
  <2>0. j \in JobId
    BY JobsAssumption DEF JobsAssumption
  <2> DEFINE event == [kind |-> "cancel", at |-> clock, client |-> c, job |-> j]
  <2>1. event \in EventType
    BY <2>0 DEF TypeOK, EventType
  <2>2. events \in Seq(EventType) /\ events' \in {events, Append(events, event)}
    BY <1>2 DEF TypeOK, CancelCall, Post
  <2>3. Call("posted", j, "none") \in CallType /\ Call("blocked", j, DirectCancel(j)) \in CallType
    BY <2>0 DEF Call, CallType, Reply, DirectCancel
  <2> HIDE DEF event
  <2>4. events' \in Seq(EventType)
    BY <2>1, <2>2
  <2>5. /\ calls \in [Clients -> CallType]
        /\ \/ calls' = [calls EXCEPT ![c] = Call("posted", j, "none")]
           \/ calls' = [calls EXCEPT ![c] = Call("blocked", j, DirectCancel(j))]
    BY <1>2 DEF TypeOK, CancelCall
  <2>6. calls' \in [Clients -> CallType]
    BY <2>3, <2>5
  <2> QED
    BY <1>2, <2>4, <2>6 DEF TypeOK, CancelCall, MayCall
<1>3. ASSUME NEW j \in WaitTargets, WaitCall(c, j) PROVE TypeOK'
  <2>1. calls' \in [Clients -> CallType]
    BY <1>3, JobsAssumption DEF JobsAssumption, TypeOK, WaitCall, Call, CallType, Reply
  <2> QED
    BY <1>3, <2>1 DEF TypeOK, WaitCall, MayCall
<1>4. ASSUME ShutdownCall(c) PROVE TypeOK'
  <2>1. [kind |-> "shutdown", at |-> clock] \in EventType
    BY DEF TypeOK, EventType
  <2>2. events' \in Seq(EventType)
    BY <1>4, <2>1 DEF TypeOK, ShutdownCall, CloseMailbox, Post
  <2>3. /\ coordinator' \in Locked \cup Unlocked /\ calls' \in [Clients -> CallType]
        /\ coordinator' = "scheduling" => coordinator = "scheduling"
    BY <1>4, WokenFacts DEF TypeOK, ShutdownCall, CloseMailbox, WokenCoordinator
  <2>4. made' \in Nat
    BY <1>4 DEF TypeOK, ShutdownCall, MayCall
  <2> QED
    BY <1>4, <2>2, <2>3, <2>4 DEF TypeOK, ShutdownCall, CloseMailbox
<1>5. ASSUME Notify(c) PROVE TypeOK'
  <2>1. [calls EXCEPT ![c].phase = "blocked"] \in [Clients -> CallType]
    BY DEF TypeOK, CallType
  <2>2. calls' \in [Clients -> CallType]
    BY <1>5, <2>1 DEF Notify, WokenCalls, CallType
  <2> QED
    BY <1>5, <2>2, WokenFacts DEF TypeOK, Notify, WokenCoordinator
<1>6. ASSUME TakeReply(c) \/ WaitCheck(c) \/ WaitTimeout(c) PROVE TypeOK'
  <2>1. calls \in [Clients -> CallType] /\ Idle \in CallType
    BY DEF TypeOK, Idle, Call, CallType, Reply
  <2>2. calls[c] \in CallType /\ [calls[c] EXCEPT !.phase = "sleeping"] \in CallType
    BY <2>1 DEF CallType
  <2>3. calls' \in [Clients -> CallType]
    BY <1>6, <2>1, <2>2 DEF TakeReply, WaitCheck, WaitTimeout
  <2> QED
    BY <1>6, <2>3 DEF TypeOK, TakeReply, WaitCheck, WaitTimeout
<1> QED
  BY <1>1, <1>2, <1>3, <1>4, <1>5, <1>6 DEF ClientStep

LEMMA TypeStepThreads ==
  ASSUME TypeOK,
         Tick \/ (\E j \in JobId : WorkerStep(j)) \/ DisposeBegin \/ DisposeEnd
  PROVE  TypeOK'
<1>1. ASSUME Tick PROVE TypeOK'
  BY <1>1 DEF TypeOK, Tick
<1>2. ASSUME NEW j \in JobId, NEW done \in Completions, WorkerReturn(j, done) PROVE TypeOK'
  <2>1. [jobs[j] EXCEPT !.thread = "returned"] \in EntryType
    BY FieldType DEF TypeOK
  <2>2. jobs' \in [JobId -> EntryType]
    BY <1>2, <2>1, UpdateType DEF TypeOK, WorkerReturn
  <2>3. [kind |-> "returned", at |-> clock, job |-> j, completion |-> done] \in EventType
    BY JobsAssumption DEF JobsAssumption, TypeOK, EventType
  <2>4. events' \in Seq(EventType)
    BY <1>2, <2>3 DEF TypeOK, WorkerReturn, Post
  <2> QED
    BY <1>2, <2>2, <2>4 DEF TypeOK, WorkerReturn
<1>3. ASSUME NEW j \in JobId, WorkerNotify(j) PROVE TypeOK'
  <2>1. [jobs[j] EXCEPT !.thread = "exited"] \in EntryType
    BY FieldType DEF TypeOK
  <2>2. jobs' \in [JobId -> EntryType]
    BY <1>3, <2>1, UpdateType DEF TypeOK, WorkerNotify
  <2> QED
    BY <1>3, <2>2, WokenFacts DEF TypeOK, WorkerNotify, WokenCoordinator
<1>4. ASSUME DisposeBegin PROVE TypeOK'
  <2>1. [kind |-> "shutdown", at |-> clock] \in EventType
    BY DEF TypeOK, EventType
  <2>2. /\ events \in Seq(EventType)
        /\ events' \in {events, Append(events, [kind |-> "shutdown", at |-> clock])}
    BY <1>4 DEF TypeOK, DisposeBegin, CloseMailbox, Post
  <2>3. /\ coordinator' \in Locked \cup Unlocked /\ calls' \in [Clients -> CallType]
        /\ coordinator' = "scheduling" => coordinator = "scheduling"
    BY <1>4, WokenFacts DEF TypeOK, DisposeBegin, CloseMailbox, WokenCoordinator
  <2>4. events' \in Seq(EventType)
    BY <2>1, <2>2
  <2> QED
    BY <1>4, <2>3, <2>4 DEF TypeOK, DisposeBegin, CloseMailbox
<1>5. ASSUME DisposeEnd PROVE TypeOK'
  <2>1. ASSUME NEW j \in JobId PROVE [jobs[j] EXCEPT !.worker = "gone"] \in EntryType
    BY FieldType DEF TypeOK
  <2>2. jobs' \in [JobId -> EntryType]
    BY <1>5, <2>1 DEF DisposeEnd
  <2> QED
    BY <1>5, <2>2 DEF TypeOK, DisposeEnd
<1> QED
  BY <1>1, <1>2, <1>3, <1>4, <1>5 DEF WorkerStep

\* The coordinator, mutex held: draining the mailbox.
LEMMA TypeStepMailbox ==
  ASSUME TypeOK, coordinator = "applying" => events # <<>>,
         ExpireBeforeEvent \/ ApplySubmit \/ ApplyCancel \/ ApplyShutdown \/ ApplyReturned
           \/ Drained
  PROVE  TypeOK'
<1>0. jobs \in [JobId -> EntryType] /\ events \in Seq(EventType) /\ calls \in [Clients -> CallType]
  BY DEF TypeOK
<1>1. ASSUME ExpireBeforeEvent PROVE TypeOK'
  <2>1. jobs' \in [JobId -> EntryType]
    BY <1>0, <1>1, HeadType, ExpireType DEF ExpireBeforeEvent
  <2> QED
    BY <1>1, <2>1 DEF TypeOK, ExpireBeforeEvent, Locked
<1>2. ASSUME Drained PROVE TypeOK'
  <2>1. jobs' \in [JobId -> EntryType]
    BY <1>0, <1>2, ExpireType DEF Drained, TypeOK
  <2>2. Len(queue) \in Nat
    BY DEF TypeOK
  <2> QED
    BY <1>2, <2>1, <2>2 DEF TypeOK, Drained, Locked
<1> DEFINE event == Head(events)
<1>3. ASSUME NEW kind, Applying(kind)
      PROVE  /\ events # <<>> /\ event \in EventType /\ events' \in Seq(EventType)
             /\ event.kind = kind /\ event.at \in Nat
             /\ coordinator' = "draining"
  BY <1>0, <1>3, HeadType DEF Applying
<1>4. ASSUME ApplySubmit PROVE TypeOK'
  <2>1. /\ events # <<>> /\ event.kind = "submit" /\ events' \in Seq(EventType)
        /\ coordinator' = "draining" /\ event.at \in Nat
    BY <1>3, <1>4 DEF ApplySubmit
  <2>2. event.client \in Clients /\ event.request \in Requests
    BY <1>0, <2>1, HeadType
  <2>3. CASE Admissible(event.request)
    <3> DEFINE r == event.request
               entry == [NoEntry EXCEPT !.state = "queued", !.capture = r.capture,
                                        !.gpu = r.gpu, !.submitted_at = event.at,
                                        !.deadline = r.deadline, !.worker = "held"]
    <3>1. next_id \in JobId /\ next_id + 1 \in 1..(MaxJobs + 1)
      BY <2>3, IdFacts DEF Admissible, TypeOK, JobId
    <3>2. r.capture \in Captures /\ r.gpu \in Gpus /\ r.deadline \in Nat
      BY <2>2, <2>3, JobsAssumption DEF JobsAssumption, RequestAssumption, Admissible
    <3>3. entry \in EntryType
      BY <2>1, <3>2, NoEntryType, ZenonT(60) DEF EntryType
    <3>4. /\ jobs' = [jobs EXCEPT ![next_id] = entry]
          /\ queue' = Append(queue, next_id) /\ next_id' = next_id + 1
          /\ calls' = [calls EXCEPT ![event.client].job = next_id, ![event.client].reply = "identity"]
      BY <1>4, <2>3 DEF ApplySubmit, Enqueued, Answer
    <3> HIDE DEF entry, r
    <3>5. jobs' \in [JobId -> EntryType]
      BY <1>0, <3>1, <3>3, <3>4
    <3>6. queue' \in Seq(JobId)
      BY <3>1, <3>4 DEF TypeOK
    <3>7. calls' \in [Clients -> CallType]
      BY <1>0, <2>2, <3>1, <3>4 DEF CallType, Reply
    <3> QED
      BY <1>4, <2>1, <3>1, <3>4, <3>5, <3>6, <3>7 DEF TypeOK, ApplySubmit, Locked
  <2>4. CASE ~Admissible(event.request)
    <3>1. /\ calls' = [calls EXCEPT ![event.client].job = NoJob, ![event.client].reply = "rejected"]
          /\ UNCHANGED <<jobs, queue, next_id>>
      BY <1>4, <2>4 DEF ApplySubmit, Answer
    <3>2. calls' \in [Clients -> CallType]
      BY <1>0, <2>2, <3>1 DEF CallType, Reply
    <3> QED
      BY <1>4, <2>1, <3>1, <3>2 DEF TypeOK, ApplySubmit, Locked
  <2> QED
    BY <2>3, <2>4
<1>5. ASSUME ApplyCancel PROVE TypeOK'
  <2>1. /\ events # <<>> /\ event.kind = "cancel" /\ events' \in Seq(EventType)
        /\ coordinator' = "draining" /\ event.at \in Nat
    BY <1>3, <1>5 DEF ApplyCancel
  <2>2. event.client \in Clients /\ event.job \in JobId
    BY <1>0, <2>1, HeadType
  <2> DEFINE e == jobs[event.job]
  <2>3. e \in EntryType /\ CancelResult(e) \in Reply
    BY <1>0, <2>2 DEF CancelResult, Reply
  <2>4. "cancelled" \in Terminal /\ "cancellation" \in Reason
    BY DEF Terminal, Outcome, Reason
  <2>5. /\ FinishQueued(e, "cancelled", "cancellation", event.at) \in EntryType
        /\ RequestStop(e, "cancellation") \in EntryType
    BY <2>1, <2>3, <2>4, FinishQueuedType, RequestStopType
  <2>6. /\ \/ jobs' = jobs
           \/ jobs' = [jobs EXCEPT ![event.job] = FinishQueued(e, "cancelled", "cancellation", event.at)]
           \/ jobs' = [jobs EXCEPT ![event.job] = RequestStop(e, "cancellation")]
        /\ calls' = [calls EXCEPT ![event.client].job = event.job,
                                  ![event.client].reply = CancelResult(e)]
    BY <1>5 DEF ApplyCancel, Answer
  <2> HIDE DEF e
  <2>7. jobs' \in [JobId -> EntryType]
    BY <1>0, <2>2, <2>5, <2>6
  <2>8. calls' \in [Clients -> CallType]
    BY <1>0, <2>2, <2>3, <2>6 DEF CallType
  <2> QED
    BY <1>5, <2>1, <2>7, <2>8 DEF TypeOK, ApplyCancel, Locked
<1>6. ASSUME ApplyShutdown PROVE TypeOK'
  <2>1. /\ events' \in Seq(EventType) /\ coordinator' = "draining" /\ event.at \in Nat
    BY <1>3, <1>6 DEF ApplyShutdown
  <2>2. ASSUME NEW j \in JobId PROVE StopForShutdown(jobs[j], event.at) \in EntryType
    BY <1>0, <2>1, StopForShutdownType
  <2>3. jobs' \in [JobId -> EntryType]
    BY <1>6, <2>2 DEF ApplyShutdown
  <2> QED
    BY <1>6, <2>1, <2>3 DEF TypeOK, ApplyShutdown, Locked
<1>7. ASSUME ApplyReturned PROVE TypeOK'
  <2>1. /\ events # <<>> /\ event.kind = "returned" /\ events' \in Seq(EventType)
        /\ coordinator' = "draining" /\ event.at \in Nat
    BY <1>3, <1>7 DEF ApplyReturned
  <2>2. event.job \in JobId /\ event.completion \in CompletionType
    BY <1>0, <2>1, HeadType
  <2>3. Completed(jobs[event.job], event.completion, event.at) \in EntryType
    BY <1>0, <2>1, <2>2, CompletedType
  <2>4. \/ jobs' = jobs
        \/ jobs' = [jobs EXCEPT ![event.job] =
                      Completed(jobs[event.job], event.completion, event.at)]
    BY <1>7 DEF ApplyReturned
  <2>5. jobs' \in [JobId -> EntryType]
    BY <1>0, <2>2, <2>3, <2>4
  <2> QED
    BY <1>7, <2>1, <2>5 DEF TypeOK, ApplyReturned, Locked
<1> QED
  BY <1>1, <1>2, <1>4, <1>5, <1>6, <1>7

\* The coordinator, mutex held: scheduling and deciding.
LEMMA TypeStepSchedule ==
  ASSUME TypeOK,
         ScheduleSkipFinished \/ ScheduleExpired \/ ScheduleBusy \/ ScheduleLaunch
           \/ ScheduleLaunchFails \/ ScheduleDone \/ Decide \/ Acquire
  PROVE  TypeOK'
<1>0. /\ jobs \in [JobId -> EntryType] /\ queue \in Seq(JobId) /\ cursor \in Nat \ {0}
      /\ Len(queue) \in Nat
  BY DEF TypeOK
<1>1. ASSUME Visiting
      PROVE  /\ AtCursor \in JobId /\ jobs[AtCursor] \in EntryType
             /\ jobs[AtCursor].deadline \in Nat
             /\ RemoveAt(queue, cursor) \in Seq(JobId)
             /\ cursor <= Len(RemoveAt(queue, cursor)) + 1
  <2>1. AtCursor \in JobId /\ RemoveAt(queue, cursor) \in Seq(JobId)
        /\ Len(RemoveAt(queue, cursor)) = Len(queue) - 1
    BY <1>0, <1>1, RemoveAtFacts DEF Visiting
  <2>2. jobs[AtCursor] \in EntryType /\ jobs[AtCursor].deadline \in Nat
    BY <1>0, <2>1 DEF EntryType
  <2> QED
    BY <1>0, <1>1, <2>1, <2>2 DEF Visiting
<1>2. ASSUME ScheduleSkipFinished PROVE TypeOK'
  BY <1>1, <1>2 DEF TypeOK, ScheduleSkipFinished
<1>3. ASSUME ScheduleExpired PROVE TypeOK'
  <2>1. Visiting
    BY <1>3 DEF ScheduleExpired
  <2>2. "timed_out" \in Terminal /\ "deadline" \in Reason
    BY DEF Terminal, Outcome, Reason
  <2>3. FinishQueued(jobs[AtCursor], "timed_out", "deadline", jobs[AtCursor].deadline)
          \in EntryType
    BY <1>1, <2>1, <2>2, FinishQueuedType
  <2>4. jobs' \in [JobId -> EntryType]
    BY <1>0, <1>1, <1>3, <2>1, <2>3 DEF ScheduleExpired
  <2> QED
    BY <1>1, <1>3, <2>1, <2>4 DEF TypeOK, ScheduleExpired
<1>4. ASSUME ScheduleBusy PROVE TypeOK'
  BY <1>4 DEF TypeOK, ScheduleBusy, Schedulable, Visiting
<1>5. ASSUME ScheduleLaunch PROVE TypeOK'
  <2>1. Visiting
    BY <1>5 DEF ScheduleLaunch, Schedulable
  <2> DEFINE entry == [jobs[AtCursor] EXCEPT
                         !.state = "running", !.launched = TRUE, !.cleanup_confirmed = FALSE,
                         !.gpu_reserved = TRUE, !.worker_running = TRUE,
                         !.thread = "running", !.handle = "entry"]
  <2>2. entry \in EntryType
    BY <1>1, <2>1, ZenonT(60) DEF EntryType
  <2>3. /\ jobs' = [jobs EXCEPT ![AtCursor] = entry]
        /\ reservations' = [reservations EXCEPT ![jobs[AtCursor].gpu] = AtCursor]
    BY <1>5 DEF ScheduleLaunch
  <2> HIDE DEF entry
  <2>4. jobs' \in [JobId -> EntryType] /\ reservations' \in [Gpus -> JobId \cup {NoJob}]
    BY <1>0, <1>1, <2>1, <2>2, <2>3 DEF TypeOK
  <2> QED
    BY <1>1, <1>5, <2>1, <2>4 DEF TypeOK, ScheduleLaunch
<1>6. ASSUME ScheduleLaunchFails PROVE TypeOK'
  <2>1. Visiting
    BY <1>6 DEF ScheduleLaunchFails, Schedulable
  <2> DEFINE entry == [jobs[AtCursor] EXCEPT !.state = "failed", !.launched = TRUE,
                                             !.finished_at = clock]
  <2>2. "failed" \in Terminal /\ clock \in Nat
    BY DEF TypeOK, Terminal, Outcome
  <2>3. entry \in EntryType
    BY <1>1, <2>1, <2>2, ZenonT(60) DEF EntryType
  <2>4. jobs' = [jobs EXCEPT ![AtCursor] = Retire(entry)]
    BY <1>6 DEF ScheduleLaunchFails
  <2> HIDE DEF entry
  <2>5. jobs' \in [JobId -> EntryType]
    BY <1>0, <1>1, <2>1, <2>3, <2>4, RetireType
  <2> QED
    BY <1>1, <1>6, <2>1, <2>5 DEF TypeOK, ScheduleLaunchFails
<1>7. ASSUME ScheduleDone \/ Acquire PROVE TypeOK'
  BY <1>7 DEF TypeOK, ScheduleDone, Acquire, Locked, Unlocked
<1>8. ASSUME Decide PROVE TypeOK'
  <2>1. coordinator' \in {"stopping", "finished", "waiting"}
    BY <1>8 DEF Decide, AfterDecision
  <2>2. calls' \in [Clients -> CallType]
    BY <1>8, WokenFacts DEF Decide, TypeOK
  <2> QED
    BY <1>8, <2>1, <2>2 DEF TypeOK, Decide, Unlocked
<1> QED
  BY <1>2, <1>3, <1>4, <1>5, <1>6, <1>7, <1>8

\* The coordinator, mutex released.
LEMMA TypeStepUnlocked ==
  ASSUME TypeOK,
         DeadlineWake \/ SpuriousWake \/ StopsDone \/ JoinsDone \/ ReleaseCallables
           \/ Finalize \/ (\E j \in JobId : StopOne(j) \/ Join(j))
  PROVE  TypeOK'
<1>0. ASSUME NEW j \in JobId PROVE jobs[j] \in EntryType
  BY DEF TypeOK
<1>1. ASSUME DeadlineWake \/ SpuriousWake \/ StopsDone \/ JoinsDone PROVE TypeOK'
  BY <1>1 DEF TypeOK, DeadlineWake, SpuriousWake, StopsDone, JoinsDone, Unlocked
<1>2. ASSUME ReleaseCallables PROVE TypeOK'
  <2>1. ASSUME NEW j \in JobId PROVE [jobs[j] EXCEPT !.worker = "gone"] \in EntryType
    BY <1>0, FieldType
  <2>2. jobs' \in [JobId -> EntryType]
    BY <1>0, <1>2, <2>1 DEF ReleaseCallables
  <2> QED
    BY <1>2, <2>2 DEF TypeOK, ReleaseCallables, Unlocked
<1>3. ASSUME Finalize PROVE TypeOK'
  <2>1. ASSUME NEW j \in JobId
        PROVE  [jobs[j] EXCEPT !.finalization_pending = FALSE] \in EntryType
    BY <1>0, FieldType
  <2>2. jobs' \in [JobId -> EntryType]
    BY <1>3, <2>1 DEF Finalize
  <2>3. calls' \in [Clients -> CallType]
    BY <1>3, WokenFacts DEF Finalize, TypeOK
  <2> QED
    BY <1>3, <2>2, <2>3 DEF TypeOK, Finalize, Unlocked
<1>4. ASSUME NEW j \in JobId, StopOne(j) PROVE TypeOK'
  <2>1. [jobs[j] EXCEPT !.stop = "requested"] \in EntryType
    BY <1>0, FieldType
  <2>2. jobs' \in [JobId -> EntryType]
    BY <1>4, <2>1, UpdateType DEF StopOne, TypeOK
  <2> QED
    BY <1>4, <2>2 DEF TypeOK, StopOne
<1>5. ASSUME NEW j \in JobId, Join(j) PROVE TypeOK'
  <2>1. Joined(jobs[j]) \in EntryType
    BY <1>0, JoinedType
  <2>2. jobs' \in [JobId -> EntryType]
    BY <1>5, <2>1, UpdateType DEF Join, TypeOK
  <2>3. reservations' \in [Gpus -> JobId \cup {NoJob}]
    BY <1>5 DEF Join, ReleasedReservations, TypeOK
  <2>4. calls' \in [Clients -> CallType]
    BY <1>5, WokenFacts DEF Join, TypeOK
  <2> QED
    BY <1>5, <2>2, <2>3, <2>4 DEF TypeOK, Join
<1> QED
  BY <1>1, <1>2, <1>3, <1>4, <1>5

LEMMA TypeStep ==
  ASSUME TypeOK, coordinator = "applying" => events # <<>>, [Next]_vars
  PROVE  TypeOK'
<1>1. ASSUME CoordinatorStep PROVE TypeOK'
  BY <1>1, TypeStepMailbox, TypeStepSchedule, TypeStepUnlocked, Zenon DEF CoordinatorStep
<1>2. CASE UNCHANGED vars
  BY <1>2 DEF TypeOK, vars
<1> QED
  BY <1>1, <1>2, TypeStepClients, TypeStepThreads, TypeStepUnlocked, Zenon
     DEF Next, Terminated

-----------------------------------------------------------------------------
(* What the transition helpers do to one entry.                            *)

\* An entry in one of its shapes, ended the way its stop reason says.
Good(e) ==
  /\ Absent(e) \/ Queued(e) \/ Running(e) \/ Ended(e)
  /\ e.state \in Terminal /\ e.stop_reason # "none" =>
       e.state = IF e.stop_reason = "deadline" THEN "timed_out" ELSE "cancelled"

\* From e to f nothing happens that the other parts of IInv could notice: the
\* GPU and its reservation, the thread's progress and a held callable stay.
Keeps(e, f) ==
  /\ f.gpu = e.gpu /\ f.gpu_reserved = e.gpu_reserved /\ f.worker_running = e.worker_running
  /\ f.state = "absent" <=> e.state = "absent"
  /\ f.state = "queued" => e.state = "queued"
  /\ e.thread \in {"returned", "exited"} => f.thread \in {"returned", "exited"}
  /\ f.worker # "held" =>
       \/ f.cleanup_confirmed
       \/ e.worker # "held" /\ f.cleanup_confirmed = e.cleanup_confirmed

LEMMA KeepsSelf == ASSUME NEW e PROVE Keeps(e, e)
BY DEF Keeps

LEMMA FinishQueuedKeeps ==
  ASSUME NEW e \in EntryType, Queued(e), NEW state \in Terminal, NEW reason \in Reason,
         NEW when \in Nat,
         state = IF reason = "deadline" THEN "timed_out" ELSE "cancelled"
  PROVE  Good(FinishQueued(e, state, reason, when)) /\ Keeps(e, FinishQueued(e, state, reason, when))
<1> DEFINE f == FinishQueued(e, state, reason, when)
<1>1. /\ f.state = state /\ f.stop_reason = reason /\ f.worker = "releasing"
      /\ f.finalization_pending /\ f.gpu = e.gpu /\ f.gpu_reserved = e.gpu_reserved
      /\ f.worker_running = e.worker_running /\ f.thread = e.thread /\ f.handle = e.handle
      /\ f.cleanup_confirmed = e.cleanup_confirmed
  BY DEF FinishQueued, Retire, EntryType, Queued
<1>2. state \notin {"absent", "queued", "running"}
  BY DEF Terminal, Outcome
<1> HIDE DEF f
<1>3. Ended(f)
  BY <1>1 DEF Ended, Queued
<1>4. Good(f)
  BY <1>1, <1>3 DEF Good
<1>5. Keeps(e, f)
  BY <1>1, <1>2 DEF Keeps, Queued
<1> QED
  BY <1>4, <1>5 DEF f

LEMMA RequestStopKeeps ==
  ASSUME NEW e \in EntryType, Running(e), NEW reason \in Reason
  PROVE  Good(RequestStop(e, reason)) /\ Keeps(e, RequestStop(e, reason))
<1> DEFINE f == RequestStop(e, reason)
<1>1. /\ f.state = e.state /\ f.launched = e.launched /\ f.worker = e.worker
      /\ f.finalization_pending = e.finalization_pending /\ f.gpu = e.gpu
      /\ f.gpu_reserved = e.gpu_reserved
      /\ f.worker_running = e.worker_running /\ f.thread = e.thread /\ f.handle = e.handle
      /\ f.cleanup_confirmed = e.cleanup_confirmed
  BY DEF RequestStop, EntryType
<1> HIDE DEF f
<1>2. Running(f)
  BY <1>1 DEF Running
<1>3. Good(f)
  BY <1>2 DEF Good, Running, Terminal, Outcome
<1>4. Keeps(e, f)
  BY <1>1 DEF Keeps, Running
<1> QED
  BY <1>3, <1>4 DEF f

LEMMA ExpireKeeps ==
  ASSUME NEW js \in [JobId -> EntryType], NEW when \in Nat, NEW j \in JobId, Good(js[j])
  PROVE  Good(Expire(js, when)[j]) /\ Keeps(js[j], Expire(js, when)[j])
<1> DEFINE e == js[j]
<1>1. e \in EntryType /\ e.deadline \in Nat
  BY DEF EntryType
<1>2. "timed_out" \in Terminal /\ "deadline" \in Reason
  BY DEF Terminal, Outcome, Reason
<1>3. CASE Expire(js, when)[j] = e
  BY <1>3, KeepsSelf
<1>4. CASE e.state = "queued" /\ Expire(js, when)[j] = FinishQueued(e, "timed_out", "deadline", e.deadline)
  <2>1. Queued(e)
    BY <1>4 DEF Good, Absent, Running, Ended, Terminal, Outcome
  <2> QED
    BY <1>1, <1>2, <1>4, <2>1, FinishQueuedKeeps
<1>5. CASE e.state = "running" /\ Expire(js, when)[j] = RequestStop(e, "deadline")
  <2>1. Running(e)
    BY <1>5 DEF Good, Absent, Queued, Ended, Terminal, Outcome
  <2> QED
    BY <1>1, <1>2, <1>5, <2>1, RequestStopKeeps
<1> QED
  BY <1>3, <1>4, <1>5 DEF Expire

LEMMA StopForShutdownKeeps ==
  ASSUME NEW e \in EntryType, NEW when \in Nat, Good(e)
  PROVE  /\ Good(StopForShutdown(e, when)) /\ Keeps(e, StopForShutdown(e, when))
         /\ StopForShutdown(e, when).state # "queued"
<1>1. "cancelled" \in Terminal /\ "shutdown" \in Reason /\ "shutdown" # "deadline"
  BY DEF Terminal, Outcome, Reason
<1>2. CASE e.state = "queued"
  <2>1. Queued(e)
    BY <1>2 DEF Good, Absent, Running, Ended, Terminal, Outcome
  <2>2. StopForShutdown(e, when) = FinishQueued(e, "cancelled", "shutdown", when)
    BY <1>2 DEF StopForShutdown
  <2>3. FinishQueued(e, "cancelled", "shutdown", when).state = "cancelled"
    BY DEF FinishQueued, Retire, EntryType
  <2> QED
    BY <1>1, <2>1, <2>2, <2>3, FinishQueuedKeeps
<1>3. CASE e.state = "running"
  <2>1. Running(e)
    BY <1>3 DEF Good, Absent, Queued, Ended, Terminal, Outcome
  <2>2. StopForShutdown(e, when) = RequestStop(e, "shutdown")
    BY <1>3 DEF StopForShutdown
  <2> QED
    BY <1>1, <1>3, <2>1, <2>2, RequestStopKeeps DEF Keeps
<1>4. CASE e.state \notin {"queued", "running"}
  BY <1>4, KeepsSelf DEF StopForShutdown
<1> QED
  BY <1>2, <1>3, <1>4

LEMMA CompletedKeeps ==
  ASSUME NEW e \in EntryType, Running(e), e.thread \in {"returned", "exited"},
         NEW done \in CompletionType, NEW when \in Nat
  PROVE  Good(Completed(e, done, when)) /\ Keeps(e, Completed(e, done, when))
<1> DEFINE f == Completed(e, done, when)
<1>1. /\ f.state = IF e.stop_reason = "none" THEN AcceptedState(done)
                   ELSE IF e.stop_reason = "deadline" THEN "timed_out" ELSE "cancelled"
      /\ f.stop_reason = e.stop_reason /\ f.launched = e.launched /\ f.worker = e.worker
      /\ f.finalization_pending = e.finalization_pending /\ f.gpu = e.gpu
      /\ f.gpu_reserved = e.gpu_reserved /\ f.worker_running = e.worker_running
      /\ f.thread = e.thread /\ f.handle = "finished"
  BY DEF Completed, EntryType
<1>2. AcceptedState(done) \in Terminal
  BY DEF AcceptedState, CompletionType, Terminal, Outcome
<1>3. f.state \in Terminal
  BY <1>1, <1>2 DEF Terminal, Outcome
<1> HIDE DEF f
<1>4. Ended(f)
  BY <1>1, <1>3 DEF Ended, Running
<1>5. Good(f)
  BY <1>1, <1>4 DEF Good
<1>6. Keeps(e, f)
  BY <1>1, <1>3 DEF Keeps, Running, Terminal, Outcome
<1> QED
  BY <1>5, <1>6 DEF f

\* A joined job gives back its GPU exactly when its cleanup was confirmed.
LEMMA JoinedFacts ==
  ASSUME NEW e \in EntryType, Good(e), e.handle = "finished", e.thread = "exited"
  PROVE  /\ Good(Joined(e)) /\ Joined(e).gpu = e.gpu /\ Joined(e).thread = e.thread
         /\ Joined(e).state = e.state /\ e.state \in Terminal
         /\ Joined(e).cleanup_confirmed = e.cleanup_confirmed
         /\ Joined(e).gpu_reserved <=> ~e.cleanup_confirmed
         /\ ~Joined(e).worker_running
         /\ Joined(e).worker # "held" => Joined(e).cleanup_confirmed
<1> DEFINE f == Joined(e)
<1>1. /\ Ended(e) /\ e.worker = "held" /\ e.state \in Terminal /\ e.gpu_reserved
      /\ ~e.finalization_pending
  <2>0. ~Absent(e)
    BY DEF Absent
  <2>1. ~Absent(e) /\ ~Queued(e) /\ ~Running(e)
    BY <2>0 DEF Queued, Running
  <2>2. Ended(e)
    BY <2>1 DEF Good
  <2> QED
    BY <2>2 DEF Ended
<1>2. /\ f.state = e.state /\ f.stop_reason = e.stop_reason /\ f.launched = e.launched
      /\ f.gpu = e.gpu /\ f.thread = e.thread /\ f.handle = "none"
      /\ f.cleanup_confirmed = e.cleanup_confirmed
      /\ f.worker_running = FALSE
      /\ f.worker = IF e.cleanup_confirmed THEN "releasing" ELSE "held"
      /\ f.gpu_reserved <=> ~e.cleanup_confirmed
      /\ f.finalization_pending <=> e.cleanup_confirmed
  <2>1. CASE e.cleanup_confirmed
    BY <1>1, <2>1 DEF Joined, Retire, EntryType
  <2>2. CASE ~e.cleanup_confirmed
    BY <1>1, <2>2 DEF Joined, Retire, EntryType
  <2> QED
    BY <2>1, <2>2
<1> HIDE DEF f
<1>3. Ended(f)
  BY <1>1, <1>2 DEF Ended
<1>4. Good(f)
  BY <1>2, <1>3 DEF Good
<1>5. f.worker # "held" => f.cleanup_confirmed
  BY <1>2
<1> QED
  BY <1>1, <1>2, <1>4, <1>5 DEF f

LEMMA LaunchFacts ==
  ASSUME NEW e \in EntryType, Queued(e)
  PROVE  LET f == [e EXCEPT !.state = "running", !.launched = TRUE,
                            !.cleanup_confirmed = FALSE, !.gpu_reserved = TRUE,
                            !.worker_running = TRUE, !.thread = "running", !.handle = "entry"]
         IN  Good(f) /\ f.gpu = e.gpu /\ f.gpu_reserved /\ f.worker = "held" /\ f.state = "running"
<1> DEFINE f == [e EXCEPT !.state = "running", !.launched = TRUE,
                          !.cleanup_confirmed = FALSE, !.gpu_reserved = TRUE,
                          !.worker_running = TRUE, !.thread = "running", !.handle = "entry"]
<1>1. /\ f.state = "running" /\ f.launched = TRUE /\ f.worker = e.worker
      /\ f.finalization_pending = e.finalization_pending /\ f.gpu = e.gpu
      /\ f.gpu_reserved = TRUE /\ f.worker_running = TRUE
      /\ f.thread = "running" /\ f.handle = "entry" /\ f.cleanup_confirmed = FALSE
  BY DEF EntryType
<1> HIDE DEF f
<1>2. Running(f)
  BY <1>1 DEF Running, Queued
<1>3. Good(f)
  BY <1>1, <1>2 DEF Good, Terminal, Outcome
<1> QED
  BY <1>1, <1>3 DEF f, Queued

LEMMA LaunchFailsKeeps ==
  ASSUME NEW e \in EntryType, Queued(e), NEW when \in Nat
  PROVE  LET f == Retire([e EXCEPT !.state = "failed", !.launched = TRUE, !.finished_at = when])
         IN  Good(f) /\ Keeps(e, f)
<1> DEFINE f == Retire([e EXCEPT !.state = "failed", !.launched = TRUE, !.finished_at = when])
<1>1. /\ f.state = "failed" /\ f.stop_reason = e.stop_reason /\ f.worker = "releasing"
      /\ f.finalization_pending /\ f.gpu = e.gpu /\ f.gpu_reserved = e.gpu_reserved
      /\ f.worker_running = e.worker_running /\ f.thread = e.thread /\ f.handle = e.handle
      /\ f.cleanup_confirmed = e.cleanup_confirmed
  BY DEF Retire, EntryType, Queued
<1> HIDE DEF f
<1>2. Ended(f)
  BY <1>1 DEF Ended, Queued, Terminal, Outcome
<1>3. Good(f)
  BY <1>1, <1>2 DEF Good, Queued
<1>4. Keeps(e, f)
  BY <1>1 DEF Keeps, Queued
<1> QED
  BY <1>3, <1>4 DEF f

LEMMA FieldKeeps ==
  ASSUME NEW e \in EntryType, Good(e)
  PROVE  /\ Good([e EXCEPT !.stop = "requested"]) \/ e.stop # "pending"
         /\ Keeps(e, [e EXCEPT !.stop = "requested"])
         /\ e.worker = "releasing" => /\ Good([e EXCEPT !.worker = "gone"])
                                      /\ Keeps(e, [e EXCEPT !.worker = "gone"])
         /\ e.worker # "releasing" => Good([e EXCEPT !.finalization_pending = FALSE])
         /\ Keeps(e, [e EXCEPT !.finalization_pending = FALSE])
         /\ e.thread = "running" => /\ Good([e EXCEPT !.thread = "returned"])
                                    /\ Keeps(e, [e EXCEPT !.thread = "returned"])
         /\ e.thread = "returned" => /\ Good([e EXCEPT !.thread = "exited"])
                                     /\ Keeps(e, [e EXCEPT !.thread = "exited"])
<1>1. Good([e EXCEPT !.stop = "requested"]) \/ e.stop # "pending"
  <2> SUFFICES ASSUME e.stop = "pending" PROVE Good([e EXCEPT !.stop = "requested"])
    OBVIOUS
  <2>1. Running(e) \/ Ended(e)
    BY DEF Good, Absent, Queued
  <2> QED
    BY <2>1 DEF Good, Running, Ended, EntryType
<1>2. Keeps(e, [e EXCEPT !.stop = "requested"])
  BY DEF Keeps, EntryType
<1>3. Keeps(e, [e EXCEPT !.finalization_pending = FALSE])
  BY DEF Keeps, EntryType
<1>4. ASSUME e.worker = "releasing"
      PROVE  Good([e EXCEPT !.worker = "gone"]) /\ Keeps(e, [e EXCEPT !.worker = "gone"])
  <2>1. Ended(e)
    BY <1>4 DEF Good, Absent, Queued, Running
  <2> QED
    BY <1>4, <2>1 DEF Good, Ended, Keeps, EntryType
<1>5. ASSUME e.worker # "releasing" PROVE Good([e EXCEPT !.finalization_pending = FALSE])
  BY <1>5 DEF Good, Absent, Ended, Queued, Running, EntryType
<1>6. ASSUME e.thread = "running"
      PROVE  Good([e EXCEPT !.thread = "returned"]) /\ Keeps(e, [e EXCEPT !.thread = "returned"])
  <2>1. Running(e)
    BY <1>6 DEF Good, Absent, Queued, Ended
  <2> QED
    BY <1>6, <2>1 DEF Good, Running, Keeps, EntryType
<1>7. ASSUME e.thread = "returned"
      PROVE  Good([e EXCEPT !.thread = "exited"]) /\ Keeps(e, [e EXCEPT !.thread = "exited"])
  <2>1. Running(e) \/ Ended(e)
    BY <1>7 DEF Good, Absent, Queued
  <2> QED
    BY <1>7, <2>1 DEF Good, Running, Ended, Keeps, EntryType
<1> QED
  BY <1>1, <1>2, <1>3, <1>4, <1>5, <1>6, <1>7

-----------------------------------------------------------------------------
(* The invariant, step by step.                                            *)

AllGood == \A j \in JobId : Good(jobs[j])
AllKeep == \A j \in JobId : Keeps(jobs[j], jobs'[j])

LEMMA GoodIsInv == AllGood <=> EntryInv /\ StopReasonDecides
BY DEF AllGood, Good, EntryInv, StopReasonDecides

\* The steps that touch no job.
Aside ==
  \/ Tick \/ (\E c \in Clients : ClientStep(c)) \/ DisposeBegin
  \/ Acquire \/ ScheduleSkipFinished \/ ScheduleBusy \/ ScheduleDone \/ Decide
  \/ DeadlineWake \/ SpuriousWake \/ StopsDone \/ JoinsDone

\* The steps that move jobs along without touching GPUs or IDs.
Along ==
  \/ \E j \in JobId : WorkerStep(j) \/ StopOne(j)
  \/ ExpireBeforeEvent \/ ApplyCancel \/ ApplyShutdown \/ ApplyReturned \/ Drained
  \/ ScheduleExpired \/ ScheduleLaunchFails \/ ReleaseCallables \/ Finalize

LEMMA AsideFacts ==
  ASSUME Aside
  PROVE  UNCHANGED <<jobs, next_id, reservations, stopping>>
BY DEF Aside, Tick, ClientStep, SubmitCall, CancelCall, WaitCall, ShutdownCall, Notify, TakeReply,
       WaitCheck, WaitTimeout, DisposeBegin, Acquire, ScheduleSkipFinished, ScheduleBusy,
       ScheduleDone, Decide, DeadlineWake, SpuriousWake, StopsDone, JoinsDone

LEMMA AlongFacts ==
  ASSUME IInv, Along
  PROVE  /\ \A j \in JobId : Good(jobs'[j])
         /\ AllKeep
         /\ UNCHANGED <<next_id, reservations, disposing>>
<1>0. /\ \A j \in JobId : Good(jobs[j]) /\ jobs[j] \in EntryType
      /\ jobs \in [JobId -> EntryType] /\ clock \in Nat /\ events \in Seq(EventType)
  BY GoodIsInv DEF IInv, TypeOK, AllGood
<1>1. UNCHANGED <<next_id, reservations, disposing>>
  BY DEF Along, WorkerStep, WorkerReturn, WorkerNotify, StopOne, ExpireBeforeEvent, ApplyCancel,
         ApplyShutdown, ApplyReturned, Drained, ScheduleExpired, ScheduleLaunchFails,
         ReleaseCallables, Finalize
<1> SUFFICES ASSUME NEW k \in JobId
             PROVE  Good(jobs'[k]) /\ Keeps(jobs[k], jobs'[k])
  BY <1>1 DEF AllKeep
<1>2. ASSUME jobs'[k] = jobs[k] PROVE Good(jobs'[k]) /\ Keeps(jobs[k], jobs'[k])
  BY <1>0, <1>2, KeepsSelf
<1> DEFINE event == Head(events)
<1>3. ASSUME NEW kind, Applying(kind)
      PROVE  /\ events # <<>> /\ event.at \in Nat
             /\ kind = "cancel" => event.job \in JobId
             /\ kind = "returned" => event.job \in JobId /\ event.completion \in CompletionType
                                     /\ jobs[event.job].thread \in {"returned", "exited"}
  <2>1. events # <<>> /\ event.kind = kind
    BY <1>3 DEF Applying, IInv, MailboxInv
  <2>2. event = events[1] /\ 1 \in 1..Len(events)
    BY <1>0, <2>1
  <2> QED
    BY <1>0, <2>1, <2>2, HeadType DEF IInv, MailboxInv
<1>4. ASSUME NEW j \in JobId, NEW done \in Completions, WorkerReturn(j, done)
      PROVE  Good(jobs'[k]) /\ Keeps(jobs[k], jobs'[k])
  BY <1>0, <1>2, <1>4, FieldKeeps DEF WorkerReturn
<1>5. ASSUME NEW j \in JobId, WorkerNotify(j) PROVE Good(jobs'[k]) /\ Keeps(jobs[k], jobs'[k])
  BY <1>0, <1>2, <1>5, FieldKeeps DEF WorkerNotify
<1>6. ASSUME NEW j \in JobId, StopOne(j) PROVE Good(jobs'[k]) /\ Keeps(jobs[k], jobs'[k])
  BY <1>0, <1>2, <1>6, FieldKeeps DEF StopOne, Stops
<1>7. ASSUME ExpireBeforeEvent PROVE Good(jobs'[k]) /\ Keeps(jobs[k], jobs'[k])
  <2>1. event.at \in Nat
    BY <1>0, <1>7, HeadType DEF ExpireBeforeEvent
  <2> QED
    BY <1>0, <1>7, <2>1, ExpireKeeps DEF ExpireBeforeEvent
<1>8. ASSUME Drained PROVE Good(jobs'[k]) /\ Keeps(jobs[k], jobs'[k])
  BY <1>0, <1>8, ExpireKeeps DEF Drained
<1>9. ASSUME ApplyCancel PROVE Good(jobs'[k]) /\ Keeps(jobs[k], jobs'[k])
  <2>1. event.at \in Nat /\ event.job \in JobId
    BY <1>3, <1>9 DEF ApplyCancel
  <2> DEFINE e == jobs[event.job]
  <2>2. "cancelled" \in Terminal /\ "cancellation" \in Reason /\ "cancellation" # "deadline"
    BY DEF Terminal, Outcome, Reason
  <2>3. CASE jobs'[k] = jobs[k]
    BY <1>2, <2>3
  <2>4. CASE k = event.job /\ e.state = "queued"
             /\ jobs'[k] = FinishQueued(e, "cancelled", "cancellation", event.at)
    <3>1. Queued(e)
      BY <1>0, <2>4 DEF Good, Absent, Running, Ended, Terminal, Outcome
    <3> QED
      BY <1>0, <2>1, <2>2, <2>4, <3>1, FinishQueuedKeeps
  <2>5. CASE k = event.job /\ e.state = "running" /\ jobs'[k] = RequestStop(e, "cancellation")
    <3>1. Running(e)
      BY <1>0, <2>5 DEF Good, Absent, Queued, Ended, Terminal, Outcome
    <3> QED
      BY <1>0, <2>2, <2>5, <3>1, RequestStopKeeps
  <2>6. e.state \in {"absent", "queued", "running"} \cup Terminal
    BY <1>0, <2>1 DEF EntryType
  <2> QED
    BY <1>0, <1>9, <2>1, <2>3, <2>4, <2>5, <2>6 DEF ApplyCancel, CancelResult
<1>10. ASSUME ApplyShutdown PROVE Good(jobs'[k]) /\ Keeps(jobs[k], jobs'[k])
  <2>1. event.at \in Nat
    BY <1>3, <1>10 DEF ApplyShutdown
  <2> QED
    BY <1>0, <1>10, <2>1, StopForShutdownKeeps DEF ApplyShutdown
<1>11. ASSUME ApplyReturned PROVE Good(jobs'[k]) /\ Keeps(jobs[k], jobs'[k])
  <2>1. /\ event.at \in Nat /\ event.job \in JobId /\ event.completion \in CompletionType
        /\ jobs[event.job].thread \in {"returned", "exited"}
    BY <1>3, <1>11 DEF ApplyReturned
  <2>2. CASE jobs'[k] = jobs[k]
    BY <1>2, <2>2
  <2>3. CASE /\ k = event.job /\ Expects(jobs[k])
             /\ jobs'[k] = Completed(jobs[k], event.completion, event.at)
    <3>1. Running(jobs[k])
      BY <1>0, <2>3 DEF Expects, Good, Absent, Queued, Ended, Terminal, Outcome
    <3> QED
      BY <1>0, <2>1, <2>3, <3>1, CompletedKeeps
  <2> QED
    BY <1>0, <1>11, <2>1, <2>2, <2>3 DEF ApplyReturned
<1>12. ASSUME ScheduleExpired \/ ScheduleLaunchFails
       PROVE  Good(jobs'[k]) /\ Keeps(jobs[k], jobs'[k])
  <2> DEFINE e == jobs[AtCursor]
  <2>1. AtCursor \in JobId /\ e.state = "queued"
    BY <1>12, RemoveAtFacts DEF ScheduleExpired, ScheduleLaunchFails, Schedulable, Visiting,
                               IInv, TypeOK
  <2>2. Queued(e)
    BY <1>0, <2>1 DEF Good, Absent, Running, Ended, Terminal, Outcome
  <2>3. /\ e \in EntryType /\ e.deadline \in Nat
        /\ "timed_out" \in Terminal /\ "deadline" \in Reason
    BY <1>0, <2>1 DEF EntryType, Terminal, Outcome, Reason
  <2>4. CASE k # AtCursor
    BY <1>0, <1>2, <1>12, <2>1, <2>4 DEF ScheduleExpired, ScheduleLaunchFails
  <2>5. CASE k = AtCursor /\ ScheduleExpired
    <3>1. jobs'[k] = FinishQueued(e, "timed_out", "deadline", e.deadline)
      BY <1>0, <2>1, <2>5 DEF ScheduleExpired
    <3> QED
      BY <2>2, <2>3, <2>5, <3>1, FinishQueuedKeeps
  <2>6. CASE k = AtCursor /\ ScheduleLaunchFails
    <3>1. jobs'[k] = Retire([e EXCEPT !.state = "failed", !.launched = TRUE,
                                      !.finished_at = clock])
      BY <1>0, <2>1, <2>6 DEF ScheduleLaunchFails
    <3> QED
      BY <1>0, <2>2, <2>3, <2>6, <3>1, LaunchFailsKeeps
  <2> QED
    BY <1>12, <2>4, <2>5, <2>6
<1>13. ASSUME ReleaseCallables PROVE Good(jobs'[k]) /\ Keeps(jobs[k], jobs'[k])
  BY <1>0, <1>2, <1>13, FieldKeeps DEF ReleaseCallables
<1>14. ASSUME Finalize PROVE Good(jobs'[k]) /\ Keeps(jobs[k], jobs'[k])
  BY <1>0, <1>14, FieldKeeps DEF Finalize, IInv, PhaseInv
<1> QED
  BY <1>4, <1>5, <1>6, <1>7, <1>8, <1>9, <1>10, <1>11, <1>12, <1>13, <1>14 DEF Along, WorkerStep

\* IDs, reservations, callables and shapes after any step.
JobParts == EntryInv /\ StopReasonDecides /\ IdInv /\ ReservationInv /\ CallableInv

LEMMA JobPartsKept ==
  ASSUME JobParts, \A j \in JobId : Good(jobs'[j]), AllKeep,
         UNCHANGED <<next_id, reservations>>, disposing' = disposing \/ disposing = "no"
  PROVE  JobParts'
<1>1. EntryInv' /\ StopReasonDecides'
  BY DEF Good, EntryInv, StopReasonDecides
<1>2. IdInv'
  BY DEF JobParts, AllKeep, Keeps, IdInv
<1>3. ReservationInv'
  BY DEF JobParts, AllKeep, Keeps, ReservationInv
<1>4. CallableInv'
  BY DEF JobParts, AllKeep, Keeps, CallableInv
<1> QED
  BY <1>1, <1>2, <1>3, <1>4 DEF JobParts

LEMMA JobPartsAside ==
  ASSUME IInv, Aside
  PROVE  JobParts'
<1>1. UNCHANGED <<jobs, next_id, reservations>>
  BY AsideFacts
<1>2. disposing' = disposing \/ disposing = "no"
  BY DEF Aside, Tick, ClientStep, SubmitCall, CancelCall, WaitCall, ShutdownCall, Notify,
         TakeReply, WaitCheck, WaitTimeout, DisposeBegin, Acquire, ScheduleSkipFinished,
         ScheduleBusy, ScheduleDone, Decide, DeadlineWake, SpuriousWake, StopsDone, JoinsDone,
         MayCall
<1>3. (\A j \in JobId : Good(jobs'[j])) /\ AllKeep
  BY <1>1, KeepsSelf, GoodIsInv DEF AllGood, AllKeep, IInv
<1> QED
  BY <1>1, <1>2, <1>3, JobPartsKept DEF IInv, JobParts

LEMMA JobPartsAlong ==
  ASSUME IInv, Along
  PROVE  JobParts'
BY AlongFacts, JobPartsKept DEF IInv, JobParts

LEMMA JobPartsSubmit ==
  ASSUME IInv, ApplySubmit
  PROVE  /\ JobParts'
         /\ \A j \in JobId : \/ jobs'[j] = jobs[j]
                             \/ jobs[j].state = "absent" /\ jobs'[j].state = "queued"
                                /\ ~jobs'[j].worker_running /\ jobs'[j].worker = "held"
<1>0. /\ \A j \in JobId : Good(jobs[j]) /\ jobs[j] \in EntryType
      /\ jobs \in [JobId -> EntryType] /\ events \in Seq(EventType)
      /\ next_id \in 1..(MaxJobs + 1)
  BY GoodIsInv DEF IInv, TypeOK, AllGood
<1> DEFINE event == Head(events)
           r     == event.request
<1>1. CASE ~Admissible(r)
  <2>1. UNCHANGED <<jobs, next_id, reservations, disposing>>
    BY <1>1 DEF ApplySubmit
  <2>2. (\A j \in JobId : Good(jobs'[j])) /\ AllKeep
    BY <1>0, <2>1, KeepsSelf DEF AllKeep
  <2> QED
    BY <2>1, <2>2, JobPartsKept DEF IInv, JobParts
<1>2. CASE Admissible(r)
  <2> DEFINE e == [NoEntry EXCEPT !.state = "queued", !.capture = r.capture,
                                  !.gpu = r.gpu, !.submitted_at = event.at,
                                  !.deadline = r.deadline, !.worker = "held"]
  <2>1. next_id \in JobId /\ next_id \in Nat /\ r.gpu \in Gpus
    BY <1>0, <1>2, IdFacts DEF Admissible, JobId
  <2>2. /\ jobs' = [jobs EXCEPT ![next_id] = e] /\ next_id' = next_id + 1
        /\ UNCHANGED <<reservations, disposing>>
    BY <1>2 DEF ApplySubmit
  <2>3. /\ e.state = "queued" /\ ~e.launched /\ e.stop_reason = "none" /\ e.stop = "idle"
        /\ e.worker = "held" /\ e.thread = "none" /\ e.handle = "none" /\ e.cleanup_confirmed
        /\ ~e.worker_running /\ ~e.gpu_reserved /\ ~e.finalization_pending /\ e.gpu = r.gpu
    BY DEF NoEntry
  <2> HIDE DEF e, r
  <2>4. Queued(e) /\ Good(e)
    BY <2>3 DEF Queued, Good, Terminal, Outcome
  <2>5. \A j \in JobId : jobs'[j] = IF j = next_id THEN e ELSE jobs[j]
    BY <1>0, <2>2
  <2>6. \A j \in JobId : Good(jobs'[j])
    BY <1>0, <2>4, <2>5
  <2>7. EntryInv' /\ StopReasonDecides'
    BY <2>6 DEF Good, EntryInv, StopReasonDecides
  <2>8. IdInv'
    BY <2>1, <2>2, <2>3, <2>5, IdFacts DEF IInv, IdInv
  <2>9. ReservationInv' /\ CallableInv'
    BY <2>2, <2>3, <2>5 DEF IInv, ReservationInv, CallableInv
  <2>10. jobs[next_id].state = "absent"
    BY <2>1 DEF IInv, IdInv
  <2> QED
    BY <2>3, <2>5, <2>7, <2>8, <2>9, <2>10 DEF JobParts
<1> QED
  BY <1>1, <1>2

LEMMA JobPartsLaunch ==
  ASSUME IInv, ScheduleLaunch
  PROVE  /\ JobParts'
         /\ \A j \in JobId : \/ jobs'[j] = jobs[j]
                             \/ /\ jobs[j].state = "queued" /\ jobs'[j].state = "running"
                                /\ jobs[j].thread = "none" /\ jobs'[j].worker = "held"
<1>0. /\ \A j \in JobId : Good(jobs[j]) /\ jobs[j] \in EntryType
      /\ jobs \in [JobId -> EntryType] /\ reservations \in [Gpus -> JobId \cup {NoJob}]
  BY GoodIsInv DEF IInv, TypeOK, AllGood
<1> DEFINE i == AtCursor
           f == [jobs[i] EXCEPT !.state = "running", !.launched = TRUE,
                                !.cleanup_confirmed = FALSE, !.gpu_reserved = TRUE,
                                !.worker_running = TRUE, !.thread = "running", !.handle = "entry"]
<1>1. i \in JobId /\ jobs[i].state = "queued" /\ reservations[jobs[i].gpu] = NoJob
  BY RemoveAtFacts DEF ScheduleLaunch, Schedulable, Visiting, IInv, TypeOK
<1>2. Queued(jobs[i])
  BY <1>0, <1>1 DEF Good, Absent, Running, Ended, Terminal, Outcome
<1>3. Good(f) /\ f.gpu = jobs[i].gpu /\ f.gpu_reserved /\ f.worker = "held" /\ f.state = "running"
  BY <1>0, <1>1, <1>2, LaunchFacts
<1>4. jobs[i].gpu \in Gpus
  BY <1>1 DEF IInv, IdInv
<1>5. /\ jobs' = [jobs EXCEPT ![i] = f]
      /\ reservations' = [reservations EXCEPT ![jobs[i].gpu] = i]
      /\ UNCHANGED <<next_id, disposing>>
  BY DEF ScheduleLaunch
<1> HIDE DEF f, i
<1>6. \A j \in JobId : jobs'[j] = IF j = i THEN f ELSE jobs[j]
  BY <1>0, <1>5
<1>7. EntryInv' /\ StopReasonDecides'
  <2>1. \A j \in JobId : Good(jobs'[j])
    BY <1>0, <1>3, <1>6
  <2> QED
    BY <2>1 DEF Good, EntryInv, StopReasonDecides
<1>8. IdInv'
  BY <1>1, <1>3, <1>4, <1>5, <1>6 DEF IInv, IdInv
<1>9. ReservationInv'
  <2> SUFFICES ASSUME NEW j \in JobId, jobs'[j].gpu_reserved
               PROVE  reservations'[jobs'[j].gpu] = j
    BY DEF ReservationInv
  <2>1. CASE j = i
    BY <1>0, <1>3, <1>4, <1>5, <1>6, <2>1
  <2>2. CASE j # i
    <3>1. jobs'[j] = jobs[j] /\ reservations[jobs[j].gpu] = j
      BY <1>6, <2>2 DEF IInv, ReservationInv
    <3>2. jobs[j].gpu # jobs[i].gpu
      BY <1>1, <3>1, IdFacts
    <3> QED
      BY <1>0, <1>4, <1>5, <3>1, <3>2
  <2> QED
    BY <2>1, <2>2
<1>10. CallableInv'
  BY <1>3, <1>5, <1>6 DEF IInv, CallableInv
<1> QED
  BY <1>1, <1>2, <1>3, <1>6, <1>7, <1>8, <1>9, <1>10 DEF JobParts, Queued

LEMMA JobPartsJoin ==
  ASSUME IInv, NEW i \in JobId, Join(i)
  PROVE  /\ JobParts'
         /\ \A j \in JobId : j # i => jobs'[j] = jobs[j]
         /\ jobs'[i].state = jobs[i].state /\ jobs'[i].thread = jobs[i].thread
         /\ jobs[i].state \in Terminal /\ ~jobs'[i].worker_running
<1>0. /\ \A j \in JobId : Good(jobs[j]) /\ jobs[j] \in EntryType
      /\ jobs \in [JobId -> EntryType] /\ reservations \in [Gpus -> JobId \cup {NoJob}]
  BY GoodIsInv DEF IInv, TypeOK, AllGood
<1> DEFINE f == Joined(jobs[i])
<1>1. /\ Good(f) /\ f.gpu = jobs[i].gpu /\ f.thread = jobs[i].thread
      /\ f.state = jobs[i].state /\ jobs[i].state \in Terminal
      /\ f.cleanup_confirmed = jobs[i].cleanup_confirmed
      /\ f.gpu_reserved <=> ~jobs[i].cleanup_confirmed
      /\ ~f.worker_running
      /\ f.worker # "held" => f.cleanup_confirmed
  BY <1>0, JoinedFacts DEF Join, Finished
<1>2. /\ jobs' = [jobs EXCEPT ![i] = f]
      /\ reservations' = ReleasedReservations(reservations, jobs[i])
      /\ UNCHANGED <<next_id, disposing>>
  BY DEF Join
<1> HIDE DEF f
<1>3. \A j \in JobId : jobs'[j] = IF j = i THEN f ELSE jobs[j]
  BY <1>0, <1>2
<1>4. EntryInv' /\ StopReasonDecides'
  <2>1. \A j \in JobId : Good(jobs'[j])
    BY <1>0, <1>1, <1>3
  <2> QED
    BY <2>1 DEF Good, EntryInv, StopReasonDecides
<1>5. IdInv'
  BY <1>1, <1>2, <1>3 DEF IInv, IdInv
<1>6. ReservationInv'
  <2> SUFFICES ASSUME NEW j \in JobId, jobs'[j].gpu_reserved
               PROVE  reservations'[jobs'[j].gpu] = j
    BY DEF ReservationInv
  <2>0. jobs[i].gpu_reserved /\ reservations[jobs[i].gpu] = i
    <3>1. Ended(jobs[i]) /\ jobs[i].handle = "finished"
      BY <1>0 DEF Join, Finished, Good, Absent, Queued, Running
    <3> QED
      BY <3>1 DEF Ended, IInv, ReservationInv
  <2>1. CASE j = i
    <3>1. reservations' = reservations
      BY <1>1, <1>2, <1>3, <2>1 DEF ReleasedReservations
    <3> QED
      BY <1>1, <1>3, <2>0, <2>1, <3>1
  <2>2. CASE j # i
    <3>1. jobs'[j] = jobs[j] /\ reservations[jobs[j].gpu] = j
      BY <1>3, <2>2 DEF IInv, ReservationInv
    <3>2. jobs[j].gpu # jobs[i].gpu
      BY <2>0, <2>2, <3>1
    <3> QED
      BY <1>0, <1>2, <3>1, <3>2 DEF ReleasedReservations
  <2> QED
    BY <2>1, <2>2
<1>7. CallableInv'
  BY <1>1, <1>2, <1>3 DEF IInv, CallableInv
<1> QED
  BY <1>1, <1>3, <1>4, <1>5, <1>6, <1>7 DEF JobParts

LEMMA DisposedFacts ==
  ASSUME NEW e \in EntryType, Good(e), ~Queued(e), ~Running(e),
         e.handle # "finished" \/ Absent(e)
  PROVE  LET f == [e EXCEPT !.worker = "gone"]
         IN  /\ Good(f) /\ f.gpu = e.gpu /\ (f.gpu_reserved <=> e.gpu_reserved)
             /\ f.state = e.state /\ f.thread = e.thread
             /\ (f.worker_running <=> e.worker_running)
             /\ (f.cleanup_confirmed <=> e.cleanup_confirmed)
<1> DEFINE f == [e EXCEPT !.worker = "gone"]
<1>1. /\ f.state = e.state /\ f.launched = e.launched /\ f.stop_reason = e.stop_reason
      /\ f.stop = e.stop /\ f.worker = "gone" /\ f.thread = e.thread /\ f.handle = e.handle
      /\ f.cleanup_confirmed = e.cleanup_confirmed /\ f.worker_running = e.worker_running
      /\ f.gpu_reserved = e.gpu_reserved /\ f.finalization_pending = e.finalization_pending
      /\ f.gpu = e.gpu
  BY DEF EntryType
<1> HIDE DEF f
<1>2. CASE Absent(e)
  BY <1>1, <1>2 DEF Good, Absent, Terminal, Outcome
<1>3. CASE Ended(e) /\ ~Absent(e)
  BY <1>1, <1>3 DEF Good, Ended
<1> QED
  BY <1>1, <1>2, <1>3 DEF f, Good

LEMMA JobPartsDispose ==
  ASSUME IInv, DisposeEnd
  PROVE  JobParts' /\ \A j \in JobId : /\ jobs'[j].thread = jobs[j].thread
                                       /\ jobs'[j].state = jobs[j].state
                                       /\ (jobs'[j].worker_running <=> jobs[j].worker_running)
                                       /\ jobs'[j].worker = "gone"
<1>0. /\ \A j \in JobId : Good(jobs[j]) /\ jobs[j] \in EntryType
      /\ disposing' = "done" /\ UNCHANGED <<next_id, reservations>>
  BY GoodIsInv DEF IInv, TypeOK, AllGood, DisposeEnd
<1>1. \A j \in JobId : jobs'[j] = [jobs[j] EXCEPT !.worker = "gone"]
  BY DEF DisposeEnd
<1>2. ASSUME NEW j \in JobId
      PROVE  /\ Good(jobs'[j]) /\ jobs'[j].gpu = jobs[j].gpu
             /\ (jobs'[j].gpu_reserved <=> jobs[j].gpu_reserved)
             /\ jobs'[j].state = jobs[j].state /\ jobs'[j].thread = jobs[j].thread
             /\ (jobs'[j].worker_running <=> jobs[j].worker_running)
             /\ jobs'[j].worker = "gone"
  <2>1. ~Queued(jobs[j]) /\ ~Running(jobs[j])
    BY DEF IInv, PhaseInv, MailboxInv, DisposeEnd, AnyWorkers, Queued, Running
  <2>2. jobs[j].handle # "finished" \/ Absent(jobs[j])
    <3>1. ~jobs[j].worker_running
      BY DEF IInv, PhaseInv, DisposeEnd, AnyWorkers
    <3> QED
      BY <1>0, <2>1, <3>1 DEF Good, Ended
  <2>3. jobs'[j].worker = "gone"
    BY <1>0, <1>1 DEF EntryType
  <2> DEFINE e == jobs[j]
             f == jobs'[j]
  <2>4. e \in EntryType /\ Good(e) /\ f = [e EXCEPT !.worker = "gone"]
    BY <1>0, <1>1
  <2>5. ~Queued(e) /\ ~Running(e) /\ (e.handle # "finished" \/ Absent(e)) /\ f.worker = "gone"
    BY <2>1, <2>2, <2>3
  <2> HIDE DEF e, f
  <2>6. /\ Good(f) /\ f.gpu = e.gpu /\ (f.gpu_reserved <=> e.gpu_reserved)
        /\ f.state = e.state /\ f.thread = e.thread
        /\ (f.worker_running <=> e.worker_running)
    BY <2>4, <2>5, DisposedFacts
  <2> QED
    BY <2>5, <2>6 DEF e, f
<1>4. EntryInv' /\ StopReasonDecides'
  BY <1>2 DEF Good, EntryInv, StopReasonDecides
<1>5. IdInv' /\ ReservationInv' /\ CallableInv'
  BY <1>0, <1>2 DEF IInv, IdInv, ReservationInv, CallableInv
<1> QED
  BY <1>2, <1>4, <1>5 DEF JobParts

-----------------------------------------------------------------------------
(* The mailbox and the phases of run().                                    *)

\* What a step must leave of each job for MailboxInv to carry over.
ThreadsKept ==
  \A j \in JobId : /\ jobs[j].thread \in {"returned", "exited"} =>
                        jobs'[j].thread \in {"returned", "exited"}
                   /\ stopping => (jobs'[j].state = "queued" => jobs[j].state = "queued")

LEMMA MailboxSame ==
  ASSUME TypeOK, MailboxInv, ThreadsKept, UNCHANGED <<events, accepting, stopping>>,
         coordinator' = "applying" => coordinator = "applying" \/ events # <<>>
  PROVE  MailboxInv'
<1>1. \A i \in 1..Len(events) : events[i] \in EventType
  BY DEF TypeOK
<1>2. \A i \in 1..Len(events) : events[i].kind = "returned" => events[i].job \in JobId
  BY <1>1 DEF EventType
<1> QED
  BY <1>2 DEF MailboxInv, ThreadsKept

LEMMA MailboxPosted ==
  ASSUME TypeOK, MailboxInv, ThreadsKept, NEW event \in EventType,
         events' = Append(events, event), UNCHANGED stopping,
         coordinator' = "applying" => coordinator = "applying",
         \/ event.kind \in {"submit", "cancel"} /\ accepting /\ accepting'
         \/ event.kind = "shutdown" /\ accepting /\ ~accepting'
         \/ /\ event.kind = "returned" /\ UNCHANGED accepting
            /\ jobs'[event.job].thread \in {"returned", "exited"}
  PROVE  MailboxInv'
<1>0. events \in Seq(EventType) /\ Len(events) \in Nat
  BY DEF TypeOK
<1>1. /\ Len(events') = Len(events) + 1 /\ events' # <<>>
      /\ \A i \in 1..Len(events) : events'[i] = events[i]
      /\ events'[Len(events) + 1] = event
  BY <1>0
<1>2. \A i \in 1..Len(events) : events[i].kind = "returned" => events[i].job \in JobId
  BY <1>0 DEF EventType
<1>3. \A i \in 1..Len(events') :
        events'[i].kind = "returned" => jobs'[events'[i].job].thread \in {"returned", "exited"}
  <2> SUFFICES ASSUME NEW i \in 1..Len(events'), events'[i].kind = "returned"
               PROVE  jobs'[events'[i].job].thread \in {"returned", "exited"}
    OBVIOUS
  <2>1. CASE i = Len(events) + 1
    BY <1>1, <2>1
  <2>2. CASE i \in 1..Len(events)
    BY <1>1, <1>2, <2>2 DEF MailboxInv, ThreadsKept
  <2> QED
    BY <1>0, <1>1, <2>1, <2>2
<1>4. \A i, k \in 1..Len(events') :
        events'[i].kind = "shutdown" /\ events'[k].kind = "submit" => k < i
  <2> SUFFICES ASSUME NEW i \in 1..Len(events'), NEW k \in 1..Len(events'),
                      events'[i].kind = "shutdown", events'[k].kind = "submit"
               PROVE  k < i
    OBVIOUS
  <2>1. i \in Nat /\ k \in Nat /\ i <= Len(events) + 1 /\ k <= Len(events) + 1
    BY <1>0, <1>1
  <2>2. CASE i = Len(events) + 1
    <3>1. k # Len(events) + 1
      BY <1>1, <2>2
    <3> QED
      BY <1>0, <2>1, <2>2, <3>1
  <2>3. CASE i # Len(events) + 1
    <3>1. i \in 1..Len(events) /\ events[i].kind = "shutdown"
      BY <1>0, <1>1, <2>1, <2>3
    <3>2. ~accepting
      BY <3>1 DEF MailboxInv
    <3>3. k \in 1..Len(events) /\ events[k].kind = "submit"
      BY <1>0, <1>1, <2>1, <3>2
    <3> QED
      BY <3>1, <3>3 DEF MailboxInv
  <2> QED
    BY <2>2, <2>3
<1>5. accepting' => ~stopping' /\ \A i \in 1..Len(events') : events'[i].kind # "shutdown"
  <2> SUFFICES ASSUME accepting', NEW i \in 1..Len(events')
               PROVE  ~stopping' /\ events'[i].kind # "shutdown"
    BY <1>0, <1>1
  <2>1. accepting /\ event.kind # "shutdown"
    OBVIOUS
  <2>2. i = Len(events) + 1 \/ i \in 1..Len(events)
    BY <1>0, <1>1
  <2> QED
    BY <1>1, <2>1, <2>2 DEF MailboxInv
<1>6. stopping' => /\ \A i \in 1..Len(events') : events'[i].kind # "submit"
                   /\ \A j \in JobId : jobs'[j].state # "queued"
  <2> SUFFICES ASSUME stopping
               PROVE  /\ \A i \in 1..Len(events') : events'[i].kind # "submit"
                      /\ \A j \in JobId : jobs'[j].state # "queued"
    OBVIOUS
  <2>1. ~accepting /\ event.kind # "submit"
    BY DEF MailboxInv
  <2>2. \A i \in 1..Len(events') : i = Len(events) + 1 \/ i \in 1..Len(events)
    BY <1>0, <1>1
  <2> QED
    BY <1>1, <2>1, <2>2 DEF MailboxInv, ThreadsKept
<1> QED
  BY <1>1, <1>3, <1>4, <1>5, <1>6 DEF MailboxInv

\* The first event is taken; a Shutdown event closes the queue.
LEMMA MailboxTaken ==
  ASSUME TypeOK, MailboxInv, NEW kind, Applying(kind), UNCHANGED accepting,
         \A j \in JobId : jobs[j].thread \in {"returned", "exited"} =>
                            jobs'[j].thread \in {"returned", "exited"},
         IF kind = "shutdown" THEN stopping' /\ \A j \in JobId : jobs'[j].state # "queued"
         ELSE stopping' = stopping,
         stopping /\ kind # "submit" =>
           \A j \in JobId : jobs'[j].state = "queued" => jobs[j].state = "queued"
  PROVE  MailboxInv'
<1>0. events \in Seq(EventType) /\ Len(events) \in Nat /\ events # <<>>
  BY DEF TypeOK, MailboxInv, Applying
<1>1. /\ events' = Tail(events) /\ Len(events') = Len(events) - 1 /\ Len(events) >= 1
      /\ \A i \in 1..Len(events') : i + 1 \in 1..Len(events) /\ events'[i] = events[i + 1]
      /\ events[1].kind = kind /\ 1 \in 1..Len(events)
  BY <1>0 DEF Applying
<1>2. \A i \in 1..Len(events) : events[i].kind = "returned" => events[i].job \in JobId
  BY <1>0 DEF EventType
<1>3. \A i \in 1..Len(events') :
        events'[i].kind = "returned" => jobs'[events'[i].job].thread \in {"returned", "exited"}
  BY <1>1, <1>2 DEF MailboxInv
<1>4. \A i, k \in 1..Len(events') :
        events'[i].kind = "shutdown" /\ events'[k].kind = "submit" => k < i
  <2> SUFFICES ASSUME NEW i \in 1..Len(events'), NEW k \in 1..Len(events'),
                      events'[i].kind = "shutdown", events'[k].kind = "submit"
               PROVE  k < i
    OBVIOUS
  <2>1. k + 1 < i + 1
    BY <1>1 DEF MailboxInv
  <2> QED
    BY <2>1
<1>5. accepting' => ~stopping' /\ \A i \in 1..Len(events') : events'[i].kind # "shutdown"
  BY <1>1 DEF MailboxInv
<1>6. stopping' => /\ \A i \in 1..Len(events') : events'[i].kind # "submit"
                   /\ \A j \in JobId : jobs'[j].state # "queued"
  <2>1. CASE kind = "shutdown"
    <3> SUFFICES ASSUME NEW i \in 1..Len(events') PROVE events'[i].kind # "submit"
      BY <2>1
    <3>1. events'[i].kind = "submit" => i + 1 < 1
      BY <1>1, <2>1 DEF MailboxInv
    <3> QED
      BY <1>0, <1>1, <3>1
  <2>2. CASE kind # "shutdown"
    BY <1>1, <2>2 DEF MailboxInv
  <2> QED
    BY <2>1, <2>2
<1> QED
  BY <1>3, <1>4, <1>5, <1>6 DEF MailboxInv, Applying

\* Jobs, threads and the queue of commands in every step but the mailbox's own.
LEMMA MailboxAside ==
  ASSUME IInv, Aside \/ Along \/ ScheduleLaunch \/ (\E j \in JobId : Join(j)) \/ DisposeEnd
  PROVE  ThreadsKept
<1>1. ASSUME Aside PROVE ThreadsKept
  BY <1>1, AsideFacts DEF ThreadsKept
<1>2. ASSUME Along PROVE ThreadsKept
  BY <1>2, AlongFacts DEF ThreadsKept, AllKeep, Keeps
<1>3. ASSUME ScheduleLaunch PROVE ThreadsKept
  BY <1>3, JobPartsLaunch DEF ThreadsKept
<1>4. ASSUME NEW j \in JobId, Join(j) PROVE ThreadsKept
  BY <1>4, JobPartsJoin DEF ThreadsKept
<1>5. ASSUME DisposeEnd PROVE ThreadsKept
  BY <1>5, JobPartsDispose DEF ThreadsKept
<1> QED
  BY <1>1, <1>2, <1>3, <1>4, <1>5

LEMMA MailboxClients ==
  ASSUME IInv, (\E c \in Clients : ClientStep(c)) \/ DisposeBegin
  PROVE  MailboxInv'
<1>0. TypeOK /\ MailboxInv /\ clock \in Nat /\ coordinator \in Locked \cup Unlocked
  BY DEF IInv, TypeOK
<1>1. ThreadsKept
  BY MailboxAside DEF Aside
<1>2. WokenCoordinator # "applying" \/ WokenCoordinator = coordinator
  BY DEF WokenCoordinator
<1>3. ASSUME accepting, CloseMailbox, UNCHANGED stopping PROVE MailboxInv'
  <2> DEFINE event == [kind |-> "shutdown", at |-> clock]
  <2>1. event \in EventType /\ event.kind = "shutdown"
    BY <1>0 DEF EventType
  <2>2. events' = Append(events, event) /\ ~accepting' /\ coordinator' = WokenCoordinator
    BY <1>3 DEF CloseMailbox, Post
  <2> HIDE DEF event
  <2> QED
    BY <1>0, <1>1, <1>2, <1>3, <2>1, <2>2, MailboxPosted
<1>4. ASSUME UNCHANGED <<events, accepting, stopping>>,
             coordinator' = coordinator \/ coordinator' = WokenCoordinator
      PROVE  MailboxInv'
  BY <1>0, <1>1, <1>2, <1>4, MailboxSame
<1>5. ASSUME DisposeBegin PROVE MailboxInv'
  BY <1>3, <1>4, <1>5 DEF DisposeBegin
<1>6. ASSUME NEW c \in Clients, ShutdownCall(c) PROVE MailboxInv'
  BY <1>3, <1>6 DEF ShutdownCall
<1>7. ASSUME NEW c \in Clients, NEW r \in Requests, SubmitCall(c, r) PROVE MailboxInv'
  <2> DEFINE event == [kind |-> "submit", at |-> clock, client |-> c, request |-> r]
  <2>1. event \in EventType /\ event.kind = "submit"
    BY <1>0 DEF EventType
  <2>2. CASE accepting
    <3>1. events' = Append(events, event) /\ UNCHANGED <<accepting, stopping, coordinator>>
      BY <1>7, <2>2 DEF SubmitCall, Post
    <3> HIDE DEF event
    <3> QED
      BY <1>0, <1>1, <2>1, <2>2, <3>1, MailboxPosted
  <2>3. CASE ~accepting
    BY <1>4, <1>7, <2>3 DEF SubmitCall
  <2> QED
    BY <2>2, <2>3
<1>8. ASSUME NEW c \in Clients, NEW j \in CancelTargets, CancelCall(c, j) PROVE MailboxInv'
  <2> DEFINE event == [kind |-> "cancel", at |-> clock, client |-> c, job |-> j]
  <2>1. event \in EventType /\ event.kind = "cancel"
    BY <1>0, JobsAssumption DEF EventType, JobsAssumption
  <2>2. CASE accepting
    <3>1. events' = Append(events, event) /\ UNCHANGED <<accepting, stopping, coordinator>>
      BY <1>8, <2>2 DEF CancelCall, Post
    <3> HIDE DEF event
    <3> QED
      BY <1>0, <1>1, <2>1, <2>2, <3>1, MailboxPosted
  <2>3. CASE ~accepting
    BY <1>4, <1>8, <2>3 DEF CancelCall
  <2> QED
    BY <2>2, <2>3
<1>9. ASSUME NEW c \in Clients,
             \/ \E j \in WaitTargets : WaitCall(c, j)
             \/ Notify(c) \/ TakeReply(c) \/ WaitCheck(c) \/ WaitTimeout(c)
      PROVE  MailboxInv'
  BY <1>4, <1>9 DEF WaitCall, Notify, TakeReply, WaitCheck, WaitTimeout
<1> QED
  BY <1>5, <1>6, <1>7, <1>8, <1>9 DEF ClientStep

LEMMA MailboxWorkers ==
  ASSUME IInv, NEW j \in JobId, WorkerStep(j)
  PROVE  MailboxInv'
<1>0. TypeOK /\ MailboxInv /\ clock \in Nat /\ jobs \in [JobId -> EntryType]
  BY DEF IInv, TypeOK
<1>1. ThreadsKept
  BY MailboxAside DEF Along
<1>2. ASSUME NEW done \in Completions, WorkerReturn(j, done) PROVE MailboxInv'
  <2> DEFINE event == [kind |-> "returned", at |-> clock, job |-> j, completion |-> done]
  <2>1. event \in EventType /\ event.kind = "returned" /\ event.job = j
    BY <1>0, JobsAssumption DEF EventType, JobsAssumption
  <2>2. events' = Append(events, event) /\ UNCHANGED <<accepting, stopping, coordinator>>
    BY <1>2 DEF WorkerReturn, Post
  <2>3. jobs'[j].thread = "returned"
    BY <1>0, <1>2 DEF WorkerReturn, EntryType
  <2> HIDE DEF event
  <2> QED
    BY <1>0, <1>1, <2>1, <2>2, <2>3, MailboxPosted
<1>3. ASSUME WorkerNotify(j) PROVE MailboxInv'
  <2>1. /\ UNCHANGED <<events, accepting, stopping>>
        /\ coordinator' = "applying" => coordinator = "applying"
    BY <1>3 DEF WorkerNotify, WokenCoordinator
  <2> QED
    BY <1>0, <1>1, <2>1, MailboxSame
<1> QED
  BY <1>2, <1>3 DEF WorkerStep

LEMMA MailboxCommands ==
  ASSUME IInv, ApplySubmit \/ ApplyCancel \/ ApplyShutdown \/ ApplyReturned
  PROVE  MailboxInv'
<1>0. TypeOK /\ MailboxInv /\ jobs \in [JobId -> EntryType]
  BY DEF IInv, TypeOK
<1>1. ASSUME ApplySubmit PROVE MailboxInv'
  <2>1. Applying("submit") /\ UNCHANGED <<accepting, stopping>>
    BY <1>1 DEF ApplySubmit
  <2>2. \A j \in JobId : jobs[j].thread \in {"returned", "exited"} =>
                            jobs'[j].thread \in {"returned", "exited"}
    <3> SUFFICES ASSUME NEW j \in JobId, jobs[j].thread \in {"returned", "exited"}
                 PROVE  jobs'[j].thread \in {"returned", "exited"}
      OBVIOUS
    <3>1. jobs[j].state # "absent"
      BY DEF IInv, EntryInv, Absent, Queued, Running, Ended, Terminal, Outcome
    <3> QED
      BY <1>1, <3>1, JobPartsSubmit
  <2> QED
    BY <1>0, <2>1, <2>2, MailboxTaken
<1>2. ASSUME Along PROVE /\ \A j \in JobId : jobs[j].thread \in {"returned", "exited"} =>
                                             jobs'[j].thread \in {"returned", "exited"}
                         /\ \A j \in JobId : jobs'[j].state = "queued" => jobs[j].state = "queued"
  BY <1>2, AlongFacts DEF AllKeep, Keeps
<1>3. ASSUME ApplyCancel \/ ApplyReturned PROVE MailboxInv'
  <2>1. PICK kind \in {"cancel", "returned"} :
          Applying(kind) /\ UNCHANGED <<accepting, stopping>>
    BY <1>3 DEF ApplyCancel, ApplyReturned
  <2> QED
    BY <1>0, <1>2, <1>3, <2>1, MailboxTaken DEF Along
<1>4. ASSUME ApplyShutdown PROVE MailboxInv'
  <2>1. Applying("shutdown") /\ UNCHANGED accepting /\ stopping'
    BY <1>4 DEF ApplyShutdown
  <2>2. ASSUME NEW j \in JobId PROVE jobs'[j].state # "queued"
    <3> DEFINE at == Head(events).at
               e  == jobs[j]
               f  == [e EXCEPT !.state = "cancelled", !.stop_reason = "shutdown",
                               !.finished_at = at]
    <3>1. jobs'[j] = StopForShutdown(e, at) /\ e \in EntryType
      BY <1>0, <1>4 DEF ApplyShutdown
    <3> HIDE DEF at, e
    <3>2. f.state = "cancelled" /\ Retire(f).state = "cancelled"
      BY <3>1 DEF Retire, EntryType
    <3>3. e.state # "queued" => RequestStop(e, "shutdown").state # "queued"
      BY <3>1 DEF RequestStop, EntryType
    <3> QED
      BY <3>1, <3>2, <3>3 DEF StopForShutdown, FinishQueued
  <2> QED
    BY <1>0, <1>2, <1>4, <2>1, <2>2, MailboxTaken DEF Along
<1> QED
  BY <1>1, <1>3, <1>4

LEMMA MailboxStep ==
  ASSUME IInv, [Next]_vars
  PROVE  MailboxInv'
<1>0. TypeOK /\ MailboxInv
  BY DEF IInv
<1>1. ASSUME ThreadsKept, UNCHANGED <<events, accepting, stopping>>,
             coordinator' = "applying" => coordinator = "applying" \/ events # <<>>
      PROVE  MailboxInv'
  BY <1>0, <1>1, MailboxSame
<1>2. CASE UNCHANGED vars
  BY <1>1, <1>2 DEF vars, ThreadsKept
<1>3. CASE Tick
  BY <1>1, <1>3, MailboxAside DEF Tick, Aside
<1>4. CASE DisposeEnd
  BY <1>1, <1>4, MailboxAside DEF DisposeEnd
<1>5. CASE SpuriousWake
  BY <1>1, <1>5, MailboxAside DEF SpuriousWake, Aside
<1>6. ASSUME \/ Acquire \/ ScheduleSkipFinished \/ ScheduleBusy \/ ScheduleDone \/ Decide
             \/ DeadlineWake \/ StopsDone \/ JoinsDone
      PROVE  MailboxInv'
  <2>1. ThreadsKept
    BY <1>6, MailboxAside DEF Aside
  <2> QED
    BY <1>1, <1>6, <2>1 DEF Acquire, ScheduleSkipFinished, ScheduleBusy, ScheduleDone, Decide,
                            AfterDecision, DeadlineWake, StopsDone, JoinsDone
<1>7. ASSUME \/ ExpireBeforeEvent \/ Drained \/ ScheduleExpired \/ ScheduleLaunchFails
             \/ ReleaseCallables \/ Finalize \/ \E j \in JobId : StopOne(j)
      PROVE  MailboxInv'
  <2>1. ThreadsKept
    BY <1>7, MailboxAside DEF Along
  <2> QED
    BY <1>1, <1>7, <2>1 DEF ExpireBeforeEvent, Drained, ScheduleExpired, ScheduleLaunchFails,
                            ReleaseCallables, Finalize, StopOne
<1>8. ASSUME ScheduleLaunch \/ \E j \in JobId : Join(j) PROVE MailboxInv'
  <2>1. ThreadsKept
    BY <1>8, MailboxAside
  <2> QED
    BY <1>1, <1>8, <2>1 DEF ScheduleLaunch, Join
<1>9. CASE CoordinatorStep
  BY <1>6, <1>7, <1>8, <1>9, MailboxCommands DEF CoordinatorStep
<1> QED
  BY <1>2, <1>3, <1>4, <1>5, <1>9, MailboxClients, MailboxWorkers DEF Next, Terminated

\* run() moves on to a phase that promises nothing yet.
LEMMA PhaseAway ==
  ASSUME PhaseInv, coordinator # "finished", coordinator' \notin {"finalizing", "finished"},
         UNCHANGED disposing
  PROVE  PhaseInv'
BY DEF PhaseInv

\* The other threads leave run() where it is, or wake it.
LEMMA PhaseStay ==
  ASSUME IInv, \/ Tick \/ (\E c \in Clients : ClientStep(c)) \/ DisposeBegin
               \/ \E j \in JobId : WorkerStep(j)
  PROVE  PhaseInv'
<1>0. jobs \in [JobId -> EntryType] /\ PhaseInv
  BY DEF IInv, TypeOK
<1>1. coordinator' = coordinator \/ coordinator' = WokenCoordinator
  BY DEF Tick, ClientStep, SubmitCall, CancelCall, WaitCall, ShutdownCall, CloseMailbox, Notify,
         TakeReply, WaitCheck, WaitTimeout, DisposeBegin, WorkerStep, WorkerReturn, WorkerNotify
<1>2. UNCHANGED stopping /\ (disposing' = disposing \/ disposing' = "begun")
  BY DEF Tick, ClientStep, SubmitCall, CancelCall, WaitCall, ShutdownCall, CloseMailbox, Notify,
         TakeReply, WaitCheck, WaitTimeout, DisposeBegin, WorkerStep, WorkerReturn, WorkerNotify,
         MayCall
<1>3. ASSUME NEW j \in JobId
      PROVE  /\ jobs'[j].worker = jobs[j].worker
             /\ jobs'[j].worker_running => jobs[j].worker_running
  <2>1. CASE UNCHANGED jobs
    BY <2>1
  <2>2. ASSUME NEW k \in JobId, WorkerStep(k)
        PROVE  /\ jobs'[j].worker = jobs[j].worker
               /\ jobs'[j].worker_running => jobs[j].worker_running
    <3>1. \/ jobs'[j] = jobs[j]
          \/ jobs'[j] = [jobs[j] EXCEPT !.thread = "returned"]
          \/ jobs'[j] = [jobs[j] EXCEPT !.thread = "exited"]
      BY <1>0, <2>2 DEF WorkerStep, WorkerReturn, WorkerNotify
    <3> DEFINE e == jobs[j]
               f == jobs'[j]
    <3>2. e \in EntryType
      BY <1>0
    <3> HIDE DEF e
    <3>3. [e EXCEPT !.thread = "returned"].worker = e.worker
          /\ [e EXCEPT !.thread = "exited"].worker = e.worker
          /\ ([e EXCEPT !.thread = "returned"].worker_running <=> e.worker_running)
          /\ ([e EXCEPT !.thread = "exited"].worker_running <=> e.worker_running)
      BY <3>2 DEF EntryType
    <3> QED
      BY <3>1, <3>3 DEF e
  <2> QED
    BY <2>1, <2>2, AsideFacts DEF Aside
<1>4. \/ WokenCoordinator = coordinator
      \/ WokenCoordinator = "ready" /\ coordinator = "waiting"
  BY DEF WokenCoordinator
<1> QED
  BY <1>0, <1>1, <1>2, <1>3, <1>4 DEF PhaseInv, AnyWorkers

LEMMA PhaseStep ==
  ASSUME IInv, [Next]_vars
  PROVE  PhaseInv'
<1>0. jobs \in [JobId -> EntryType] /\ PhaseInv
  BY DEF IInv, TypeOK
<1>1. ASSUME \/ Acquire \/ ExpireBeforeEvent \/ ApplySubmit \/ ApplyCancel \/ ApplyShutdown
             \/ ApplyReturned \/ Drained \/ ScheduleSkipFinished \/ ScheduleExpired
             \/ ScheduleBusy \/ ScheduleLaunch \/ ScheduleLaunchFails \/ ScheduleDone
             \/ DeadlineWake \/ SpuriousWake \/ StopsDone \/ JoinsDone \/ Finalize
             \/ \E j \in JobId : StopOne(j) \/ Join(j)
      PROVE  PhaseInv'
  <2>1. coordinator # "finished" /\ coordinator' \notin {"finalizing", "finished"}
    BY <1>1 DEF Acquire, ExpireBeforeEvent, ApplySubmit, ApplyCancel, ApplyShutdown,
                ApplyReturned, Applying, Drained, ScheduleSkipFinished, ScheduleExpired,
                ScheduleBusy, ScheduleLaunch, ScheduleLaunchFails, ScheduleDone, Schedulable,
                Visiting, DeadlineWake, SpuriousWake, StopsDone, JoinsDone, Finalize, StopOne,
                Join
  <2>2. UNCHANGED disposing
    BY <1>1 DEF Acquire, ExpireBeforeEvent, ApplySubmit, ApplyCancel, ApplyShutdown,
                ApplyReturned, Drained, ScheduleSkipFinished, ScheduleExpired,
                ScheduleBusy, ScheduleLaunch, ScheduleLaunchFails, ScheduleDone,
                DeadlineWake, SpuriousWake, StopsDone, JoinsDone, Finalize, StopOne, Join
  <2> QED
    BY <1>0, <2>1, <2>2, PhaseAway
<1>2. CASE Decide
  BY <1>0, <1>2 DEF Decide, AfterDecision, PhaseInv, AnyWorkers
<1>3. CASE ReleaseCallables
  <2>1. ASSUME NEW j \in JobId PROVE jobs'[j].worker # "releasing"
    <3>2. jobs[j].worker # "releasing" => jobs'[j] = jobs[j]
      BY <1>3 DEF ReleaseCallables
    <3>3. [jobs[j] EXCEPT !.worker = "gone"].worker = "gone"
      BY <1>0 DEF EntryType
    <3>4. jobs[j].worker = "releasing" => jobs'[j] = [jobs[j] EXCEPT !.worker = "gone"]
      BY <1>3 DEF ReleaseCallables
    <3> QED
      BY <3>2, <3>3, <3>4
  <2> QED
    BY <1>0, <1>3, <2>1 DEF ReleaseCallables, PhaseInv
<1>4. CASE DisposeEnd
  <2>1. \A j \in JobId : ~jobs'[j].worker_running
    BY <1>0, <1>4, JobPartsDispose DEF DisposeEnd, PhaseInv, AnyWorkers
  <2> QED
    BY <1>0, <1>4, <2>1 DEF DisposeEnd, PhaseInv, AnyWorkers
<1>5. CASE UNCHANGED vars
  BY <1>0, <1>5 DEF vars, PhaseInv, AnyWorkers
<1> QED
  BY <1>1, <1>2, <1>3, <1>4, <1>5, PhaseStay DEF Next, CoordinatorStep, Terminated

LEMMA JobPartsStep ==
  ASSUME IInv, [Next]_vars
  PROVE  JobParts'
<1>1. CASE UNCHANGED vars
  <2>1. (\A j \in JobId : Good(jobs'[j])) /\ AllKeep
    BY <1>1, KeepsSelf, GoodIsInv DEF AllGood, AllKeep, IInv, vars
  <2> QED
    BY <1>1, <2>1, JobPartsKept DEF IInv, JobParts, vars
<1>2. CASE CoordinatorStep
  BY <1>2, JobPartsAside, JobPartsAlong, JobPartsSubmit, JobPartsLaunch, JobPartsJoin
     DEF CoordinatorStep, Aside, Along
<1> QED
  BY <1>1, <1>2, JobPartsAside, JobPartsAlong, JobPartsDispose
     DEF Next, Aside, Along, Terminated

-----------------------------------------------------------------------------
(* The invariant holds, and what follows from it.                          *)

LEMMA Initially == Init => IInv
<1> SUFFICES ASSUME Init PROVE IInv
  OBVIOUS
<1>1. TypeOK
  <2>1. jobs \in [JobId -> EntryType] /\ reservations \in [Gpus -> JobId \cup {NoJob}]
    BY NoEntryType DEF Init
  <2>2. calls \in [Clients -> CallType]
    BY DEF Init, CallType, Idle, Call, Reply
  <2>3. next_id \in 1..(MaxJobs + 1) /\ clock \in Nat /\ made \in Nat /\ cursor \in Nat \ {0}
    BY IdFacts DEF Init
  <2>4. queue \in Seq(JobId) /\ events \in Seq(EventType)
    BY DEF Init
  <2>5. /\ accepting \in BOOLEAN /\ stopping \in BOOLEAN /\ copies \in BOOLEAN
        /\ coordinator = "ready" /\ coordinator \in Locked \cup Unlocked
        /\ disposing \in {"no", "begun", "done"}
    BY DEF Init, Unlocked, Locked
  <2> QED
    BY <2>1, <2>2, <2>3, <2>4, <2>5 DEF TypeOK
<1>2. \A j \in JobId : jobs[j] = NoEntry
  BY DEF Init
<1>3. EntryInv /\ ReservationInv /\ CallableInv /\ StopReasonDecides
  BY <1>2, NoEntryFields
     DEF EntryInv, Absent, ReservationInv, CallableInv, StopReasonDecides, Terminal, Outcome
<1>4. IdInv
  BY <1>2, NoEntryFields DEF Init, IdInv, JobId
<1>5. MailboxInv /\ PhaseInv
  BY DEF Init, MailboxInv, PhaseInv
<1> QED
  BY <1>1, <1>3, <1>4, <1>5 DEF IInv

LEMMA Inductive == IInv /\ [Next]_vars => IInv'
<1> SUFFICES ASSUME IInv, [Next]_vars PROVE IInv'
  OBVIOUS
<1>1. TypeOK'
  BY TypeStep DEF IInv, MailboxInv
<1>2. JobParts' /\ MailboxInv' /\ PhaseInv'
  BY JobPartsStep, MailboxStep, PhaseStep
<1> QED
  BY <1>1, <1>2 DEF IInv, JobParts

\* The fields of every entry, the reservations, the mailbox and the phases of
\* run() agree in every reachable state of Jobs.cpp's coordinator.
THEOREM InvariantHolds == Spec => []IInv
BY Initially, Inductive, PTL DEF Spec

\* Every variable keeps its type, and schedule()'s iterator (Jobs.cpp:364-421)
\* never runs past the end of the queue it erases from.
THEOREM TypeCorrect == Spec => []TypeOK
<1>1. IInv => TypeOK
  BY DEF IInv
<1> QED
  BY <1>1, InvariantHolds, PTL

\* A stopped job ends in the state its first stop reason names, for any number
\* of clients, jobs and GPUs (expire, apply(Cancel), apply(Shutdown),
\* apply(Returned)).
THEOREM StopReasonAlwaysDecides == Spec => []StopReasonDecides
<1>1. IInv => StopReasonDecides
  BY DEF IInv
<1> QED
  BY <1>1, InvariantHolds, PTL

LEMMA OccupiesReserves ==
  ASSUME IInv, NEW j \in JobId, Occupies(j)
  PROVE  reservations[jobs[j].gpu] = j
<1>1. Absent(jobs[j]) \/ Queued(jobs[j]) \/ Running(jobs[j]) \/ Ended(jobs[j])
  BY DEF IInv, EntryInv
<1>2. jobs[j].gpu_reserved
  BY <1>1 DEF Occupies, Absent, Queued, Running, Ended
<1> QED
  BY <1>2 DEF IInv, ReservationInv

\* No two jobs ever occupy one GPU, from launch to confirmed cleanup, for any
\* number of clients, jobs and GPUs and whatever the callbacks report
\* (schedule and the join loop of run()).
THEOREM GpuAlwaysExclusive == Spec => []GpuExclusive
<1>1. IInv => GpuExclusive
  BY OccupiesReserves DEF GpuExclusive
<1> QED
  BY <1>1, InvariantHolds, PTL

\* The callable outlives its thread, and leaves only after confirmed cleanup
\* or at destruction (retire_worker and the join loop of run()).
THEOREM CallableAlwaysLives == Spec => []CallableLifetime
<1>1. IInv => CallableLifetime
  <2> SUFFICES ASSUME IInv, NEW j \in JobId
               PROVE  /\ jobs[j].state # "absent" /\ jobs[j].worker # "held" =>
                           /\ jobs[j].state \in Terminal
                           /\ jobs[j].thread \in {"none", "exited"} /\ jobs[j].handle = "none"
                           /\ jobs[j].cleanup_confirmed \/ disposing = "done"
                      /\ Settled(jobs[j]) /\ jobs[j].cleanup_confirmed => jobs[j].worker = "gone"
    BY DEF CallableLifetime
  <2>1. Absent(jobs[j]) \/ Queued(jobs[j]) \/ Running(jobs[j]) \/ Ended(jobs[j])
    BY DEF IInv, EntryInv
  <2>2. jobs[j].worker \in {"held", "releasing", "gone"}
    BY DEF IInv, TypeOK, EntryType
  <2>3. jobs[j].worker # "held" => jobs[j].cleanup_confirmed \/ disposing = "done"
    BY DEF IInv, CallableInv
  <2> QED
    BY <2>1, <2>2, <2>3 DEF Absent, Queued, Running, Ended, Settled, Terminal, Outcome
<1> QED
  BY <1>1, InvariantHolds, PTL

-----------------------------------------------------------------------------
(* How jobs end.                                                           *)

LEMMA HeadEvent ==
  ASSUME IInv, NEW kind, Applying(kind)
  PROVE  /\ events # <<>> /\ Head(events) = events[1] /\ 1 \in 1..Len(events)
         /\ Head(events).at \in Nat
         /\ kind = "cancel" => Head(events).job \in JobId
         /\ kind = "submit" => Head(events).request \in Requests
         /\ kind = "returned" => Head(events).job \in JobId
<1>1. events # <<>> /\ Head(events).kind = kind /\ events \in Seq(EventType)
  BY DEF Applying, IInv, MailboxInv, TypeOK
<1>2. Head(events) = events[1] /\ 1 \in 1..Len(events)
  BY <1>1
<1> QED
  BY <1>1, <1>2, HeadType

-----------------------------------------------------------------------------
(* An outcome is final.                                                    *)

\* What SettledForever says of one entry.
Steady(e, f) ==
  /\ e.stop_reason # "none" => f.stop_reason = e.stop_reason
  /\ e.state \in Terminal => f.state = e.state /\ f.finished_at = e.finished_at
  /\ Settled(e) => Snapshot(f) = Snapshot(e)

LEMMA SelfSteady == ASSUME NEW e PROVE Steady(e, e)
BY DEF Steady

\* Nothing is final about a job that has not started.
LEMMA YoungSteady == ASSUME NEW e, NEW f, Absent(e) \/ Queued(e) PROVE Steady(e, f)
BY DEF Steady, Absent, Queued, Settled, Terminal, Outcome

LEMMA FieldSteady ==
  ASSUME NEW e \in EntryType
  PROVE  /\ Steady(e, [e EXCEPT !.worker = "gone"])
         /\ Steady(e, [e EXCEPT !.finalization_pending = FALSE])
         /\ Steady(e, [e EXCEPT !.thread = "returned"])
         /\ Steady(e, [e EXCEPT !.thread = "exited"])
         /\ Steady(e, [e EXCEPT !.stop = "requested"])
<1>1. Steady(e, [e EXCEPT !.worker = "gone"])
  BY DEF Steady, Snapshot, EntryType
<1>2. Steady(e, [e EXCEPT !.finalization_pending = FALSE])
  <2> DEFINE f == [e EXCEPT !.finalization_pending = FALSE]
  <2>1. /\ f.state = e.state /\ f.stop_reason = e.stop_reason /\ f.finished_at = e.finished_at
        /\ f.worker_running = e.worker_running /\ f.cleanup_confirmed = e.cleanup_confirmed
        /\ f.gpu_reserved = e.gpu_reserved /\ f.finalization_pending = FALSE
        /\ e.finalization_pending \in BOOLEAN
    BY DEF EntryType
  <2> HIDE DEF f
  <2> QED
    BY <2>1 DEF Steady, Snapshot, Settled, f
<1>3. Steady(e, [e EXCEPT !.thread = "returned"])
  BY DEF Steady, Snapshot, EntryType
<1>4. Steady(e, [e EXCEPT !.thread = "exited"])
  BY DEF Steady, Snapshot, EntryType
<1>5. Steady(e, [e EXCEPT !.stop = "requested"])
  BY DEF Steady, Snapshot, EntryType
<1> QED
  BY <1>1, <1>2, <1>3, <1>4, <1>5

LEMMA RunningSteady ==
  ASSUME NEW e \in EntryType, e.state = "running", NEW reason, NEW done, NEW when
  PROVE  Steady(e, RequestStop(e, reason)) /\ Steady(e, Completed(e, done, when))
BY DEF Steady, Settled, RequestStop, Completed, EntryType, Terminal, Outcome

LEMMA JoinedSteady ==
  ASSUME NEW e \in EntryType, e.worker_running
  PROVE  Steady(e, Joined(e))
BY DEF Steady, Settled, Joined, Retire, EntryType

\* What each step makes of one entry.
LEMMA StepSteady ==
  ASSUME IInv, [Next]_vars, NEW k \in JobId
  PROVE  Steady(jobs[k], jobs'[k])
<1>0. /\ jobs \in [JobId -> EntryType] /\ jobs[k] \in EntryType
      /\ Absent(jobs[k]) \/ Queued(jobs[k]) \/ Running(jobs[k]) \/ Ended(jobs[k])
  BY DEF IInv, TypeOK, EntryInv
<1>1. jobs[k].state \in {"absent", "queued"} => Absent(jobs[k]) \/ Queued(jobs[k])
  BY <1>0 DEF Running, Ended, Terminal, Outcome
<1>2. CASE jobs'[k] = jobs[k]
  BY <1>2, SelfSteady
<1>3. CASE jobs[k].state \in {"absent", "queued"}
  BY <1>1, <1>3, YoungSteady
<1> DEFINE Old == jobs[k].state \notin {"absent", "queued"} /\ jobs'[k] # jobs[k]
<1>4. CASE Old /\ (ReleaseCallables \/ Finalize \/ DisposeEnd
                   \/ \E j \in JobId : WorkerStep(j) \/ StopOne(j))
  <2> DEFINE e == jobs[k]
             f == jobs'[k]
  <2>1. f \in {[e EXCEPT !.worker = "gone"],
               [e EXCEPT !.finalization_pending = FALSE], [e EXCEPT !.thread = "returned"],
               [e EXCEPT !.thread = "exited"], [e EXCEPT !.stop = "requested"]}
    BY <1>0, <1>4 DEF ReleaseCallables, Finalize, DisposeEnd, WorkerStep, WorkerReturn,
                      WorkerNotify, StopOne
  <2>2. e \in EntryType
    BY <1>0
  <2> HIDE DEF e, f
  <2>3. Steady(e, f)
    BY <2>1, <2>2, FieldSteady
  <2> QED
    BY <2>3 DEF e, f
<1>5. CASE Old /\ (ExpireBeforeEvent \/ Drained \/ ApplyCancel \/ ApplyShutdown)
  <2>1. /\ jobs[k].state = "running"
        /\ \E reason : jobs'[k] = RequestStop(jobs[k], reason)
    <3>1. CASE ExpireBeforeEvent \/ Drained
      BY <1>5, <3>1 DEF ExpireBeforeEvent, Drained, Expire
    <3>2. CASE ApplyCancel
      BY <1>0, <1>5, <3>2 DEF ApplyCancel, CancelResult, EntryType
    <3>3. CASE ApplyShutdown
      BY <1>5, <3>3 DEF ApplyShutdown, StopForShutdown
    <3> QED
      BY <1>5, <3>1, <3>2, <3>3
  <2> QED
    BY <1>0, <2>1, RunningSteady
<1>6. CASE Old /\ ApplyReturned
  <2>1. /\ jobs[k].state = "running"
        /\ \E done, when : jobs'[k] = Completed(jobs[k], done, when)
    BY <1>0, <1>6 DEF ApplyReturned, Expects
  <2> QED
    BY <1>0, <2>1, RunningSteady
<1>7. CASE Old /\ \E j \in JobId : Join(j)
  <2>1. jobs'[k] = Joined(jobs[k]) /\ jobs[k].handle = "finished"
    BY <1>0, <1>7 DEF Join, Finished
  <2>2. jobs[k].worker_running
    BY <1>0, <2>1 DEF Absent, Queued, Running, Ended
  <2> QED
    BY <1>0, <2>1, <2>2, JoinedSteady
<1>8. CASE Old /\ (ApplySubmit \/ ScheduleExpired \/ ScheduleLaunch \/ ScheduleLaunchFails)
  <2>1. CASE ApplySubmit
    BY <1>8, <2>1, JobPartsSubmit
  <2>2. CASE ~ApplySubmit
    <3>1. jobs[AtCursor].state = "queued" /\ k # AtCursor
      BY <1>8, <2>2 DEF ScheduleExpired, ScheduleLaunch, ScheduleLaunchFails, Schedulable
    <3> QED
      BY <1>0, <1>8, <2>2, <3>1 DEF ScheduleExpired, ScheduleLaunch, ScheduleLaunchFails
  <2> QED
    BY <2>1, <2>2
<1>9. CASE Aside \/ UNCHANGED vars
  <2>1. UNCHANGED jobs
    BY <1>9, AsideFacts DEF vars
  <2> QED
    BY <2>1, SelfSteady
<1> QED
  BY <1>2, <1>3, <1>4, <1>5, <1>6, <1>7, <1>8, <1>9
     DEF Next, CoordinatorStep, Aside, Terminated

\* The first stop reason and the first final state are the last, and what
\* wait() returned never changes again, for any number of clients, jobs and
\* GPUs (finish_queued, request_stop, apply(Returned), the join loop of run()).
THEOREM OutcomesAreFinal == Spec => SettledForever
<1>1. IInv /\ [Next]_vars =>
        [\A j \in JobId :
           /\ jobs[j].stop_reason # "none" => jobs'[j].stop_reason = jobs[j].stop_reason
           /\ jobs[j].state \in Terminal =>
                jobs'[j].state = jobs[j].state /\ jobs'[j].finished_at = jobs[j].finished_at
           /\ Settled(jobs[j]) => Snapshot(jobs'[j]) = Snapshot(jobs[j])]_vars
  BY StepSteady DEF Steady
<1> QED
  BY <1>1, InvariantHolds, PTL DEF Spec, SettledForever

-----------------------------------------------------------------------------
(* Deadlines are absolute.                                                 *)

\* What DeadlineRespected says of one entry.
Punctual(e) ==
  /\ e.launched => e.submitted_at < e.deadline
  /\ e.state = "succeeded" => e.finished_at < e.deadline

\* A change of an entry that neither launches it nor makes it a success.
Undated(e, f) ==
  /\ f.submitted_at = e.submitted_at /\ f.deadline = e.deadline
  /\ f.launched = e.launched
  /\ f.state = "succeeded" => e.state = "succeeded" /\ f.finished_at = e.finished_at
  /\ f.state = "running" => e.state = "running"
  /\ e.stop_reason # "none" => f.stop_reason # "none"

LEMMA SelfUndated == ASSUME NEW e PROVE Undated(e, e)
BY DEF Undated

LEMMA FieldUndated ==
  ASSUME NEW e \in EntryType
  PROVE  /\ Undated(e, [e EXCEPT !.worker = "gone"])
         /\ Undated(e, [e EXCEPT !.finalization_pending = FALSE])
         /\ Undated(e, [e EXCEPT !.thread = "returned"])
         /\ Undated(e, [e EXCEPT !.thread = "exited"])
         /\ Undated(e, [e EXCEPT !.stop = "requested"])
BY DEF Undated, EntryType

LEMMA FinishQueuedUndated ==
  ASSUME NEW e \in EntryType, NEW state \in {"timed_out", "cancelled"}, NEW reason \in Reason,
         NEW when
  PROVE  Undated(e, FinishQueued(e, state, reason, when))
BY DEF Undated, FinishQueued, Retire, EntryType, Reason

LEMMA RequestStopUndated ==
  ASSUME NEW e \in EntryType, NEW reason \in Reason
  PROVE  /\ Undated(e, RequestStop(e, reason))
         /\ RequestStop(e, reason).stop_reason # "none"
BY DEF Undated, RequestStop, EntryType, Reason

LEMMA JoinedUndated == ASSUME NEW e \in EntryType PROVE Undated(e, Joined(e))
BY DEF Undated, Joined, Retire, EntryType

\* After expire() no running job is late and unasked to stop.
LEMMA ExpireUndated ==
  ASSUME NEW js \in [JobId -> EntryType], NEW when \in Nat, NEW j \in JobId
  PROVE  /\ Undated(js[j], Expire(js, when)[j])
         /\ LET f == Expire(js, when)[j]
            IN  f.state = "running" /\ f.deadline <= when => f.stop_reason # "none"
<1>1. js[j] \in EntryType /\ "deadline" \in Reason
  BY DEF Reason
<1>2. CASE ~Expired(js[j].deadline, when)
  BY <1>2, SelfUndated DEF Expire, Expired
<1>3. CASE Expired(js[j].deadline, when) /\ js[j].state = "queued"
  <2>1. Expire(js, when)[j] = FinishQueued(js[j], "timed_out", "deadline", js[j].deadline)
    BY <1>3 DEF Expire
  <2>2. FinishQueued(js[j], "timed_out", "deadline", js[j].deadline).state = "timed_out"
    BY <1>1 DEF FinishQueued, Retire, EntryType
  <2> QED
    BY <1>1, <2>1, <2>2, FinishQueuedUndated
<1>4. CASE Expired(js[j].deadline, when) /\ js[j].state = "running"
  BY <1>1, <1>4, RequestStopUndated DEF Expire
<1>5. CASE Expired(js[j].deadline, when) /\ js[j].state \notin {"queued", "running"}
  BY <1>5, SelfUndated DEF Expire
<1> QED
  BY <1>2, <1>3, <1>4, <1>5

LEMMA StopForShutdownUndated ==
  ASSUME NEW e \in EntryType, NEW when
  PROVE  Undated(e, StopForShutdown(e, when))
<1>1. "shutdown" \in Reason
  BY DEF Reason
<1> QED
  BY <1>1, SelfUndated, FinishQueuedUndated, RequestStopUndated DEF StopForShutdown

\* Every step but a launch, a submission and a completion leaves the dates.
LEMMA StepUndated ==
  ASSUME IInv, [Next]_vars, NEW k \in JobId,
         ~ScheduleLaunch, ~ScheduleLaunchFails, ~ApplySubmit, ~ApplyReturned
  PROVE  Undated(jobs[k], jobs'[k])
<1>0. /\ jobs \in [JobId -> EntryType] /\ jobs[k] \in EntryType /\ clock \in Nat
      /\ {"deadline", "cancellation", "shutdown"} \subseteq Reason
  BY DEF IInv, TypeOK, Reason
<1>1. CASE jobs'[k] = jobs[k]
  BY <1>1, SelfUndated
<1>2. CASE /\ jobs'[k] # jobs[k]
           /\ \/ ReleaseCallables \/ Finalize \/ DisposeEnd
              \/ \E j \in JobId : WorkerStep(j) \/ StopOne(j)
  <2> DEFINE e == jobs[k]
             f == jobs'[k]
  <2>1. f \in {[e EXCEPT !.worker = "gone"],
               [e EXCEPT !.finalization_pending = FALSE], [e EXCEPT !.thread = "returned"],
               [e EXCEPT !.thread = "exited"], [e EXCEPT !.stop = "requested"]}
    BY <1>0, <1>2 DEF ReleaseCallables, Finalize, DisposeEnd, WorkerStep, WorkerReturn,
                      WorkerNotify, StopOne
  <2>2. e \in EntryType
    BY <1>0
  <2> HIDE DEF e, f
  <2>3. Undated(e, f)
    BY <2>1, <2>2, FieldUndated
  <2> QED
    BY <2>3 DEF e, f
<1>3. CASE ExpireBeforeEvent
  <2>1. Head(events).at \in Nat
    BY <1>3, HeadType DEF ExpireBeforeEvent, IInv, TypeOK
  <2> QED
    BY <1>0, <1>3, <2>1, ExpireUndated DEF ExpireBeforeEvent
<1>4. CASE Drained
  BY <1>0, <1>4, ExpireUndated DEF Drained
<1>5. CASE ApplyCancel /\ jobs'[k] # jobs[k]
  <2>1. \/ jobs'[k] = FinishQueued(jobs[k], "cancelled", "cancellation", Head(events).at)
        \/ jobs'[k] = RequestStop(jobs[k], "cancellation")
    BY <1>0, <1>5 DEF ApplyCancel
  <2> QED
    BY <1>0, <2>1, FinishQueuedUndated, RequestStopUndated
<1>6. CASE ApplyShutdown
  BY <1>0, <1>6, StopForShutdownUndated DEF ApplyShutdown
<1>7. CASE ScheduleExpired /\ jobs'[k] # jobs[k]
  <2>1. jobs'[k] = FinishQueued(jobs[k], "timed_out", "deadline", jobs[k].deadline)
    BY <1>0, <1>7 DEF ScheduleExpired
  <2> QED
    BY <1>0, <2>1, FinishQueuedUndated
<1>8. CASE (\E j \in JobId : Join(j)) /\ jobs'[k] # jobs[k]
  <2>1. jobs'[k] = Joined(jobs[k])
    BY <1>0, <1>8 DEF Join
  <2> QED
    BY <1>0, <2>1, JoinedUndated
<1>9. CASE Aside \/ UNCHANGED vars
  <2>1. UNCHANGED jobs
    BY <1>9, AsideFacts DEF vars
  <2> QED
    BY <2>1, SelfUndated
<1> QED
  BY <1>1, <1>2, <1>3, <1>4, <1>5, <1>6, <1>7, <1>8, <1>9
     DEF Next, CoordinatorStep, Aside, Terminated

\* Events are dated by the clock that was read when they were posted.
LEMMA EventsDated ==
  ASSUME IInv, DeadlineInv, [Next]_vars
  PROVE  /\ clock \in Nat /\ clock' \in Nat /\ clock <= clock'
         /\ \A i \in 1..Len(events') : events'[i].at <= clock'
<1>0. /\ clock \in Nat /\ events \in Seq(EventType) /\ Len(events) \in Nat
      /\ \A i \in 1..Len(events) : events[i].at <= clock /\ events[i].at \in Nat
  BY DEF IInv, TypeOK, DeadlineInv, EventType
<1>1. clock' \in Nat /\ clock <= clock'
  <2>1. clock' = clock + 1 \/ clock' = clock
    BY DEF Next, Tick, ClientStep, SubmitCall, CancelCall, WaitCall, ShutdownCall, Notify,
       TakeReply, WaitCheck, WaitTimeout, DisposeBegin, DisposeEnd, WorkerStep, WorkerReturn,
       WorkerNotify, CoordinatorStep, Acquire, ExpireBeforeEvent, ApplySubmit, ApplyCancel,
       ApplyShutdown, ApplyReturned, Drained, ScheduleSkipFinished, ScheduleExpired,
       ScheduleBusy, ScheduleLaunch, ScheduleLaunchFails, ScheduleDone, Decide, DeadlineWake,
       SpuriousWake, StopOne, StopsDone, Join, JoinsDone, ReleaseCallables, Finalize,
       Terminated, vars
  <2> QED
    BY <1>0, <2>1
<1>2. CASE UNCHANGED events
  BY <1>0, <1>1, <1>2
<1>3. ASSUME NEW event, Post(event), event.at = clock
      PROVE  \A i \in 1..Len(events') : events'[i].at <= clock'
  <2>1. /\ Len(events') = Len(events) + 1 /\ events'[Len(events) + 1] = event
        /\ \A i \in 1..Len(events) : events'[i] = events[i]
    BY <1>0, <1>3 DEF Post
  <2> SUFFICES ASSUME NEW i \in 1..Len(events') PROVE events'[i].at <= clock'
    OBVIOUS
  <2>2. CASE i = Len(events) + 1
    BY <1>0, <1>1, <1>3, <2>1, <2>2
  <2>3. CASE i \in 1..Len(events)
    BY <1>0, <1>1, <2>1, <2>3
  <2> QED
    BY <1>0, <2>1, <2>2, <2>3
<1> DEFINE Dated == \A i \in 1..Len(events') : events'[i].at <= clock'
<1> HIDE DEF Dated
<1>4. ASSUME NEW c \in Clients, ClientStep(c) PROVE Dated
  <2>1. ASSUME NEW r \in Requests, SubmitCall(c, r) PROVE Dated
    <3> DEFINE event == [kind |-> "submit", at |-> clock, client |-> c, request |-> r]
    <3>1. (UNCHANGED events \/ Post(event)) /\ event.at = clock
      BY <2>1 DEF SubmitCall
    <3> HIDE DEF event
    <3> QED
      BY <1>2, <1>3, <3>1 DEF Dated
  <2>2. ASSUME NEW j \in CancelTargets, CancelCall(c, j) PROVE Dated
    <3> DEFINE event == [kind |-> "cancel", at |-> clock, client |-> c, job |-> j]
    <3>1. (UNCHANGED events \/ Post(event)) /\ event.at = clock
      BY <2>2 DEF CancelCall
    <3> HIDE DEF event
    <3> QED
      BY <1>2, <1>3, <3>1 DEF Dated
  <2>3. CASE ShutdownCall(c)
    <3> DEFINE event == [kind |-> "shutdown", at |-> clock]
    <3>1. Post(event) /\ event.at = clock
      BY <2>3 DEF ShutdownCall, CloseMailbox
    <3> HIDE DEF event
    <3> QED
      BY <1>3, <3>1 DEF Dated
  <2>4. CASE UNCHANGED events
    BY <1>2, <2>4 DEF Dated
  <2> QED
    BY <1>4, <2>1, <2>2, <2>3, <2>4
       DEF ClientStep, WaitCall, Notify, TakeReply, WaitCheck, WaitTimeout
<1>5. ASSUME DisposeBegin PROVE Dated
  <2> DEFINE event == [kind |-> "shutdown", at |-> clock]
  <2>1. (UNCHANGED events \/ Post(event)) /\ event.at = clock
    BY <1>5 DEF DisposeBegin, CloseMailbox
  <2> HIDE DEF event
  <2> QED
    BY <1>2, <1>3, <2>1 DEF Dated
<1>6. ASSUME NEW j \in JobId, WorkerStep(j) PROVE Dated
  <2>1. ASSUME NEW done \in Completions, WorkerReturn(j, done) PROVE Dated
    <3> DEFINE event == [kind |-> "returned", at |-> clock, job |-> j, completion |-> done]
    <3>1. Post(event) /\ event.at = clock
      BY <2>1 DEF WorkerReturn
    <3> HIDE DEF event
    <3> QED
      BY <1>3, <3>1 DEF Dated
  <2> QED
    BY <1>2, <1>6, <2>1 DEF WorkerStep, WorkerNotify, Dated
<1>7. CASE ApplySubmit \/ ApplyCancel \/ ApplyShutdown \/ ApplyReturned
  <2>1. events # <<>> /\ events' = Tail(events)
    BY <1>7, HeadEvent DEF ApplySubmit, ApplyCancel, ApplyShutdown, ApplyReturned, Applying
  <2>2. /\ Len(events') = Len(events) - 1
        /\ \A i \in 1..(Len(events) - 1) : events'[i] = events[i + 1] /\ i + 1 \in 1..Len(events)
    BY <1>0, <2>1
  <2> QED
    BY <1>0, <1>1, <2>2
<1>8. CASE /\ ~\E c \in Clients : ClientStep(c)
           /\ ~\E j \in JobId : WorkerStep(j)
           /\ ~DisposeBegin /\ ~ApplySubmit /\ ~ApplyCancel /\ ~ApplyShutdown /\ ~ApplyReturned
  <2>1. UNCHANGED events
    BY <1>8 DEF Next, Tick, DisposeEnd, CoordinatorStep, Acquire, ExpireBeforeEvent, Drained,
       ScheduleSkipFinished, ScheduleExpired, ScheduleBusy, ScheduleLaunch,
       ScheduleLaunchFails, ScheduleDone, Decide, DeadlineWake, SpuriousWake, StopOne,
       StopsDone, Join, JoinsDone, ReleaseCallables, Finalize, Terminated, vars
  <2> QED
    BY <1>2, <2>1
<1> QED
  BY <1>0, <1>1, <1>4, <1>5, <1>6, <1>7, <1>8 DEF Dated

\* Jobs are launched in time, and finished in time if they succeed.
LEMMA StepPunctual ==
  ASSUME IInv, DeadlineInv, [Next]_vars, NEW k \in JobId
  PROVE  Punctual(jobs'[k]) /\ jobs'[k].submitted_at <= clock'
<1>0. /\ jobs \in [JobId -> EntryType] /\ jobs[k] \in EntryType
      /\ jobs[k].submitted_at \in Nat /\ jobs[k].deadline \in Nat
      /\ jobs[k].submitted_at <= clock /\ Punctual(jobs[k])
      /\ clock \in Nat /\ clock' \in Nat /\ clock <= clock'
  BY EventsDated DEF IInv, TypeOK, DeadlineInv, DeadlineRespected, Punctual, EntryType
<1>1. CASE Undated(jobs[k], jobs'[k])
  BY <1>0, <1>1 DEF Undated, Punctual
<1>2. CASE ScheduleLaunch \/ ScheduleLaunchFails
  <2>1. CASE jobs'[k] = jobs[k]
    BY <1>1, <2>1, SelfUndated
  <2>2. CASE jobs'[k] # jobs[k]
    <3>1. ~Expired(jobs[k].deadline, clock)
      BY <1>0, <1>2, <2>2 DEF ScheduleLaunch, ScheduleLaunchFails, Schedulable
    <3>2. /\ jobs'[k].submitted_at = jobs[k].submitted_at
          /\ jobs'[k].deadline = jobs[k].deadline
          /\ jobs'[k].state \in {"running", "failed"}
      <4>1. CASE ScheduleLaunch
        BY <1>0, <2>2, <4>1 DEF ScheduleLaunch, EntryType
      <4>2. CASE ScheduleLaunchFails
        BY <1>0, <2>2, <4>2 DEF ScheduleLaunchFails, Retire, EntryType
      <4> QED
        BY <1>2, <4>1, <4>2
    <3> QED
      BY <1>0, <3>1, <3>2 DEF Expired, Punctual
  <2> QED
    BY <2>1, <2>2
<1>3. CASE ApplySubmit
  <2>1. CASE jobs'[k] = jobs[k]
    BY <1>1, <2>1, SelfUndated
  <2>2. CASE jobs'[k] # jobs[k]
    <3>1. /\ jobs'[k].submitted_at = Head(events).at /\ ~jobs'[k].launched
          /\ jobs'[k].state = "queued"
      <4> DEFINE r == Head(events).request
                 new == [NoEntry EXCEPT !.state = "queued", !.capture = r.capture,
                                        !.gpu = r.gpu, !.submitted_at = Head(events).at,
                                        !.deadline = r.deadline, !.worker = "held"]
      <4>1. jobs' = [jobs EXCEPT ![next_id] = new]
        BY <1>3, <2>2 DEF ApplySubmit
      <4>2. new.submitted_at = Head(events).at /\ ~new.launched /\ new.state = "queued"
        BY DEF NoEntry
      <4> HIDE DEF new
      <4>3. jobs'[k] = new
        BY <1>0, <2>2, <4>1
      <4> QED
        BY <4>2, <4>3
    <3>2. Head(events).at <= clock /\ Head(events).at \in Nat
      BY <1>3, HeadEvent DEF ApplySubmit, DeadlineInv
    <3> QED
      BY <1>0, <3>1, <3>2 DEF Punctual
  <2> QED
    BY <2>1, <2>2
<1>4. CASE ApplyReturned
  <2>1. CASE jobs'[k] = jobs[k]
    BY <1>1, <2>1, SelfUndated
  <2>2. CASE jobs'[k] # jobs[k]
    <3> DEFINE e == jobs[k]
               event == Head(events)
    <3>1. /\ jobs'[k] = Completed(e, event.completion, event.at)
          /\ e.state = "running" /\ coordinator = "applying"
      BY <1>0, <1>4, <2>2 DEF ApplyReturned, Applying, Expects
    <3>2. event.at \in Nat
      BY <1>4, HeadEvent DEF ApplyReturned
    <3>3. e.deadline <= event.at => e.stop_reason # "none"
      BY <3>1 DEF DeadlineInv
    <3>4. /\ jobs'[k].submitted_at = e.submitted_at /\ jobs'[k].deadline = e.deadline
          /\ jobs'[k].launched = e.launched /\ jobs'[k].finished_at = event.at
          /\ jobs'[k].state = "succeeded" => e.stop_reason = "none"
      BY <1>0, <3>1 DEF Completed, EntryType
    <3> HIDE DEF e, event
    <3>5. Punctual(jobs'[k])
      BY <1>0, <3>2, <3>3, <3>4 DEF Punctual, e
    <3> QED
      BY <1>0, <3>4, <3>5 DEF e
  <2> QED
    BY <2>1, <2>2
<1> QED
  BY <1>1, <1>2, <1>3, <1>4, StepUndated

LEMMA DeadlineStep ==
  ASSUME IInv, DeadlineInv, [Next]_vars
  PROVE  DeadlineInv'
<1>1. \A j \in JobId : Punctual(jobs'[j]) /\ jobs'[j].submitted_at <= clock'
  BY StepPunctual
<1>2. ASSUME coordinator' = "applying", NEW j \in JobId, jobs'[j].state = "running",
             jobs'[j].deadline <= Head(events').at
      PROVE  jobs'[j].stop_reason # "none"
  <2>0. jobs \in [JobId -> EntryType] /\ jobs[j] \in EntryType
    BY DEF IInv, TypeOK
  <2>1. CASE ExpireBeforeEvent
    <3>1. /\ jobs' = Expire(jobs, Head(events).at) /\ Head(events').at = Head(events).at
          /\ Head(events).at \in Nat
      BY <2>1, HeadType DEF ExpireBeforeEvent, IInv, TypeOK
    <3> QED
      BY <1>2, <2>0, <3>1, ExpireUndated
  <2>2. CASE ~ExpireBeforeEvent
    <3>1. /\ coordinator = "applying" /\ UNCHANGED events
          /\ ~ScheduleLaunch /\ ~ScheduleLaunchFails /\ ~ApplySubmit /\ ~ApplyReturned
      BY <1>2, <2>2
         DEF Next, Tick, ClientStep, SubmitCall, CancelCall, WaitCall, ShutdownCall, Notify,
             TakeReply, WaitCheck, WaitTimeout, DisposeBegin, DisposeEnd, WorkerStep,
             WorkerReturn, WorkerNotify, WokenCoordinator, CoordinatorStep, Acquire,
             ApplySubmit, ApplyCancel, ApplyShutdown, ApplyReturned, Applying, Drained,
             ScheduleSkipFinished, ScheduleExpired, ScheduleBusy, ScheduleLaunch,
             ScheduleLaunchFails, Schedulable, Visiting, ScheduleDone, Decide, AfterDecision,
             DeadlineWake, SpuriousWake, StopOne, StopsDone, Join, JoinsDone,
             ReleaseCallables, Finalize, Terminated, MayCall, MutexFree, Locked, vars,
             CloseMailbox
    <3>2. Undated(jobs[j], jobs'[j])
      BY <3>1, StepUndated
    <3> QED
      BY <1>2, <3>1, <3>2 DEF Undated, DeadlineInv
  <2> QED
    BY <2>1, <2>2
<1> QED
  BY <1>1, <1>2, EventsDated DEF DeadlineInv, DeadlineRespected, Punctual

LEMMA DeadlineInitially == Init => DeadlineInv
<1> SUFFICES ASSUME Init PROVE DeadlineInv
  OBVIOUS
<1>1. \A j \in JobId : jobs[j] = NoEntry
  BY DEF Init
<1>2. NoEntry.submitted_at = 0 /\ ~NoEntry.launched /\ NoEntry.state = "absent"
  BY DEF NoEntry
<1>3. events = <<>> /\ Len(events) = 0 /\ clock = 0 /\ coordinator = "ready"
  BY DEF Init
<1> QED
  BY <1>1, <1>2, <1>3 DEF DeadlineInv, DeadlineRespected

\* A request that was too late when it was accepted never launches, and a job
\* that succeeded had posted its completion strictly before its deadline,
\* however late the mailbox was drained, for any number of clients, jobs and
\* GPUs (expire, apply and schedule).
THEOREM DeadlinesAreRespected == Spec => []DeadlineRespected
<1>1. IInv /\ DeadlineInv /\ [Next]_vars => DeadlineInv'
  BY DeadlineStep
<1>2. DeadlineInv => DeadlineRespected
  BY DEF DeadlineInv
<1> QED
  BY <1>1, <1>2, DeadlineInitially, InvariantHolds, PTL DEF Spec


-----------------------------------------------------------------------------
(* Jobs implements GpuLease: on top of the inductive invariant the order   *)
(* of the queue carries the promise that the oldest waiting job of a GPU   *)
(* is the next to start there.                                             *)

-----------------------------------------------------------------------------
(* The queue.                                                              *)

\* Steps that leave the queue alone.
LEMMA QueueSame ==
  ASSUME TypeOK, QueueInv, UNCHANGED <<queue, next_id, reservations>>,
         \A j \in JobId : /\ jobs'[j].gpu = jobs[j].gpu
                          /\ jobs'[j].state = "queued" => jobs[j].state = "queued",
         coordinator' = "scheduling" =>
           cursor' = 1 \/ (coordinator = "scheduling" /\ cursor' = cursor)
  PROVE  QueueInv'
<1>1. ASSUME coordinator' = "scheduling", NEW i \in 1..Len(queue), i < cursor'
      PROVE  reservations[jobs'[queue[i]].gpu] # NoJob
  <2>1. queue[i] \in JobId /\ i \in Nat /\ i >= 1
    BY DEF TypeOK
  <2>2. coordinator = "scheduling" /\ cursor' = cursor
    BY <1>1, <2>1
  <2> QED
    BY <1>1, <2>1, <2>2 DEF QueueInv
<1> QED
  BY <1>1 DEF QueueInv

\* erase() at the iterator keeps the order, and the queued jobs but that one.
LEMMA QueueErased ==
  ASSUME IInv, QueueInv, Visiting, queue' = RemoveAt(queue, cursor),
         UNCHANGED <<next_id, coordinator, cursor>>,
         \A j \in JobId : /\ jobs'[j].gpu = jobs[j].gpu
                          /\ jobs'[j].state = "queued" => jobs[j].state = "queued",
         jobs'[AtCursor].state # "queued",
         \A g \in Gpus : reservations[g] # NoJob => reservations'[g] # NoJob
  PROVE  QueueInv'
<1>0. /\ queue \in Seq(JobId) /\ Len(queue) \in Nat /\ cursor \in Nat \ {0} /\ cursor <= Len(queue)
      /\ \A i \in 1..Len(queue) : queue[i] \in JobId
  BY DEF IInv, TypeOK, Visiting
<1>1. /\ Len(queue') = Len(queue) - 1
      /\ \A i \in 1..(Len(queue) - 1) :
           queue'[i] = IF i < cursor THEN queue[i] ELSE queue[i + 1]
  BY <1>0, RemoveAtFacts
<1> DEFINE old(i) == IF i < cursor THEN i ELSE i + 1
<1>2. \A i \in 1..Len(queue') : old(i) \in 1..Len(queue) /\ queue'[i] = queue[old(i)]
  BY <1>0, <1>1
<1>3. \A i, k \in 1..Len(queue') : i < k => queue'[i] < queue'[k]
  <2> SUFFICES ASSUME NEW i \in 1..Len(queue'), NEW k \in 1..Len(queue'), i < k
               PROVE  queue'[i] < queue'[k]
    OBVIOUS
  <2>1. old(i) < old(k)
    BY <1>0, <1>1
  <2> QED
    BY <1>2, <2>1 DEF QueueInv
<1>4. \A i \in 1..Len(queue') : queue'[i] < next_id'
  BY <1>2 DEF QueueInv
<1>5. ASSUME NEW j \in JobId, jobs'[j].state = "queued"
      PROVE  \E i \in 1..Len(queue') : queue'[i] = j
  <2>1. PICK p \in 1..Len(queue) : queue[p] = j
    BY <1>5 DEF QueueInv
  <2>2. p # cursor
    BY <1>5, <2>1 DEF AtCursor
  <2>3. CASE p < cursor
    BY <1>0, <1>1, <2>1, <2>3
  <2>4. CASE p > cursor
    <3>1. p - 1 \in 1..(Len(queue) - 1) /\ ~(p - 1 < cursor) /\ (p - 1) + 1 = p
      BY <1>0, <2>4
    <3>2. queue'[p - 1] = queue[p]
      BY <1>1, <3>1
    <3> QED
      BY <1>1, <2>1, <3>1, <3>2
  <2> QED
    BY <1>0, <2>2, <2>3, <2>4
<1>6. ASSUME coordinator' = "scheduling", NEW i \in 1..Len(queue'), i < cursor'
      PROVE  reservations'[jobs'[queue'[i]].gpu] # NoJob
  <2>1. i \in 1..Len(queue) /\ i < cursor /\ queue'[i] = queue[i] /\ queue[i] \in JobId
    BY <1>0, <1>1, <1>6
  <2>2. reservations[jobs[queue[i]].gpu] # NoJob
    BY <1>6, <2>1 DEF QueueInv
  <2>3. jobs[queue[i]].gpu \in Gpus
    BY <2>1 DEF QueueInv, IInv, IdInv
  <2> QED
    BY <2>1, <2>2, <2>3
<1> QED
  BY <1>3, <1>4, <1>5, <1>6 DEF QueueInv

LEMMA QueueSubmitted ==
  ASSUME IInv, QueueInv, ApplySubmit
  PROVE  QueueInv'
<1> DEFINE r == Head(events).request
<1>0. /\ queue \in Seq(JobId) /\ Len(queue) \in Nat
      /\ jobs \in [JobId -> EntryType] /\ next_id \in 1..(MaxJobs + 1)
      /\ \A i \in 1..Len(queue) : queue[i] \in JobId
  BY DEF IInv, TypeOK
<1>1. coordinator' # "scheduling"
  BY DEF ApplySubmit, Applying
<1>2. CASE ~Admissible(r)
  <2>1. UNCHANGED <<jobs, queue, next_id>>
    BY <1>2 DEF ApplySubmit
  <2> QED
    BY <1>1, <2>1 DEF QueueInv
<1>3. CASE Admissible(r)
  <2>1. next_id \in JobId /\ next_id \in Nat
    BY <1>0, <1>3, IdFacts DEF Admissible, JobId
  <2>2. /\ queue' = Append(queue, next_id) /\ next_id' = next_id + 1
        /\ \A j \in JobId : j # next_id => jobs'[j] = jobs[j]
    BY <1>0, <1>3, <2>1 DEF ApplySubmit, Enqueued
  <2>3. /\ Len(queue') = Len(queue) + 1 /\ queue'[Len(queue) + 1] = next_id
        /\ \A i \in 1..Len(queue) : queue'[i] = queue[i]
    BY <1>0, <2>1, <2>2
  <2>4. \A i \in 1..Len(queue') : queue'[i] < next_id'
    <3> SUFFICES ASSUME NEW i \in 1..Len(queue') PROVE queue'[i] < next_id'
      OBVIOUS
    <3>1. CASE i \in 1..Len(queue)
      <4>1. queue[i] < next_id /\ queue[i] \in Nat
        BY <1>0, <3>1, IdFacts DEF QueueInv
      <4> QED
        BY <2>1, <2>2, <2>3, <3>1, <4>1
    <3>2. CASE i = Len(queue) + 1
      BY <2>1, <2>2, <2>3, <3>2
    <3> QED
      BY <1>0, <2>3, <3>1, <3>2
  <2>5. \A i, k \in 1..Len(queue') : i < k => queue'[i] < queue'[k]
    <3> SUFFICES ASSUME NEW i \in 1..Len(queue'), NEW k \in 1..Len(queue'), i < k
                 PROVE  queue'[i] < queue'[k]
      OBVIOUS
    <3>1. i \in 1..Len(queue)
      BY <1>0, <2>3
    <3>2. CASE k \in 1..Len(queue)
      BY <2>3, <3>1, <3>2 DEF QueueInv
    <3>3. CASE k = Len(queue) + 1
      BY <2>3, <3>1, <3>3 DEF QueueInv
    <3> QED
      BY <1>0, <2>3, <3>2, <3>3
  <2>6. ASSUME NEW j \in JobId, jobs'[j].state = "queued"
        PROVE  \E i \in 1..Len(queue') : queue'[i] = j
    <3>1. CASE j = next_id
      BY <1>0, <2>3, <3>1
    <3>2. CASE j # next_id
      <4>1. PICK p \in 1..Len(queue) : queue[p] = j
        BY <2>2, <2>6, <3>2 DEF QueueInv
      <4> QED
        BY <1>0, <2>3, <4>1
    <3> QED
      BY <3>1, <3>2
  <2> QED
    BY <1>1, <2>4, <2>5, <2>6 DEF QueueInv
<1> QED
  BY <1>2, <1>3
LEMMA QueueStep ==
  ASSUME IInv, QueueInv, [Next]_vars
  PROVE  QueueInv'
<1>0. TypeOK /\ NoJob \notin JobId /\ \A j \in JobId : jobs[j] \in EntryType
  BY IdFacts DEF IInv, TypeOK
<1>1. CASE UNCHANGED vars
  BY <1>1 DEF vars, QueueInv
<1>2. CASE Aside /\ ~ScheduleSkipFinished /\ ~ScheduleBusy
  <2>1. /\ UNCHANGED <<queue, next_id, reservations, jobs>>
        /\ coordinator' = "scheduling" => coordinator = "scheduling" /\ cursor' = cursor
    BY <1>2 DEF Aside, Tick, ClientStep, SubmitCall, CancelCall, WaitCall, ShutdownCall, Notify,
                TakeReply, WaitCheck, WaitTimeout, DisposeBegin, CloseMailbox, WokenCoordinator,
                Acquire, ScheduleDone, Decide, AfterDecision, DeadlineWake, SpuriousWake,
                StopsDone, JoinsDone
  <2> QED
    BY <1>0, <2>1, QueueSame
<1>3. CASE ScheduleSkipFinished
  <2>1. Visiting /\ AtCursor \in JobId
    BY <1>0, <1>3, RemoveAtFacts DEF ScheduleSkipFinished, Visiting, TypeOK
  <2> QED
    BY <1>3, <2>1, QueueErased DEF ScheduleSkipFinished
<1>4. CASE ScheduleBusy
  <2>1. /\ UNCHANGED <<jobs, next_id, queue, reservations, coordinator>>
        /\ cursor' = cursor + 1 /\ reservations[jobs[queue[cursor]].gpu] # NoJob
        /\ coordinator = "scheduling" /\ cursor \in Nat \ {0} /\ Len(queue) \in Nat
    BY <1>0, <1>4 DEF ScheduleBusy, Schedulable, Visiting, AtCursor, TypeOK
  <2>2. \A i \in 1..Len(queue) : i < cursor' => i < cursor \/ i = cursor
    BY <2>1
  <2> QED
    BY <2>1, <2>2 DEF QueueInv
<1>5. CASE Along /\ ~ScheduleExpired /\ ~ScheduleLaunchFails
  <2>1. /\ UNCHANGED queue
        /\ coordinator' = "scheduling" =>
             cursor' = 1 \/ (coordinator = "scheduling" /\ cursor' = cursor)
    BY <1>5 DEF Along, WorkerStep, WorkerReturn, WorkerNotify, WokenCoordinator, StopOne,
                ExpireBeforeEvent, ApplyCancel, ApplyShutdown, ApplyReturned, Applying, Drained,
                ReleaseCallables, Finalize
  <2> QED
    BY <1>0, <1>5, <2>1, AlongFacts, QueueSame DEF AllKeep, Keeps
<1>6. CASE ScheduleExpired \/ ScheduleLaunchFails
  <2>1. Visiting /\ AtCursor \in JobId /\ jobs \in [JobId -> EntryType]
    BY <1>0, <1>6, RemoveAtFacts
       DEF ScheduleExpired, ScheduleLaunchFails, Schedulable, Visiting, TypeOK
  <2>2. jobs'[AtCursor].state # "queued"
    <3>1. /\ jobs[AtCursor] \in EntryType
          /\ \/ jobs'[AtCursor] = FinishQueued(jobs[AtCursor], "timed_out", "deadline",
                                              jobs[AtCursor].deadline)
             \/ jobs'[AtCursor] = Retire([jobs[AtCursor] EXCEPT !.state = "failed",
                                            !.launched = TRUE, !.finished_at = clock])
      BY <1>6, <2>1 DEF ScheduleExpired, ScheduleLaunchFails
    <3> QED
      BY <3>1 DEF FinishQueued, Retire, EntryType
  <2>3. /\ UNCHANGED <<next_id, coordinator, cursor, reservations>>
        /\ queue' = RemoveAt(queue, cursor)
        /\ \A j \in JobId : /\ jobs'[j].gpu = jobs[j].gpu
                            /\ jobs'[j].state = "queued" => jobs[j].state = "queued"
    BY <1>6, AlongFacts DEF Along, ScheduleExpired, ScheduleLaunchFails, AllKeep, Keeps
  <2> QED
    BY <2>1, <2>2, <2>3, QueueErased
<1>7. CASE ScheduleLaunch
  <2>1. Visiting /\ AtCursor \in JobId /\ jobs \in [JobId -> EntryType]
        /\ reservations \in [Gpus -> JobId \cup {NoJob}]
    BY <1>0, <1>7, RemoveAtFacts DEF ScheduleLaunch, Schedulable, Visiting, TypeOK
  <2>2. jobs'[AtCursor].state = "running" /\ jobs'[AtCursor].gpu = jobs[AtCursor].gpu
    BY <1>0, <1>7, <2>1 DEF ScheduleLaunch, EntryType
  <2>3. \A j \in JobId : j # AtCursor => jobs'[j] = jobs[j]
    BY <1>7, <2>1 DEF ScheduleLaunch
  <2>4. \A g \in Gpus : reservations[g] # NoJob => reservations'[g] # NoJob
    BY <1>0, <1>7, <2>1 DEF ScheduleLaunch
  <2>5. UNCHANGED <<next_id, coordinator, cursor>> /\ queue' = RemoveAt(queue, cursor)
    BY <1>7 DEF ScheduleLaunch
  <2> QED
    BY <2>1, <2>2, <2>3, <2>4, <2>5, QueueErased
<1>8. CASE DisposeEnd \/ \E j \in JobId : Join(j)
  <2>1. /\ UNCHANGED <<queue, next_id>> /\ coordinator' # "scheduling"
    BY <1>8 DEF DisposeEnd, Join
  <2>2. \A j \in JobId : jobs'[j].state = "queued" => jobs[j].state = "queued"
    BY <1>8, JobPartsDispose, JobPartsJoin
  <2> QED
    BY <2>1, <2>2 DEF QueueInv
<1>9. CASE ApplySubmit
  BY <1>9, QueueSubmitted
<1> QED
  BY <1>1, <1>2, <1>3, <1>4, <1>5, <1>6, <1>7, <1>8, <1>9
     DEF Next, CoordinatorStep, Aside, Along, Terminated

-----------------------------------------------------------------------------
(* What the lease sees of an entry.                                        *)

SameView(e, f) ==
  /\ LeasePhase(f.state) = LeasePhase(e.state) /\ f.gpu = e.gpu
  /\ f.stop_reason = e.stop_reason /\ f.cleanup_confirmed = e.cleanup_confirmed

\* What a sweep for one reason does to an entry: it is queued and ends, it
\* runs and is asked to stop for the first time, or it stays.
StopView(e, f, r) ==
  \/ SameView(e, f)
  \/ /\ f.gpu = e.gpu /\ f.cleanup_confirmed = e.cleanup_confirmed /\ f.stop_reason = r
     /\ \/ e.state = "queued" /\ f.state \in Terminal
        \/ e.state = "running" /\ f.state = "running" /\ e.stop_reason = "none"

LEMMA PhaseFacts ==
  /\ LeasePhase("absent") = "absent" /\ LeasePhase("queued") = "waiting"
  /\ LeasePhase("running") = "active"
  /\ \A state \in Terminal : LeasePhase(state) = "ended"
  /\ \A state \in {"absent", "queued", "running"} \cup Terminal :
       /\ LeasePhase(state) = "waiting" <=> state = "queued"
       /\ LeasePhase(state) = "active" <=> state = "running"
       /\ LeasePhase(state) = "absent" <=> state = "absent"
       /\ LeasePhase(state) = "ended" <=> state \in Terminal
BY DEF LeasePhase, Terminal, Outcome

LEMMA LeaseStutters ==
  ASSUME \A j \in JobId : SameView(jobs[j], jobs'[j]), UNCHANGED reservations
  PROVE  UNCHANGED Lease!vars
BY DEF SameView, Lease!vars

LEMMA LeaseStops ==
  ASSUME NEW r \in Reason, \A j \in JobId : StopView(jobs[j], jobs'[j], r),
         UNCHANGED reservations, r # "none"
  PROVE  Lease!Next
<1> DEFINE W == {j \in JobId : /\ jobs[j].state = "queued" /\ jobs'[j].state \in Terminal
                               /\ jobs'[j].stop_reason = r}
           A == {j \in JobId : /\ jobs[j].state = "running" /\ jobs[j].stop_reason = "none"
                               /\ jobs'[j].stop_reason = r}
<1>1. ASSUME NEW j \in JobId
      PROVE  /\ j \in W => LeasePhase(jobs[j].state) = "waiting"
             /\ j \in A => LeasePhase(jobs[j].state) = "active" /\ jobs[j].stop_reason = "none"
             /\ LeasePhase(jobs'[j].state) =
                  IF j \in W THEN "ended" ELSE LeasePhase(jobs[j].state)
             /\ jobs'[j].stop_reason = IF j \in W \cup A THEN r ELSE jobs[j].stop_reason
             /\ jobs'[j].gpu = jobs[j].gpu
             /\ jobs'[j].cleanup_confirmed = jobs[j].cleanup_confirmed
  <2>1. CASE SameView(jobs[j], jobs'[j])
    BY <2>1, PhaseFacts DEF SameView
  <2>2. CASE ~SameView(jobs[j], jobs'[j])
    BY <2>2, PhaseFacts DEF StopView, Terminal, Outcome
  <2> QED
    BY <2>1, <2>2
<1>2. W \in SUBSET JobId /\ A \in SUBSET JobId
  OBVIOUS
<1> HIDE DEF W, A
<1>3. Lease!Stop(W, A, r)
  BY <1>1, <1>2 DEF Lease!Stop, Lease!JobId, JobId
<1> QED
  BY <1>2, <1>3 DEF Lease!Next, Lease!JobId, JobId, Lease!Reason, Reason

LEMMA FinishQueuedView ==
  ASSUME NEW e \in EntryType, e.state = "queued", NEW state \in Terminal,
         NEW reason \in Reason, NEW when \in Nat
  PROVE  StopView(e, FinishQueued(e, state, reason, when), reason)
BY DEF StopView, FinishQueued, Retire, EntryType

LEMMA RequestStopView ==
  ASSUME NEW e \in EntryType, e.state = "running", NEW reason \in Reason
  PROVE  StopView(e, RequestStop(e, reason), reason)
BY DEF StopView, SameView, RequestStop, EntryType

LEMMA SelfView == ASSUME NEW e PROVE SameView(e, e) /\ \A r : StopView(e, e, r)
BY DEF SameView, StopView

LEMMA ExpireView ==
  ASSUME NEW js \in [JobId -> EntryType], NEW when \in Nat, NEW j \in JobId
  PROVE  StopView(js[j], Expire(js, when)[j], "deadline")
<1>1. js[j] \in EntryType /\ js[j].deadline \in Nat
  BY DEF EntryType
<1>2. "timed_out" \in Terminal /\ "deadline" \in Reason
  BY DEF Terminal, Outcome, Reason
<1>3. CASE Expire(js, when)[j] = js[j]
  BY <1>3, SelfView
<1>4. CASE js[j].state = "queued"
           /\ Expire(js, when)[j] = FinishQueued(js[j], "timed_out", "deadline", js[j].deadline)
  BY <1>1, <1>2, <1>4, FinishQueuedView
<1>5. CASE js[j].state = "running" /\ Expire(js, when)[j] = RequestStop(js[j], "deadline")
  BY <1>1, <1>2, <1>5, RequestStopView
<1> QED
  BY <1>3, <1>4, <1>5 DEF Expire

LEMMA StopForShutdownView ==
  ASSUME NEW e \in EntryType, NEW when \in Nat
  PROVE  StopView(e, StopForShutdown(e, when), "shutdown")
<1>1. "cancelled" \in Terminal /\ "shutdown" \in Reason
  BY DEF Terminal, Outcome, Reason
<1> QED
  BY <1>1, SelfView, FinishQueuedView, RequestStopView DEF StopForShutdown

-----------------------------------------------------------------------------
(* Every step of the coordinator is a step of the lease or a stutter.      *)

\* A sweep over the deadlines, a cancellation, the shutdown of all jobs.
LEMMA LeaseSweeps ==
  ASSUME IInv,
         ExpireBeforeEvent \/ Drained \/ ScheduleExpired \/ ApplyCancel \/ ApplyShutdown
  PROVE  Lease!Next
<1>0. /\ jobs \in [JobId -> EntryType] /\ \A j \in JobId : jobs[j] \in EntryType
      /\ clock \in Nat /\ events \in Seq(EventType)
      /\ \A j \in JobId : jobs[j].deadline \in Nat
  BY DEF IInv, TypeOK, EntryType
<1>1. /\ {"deadline", "cancellation", "shutdown"} \subseteq Reason
      /\ "timed_out" \in Terminal /\ "cancelled" \in Terminal
  BY DEF Reason, Terminal, Outcome
<1>2. UNCHANGED reservations
  BY DEF ExpireBeforeEvent, Drained, ScheduleExpired, ApplyCancel, ApplyShutdown
<1> DEFINE event == Head(events)
<1>3. ExpireBeforeEvent \/ ApplyCancel \/ ApplyShutdown => events # <<>>
  BY DEF ExpireBeforeEvent, ApplyCancel, ApplyShutdown, Applying, IInv, MailboxInv
<1>4. /\ events # <<>> => event.at \in Nat
      /\ events # <<>> /\ event.kind = "cancel" => event.job \in JobId
  BY <1>0, HeadType
<1>5. CASE ExpireBeforeEvent \/ Drained
  <2>1. \A j \in JobId : StopView(jobs[j], jobs'[j], "deadline")
    BY <1>0, <1>3, <1>4, <1>5, ExpireView DEF ExpireBeforeEvent, Drained
  <2> QED
    BY <1>1, <1>2, <2>1, LeaseStops
<1>6. CASE ScheduleExpired
  <2>1. AtCursor \in JobId /\ jobs[AtCursor].state = "queued"
    BY <1>6, RemoveAtFacts DEF ScheduleExpired, Visiting, IInv, TypeOK
  <2>2. /\ jobs'[AtCursor] = FinishQueued(jobs[AtCursor], "timed_out", "deadline",
                                         jobs[AtCursor].deadline)
        /\ \A j \in JobId : j # AtCursor => jobs'[j] = jobs[j]
    BY <1>0, <1>6, <2>1 DEF ScheduleExpired
  <2>3. \A j \in JobId : StopView(jobs[j], jobs'[j], "deadline")
    BY <1>0, <1>1, <2>1, <2>2, SelfView, FinishQueuedView
  <2> QED
    BY <1>1, <1>2, <2>3, LeaseStops
<1>7. CASE ApplyCancel
  <2>1. event.at \in Nat /\ event.job \in JobId
    BY <1>3, <1>4, <1>7 DEF ApplyCancel, Applying
  <2>2. CASE UNCHANGED jobs
    BY <1>1, <1>2, <2>2, SelfView, LeaseStops
  <2>3. CASE ~UNCHANGED jobs
    <3> DEFINE e == jobs[event.job]
               f == IF e.state = "queued"
                    THEN FinishQueued(e, "cancelled", "cancellation", event.at)
                    ELSE RequestStop(e, "cancellation")
    <3>1. jobs' = [jobs EXCEPT ![event.job] = f] /\ CancelResult(e) = "requested"
      BY <1>7, <2>3 DEF ApplyCancel
    <3>2. e.state = "queued" \/ e.state = "running"
      BY <1>0, <2>1, <3>1 DEF CancelResult, EntryType, Terminal, Outcome
    <3>3. StopView(e, f, "cancellation")
      BY <1>0, <1>1, <2>1, <3>2, FinishQueuedView, RequestStopView
    <3> HIDE DEF e, f
    <3>4. /\ jobs'[event.job] = f
          /\ \A j \in JobId : j # event.job => jobs'[j] = jobs[j]
      BY <1>0, <2>1, <3>1
    <3>5. \A j \in JobId : StopView(jobs[j], jobs'[j], "cancellation")
      BY <3>3, <3>4, SelfView DEF e
    <3> QED
      BY <1>1, <1>2, <3>5, LeaseStops
  <2> QED
    BY <2>2, <2>3
<1>8. CASE ApplyShutdown
  <2>1. \A j \in JobId : StopView(jobs[j], jobs'[j], "shutdown")
    BY <1>0, <1>3, <1>4, <1>8, StopForShutdownView DEF ApplyShutdown
  <2> QED
    BY <1>1, <1>2, <2>1, LeaseStops
<1> QED
  BY <1>5, <1>6, <1>7, <1>8

\* One job changes for the lease: what its actions make of phase, gpu, reason
\* and clean.
LEMMA OneJob ==
  ASSUME NEW n \in JobId, \A j \in JobId : j # n => SameView(jobs[j], jobs'[j])
  PROVE  /\ [j \in JobId |-> LeasePhase(jobs'[j].state)]
              = [[j \in JobId |-> LeasePhase(jobs[j].state)]
                   EXCEPT ![n] = LeasePhase(jobs'[n].state)]
         /\ [j \in JobId |-> jobs'[j].gpu]
              = [[j \in JobId |-> jobs[j].gpu] EXCEPT ![n] = jobs'[n].gpu]
         /\ [j \in JobId |-> jobs'[j].cleanup_confirmed]
              = [[j \in JobId |-> jobs[j].cleanup_confirmed]
                   EXCEPT ![n] = jobs'[n].cleanup_confirmed]
         /\ jobs'[n].gpu = jobs[n].gpu =>
              [j \in JobId |-> jobs'[j].gpu] = [j \in JobId |-> jobs[j].gpu]
         /\ jobs'[n].stop_reason = jobs[n].stop_reason =>
              [j \in JobId |-> jobs'[j].stop_reason] = [j \in JobId |-> jobs[j].stop_reason]
         /\ jobs'[n].cleanup_confirmed = jobs[n].cleanup_confirmed =>
              [j \in JobId |-> jobs'[j].cleanup_confirmed]
                = [j \in JobId |-> jobs[j].cleanup_confirmed]
BY DEF SameView

LEMMA PhaseOfEntry ==
  ASSUME NEW e \in EntryType
  PROVE  /\ LeasePhase(e.state) = "waiting" <=> e.state = "queued"
         /\ LeasePhase(e.state) = "active" <=> e.state = "running"
         /\ LeasePhase(e.state) = "absent" <=> e.state = "absent"
         /\ LeasePhase(e.state) = "ended" <=> e.state \in Terminal
<1>1. e.state \in {"absent", "queued", "running"} \cup Terminal
  BY DEF EntryType
<1> QED
  BY <1>1, PhaseFacts

LEMMA LeaseAccepts ==
  ASSUME IInv, ApplySubmit
  PROVE  [Lease!Next]_(Lease!vars)
<1> DEFINE r == Head(events).request
<1>0. /\ jobs \in [JobId -> EntryType] /\ \A j \in JobId : jobs[j] \in EntryType
      /\ next_id \in 1..(MaxJobs + 1) /\ reservations' = reservations
  BY DEF IInv, TypeOK, ApplySubmit
<1>1. CASE ~Admissible(r)
  <2>1. UNCHANGED jobs
    BY <1>1 DEF ApplySubmit
  <2> QED
    BY <1>0, <2>1, SelfView, LeaseStutters
<1>2. CASE Admissible(r)
  <2> DEFINE e == [NoEntry EXCEPT !.state = "queued", !.capture = r.capture,
                                  !.gpu = r.gpu, !.submitted_at = Head(events).at,
                                  !.deadline = r.deadline, !.worker = "held"]
  <2>1. next_id \in JobId /\ r.gpu \in Gpus
    BY <1>0, <1>2, IdFacts DEF Admissible, JobId
  <2>2. /\ jobs' = [jobs EXCEPT ![next_id] = e]
        /\ e.state = "queued" /\ e.gpu = r.gpu /\ e.stop_reason = "none"
        /\ e.cleanup_confirmed = TRUE
    BY <1>2 DEF ApplySubmit, NoEntry
  <2>3. Absent(jobs[next_id]) /\ \A j \in JobId : j < next_id => jobs[j].state # "absent"
    <3>1. jobs[next_id].state = "absent" /\ \A j \in JobId : j < next_id => jobs[j].state # "absent"
      BY <2>1, IdFacts DEF IInv, IdInv
    <3> QED
      BY <2>1, <3>1 DEF IInv, EntryInv, Queued, Running, Ended, Terminal, Outcome
  <2> HIDE DEF e, r
  <2>4. jobs'[next_id] = e /\ \A j \in JobId : j # next_id => jobs'[j] = jobs[j]
    BY <1>0, <2>1, <2>2
  <2>5. jobs[next_id].stop_reason = "none" /\ jobs[next_id].cleanup_confirmed = TRUE
    BY <1>0, <2>1, <2>3 DEF Absent, EntryType
  <2>6. \A j \in JobId : j < next_id => LeasePhase(jobs[j].state) # "absent"
    BY <1>0, <2>3, PhaseOfEntry
  <2>7. LeasePhase(jobs[next_id].state) = "absent" /\ LeasePhase(e.state) = "waiting"
    BY <2>2, <2>3, PhaseFacts DEF Absent
  <2>8. PICK n \in JobId, g \in Gpus : n = next_id /\ g = r.gpu
    BY <2>1
  <2>9. \A j \in JobId : j # n => SameView(jobs[j], jobs'[j])
    BY <2>4, <2>8, SelfView
  <2>10. /\ jobs'[n].stop_reason = jobs[n].stop_reason /\ jobs'[n].gpu = g
         /\ jobs'[n].cleanup_confirmed = jobs[n].cleanup_confirmed
         /\ LeasePhase(jobs'[n].state) = "waiting" /\ LeasePhase(jobs[n].state) = "absent"
         /\ \A j \in JobId : j < n => LeasePhase(jobs[j].state) # "absent"
    BY <2>2, <2>4, <2>5, <2>6, <2>7, <2>8
  <2>11. Lease!Accept(n, g)
    BY <1>0, <2>9, <2>10, OneJob DEF Lease!Accept, Lease!JobId, JobId
  <2> QED
    BY <2>11 DEF Lease!Next, Lease!JobId, JobId
<1> QED
  BY <1>1, <1>2

\* The job under schedule()'s iterator is the oldest waiting one of its GPU:
\* older ones were passed over because their GPUs are busy.
LEMMA CursorIsFirst ==
  ASSUME IInv, QueueInv, Schedulable, reservations[jobs[AtCursor].gpu] = NoJob
  PROVE  /\ AtCursor \in JobId /\ jobs[AtCursor].gpu \in Gpus
         /\ Queued(jobs[AtCursor])
         /\ Lease!First(AtCursor)
<1>0. /\ queue \in Seq(JobId) /\ Len(queue) \in Nat /\ cursor \in 1..Len(queue)
      /\ coordinator = "scheduling" /\ \A j \in JobId : jobs[j] \in EntryType
  BY DEF IInv, TypeOK, Schedulable, Visiting
<1>1. AtCursor \in JobId /\ AtCursor = queue[cursor] /\ jobs[AtCursor].state = "queued"
  BY <1>0 DEF AtCursor, Schedulable
<1>2. Queued(jobs[AtCursor])
  BY <1>1 DEF IInv, EntryInv, Absent, Running, Ended, Terminal, Outcome
<1>3. jobs[AtCursor].gpu \in Gpus
  BY <1>1 DEF IInv, IdInv
<1>4. ASSUME NEW i \in JobId, i < AtCursor, jobs[i].gpu = jobs[AtCursor].gpu,
             jobs[i].state = "queued"
      PROVE  FALSE
  <2>1. PICK p \in 1..Len(queue) : queue[p] = i
    BY <1>4 DEF QueueInv
  <2>2. p < cursor
    <3>1. ~(cursor < p)
      <4> SUFFICES ASSUME cursor < p PROVE FALSE
        OBVIOUS
      <4>1. queue[cursor] < queue[p]
        BY <1>0 DEF QueueInv
      <4> QED
        BY <1>1, <1>4, <2>1, <4>1, IdFacts
    <3>2. p # cursor
      BY <1>1, <1>4, <2>1, IdFacts
    <3> QED
      BY <1>0, <3>1, <3>2
  <2>3. reservations[jobs[i].gpu] # NoJob
    BY <1>0, <2>1, <2>2 DEF QueueInv
  <2> QED
    BY <1>4, <2>3
<1>5. ASSUME NEW i \in JobId, i < AtCursor, jobs[i].gpu = jobs[AtCursor].gpu
      PROVE  LeasePhase(jobs[i].state) # "waiting"
  BY <1>0, <1>4, <1>5, PhaseFacts DEF EntryType
<1>6. Lease!First(AtCursor)
  BY <1>0, <1>1, <1>5, PhaseFacts DEF Lease!First, Lease!JobId, JobId, Lease!NoJob, NoJob
<1> QED
  BY <1>1, <1>2, <1>3, <1>6

LEMMA LeaseStarts ==
  ASSUME IInv, QueueInv, ScheduleLaunch \/ ScheduleLaunchFails
  PROVE  Lease!Next
<1>0. /\ jobs \in [JobId -> EntryType] /\ \A j \in JobId : jobs[j] \in EntryType
      /\ reservations \in [Gpus -> JobId \cup {NoJob}]
  BY DEF IInv, TypeOK
<1>1. PICK i \in JobId : i = AtCursor
  BY CursorIsFirst DEF ScheduleLaunch, ScheduleLaunchFails
<1>2. jobs[i].gpu \in Gpus /\ Queued(jobs[i])
  BY <1>1, CursorIsFirst DEF ScheduleLaunch, ScheduleLaunchFails
<1>3. Lease!First(i)
  <2>1. Lease!First(AtCursor)
    BY CursorIsFirst DEF ScheduleLaunch, ScheduleLaunchFails
  <2> QED
    BY <1>1, <2>1 DEF Lease!First, Lease!JobId, JobId
<1> DEFINE launched == [jobs[i] EXCEPT !.state = "running", !.launched = TRUE,
                          !.cleanup_confirmed = FALSE, !.gpu_reserved = TRUE,
                          !.worker_running = TRUE, !.thread = "running", !.handle = "entry"]
           failed == Retire([jobs[i] EXCEPT !.state = "failed", !.launched = TRUE,
                                            !.finished_at = clock])
<1>4. CASE ScheduleLaunch
  <2>1. /\ jobs' = [jobs EXCEPT ![i] = launched]
        /\ reservations' = [reservations EXCEPT ![jobs[i].gpu] = i]
    BY <1>1, <1>4 DEF ScheduleLaunch
  <2>2. /\ launched.state = "running" /\ launched.gpu = jobs[i].gpu
        /\ launched.stop_reason = jobs[i].stop_reason /\ launched.cleanup_confirmed = FALSE
    BY <1>0 DEF EntryType
  <2> HIDE DEF launched
  <2>3. jobs'[i] = launched /\ \A j \in JobId : j # i => jobs'[j] = jobs[j]
    BY <1>0, <2>1
  <2>4. /\ \A j \in JobId : j # i => SameView(jobs[j], jobs'[j])
        /\ LeasePhase(jobs'[i].state) = "active"
    BY <2>2, <2>3, SelfView, PhaseFacts
  <2>5. /\ [j \in JobId |-> LeasePhase(jobs'[j].state)]
             = [[j \in JobId |-> LeasePhase(jobs[j].state)] EXCEPT ![i] = "active"]
        /\ [j \in JobId |-> jobs'[j].cleanup_confirmed]
             = [[j \in JobId |-> jobs[j].cleanup_confirmed] EXCEPT ![i] = FALSE]
    <3>1. LeasePhase(jobs'[i].state) = "active" /\ jobs'[i].cleanup_confirmed = FALSE
      BY <2>2, <2>3, <2>4
    <3> QED
      BY <2>4, <3>1, OneJob, Zenon
  <2>6. /\ [j \in JobId |-> jobs'[j].gpu] = [j \in JobId |-> jobs[j].gpu]
        /\ [j \in JobId |-> jobs'[j].stop_reason] = [j \in JobId |-> jobs[j].stop_reason]
    BY <2>2, <2>3
  <2>7. [j \in JobId |-> jobs[j].gpu][i] = jobs[i].gpu
    OBVIOUS
  <2>8. Lease!Start(i)
    BY <1>3, <2>1, <2>5, <2>6, <2>7, Zenon DEF Lease!Start, Lease!JobId, JobId
  <2> QED
    BY <2>8 DEF Lease!Next, Lease!JobId, JobId
<1>5. CASE ScheduleLaunchFails
  <2>1. /\ jobs' = [jobs EXCEPT ![i] = failed] /\ reservations' = reservations
    BY <1>1, <1>5 DEF ScheduleLaunchFails
  <2>2. /\ failed.state = "failed" /\ failed.gpu = jobs[i].gpu
        /\ failed.stop_reason = jobs[i].stop_reason
        /\ failed.cleanup_confirmed = jobs[i].cleanup_confirmed
    BY <1>0 DEF EntryType, Retire
  <2> HIDE DEF failed
  <2>3. jobs'[i] = failed /\ \A j \in JobId : j # i => jobs'[j] = jobs[j]
    BY <1>0, <2>1
  <2>4. /\ \A j \in JobId : j # i => SameView(jobs[j], jobs'[j])
        /\ LeasePhase(jobs'[i].state) = "ended"
    BY <2>2, <2>3, SelfView, PhaseFacts DEF Terminal, Outcome
  <2>5. Lease!FailToStart(i)
    BY <1>3, <2>1, <2>2, <2>3, <2>4, OneJob DEF Lease!FailToStart, Lease!JobId, JobId
  <2> QED
    BY <2>5 DEF Lease!Next, Lease!JobId, JobId
<1> QED
  BY <1>4, <1>5

LEMMA LeaseEnds ==
  ASSUME IInv, ApplyReturned
  PROVE  [Lease!Next]_(Lease!vars)
<1> DEFINE event == Head(events)
<1>0. /\ jobs \in [JobId -> EntryType] /\ \A j \in JobId : jobs[j] \in EntryType
      /\ reservations' = reservations /\ events # <<>>
      /\ event.job \in JobId /\ event.completion \in CompletionType
  BY HeadType DEF IInv, TypeOK, MailboxInv, ApplyReturned, Applying
<1>1. PICK i \in JobId : i = event.job
  BY <1>0
<1>2. CASE ~Expects(jobs[i])
  <2>1. UNCHANGED jobs
    BY <1>1, <1>2 DEF ApplyReturned
  <2> QED
    BY <1>0, <2>1, SelfView, LeaseStutters
<1>3. CASE Expects(jobs[i])
  <2> DEFINE f == Completed(jobs[i], event.completion, event.at)
             confirmed == AcceptedCleanup(event.completion)
  <2>1. jobs' = [jobs EXCEPT ![i] = f]
    BY <1>1, <1>3 DEF ApplyReturned
  <2>2. /\ f.gpu = jobs[i].gpu /\ f.stop_reason = jobs[i].stop_reason
        /\ f.cleanup_confirmed = confirmed
        /\ f.state = IF jobs[i].stop_reason = "none" THEN AcceptedState(event.completion)
                     ELSE IF jobs[i].stop_reason = "deadline" THEN "timed_out" ELSE "cancelled"
    BY <1>0 DEF Completed, EntryType
  <2>3. confirmed \in BOOLEAN /\ AcceptedState(event.completion) \in Terminal
    BY <1>0 DEF AcceptedCleanup, AcceptedState, CompletionType, Terminal, Outcome
  <2>4. f.state \in Terminal
    BY <2>2, <2>3 DEF Terminal, Outcome
  <2>5. PICK c \in BOOLEAN : c = confirmed
    BY <2>3
  <2> HIDE DEF f, confirmed
  <2>6. jobs'[i] = f /\ \A j \in JobId : j # i => jobs'[j] = jobs[j]
    BY <1>0, <2>1
  <2>7. /\ \A j \in JobId : j # i => SameView(jobs[j], jobs'[j])
        /\ LeasePhase(jobs'[i].state) = "ended" /\ LeasePhase(jobs[i].state) = "active"
    BY <1>3, <2>4, <2>6, SelfView, PhaseFacts DEF Expects
  <2>8. Lease!End(i, c)
    BY <1>0, <2>2, <2>5, <2>6, <2>7, OneJob DEF Lease!End, Lease!JobId, JobId
  <2> QED
    BY <2>8 DEF Lease!Next, Lease!JobId, JobId
<1> QED
  BY <1>2, <1>3

LEMMA LeaseGivesBack ==
  ASSUME IInv, NEW i \in JobId, Join(i)
  PROVE  [Lease!Next]_(Lease!vars)
<1> DEFINE f == Joined(jobs[i])
<1>0. /\ jobs \in [JobId -> EntryType] /\ jobs[i] \in EntryType
      /\ jobs' = [jobs EXCEPT ![i] = f]
      /\ reservations' = ReleasedReservations(reservations, jobs[i])
      /\ jobs[i].handle = "finished"
  BY DEF IInv, TypeOK, Join, Finished
<1>1. Ended(jobs[i]) /\ jobs[i].gpu_reserved /\ reservations[jobs[i].gpu] = i
  <2>1. Ended(jobs[i])
    BY <1>0 DEF IInv, EntryInv, Absent, Queued, Running
  <2> QED
    BY <1>0, <2>1 DEF Ended, IInv, ReservationInv
<1>2. /\ f.state = jobs[i].state /\ f.gpu = jobs[i].gpu
      /\ f.stop_reason = jobs[i].stop_reason
      /\ f.cleanup_confirmed = jobs[i].cleanup_confirmed
  BY <1>0 DEF Joined, Retire, EntryType
<1> HIDE DEF f
<1>3. \A j \in JobId : SameView(jobs[j], jobs'[j])
  BY <1>0, <1>2 DEF SameView
<1>4. LeasePhase(jobs[i].state) = "ended"
  BY <1>1, PhaseFacts DEF Ended
<1>5. CASE ~jobs[i].cleanup_confirmed
  BY <1>0, <1>3, <1>5, LeaseStutters DEF ReleasedReservations
<1>6. CASE jobs[i].cleanup_confirmed
  <2>1. reservations' = [reservations EXCEPT ![jobs[i].gpu] = NoJob]
    BY <1>0, <1>6 DEF ReleasedReservations
  <2>2. Lease!GiveBack(i)
    BY <1>1, <1>3, <1>4, <1>6, <2>1
       DEF Lease!GiveBack, Lease!JobId, JobId, Lease!NoJob, NoJob, SameView
  <2> QED
    BY <2>2 DEF Lease!Next, Lease!JobId, JobId
<1> QED
  BY <1>5, <1>6

LEMMA FieldView ==
  ASSUME NEW e \in EntryType
  PROVE  /\ SameView(e, [e EXCEPT !.worker = "gone"])
         /\ SameView(e, [e EXCEPT !.finalization_pending = FALSE])
         /\ SameView(e, [e EXCEPT !.thread = "returned"])
         /\ SameView(e, [e EXCEPT !.thread = "exited"])
         /\ SameView(e, [e EXCEPT !.stop = "requested"])
BY DEF SameView, EntryType

\* Threads, stop tokens, callables and finalization are beneath the lease.
LEMMA LeaseUnaware ==
  ASSUME IInv,
         \/ Aside \/ ReleaseCallables \/ Finalize \/ DisposeEnd
         \/ \E j \in JobId : WorkerStep(j) \/ StopOne(j)
  PROVE  UNCHANGED Lease!vars
<1>0. jobs \in [JobId -> EntryType]
  BY DEF IInv, TypeOK
<1>1. UNCHANGED reservations
  BY AsideFacts DEF ReleaseCallables, Finalize, DisposeEnd, WorkerStep, WorkerReturn,
                    WorkerNotify, StopOne
<1>2. CASE Aside
  BY <1>2, AsideFacts, SelfView, LeaseStutters
<1>3. CASE \/ ReleaseCallables \/ Finalize \/ DisposeEnd
           \/ \E j \in JobId : WorkerStep(j) \/ StopOne(j)
  <2> SUFFICES ASSUME NEW k \in JobId PROVE SameView(jobs[k], jobs'[k])
    BY <1>1, LeaseStutters
  <2> DEFINE e == jobs[k]
             f == jobs'[k]
  <2>1. f \in {e, [e EXCEPT !.worker = "gone"],
              [e EXCEPT !.finalization_pending = FALSE], [e EXCEPT !.thread = "returned"],
              [e EXCEPT !.thread = "exited"], [e EXCEPT !.stop = "requested"]}
    BY <1>0, <1>3 DEF ReleaseCallables, Finalize, DisposeEnd, WorkerStep, WorkerReturn,
                      WorkerNotify, StopOne
  <2>2. e \in EntryType
    BY <1>0
  <2> HIDE DEF e, f
  <2>3. SameView(e, f)
    BY <2>1, <2>2, FieldView, SelfView
  <2> QED
    BY <2>3 DEF e, f
<1> QED
  BY <1>2, <1>3

LEMMA LeaseStep ==
  ASSUME IInv, QueueInv, [Next]_vars
  PROVE  [Lease!Next]_(Lease!vars)
<1>1. CASE UNCHANGED vars
  BY <1>1, SelfView, LeaseStutters DEF vars
<1>2. CASE CoordinatorStep
  BY <1>2, LeaseSweeps, LeaseAccepts, LeaseStarts, LeaseEnds, LeaseGivesBack, LeaseUnaware
     DEF CoordinatorStep, Aside
<1> QED
  BY <1>1, <1>2, LeaseUnaware DEF Next, Aside, Terminated

LEMMA LeaseInit == Init => Lease!Init
<1> SUFFICES ASSUME Init PROVE Lease!Init
  OBVIOUS
<1>1. \A j \in JobId : /\ LeasePhase(jobs[j].state) = "absent" /\ jobs[j].gpu = ""
                       /\ jobs[j].stop_reason = "none" /\ jobs[j].cleanup_confirmed = TRUE
  <2>1. /\ NoEntry.state = "absent" /\ NoEntry.gpu = "" /\ NoEntry.stop_reason = "none"
        /\ NoEntry.cleanup_confirmed = TRUE
    BY DEF NoEntry
  <2>2. \A j \in JobId : jobs[j] = NoEntry
    BY DEF Init
  <2>3. LeasePhase(NoEntry.state) = "absent"
    BY <2>1, PhaseFacts, Zenon
  <2> QED
    BY <2>1, <2>2, <2>3, Zenon
<1>2. reservations = [g \in Gpus |-> NoJob]
  BY DEF Init
<1> QED
  BY <1>1, <1>2 DEF Lease!Init, Lease!JobId, JobId, Lease!NoJob, NoJob

LEMMA QueueInitially == Init => QueueInv
<1> SUFFICES ASSUME Init PROVE QueueInv
  OBVIOUS
<1>1. queue = <<>> /\ Len(queue) = 0 /\ coordinator = "ready"
  BY DEF Init
<1>2. \A j \in JobId : jobs[j].state = "absent"
  BY NoEntryFields DEF Init
<1> QED
  BY <1>1, <1>2 DEF QueueInv

\* The coordinator's mailbox, threads, deadlines and shutdown implement the
\* lease: jobs are numbered in the order they are accepted, start in that order
\* on each GPU, and hold it until their processes are known to be gone, for any
\* number of clients, jobs and GPUs (apply, schedule and the join loop of run()).
THEOREM LeaseImplemented == Spec => ImplementsLease
<1>1. IInv /\ QueueInv /\ [Next]_vars => QueueInv' /\ [Lease!Next]_(Lease!vars)
  BY QueueStep, LeaseStep
<1> QED
  BY <1>1, InvariantHolds, QueueInitially, LeaseInit, PTL DEF Spec, ImplementsLease, Lease!Spec
=============================================================================
