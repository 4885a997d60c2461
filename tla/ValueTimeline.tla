----------------------------- MODULE ValueTimeline -----------------------------
(***************************************************************************)
(* value_draw_plans() of src/src/inspection/ValueTimeline.cpp: the calls   *)
(* of a generated replay, first those of its initial state and then those  *)
(* of the captured frame, are followed with three ledgers (the uploads,    *)
(* the descriptors, the submissions in flight) to find the bytes that each *)
(* uniform read of each submitted draw may rest on.  One refused call      *)
(* discards every plan.  value_execution_candidates(), the cheap listing   *)
(* of the same submissions, is an operator at the end.                     *)
(*                                                                         *)
(* A theme is one replay: its captured objects, its recordings (already    *)
(* read, see DrawExecutions), one sequence of initial calls and the calls  *)
(* its frame may hold in any order.                                        *)
(***************************************************************************)
EXTENDS ValueUploads, ValueDescriptors

CONSTANTS
  Themes,        \* the replays that are followed
  Modules,       \* shader module -> what its bytes were found to do
  MaxLabels,     \* nested queue labels (16 in the code)
  MaxFences,     \* fences of one wait or reset (64)
  MaxSubmits,    \* submit infos of one submission (16)
  MaxExecutions, \* executions of the frame (256)
  MaxInFlight,   \* submitted recordings in flight (4096)
  MaxPlans       \* uniform reads of one draw (128)

Listed(s) == s \in Seq(ToSet(s))

\* The arguments of a call that is followed, read from its source; sizes and
\* offsets have no sign.
CallOk(c) ==
  /\ c.op = "UpdateDescriptorSets" =>
       c.count \in Nat /\ Listed(c.copies) /\ \A i \in DOMAIN c.copies : c.copies[i].to.first \in Nat
  /\ c.op = "QueueSubmit" => Listed(c.submits) /\ \A i \in DOMAIN c.submits : Listed(c.submits[i])
  /\ c.op = "MapMemory" => c.offset \in Nat
  /\ c.op = "UpdateMappedMemory" => c.offset \in Nat /\ Listed(c.buffers)

\* The writes that a read found.
WriteOk(w) ==
  w.first \in Nat /\ Listed(w.values) /\ \A i \in DOMAIN w.values : w.values[i].offset \in Nat

ResourceOk(c) ==
  /\ c.op = "CreateBuffer" => c.bytes \in Nat
  /\ c.op = "AllocateMemory" => \A i \in DOMAIN c.bindings : c.bindings[i].offset \in Nat

\* What the draws of a recording have bound are sets that its calls bind.
RecordingOfDraws(r) ==
  /\ Listed(r.draws)
  /\ \A n \in DOMAIN r.draws : \A set \in DOMAIN r.draws[n].bank :
       LET bank == r.draws[n].bank[set] IN
       bank.set \in r.bound /\ \A b \in DOMAIN bank.dynamic : bank.dynamic[b] \in Nat

\* A copy writes buffers that were created for it, as the use of Vulkan requires.
CopiesAllowed(t, r) ==
  \A i \in DOMAIN t.resources :
    t.resources[i].op = "CreateBuffer" /\ t.resources[i].name \in r.copies =>
      "transfer_dst" \in t.resources[i].usage

ASSUME ThemesAssumption ==
  \A t \in Themes :
    /\ Listed(t.initial) /\ Listed(t.reads)
    /\ \A i \in DOMAIN t.reads : /\ Listed(t.reads[i].writes)
                                 /\ \A n \in DOMAIN t.reads[i].writes : WriteOk(t.reads[i].writes[n])
    /\ \A i \in DOMAIN t.resources : ResourceOk(t.resources[i])
    /\ \A i \in DOMAIN t.initial : CallOk(t.initial[i])
    /\ \A c \in t.frame : CallOk(c)
    /\ \A r \in DOMAIN t.recordings : RecordingOfDraws(t.recordings[r]) /\ CopiesAllowed(t, t.recordings[r])

VARIABLES
  theme,
  phase,       \* "initial", "frame", "accepted" or "refused"
  ended,       \* the initial state saw its InitEnd
  steps,       \* the calls followed so far
  uploads,     \* the upload ledger
  descriptors, \* the descriptor ledger
  pending,     \* the submitted recordings in flight
  fences,      \* fence -> [signaled, pending]
  commands,    \* [active, generation, once] of the command buffers
  labels,      \* queue -> the labels that are open
  submission,  \* submissions so far
  executions   \* the executions and their plans

ledgers == <<uploads, descriptors, pending, fences>>
vars    == <<theme, phase, ended, steps, ledgers, commands, labels, submission, executions>>

\* Where the captured memory graph places a buffer.
Placed(b) == uploads.buffers[b].binding
Step      == Len(steps) + 1

Put(f, x, v)       == [y \in DOMAIN f \cup {x} |-> IF y = x THEN v ELSE f[y]]
At(f, x, default)  == IF x \in DOMAIN f THEN f[x] ELSE default

\* What a replay must say of itself before any call is followed.
SourceQualified(t) ==
  /\ t.unsupported = {}
  /\ \A i \in DOMAIN t.reads : t.reads[i].capture = t.capture
  /\ MemoryGraph(t.resources).qualified
  /\ AllocationsFit(t.pools, t.sets)
  /\ DOMAIN t.queues # {}
  /\ Len(t.initial) >= 2 /\ t.initial[1].op = "InitBegin"
  /\ Cardinality({i \in DOMAIN t.initial : t.initial[i].op = "InitEnd"}) = 1

NoCommands == [active |-> <<>>, generation |-> <<>>, once |-> {}]

Init ==
  /\ theme \in Themes
  /\ phase = IF SourceQualified(theme) THEN "initial" ELSE "refused"
  /\ ended = FALSE /\ steps = <<>>
  /\ uploads = UploadLedger(MemoryGraph(theme.resources))
  /\ descriptors = DescriptorLedger(theme.pools, theme.sets)
  /\ pending = {}
  /\ fences = [f \in DOMAIN theme.fences |-> [signaled |-> theme.fences[f].signaled, pending |-> FALSE]]
  /\ commands = NoCommands
  /\ labels = <<>> /\ submission = 0 /\ executions = <<>>

\* Nothing that was found before a refusal is kept.
Refuse ==
  /\ phase' = "refused"
  /\ ended' = FALSE /\ steps' = <<>>
  /\ uploads' = <<>> /\ descriptors' = <<>> /\ pending' = {} /\ fences' = <<>>
  /\ commands' = NoCommands
  /\ labels' = <<>> /\ submission' = 0 /\ executions' = <<>>
  /\ UNCHANGED theme

Follow(c) == steps' = Append(steps, c) /\ UNCHANGED <<theme, phase>>

-----------------------------------------------------------------------------
(* The descriptor writes, from the one read that names this call.           *)

ReadsOf(c) == {i \in DOMAIN theme.reads : theme.reads[i].source = c.source}

\* The handle of an update without serialized writes.
NoDatabase == -1

UpdateQualified(c) ==
  c.count > 0 =>
    /\ c.copies = <<>>
    /\ Cardinality(ReadsOf(c)) = 1
    /\ \A i \in ReadsOf(c) : theme.reads[i].handle = c.handle /\ Len(theme.reads[i].writes) = c.count

Updated(c) ==
  LET writes == IF c.count = 0 THEN <<>> ELSE theme.reads[CHOOSE i \in ReadsOf(c) : TRUE].writes
  IN  Checked(descriptors, c.handle = NoDatabase => c.count = 0 /\ c.copies # <<>>,
              UpdateSets(descriptors, [device |-> c.device, writes |-> writes, copies |-> c.copies], Step))

-----------------------------------------------------------------------------
(* The initial state.                                                       *)

\* The helpers that reach no captured buffer.
InitialHelperOk(c) ==
  CASE c.op \in {"InitBegin", "InitEnd", "InitializeQueryPool", "RegisterObject",
                 "SetDebugUtilsObjectName", "FreeCachedMemory"} -> TRUE
    [] c.op = "InitializeSwapchain" -> c.flags = 0
    [] c.op = "PopulateSwapchainImage" -> c.flags = 0 /\ c.bytes \in 1 .. MaxUploadBytes
    [] OTHER -> FALSE

InInitialState == phase = "initial" /\ Len(steps) < Len(theme.initial)

InitialCall ==
  LET c == theme.initial[Step]
      inside == /\ ended => c.op = "FreeCachedMemory"
                /\ c.op = "InitEnd" => c.instance = theme.initial[1].instance
  IN  /\ InInitialState
      /\ UNCHANGED <<pending, fences, commands, labels, submission>>
      /\ CASE c.op = "UpdateDescriptorSets" ->
                IF inside /\ UpdateQualified(c) /\ Updated(c).ok
                THEN Follow(c) /\ descriptors' = Updated(c) /\ UNCHANGED <<ended, uploads, executions>>
                ELSE Refuse
           [] c.op = "PopulateBuffer" \/ c.op \in UploadCalls ->
                IF inside /\ HostUpload(uploads, c, Step).ok
                THEN Follow(c) /\ uploads' = HostUpload(uploads, c, Step)
                               /\ UNCHANGED <<ended, descriptors, executions>>
                ELSE Refuse
           [] OTHER ->
                IF inside /\ InitialHelperOk(c)
                THEN Follow(c) /\ ended' = (ended \/ c.op = "InitEnd")
                               /\ UNCHANGED <<uploads, descriptors, executions>>
                ELSE Refuse

BeginFrame ==
  /\ phase = "initial" /\ Len(steps) = Len(theme.initial)
  /\ phase' = "frame"
  /\ UNCHANGED <<theme, ended, steps, ledgers, commands, labels, submission, executions>>

-----------------------------------------------------------------------------
(* The calls of the frame that the upload ledger follows.                   *)

FrameCalls(ops) == {c \in theme.frame : c.op \in ops /\ phase = "frame"
                                        /\ Len(steps) < Len(theme.initial) + theme.limit}

FenceCalls == {"WaitForFences", "ResetFences"}

FencesKnown(c) ==
  /\ Cardinality(c.fences) \in 1 .. MaxFences
  /\ \A f \in c.fences : f \in DOMAIN theme.fences /\ theme.fences[f].device = c.device
  /\ c.op = "ResetFences" => \A f \in c.fences : ~fences[f].pending

\* A mutant: the timeline takes a wait that may time out for a completion.
DoneMutant(c, p) ==
  CASE c.op = "QueueWaitIdle"  -> p.queue = c.queue
    [] c.op = "DeviceWaitIdle" -> p.device = c.device
    [] c.op = "WaitForFences"  -> p.device = c.device /\ p.fence \in c.fences
    [] OTHER                   -> FALSE

\* Does this call prove that a submission is over?
Done(c, p) ==
  CASE c.op = "QueueWaitIdle"  -> p.queue = c.queue
    [] c.op = "DeviceWaitIdle" -> p.device = c.device
    [] c.op = "WaitForFences"  -> c.all /\ c.timeout = Whole /\ p.device = c.device /\ p.fence \in c.fences
    [] OTHER                   -> FALSE

FollowUpload ==
  \E c \in FrameCalls(UploadCalls) :
    LET over     == {p \in pending : Done(c, p)}
        next     == HostUpload(uploads, c, Step)
        retired  == Completed(descriptors, over)
        signaled == {p.fence : p \in over}
    IN  IF (c.op \in FenceCalls => FencesKnown(c)) /\ next.ok /\ retired.ok
        THEN /\ Follow(c)
             /\ uploads' = next /\ descriptors' = retired
             /\ pending' = pending \ over
             /\ fences' = [f \in DOMAIN fences |->
                  CASE f \in signaled -> [signaled |-> TRUE, pending |-> FALSE]
                    [] c.op = "ResetFences" /\ f \in c.fences -> [fences[f] EXCEPT !.signaled = FALSE]
                    [] OTHER -> fences[f]]
             /\ UNCHANGED <<ended, commands, labels, submission, executions>>
        ELSE Refuse

FollowDescriptors ==
  \E c \in FrameCalls({"UpdateDescriptorSets", "FreeDescriptorSets", "ResetDescriptorPool",
                       "DestroyDescriptorPool"}) :
    LET next == CASE c.op = "UpdateDescriptorSets" -> Checked(descriptors, UpdateQualified(c), Updated(c))
                  [] c.op = "FreeDescriptorSets"   -> FreeDescriptorSets(descriptors, c)
                  [] OTHER                         -> EndDescriptorPool(descriptors, c)
    IN  IF next.ok
        THEN /\ Follow(c) /\ descriptors' = next
             /\ UNCHANGED <<ended, uploads, pending, fences, commands, labels, submission, executions>>
        ELSE Refuse

-----------------------------------------------------------------------------
(* Recording and resetting command buffers.                                 *)

PoolOf(b) == theme.command_pools[theme.command_buffers[b].pool]

\* A recording's barriers hand no buffer from one queue family to another.
RecordingQualified(r) ==
  /\ r \in DOMAIN theme.recordings
  /\ theme.recordings[r].read
  /\ \A barrier \in theme.recordings[r].barriers : barrier.families = "ignored"

RecordCommandBuffer ==
  \E c \in FrameCalls({"RecordCommandBuffer"}) :
    LET active   == c.buffer \in DOMAIN commands.active
        released == IF active THEN Forget(descriptors, commands.active[c.buffer]) ELSE descriptors
        next     == Recorded(released, c.recording, theme.recordings[c.recording].bound)
    IN  IF /\ RecordingQualified(c.recording) /\ theme.recordings[c.recording].buffer = c.buffer
           /\ c.buffer \in DOMAIN theme.command_buffers /\ theme.command_buffers[c.buffer].device = c.device
           /\ PoolOf(c.buffer).device = c.device
           /\ active => PoolOf(c.buffer).reset
           /\ next.ok
        THEN /\ Follow(c)
             /\ descriptors' = next
             /\ commands' = [commands EXCEPT
                  !.active = Put(@, c.buffer, c.recording),
                  !.generation = Put(@, c.buffer, At(@, c.buffer, 0) + 1)]
             /\ UNCHANGED <<ended, uploads, pending, fences, labels, submission, executions>>
        ELSE Refuse

ResetCommandBuffer ==
  \E c \in FrameCalls({"ResetCommandBuffer"}) :
    LET active == c.buffer \in DOMAIN commands.active
        next   == IF active THEN Forget(descriptors, commands.active[c.buffer]) ELSE descriptors
    IN  IF PoolOf(c.buffer).reset /\ next.ok
        THEN /\ Follow(c)
             /\ descriptors' = next
             /\ commands' = [commands EXCEPT !.active = [b \in DOMAIN @ \ {c.buffer} |-> @[b]]]
             /\ UNCHANGED <<ended, uploads, pending, fences, labels, submission, executions>>
        ELSE Refuse

QueueLabel ==
  \E c \in FrameCalls({"QueueBeginDebugUtilsLabel", "QueueEndDebugUtilsLabel"}) :
    LET stack == At(labels, c.queue, <<>>)
        opens == c.op = "QueueBeginDebugUtilsLabel"
    IN  IF IF opens THEN c.queue \in DOMAIN theme.queues /\ Len(stack) < MaxLabels ELSE stack # <<>>
        THEN /\ Follow(c)
             /\ labels' = Put(labels, c.queue, IF opens THEN Append(stack, c.name)
                                               ELSE SubSeq(stack, 1, Len(stack) - 1))
             /\ UNCHANGED <<ended, ledgers, commands, submission, executions>>
        ELSE Refuse

-----------------------------------------------------------------------------
(* A submission, one command buffer after the other.                        *)

UniformTypes == {"uniform", "uniform_dynamic"}

\* The modules whose bytes are those of the source and that write no buffer.
StageQualified(stage) ==
  /\ stage.stage \in {"vertex", "fragment"}
  /\ stage.module \in DOMAIN Modules
  /\ Modules[stage.module].matches /\ ~Modules[stage.module].writes_buffers

DrawQualified(draw) ==
  /\ draw.pipeline_qualified
  /\ Len(draw.stages) = 2
  /\ {draw.stages[i].stage : i \in DOMAIN draw.stages} = {"vertex", "fragment"}
  /\ \A i \in DOMAIN draw.stages : StageQualified(draw.stages[i])

ReadsOfDraw(draw) ==
  UNION {{[stage |-> draw.stages[i].stage, read |-> r] : r \in Modules[draw.stages[i].module].reads} :
           i \in DOMAIN draw.stages}

\* A mutant: a buffer that a copy may write is as good as one the GPU only reads.
ReadOnlyUsageMutant(usage) == "uniform" \in usage

ReadOnlyUsage(usage) == "uniform" \in usage /\ usage \subseteq {"transfer_src", "uniform"}

\* Where one uniform read finds its bytes; s holds the ledgers as of this buffer.
Plan(s, draw, want) ==
  LET bank    == draw.bank[want.read.set]
      value   == Element(s.descriptors, bank.set, want.read.binding, 0).value
      binding == BindingOf(s.descriptors, bank.set, want.read.binding)
      dynamic == IF binding.type = "uniform_dynamic" THEN bank.dynamic[want.read.binding] ELSE 0
      size    == Placed(value.buffer).bytes
      range   == IF value.range = Whole THEN size - value.offset ELSE value.range
      prefix  == want.read.offset + want.read.bytes
  IN  [want |-> want, set |-> bank.set, buffer |-> value.buffer, value |-> value,
       history |-> Element(s.descriptors, bank.set, want.read.binding, 0).history,
       dynamic |-> dynamic, offset |-> value.offset + dynamic, range |-> range, prefix |-> prefix,
       upload |-> UploadRange(s.uploads, value.buffer, value.offset + dynamic, prefix)]

PlanQualified(s, device, draw, want) ==
  /\ draw.bank_qualified
  /\ want.read.set \in DOMAIN draw.bank
  /\ LET set     == draw.bank[want.read.set].set
         value   == Element(s.descriptors, set, want.read.binding, 0).value
         binding == BindingOf(s.descriptors, set, want.read.binding)
         plan    == Plan(s, draw, want)
     IN  /\ value # Undefined
         /\ binding.type \in UniformTypes /\ want.stage \in binding.stages
         /\ value.buffer \in DOMAIN uploads.buffers
         /\ s.descriptors.sets[set].allocation.device = device
         /\ Placed(value.buffer).device = device
         /\ ReadOnlyUsage(Placed(value.buffer).usage)
         /\ value.offset < Placed(value.buffer).bytes
         /\ binding.type = "uniform_dynamic" =>
              want.read.binding \in DOMAIN draw.bank[want.read.set].dynamic
         /\ plan.offset <= Placed(value.buffer).bytes
         /\ value.range = Whole => plan.dynamic = 0
         /\ plan.offset + plan.range <= Placed(value.buffer).bytes
         /\ plan.prefix \in 1 .. plan.range /\ plan.prefix <= MaxRangeBytes
         /\ plan.upload.qualified

\* The buffers of a submission, as <<submit info, position>>, in their order.
SubmittedBuffers(c) == UNION {{<<i, j>> : j \in DOMAIN c.submits[i]} : i \in DOMAIN c.submits}
InOrder(c) == FlattenSeq([i \in DOMAIN c.submits |-> [j \in DOMAIN c.submits[i] |-> <<i, j>>]])

Selection(c, p, recording, draw, number) ==
  [submission |-> number, submit_info |-> p[1], position |-> p[2], buffer |-> c.submits[p[1]][p[2]],
   recording |-> recording, draw |-> draw, queue |-> c.queue]

\* What a buffer needs of its recording, pool and queue.
BufferQualified(s, c, buffer) ==
  /\ buffer \in DOMAIN commands.active
  /\ LET r == theme.recordings[commands.active[buffer]]
         b == theme.command_buffers[buffer]
     IN  /\ b.device = theme.queues[c.queue].device
         /\ PoolOf(buffer).family = theme.queues[c.queue].family
         /\ b.primary /\ b.alone
         /\ r.one_time => <<buffer, commands.generation[buffer]>> \notin s.once
         /\ RecordingValid(s.descriptors, commands.active[buffer])

\* The n-th buffer of a submission.  The copies of its recording spoil their
\* targets before its draws are planned.
SubmitBuffer(s, c, n) ==
  LET p      == InOrder(c)[n]
      buffer == c.submits[p[1]][p[2]]
      name   == commands.active[buffer]
      r      == theme.recordings[name]
      device == theme.queues[c.queue].device
      spoilt == [s EXCEPT !.uploads = Invalidate(@, r.copies)]
      plans(m) == {Plan(spoilt, r.draws[m], want) : want \in ReadsOfDraw(r.draws[m])}
      used   == r.copies \cup {plan.buffer : plan \in UNION {plans(m) : m \in DOMAIN r.draws}}
      rows   == [m \in DOMAIN r.draws |->
                   [selection |-> Selection(c, p, name, m, submission), plans |-> plans(m),
                    labels |-> At(labels, c.queue, <<>>), step |-> Step]]
      next   == [once        |-> s.once \cup (IF r.one_time THEN {<<buffer, commands.generation[buffer]>>} ELSE {}),
                 descriptors |-> Submitted(s.descriptors, name),
                 uploads     |-> SubmitUses(spoilt.uploads, c.queue, device, c.fence, used, <<Step, n>>),
                 pending     |-> s.pending \cup {[queue |-> c.queue, device |-> device, fence |-> c.fence,
                                                  recording |-> name, place |-> <<Step, n>>]},
                 executions  |-> s.executions \o rows,
                 ok          |-> TRUE]
  IN  IF /\ s.ok
         /\ BufferQualified(s, c, buffer)
         /\ spoilt.uploads.ok
         /\ \A m \in DOMAIN r.draws :
              /\ DrawQualified(r.draws[m])
              /\ Cardinality(ReadsOfDraw(r.draws[m])) <= MaxPlans
              /\ \A want \in ReadsOfDraw(r.draws[m]) : PlanQualified(spoilt, device, r.draws[m], want)
         /\ next.descriptors.ok /\ next.uploads.ok
         /\ Cardinality(next.pending) <= MaxInFlight /\ Len(next.executions) <= MaxExecutions
      THEN next ELSE [s EXCEPT !.ok = FALSE]

SubmitQualified(c) ==
  /\ c.queue \in DOMAIN theme.queues
  /\ c.fence # NoFence =>
       /\ c.fence \in DOMAIN theme.fences
       /\ theme.fences[c.fence].device = theme.queues[c.queue].device
       /\ ~fences[c.fence].signaled /\ ~fences[c.fence].pending
  /\ Len(c.submits) \in 1 .. MaxSubmits
  /\ \A i \in DOMAIN c.submits : c.submits[i] # <<>>

QueueSubmit ==
  \E c \in FrameCalls({"QueueSubmit"}) :
    LET before == [ok |-> TRUE, uploads |-> uploads, descriptors |-> descriptors, pending |-> pending,
                   once |-> commands.once, executions |-> executions]
        submitted[n \in 0 .. Len(InOrder(c))] ==
          IF n = 0 THEN before ELSE SubmitBuffer(submitted[n - 1], c, n)
        after  == submitted[Len(InOrder(c))]
    IN  IF SubmitQualified(c) /\ after.ok
        THEN /\ Follow(c)
             /\ uploads' = after.uploads /\ descriptors' = after.descriptors
             /\ pending' = after.pending /\ executions' = after.executions
             /\ commands' = [commands EXCEPT !.once = after.once]
             /\ fences' = [f \in DOMAIN fences |->
                  IF f = c.fence THEN [fences[f] EXCEPT !.pending = TRUE] ELSE fences[f]]
             /\ submission' = submission + 1
             /\ UNCHANGED <<ended, labels>>
        ELSE Refuse

\* Calls that write no buffer: their outputs must be seen to be the host's own.
PassiveOk(c) ==
  CASE c.op = "AcquireNextImage"        -> c.output = "earlier local"
    [] c.op = "GetQueryPoolResults"     -> c.output = "owned bytes"
    [] c.op = "QueuePresent"            -> c.output = "none" /\ c.fences \in {0, c.swapchains}
    [] c.op = "SetDebugUtilsObjectName" -> TRUE
    [] OTHER                            -> FALSE

Followed == UploadCalls \cup
  {"UpdateDescriptorSets", "FreeDescriptorSets", "ResetDescriptorPool", "DestroyDescriptorPool",
   "RecordCommandBuffer", "ResetCommandBuffer", "QueueBeginDebugUtilsLabel", "QueueEndDebugUtilsLabel",
   "QueueSubmit"}

PassiveCall ==
  \E c \in FrameCalls({c.op : c \in theme.frame} \ Followed) :
    IF PassiveOk(c)
    THEN Follow(c) /\ UNCHANGED <<ended, ledgers, commands, labels, submission, executions>>
    ELSE Refuse

\* The frame is over: what is still open or in flight refuses it.
EndFrame ==
  /\ phase = "frame"
  /\ IF pending = {} /\ \A q \in DOMAIN labels : labels[q] = <<>>
     THEN /\ phase' = "accepted"
          /\ UNCHANGED <<theme, ended, steps, ledgers, commands, labels, submission, executions>>
     ELSE Refuse

\* The shared deadline is looked at between calls.
DeadlinePasses == phase \in {"initial", "frame"} /\ Refuse

Next ==
  \/ InitialCall \/ BeginFrame
  \/ FollowUpload \/ FollowDescriptors
  \/ RecordCommandBuffer \/ ResetCommandBuffer \/ QueueLabel
  \/ QueueSubmit \/ PassiveCall \/ EndFrame \/ DeadlinePasses

Spec == Init /\ [][Next]_vars

-----------------------------------------------------------------------------
(* value_execution_candidates(): the same submissions, without the ledgers. *)

\* A mutant: a submission is counted once per submit info.
CandidateRowsMutant(t, found, c, p) ==
  LET name  == found.active[c.submits[p[1]][p[2]]]
      draws == IF t.recordings[name].read THEN t.recordings[name].draws ELSE <<>>
  IN  [m \in DOMAIN draws |-> Selection(c, p, name, m, found.submission + p[1] - 1)]

\* A recording that could not be read has no candidates, and is no refusal.
CandidateRows(t, found, c, p) ==
  LET name  == found.active[c.submits[p[1]][p[2]]]
      draws == IF t.recordings[name].read THEN t.recordings[name].draws ELSE <<>>
  IN  [m \in DOMAIN draws |-> Selection(c, p, name, m, found.submission)]

CandidateSubmit(t, found, c) ==
  LET listed[n \in 0 .. Len(InOrder(c))] ==
        IF n = 0 THEN found.rows ELSE listed[n - 1] \o CandidateRows(t, found, c, InOrder(c)[n])
  IN  IF /\ found.ok
         /\ Len(c.submits) \in 1 .. MaxSubmits
         /\ \A i \in DOMAIN c.submits : c.submits[i] # <<>>
         /\ \A p \in SubmittedBuffers(c) : c.submits[p[1]][p[2]] \in DOMAIN found.active
         /\ Len(listed[Len(InOrder(c))]) <= MaxExecutions
      THEN [found EXCEPT !.submission = @ + 1, !.rows = listed[Len(InOrder(c))]]
      ELSE [found EXCEPT !.ok = FALSE, !.rows = <<>>]

Candidate(t, found, c) ==
  CASE c.op = "RecordCommandBuffer" ->
         IF found.ok /\ c.recording \in DOMAIN t.recordings
            /\ t.recordings[c.recording].buffer = c.buffer
         THEN [found EXCEPT !.active = Put(@, c.buffer, c.recording)]
         ELSE [found EXCEPT !.ok = FALSE, !.rows = <<>>]
    [] c.op = "ResetCommandBuffer" -> [found EXCEPT !.active = [b \in DOMAIN @ \ {c.buffer} |-> @[b]]]
    [] c.op = "QueueSubmit"        -> CandidateSubmit(t, found, c)
    [] OTHER                       -> found

NoCandidates == [ok |-> TRUE, active |-> <<>>, rows |-> <<>>, submission |-> 0]

\* Over the calls of the frame, which follow those of the initial state.
Candidates ==
  LET found[k \in 0 .. Len(steps)] ==
        IF k <= Len(theme.initial) THEN NoCandidates ELSE Candidate(theme, found[k - 1], steps[k])
  IN  found[Len(steps)]

-----------------------------------------------------------------------------
(* What the calls alone say, without any ledger.                            *)

StepsBefore(k, ops) == {j \in 1 .. k - 1 : steps[j].op \in ops}
Latest(set)         == CHOOSE j \in set : \A i \in set : i <= j

Accepted == phase = "accepted"

\* Every plan of the frame, with the step of its submission.
AllPlans == UNION {{[at |-> executions[n].step, row |-> executions[n].selection, plan |-> plan] :
                      plan \in executions[n].plans} : n \in DOMAIN executions}

\* The address of the x-th byte of a plan in its allocation.
Address(p, x) == Placed(p.plan.buffer).offset + p.plan.offset + x
MemoryOf(p)   == Placed(p.plan.buffer).memory

\* The first byte of an allocation that an upload at step k writes.
UploadStart(k) ==
  LET c == steps[k] IN
  IF c.op = "PopulateBuffer" THEN Placed(c.buffer).offset + c.offset
  ELSE steps[Latest({j \in StepsBefore(k, {"MapMemory"}) : steps[j].memory = c.memory})].offset + c.offset

Uploads(k, memory, address) ==
  LET c == steps[k] IN
  /\ c.op \in {"PopulateBuffer", "UpdateMappedMemory"}
  /\ memory = IF c.op = "PopulateBuffer" THEN Placed(c.buffer).memory ELSE c.memory
  /\ address \in UploadStart(k) .. UploadStart(k) + c.bytes - 1

\* The recording of a buffer submitted at step k.
RecordedBefore(k, buffer) ==
  Latest({j \in StepsBefore(k, {"RecordCommandBuffer"}) : steps[j].buffer = buffer})

GpuWrites(k, memory, address) ==
  /\ steps[k].op = "QueueSubmit"
  /\ \E q \in SubmittedBuffers(steps[k]) :
       \E b \in theme.recordings[steps[RecordedBefore(k, steps[k].submits[q[1]][q[2]])].recording].copies :
         /\ Placed(b).memory = memory
         /\ address \in Placed(b).offset .. Placed(b).offset + Placed(b).bytes - 1

Ends(k, p) ==
  \/ steps[k].op = "DestroyBuffer" /\ steps[k].buffer = p.plan.buffer
  \/ steps[k].op = "FreeMemory" /\ steps[k].memory = MemoryOf(p)

\* Step k proves that the submission of p is over.
Proves(k, p) ==
  LET c == steps[k] device == theme.queues[p.row.queue].device IN
  \/ c.op = "QueueWaitIdle" /\ c.queue = p.row.queue
  \/ c.op = "DeviceWaitIdle" /\ c.device = device
  \/ /\ c.op = "WaitForFences" /\ c.all /\ c.timeout = Whole
     /\ c.device = device /\ steps[p.at].fence \in c.fences

\* Step k changes the set that p reads.
Touches(k, p) ==
  LET c == steps[k] IN
  CASE c.op = "UpdateDescriptorSets" ->
         \/ c.count > 0 /\ \E i \in ReadsOf(c) : \E n \in DOMAIN theme.reads[i].writes :
                             theme.reads[i].writes[n].set = p.plan.set
         \/ \E n \in DOMAIN c.copies : c.copies[n].to.set = p.plan.set
    [] c.op = "FreeDescriptorSets" -> \E n \in DOMAIN c.sets : c.sets[n] = p.plan.set
    [] c.op \in {"ResetDescriptorPool", "DestroyDescriptorPool"} ->
         c.pool = descriptors.sets[p.plan.set].allocation.pool
    [] OTHER -> FALSE

-----------------------------------------------------------------------------
(* Properties                                                               *)

\* Each byte that an accepted plan names comes from the last upload that reached
\* its address in the allocation before the submission, through whichever buffer,
\* at its place in that upload's payload; the buffer still existed, and no copy
\* of the GPU was ever submitted to that address (ValueUploads.cpp:255, the
\* aliases of ValueMemory.cpp:259 and of the mapped update at :190).
ValueBytesExact ==
  Accepted => \A p \in AllPlans : \A x \in 0 .. p.plan.prefix - 1 :
    LET from == {k \in StepsBefore(p.at, {"PopulateBuffer", "UpdateMappedMemory"}) :
                   Uploads(k, MemoryOf(p), Address(p, x))}
        byte == p.plan.offset + x
    IN  /\ from # {} /\ \A k \in 1 .. p.at - 1 : ~Ends(k, p)
        /\ \A k \in DOMAIN steps : ~GpuWrites(k, MemoryOf(p), Address(p, x))
        /\ \E segment \in p.plan.upload.segments :
             /\ byte \in segment.offset .. segment.offset + segment.bytes - 1
             /\ segment.step = Latest(from)
             /\ segment.payload + byte - segment.offset = Address(p, x) - UploadStart(Latest(from))

\* Every accepted use is proved to be over by a later wait, and until that wait
\* nothing reached one of its bytes and nothing ended its buffer: a wait that may
\* time out, or that is for another queue or fence, proves nothing
\* (ValueUploads.cpp:221, ValueTimeline.cpp:133).
BytesHoldInFlight ==
  Accepted => \A p \in AllPlans : \E k \in p.at + 1 .. Len(steps) :
    /\ Proves(k, p)
    /\ \A j \in p.at + 1 .. k :
         /\ ~Ends(j, p)
         /\ \A x \in 0 .. p.plan.prefix - 1 : ~Uploads(j, MemoryOf(p), Address(p, x))

\* From the recording of a command buffer to the end of each of its submissions
\* no update, copy, free or pool reset reaches a set its accepted plans read, so
\* the plan reads what the recording bound (ValueDescriptors.cpp:54).
SetsHoldWhileRecorded ==
  Accepted => \A p \in AllPlans : \E k \in p.at + 1 .. Len(steps) :
    /\ Proves(k, p)
    /\ \A j \in RecordedBefore(p.at, p.row.buffer) .. k : ~Touches(j, p)

\* The cheap listing and the full one select the same draws of the same
\* submissions in the same order (tests/ValueTimelineCheck.cpp:209).
PlansAreCandidates ==
  Accepted => Candidates.ok /\ Candidates.rows = [n \in DOMAIN executions |-> executions[n].selection]
==============================================================================
