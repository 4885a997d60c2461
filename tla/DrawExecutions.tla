---------------------------- MODULE DrawExecutions ----------------------------
(***************************************************************************)
(* inspect_draw_executions() of src/src/inspection/DrawState.cpp.  Every   *)
(* recording of a generated replay is read once, call by call, and leaves  *)
(* its draws with the state they report; the calls of the captured frame   *)
(* are then followed to find where each recording is submitted.            *)
(*                                                                         *)
(* A theme is one replay: its recordings, the calls they may hold and the  *)
(* calls of its frame.  A call is qualified when its arity and literals    *)
(* have the form the code's readers accept.                                *)
(***************************************************************************)
EXTENDS DrawState

CONSTANTS
  Themes,        \* the replays that are read
  MaxLabels,     \* nested labels (16 in the code)
  MaxDraws,      \* draws of one recording (4096)
  MaxExecutions, \* executions of the frame (10000)
  MaxSubmits     \* submit infos of one submission (16)

\* A qualified call has the arguments of its operation, each number unsigned;
\* a setter of a list takes a list and names one of the two arrays.
CallOk(c) ==
  /\ c.op = "CmdSet" => c.key \in Settings \ ArraySettings
  /\ c.op = "CmdSetArray" => /\ c.key \in ArraySettings /\ c.counted \in BOOLEAN
                             /\ c.first \in Nat /\ Listed(c.elements)
  /\ c.op = "CmdBindPipeline" => /\ c.pipeline \in DOMAIN Pipelines
                                 /\ Pipelines[c.pipeline].layout \in DOMAIN Layouts
  /\ c.op = "CmdPushConstants" => c.layout \in DOMAIN Layouts /\ {c.offset, c.size} \subseteq Nat
  /\ c.op = "CmdBindDescriptorSets" => c.layout \in DOMAIN Layouts /\ c.first \in Nat /\ Listed(c.sets)

FrameCallOk(c) ==
  c.op = "QueueSubmit" => Listed(c.submits) /\ \A i \in DOMAIN c.submits : Listed(c.submits[i])

ASSUME ThemesAssumption ==
  /\ {MaxLabels, MaxDraws, MaxExecutions, MaxSubmits} \subseteq Nat
  /\ \A replay \in Themes :
       /\ Listed(replay.recordings)
       /\ \A c \in replay.calls : c.qualified => CallOk(c)
       /\ \A c \in replay.frame : FrameCallOk(c)

None == "none"

VARIABLES
  theme,    \* the replay
  reading,  \* the recording being read, counted from 1; beyond the last: the frame
  calls,    \* the calls of the recording that changed a bank so far
  scope,    \* [pass, rendering, labels, index_bound]
  current,  \* the bound pipeline
  settings, arrays, push, descriptors, \* the banks
  draws,    \* the draws of the recording so far
  results,  \* recording -> its draws, or "unqualified"
  frame,    \* what the frame's calls have established
  steps,    \* the frame's calls so far
  executions

banks     == <<calls, scope, current, settings, arrays, push, descriptors, draws>>
recorded  == <<reading, banks, results>>
framed    == <<frame, steps, executions>>
vars      == <<theme, reading, banks, results, framed>>

Recordings == DOMAIN theme.recordings
InFrame    == reading > Len(theme.recordings)
Recording  == theme.recordings[reading]

NoScope == [pass |-> None, rendering |-> NoFormats, labels |-> <<>>, index_bound |-> FALSE]

FreshBanks ==
  /\ calls' = <<>> /\ scope' = NoScope /\ current' = None /\ draws' = <<>>
  /\ settings' = [k \in Settings |-> NotSet] /\ arrays' = [k \in ArraySettings |-> NoArray]
  /\ push' = EmptyPush /\ descriptors' = EmptyDescriptors

Init ==
  /\ theme \in Themes
  /\ reading = 1 /\ results = <<>>
  /\ calls = <<>> /\ scope = NoScope /\ current = None /\ draws = <<>>
  /\ settings = [k \in Settings |-> NotSet] /\ arrays = [k \in ArraySettings |-> NoArray]
  /\ push = EmptyPush /\ descriptors = EmptyDescriptors
  /\ frame = [active |-> <<>>, generation |-> <<>>, once |-> {}, submitted |-> {},
              labels |-> <<>>, submission |-> 0, status |-> "open"]
  /\ steps = <<>> /\ executions = <<>>

-----------------------------------------------------------------------------
(* Reading a recording.  A refused call refuses the whole recording.        *)

\* The recording is over: its draws, or the refusal, are kept for the frame.
Finish(result) ==
  /\ results' = Append(results, result)
  /\ reading' = reading + 1
  /\ FreshBanks
  /\ UNCHANGED <<theme, framed>>

Refuse == Finish([status |-> "unqualified", draws |-> <<>>])

\* A recording starts with a qualified Begin, and only there.
Open    == ~InFrame /\ Recording.begin_qualified
Reading == Open /\ UNCHANGED <<theme, reading, results, framed>>

CallsOf(op) == {c \in theme.calls : c.op = op /\ c.qualified}

\* A call that changes a bank; the bound on them is the theme's.
BankCall(op) == {c \in CallsOf(op) : Len(calls) < theme.limit}

Unqualified ==
  /\ ~InFrame
  /\ \/ ~Recording.begin_qualified
     \/ \E c \in theme.calls : ~c.qualified
  /\ Refuse

\* Only the reading that selects values admits copies, and only outside a pass.
CopyImageToBuffer ==
  /\ Open
  /\ CallsOf("CmdCopyImageToBuffer") # {}
  /\ \/ (~theme.value_selection \/ scope.pass # None) /\ Refuse
     \/ theme.value_selection /\ scope.pass = None /\ Reading /\ UNCHANGED banks

EndCommandBuffer ==
  /\ Open
  /\ IF scope.pass = None /\ scope.labels = <<>>
     THEN Finish([status |-> "recorded", draws |-> draws]) ELSE Refuse

BeginLabel ==
  \E c \in CallsOf("CmdBeginDebugUtilsLabelEXT") :
    IF Len(scope.labels) < MaxLabels
    THEN /\ Reading
         /\ scope' = [scope EXCEPT !.labels = Append(@, c.name)]
         /\ UNCHANGED <<calls, current, settings, arrays, push, descriptors, draws>>
    ELSE Open /\ Refuse

EndLabel ==
  /\ CallsOf("CmdEndDebugUtilsLabelEXT") # {}
  /\ IF scope.labels # <<>>
     THEN /\ Reading
          /\ scope' = [scope EXCEPT !.labels = SubSeq(@, 1, Len(@) - 1)]
          /\ UNCHANGED <<calls, current, settings, arrays, push, descriptors, draws>>
     ELSE Open /\ Refuse

\* Dynamic rendering is a pass of its own name.
BeginPass ==
  \E c \in CallsOf("CmdBeginRenderPass") \cup CallsOf("CmdBeginRendering") :
    LET formats == IF c.pass = "dynamic" THEN ActiveFormats(c.info) ELSE NoFormats IN
    IF scope.pass = None /\ formats # BadFormats
    THEN /\ Reading
         /\ scope' = [scope EXCEPT !.pass = c.pass, !.rendering = formats]
         /\ UNCHANGED <<calls, current, settings, arrays, push, descriptors, draws>>
    ELSE Open /\ Refuse

EndPass ==
  \E op \in {"CmdEndRenderPass", "CmdEndRendering"} :
    /\ CallsOf(op) # {}
    /\ IF scope.pass # None /\ (op = "CmdEndRendering") = (scope.pass = "dynamic")
       THEN /\ Reading
            /\ scope' = [scope EXCEPT !.pass = None, !.rendering = NoFormats]
            /\ UNCHANGED <<calls, current, settings, arrays, push, descriptors, draws>>
       ELSE Open /\ Refuse

BindIndexBuffer ==
  /\ CallsOf("CmdBindIndexBuffer") # {}
  /\ Reading
  /\ scope' = [scope EXCEPT !.index_bound = TRUE]
  /\ UNCHANGED <<calls, current, settings, arrays, push, descriptors, draws>>

\* Barriers, queries and vertex buffers reach no bank that is reported.
Harmless ==
  \E c \in CallsOf("Other") :
    IF c.first + c.count <= c.limit
    THEN Reading /\ UNCHANGED banks
    ELSE Open /\ Refuse

\* A pipeline that is refused clears what the setters had left.
BindPipeline ==
  \E c \in BankCall("CmdBindPipeline") :
    LET p == Pipelines[c.pipeline] IN
    /\ Reading
    /\ calls' = Append(calls, c)
    /\ IF PipelineOk(p)
       THEN /\ current' = c.pipeline
            /\ settings' = KeptSettings(p, settings)
            /\ arrays' = KeptArrays(p, arrays)
       ELSE /\ current' = None
            /\ settings' = [k \in Settings |-> NotSet]
            /\ arrays' = [k \in ArraySettings |-> NoArray]
    /\ UNCHANGED <<scope, push, descriptors, draws>>

BindDescriptorSets ==
  \E c \in BankCall("CmdBindDescriptorSets") :
    LET bound == [n \in DOMAIN c.sets |-> [name |-> c.sets[n], allocation |-> Allocations[c.sets[n]]]] IN
    /\ Reading
    /\ calls' = Append(calls, c)
    /\ descriptors' = RecordBind(descriptors, Layouts[c.layout], bound, c)
    /\ UNCHANGED <<scope, current, settings, arrays, push, draws>>

PushConstants ==
  \E c \in BankCall("CmdPushConstants") :
    /\ Reading
    /\ calls' = Append(calls, c)
    /\ push' = RecordPush(push, Layouts[c.layout], c)
    /\ UNCHANGED <<scope, current, settings, arrays, descriptors, draws>>

SetSetting ==
  \E c \in BankCall("CmdSet") :
    IF LiteralOk(c.value)
    THEN /\ Reading
         /\ calls' = Append(calls, c)
         /\ settings' = [settings EXCEPT
              ![c.key] = [set |-> TRUE, value |-> <<c.value>>, at |-> Len(calls) + 1]]
         /\ UNCHANGED <<scope, current, arrays, push, descriptors, draws>>
    ELSE Open /\ Refuse

SetArraySetting ==
  \E c \in BankCall("CmdSetArray") :
    IF ArrayRangeOk(c)
    THEN /\ Reading
         /\ calls' = Append(calls, c)
         /\ arrays' = SetArray(arrays, c, Len(calls) + 1)
         /\ UNCHANGED <<scope, current, settings, push, descriptors, draws>>
    ELSE Open /\ Refuse

\* What a draw reports; a draw outside the pass of its pipeline reports no setting.
Report ==
  LET p == Pipelines[current]
      fits == current # None /\ p.pass = scope.pass /\ PipelineFormats(p) = scope.rendering
  IN  [at          |-> Len(calls),
       labels      |-> scope.labels,
       pipeline    |-> IF fits THEN current ELSE None,
       settings    |-> [k \in Settings |-> IF fits THEN SettingAtDraw(p, settings, arrays, k)
                                                   ELSE Missing("unsupported")],
       layout      |-> IF current = None THEN None ELSE p.layout,
       descriptors |-> IF current = None THEN [status |-> "unavailable", value |-> {}]
                       ELSE DescriptorsAtDraw(descriptors, Layouts[p.layout]),
       push        |-> IF current = None THEN [status |-> "unavailable", value |-> {}, segments |-> {}]
                       ELSE PushAtDraw(push, Layouts[p.layout]),
       writes      |-> push.writes]

Draw ==
  \E c \in CallsOf("CmdDraw") :
    IF scope.pass # None /\ (c.indexed => scope.index_bound) /\ Len(draws) < MaxDraws
    THEN /\ Reading
         /\ draws' = Append(draws, Report)
         /\ UNCHANGED <<calls, scope, current, settings, arrays, push, descriptors>>
    ELSE Open /\ Refuse

Read ==
  \/ Unqualified \/ EndCommandBuffer \/ CopyImageToBuffer
  \/ BeginLabel \/ EndLabel \/ BeginPass \/ EndPass \/ BindIndexBuffer
  \/ Harmless
  \/ BindPipeline \/ BindDescriptorSets \/ PushConstants \/ SetSetting \/ SetArraySetting
  \/ Draw

-----------------------------------------------------------------------------
(* Following the frame.  A refused call discards every execution.           *)

Following(op) == {c \in theme.frame : c.op = op /\ InFrame /\ frame.status = "open"
                                      /\ Len(steps) < theme.frame_limit /\ ~theme.value_selection}

Take(c, found) ==
  /\ frame' = found
  /\ steps' = Append(steps, c)
  /\ UNCHANGED <<theme, recorded>>

RefuseFrame(c) ==
  /\ Take(c, [frame EXCEPT !.status = "refused"])
  /\ executions' = <<>>

\* f extended or changed at one point.
Put(f, x, v) == [y \in DOMAIN f \cup {x} |-> IF y = x THEN v ELSE f[y]]
At(f, x, default) == IF x \in DOMAIN f THEN f[x] ELSE default

\* The recording's name says which buffer it is for.
RecordCommandBuffer ==
  \E c \in Following("RecordCommandBuffer") :
    IF c.recording \in Recordings /\ theme.recordings[c.recording].buffer = c.buffer
    THEN /\ Take(c, [frame EXCEPT
              !.active = Put(@, c.buffer, c.recording),
              !.generation = Put(@, c.buffer, At(@, c.buffer, 0) + 1)])
         /\ UNCHANGED executions
    ELSE RefuseFrame(c)

ResetCommandBuffer ==
  \E c \in Following("ResetCommandBuffer") :
    /\ Take(c, [frame EXCEPT
         !.active = [b \in DOMAIN @ \ {c.buffer} |-> @[b]]])
    /\ UNCHANGED executions

QueueBeginLabel ==
  \E c \in Following("QueueBeginDebugUtilsLabelEXT") :
    LET stack == At(frame.labels, c.queue, <<>>) IN
    IF Len(stack) < MaxLabels
    THEN /\ Take(c, [frame EXCEPT !.labels = Put(@, c.queue, Append(stack, c.name))])
         /\ UNCHANGED executions
    ELSE RefuseFrame(c)

QueueEndLabel ==
  \E c \in Following("QueueEndDebugUtilsLabelEXT") :
    LET stack == At(frame.labels, c.queue, <<>>) IN
    IF stack # <<>>
    THEN /\ Take(c, [frame EXCEPT !.labels = Put(@, c.queue, SubSeq(stack, 1, Len(stack) - 1))])
         /\ UNCHANGED executions
    ELSE RefuseFrame(c)

\* The buffers of a submission in order: <<submit info, position>>.
SubmittedBuffers(c) ==
  UNION {{<<i, j>> : j \in DOMAIN c.submits[i]} : i \in DOMAIN c.submits}

Earlier(p, q) == p[1] < q[1] \/ (p[1] = q[1] /\ p[2] < q[2])

\* A mutant: nothing remembers that a one-time recording was submitted.
SubmittableMutant(c, p) ==
  LET buffer == c.submits[p[1]][p[2]] IN
  /\ buffer \in DOMAIN frame.active
  /\ theme.recordings[frame.active[buffer]].begin_qualified

Submittable(c, p) ==
  LET buffer == c.submits[p[1]][p[2]] IN
  /\ buffer \in DOMAIN frame.active
  /\ LET r == theme.recordings[frame.active[buffer]] IN
     /\ r.begin_qualified /\ r.primary
     /\ r.one_time => /\ <<buffer, frame.generation[buffer]>> \notin frame.once
                      /\ \A q \in SubmittedBuffers(c) :
                           Earlier(q, p) => c.submits[q[1]][q[2]] # buffer

\* The draws of a submitted buffer, each where and when it is executed.
Executed(c, p) ==
  LET buffer == c.submits[p[1]][p[2]]
      r      == frame.active[buffer]
  IN  [n \in DOMAIN results[r].draws |->
         [submission |-> frame.submission, submit_info |-> p[1], position |-> p[2],
          queue |-> c.queue, buffer |-> buffer, recording |-> r, draw |-> n,
          queue_labels |-> At(frame.labels, c.queue, <<>>), step |-> Len(steps) + 1]]

\* The draws of a submission, in the order of its submit infos and their buffers.
AllExecuted(c) ==
  FlattenSeq([i \in DOMAIN c.submits |->
                FlattenSeq([j \in DOMAIN c.submits[i] |-> Executed(c, <<i, j>>)])])

QueueSubmit ==
  \E c \in Following("QueueSubmit") :
    LET at  == SubmittedBuffers(c)
        all == executions \o AllExecuted(c)
        once == {p \in at : theme.recordings[frame.active[c.submits[p[1]][p[2]]]].one_time}
    IN  IF /\ Len(c.submits) \in 1 .. MaxSubmits
           /\ \A i \in DOMAIN c.submits : c.submits[i] # <<>>
           /\ \A p \in at : Submittable(c, p)
           /\ Len(all) <= MaxExecutions
        THEN /\ Take(c, [frame EXCEPT
                  !.submission = @ + 1,
                  !.once = @ \cup {<<c.submits[p[1]][p[2]],
                                     frame.generation[c.submits[p[1]][p[2]]]>> : p \in once},
                  !.submitted = @ \cup {frame.active[c.submits[p[1]][p[2]]] : p \in at}])
             /\ executions' = all
        ELSE RefuseFrame(c)

\* A wait, a present or an upload of the arity expected changes nothing here.
OtherFrameCall ==
  \E c \in Following("Other") :
    IF c.qualified THEN Take(c, frame) /\ UNCHANGED executions ELSE RefuseFrame(c)

\* Every label closed; the recordings never submitted are listed as unsupported.
FinishFrame ==
  /\ InFrame /\ frame.status = "open" /\ ~theme.value_selection
  /\ LET closed == \A q \in DOMAIN frame.labels : frame.labels[q] = <<>> IN
     /\ frame' = [frame EXCEPT !.status = IF closed THEN "associated" ELSE "refused"]
     /\ executions' = IF closed THEN executions ELSE <<>>
  /\ UNCHANGED <<theme, recorded, steps>>

Follow ==
  \/ RecordCommandBuffer \/ ResetCommandBuffer \/ QueueBeginLabel \/ QueueEndLabel
  \/ QueueSubmit \/ OtherFrameCall \/ FinishFrame

Next == Read \/ Follow
Spec == Init /\ [][Next]_vars

-----------------------------------------------------------------------------
(* Properties.  They read the calls up to the draw themselves, not the banks. *)

CallsUpTo(at) == SubSeq(calls, 1, at)

\* Verified bytes of every write: byte k of handle h is <<h, k>>.
TrueReads(writes) ==
  [h \in {writes[i].handle : i \in DOMAIN writes} |->
     LET w == CHOOSE v \in {writes[i] : i \in DOMAIN writes} : v.handle = h
     IN  [k \in 1 .. w.size |-> <<h, k>>]]

\* The push calls of h that covered byte b for stage s.
Pushes(h, s, b) ==
  {i \in DOMAIN h : /\ h[i].op = "CmdPushConstants"
                    /\ s \in PushStages(h[i].flags) /\ b \in Span(h[i])}

PushExact(d, h) ==
  LET resolved == ResolvePush([writes |-> d.writes], d.push, TrueReads(d.writes))
      signature == PushSignature(Layouts[d.layout])
      last(p) == h[Max(Pushes(h, p[1], p[2]))]
      bytes == UNION {{<<s, b>> : s \in r.stages \cap GraphicsStages, b \in Span(r)} : r \in signature}
  IN  resolved.status = "qualified_recorded_state" =>
        /\ \A p \in bytes : Pushes(h, p[1], p[2]) # {} /\ PushSignature(Layouts[last(p).layout]) = signature
        /\ resolved.value = {[stage |-> p[1], byte |-> p[2],
                              data |-> <<last(p).handle, p[2] - last(p).offset + 1>>] : p \in bytes}

\* A draw's push constants, once resolved, are byte by byte those of the last
\* push call that covered the byte for the stage, through a layout like that of
\* the draw, and no declared byte is missing (PushState::record, at_draw,
\* resolve_push_data).
PushDataExact == \A n \in DOMAIN draws : PushExact(draws[n], CallsUpTo(draws[n].at))

GraphicsBinds(h) ==
  {i \in DOMAIN h : h[i].op = "CmdBindDescriptorSets" /\ h[i].point = "graphics"}
Targets(c) == c.first .. c.first + Len(c.sets) - 1
BindsOf(h, slot) == {i \in GraphicsBinds(h) : slot \in Targets(h[i])}
BoundBy(c) == PipelineSignature(Layouts[c.layout])

\* No bind between k and j went through a layout incompatible with k's at slot t.
Kept(h, k, j, t) ==
  \A m \in GraphicsBinds(h) : k < m /\ m < j => Compatible(BoundBy(h[k]), BoundBy(h[m]), t)

DescriptorsExact(d, h) ==
  LET drawn == PipelineSignature(Layouts[d.layout])
  IN  \A row \in d.descriptors.value :
        LET slot == row.slot
            i == Max({0} \cup BindsOf(h, slot))
            before(j, t) == {k \in BindsOf(h, t) : k < j}
        IN  /\ i # 0
            /\ row.set = h[i].sets[slot - h[i].first + 1]
            /\ Compatible(BoundBy(h[i]), drawn, slot)
            /\ \A j \in GraphicsBinds(h) : j > i => \A t \in Targets(h[j]) :
                 /\ t > slot => Compatible(BoundBy(h[j]), drawn, slot)
                 /\ t < slot /\ before(j, t) # {} =>
                      LET k == Max(before(j, t))
                      IN  Kept(h, k, j, t) => Compatible(BoundBy(h[j]), BoundBy(h[k]), t)

\* A set reported at a draw is the one the last call that covered its slot named,
\* and no later bind disturbed it: none above it went through a layout that is
\* incompatible there, and none below it replaced a set bound through a layout
\* incompatible with its own (DescriptorState::record, at_draw).
DescriptorsUndisturbed ==
  \A n \in DOMAIN draws : DescriptorsExact(draws[n], CallsUpTo(draws[n].at))

Binds(h) == {i \in DOMAIN h : h[i].op = "CmdBindPipeline"}
Setters(h, key) == {i \in DOMAIN h : h[i].op \in {"CmdSet", "CmdSetArray"} /\ h[i].key = key}
SettersOf(h, key, element) ==
  {i \in Setters(h, key) : element - 1 \in h[i].first .. h[i].first + Len(h[i].elements) - 1}

\* Call c ends what an earlier setter set for a key.
EndedBy(c, setter, key) ==
  \/ c.op = "CmdSet" /\ c.key = key
  \/ /\ c.op = "CmdBindPipeline"
     /\ LET p == Pipelines[c.pipeline]
        IN  ~PipelineOk(p) \/ key \notin p.dynamic \cup p.counted
  \/ c.op = "CmdSetArray" /\ c.key = key /\ c.counted # setter.counted
  \/ setter.op = "CmdSetArray" /\ setter.counted /\ c.op = "CmdBindPipeline"
       /\ key \in Pipelines[c.pipeline].dynamic
Ended(h, i, key) == \E j \in DOMAIN h : j > i /\ EndedBy(h[j], h[i], key)

SettingsExact(d, h) ==
  \A key \in Settings :
    LET found == d.settings[key]
        p == Pipelines[d.pipeline]
        last == Max(Setters(h, key))
    IN  found.status = "qualified_recorded_state" =>
          IF key \notin p.dynamic \cup p.counted
          THEN /\ found.value = p.static[key]
               /\ Max({0} \cup Setters(h, key)) < Max(Binds(h))
          ELSE IF key \in ArraySettings
          THEN /\ key \in p.dynamic => Len(found.value) = p.count[key]
               /\ \A e \in DOMAIN found.value :
                    /\ SettersOf(h, key, e) # {}
                    /\ LET i == Max(SettersOf(h, key, e)) IN
                       /\ found.value[e] = h[i].elements[e - h[i].first]
                       /\ h[i].counted = (key \in p.counted)
                       /\ ~Ended(h, i, key)
          ELSE /\ Setters(h, key) # {}
               /\ found.value = <<h[last].value>>
               /\ ~Ended(h, last, key)

\* Every value reported for a setting is the one in force: what the last setter
\* left, element by element for an array, unless a bind or a setter of the other
\* form has ended it; or what the pipeline fixes, when no setter came after its
\* bind (recording_draws()).
SettingsInForce ==
  \A n \in DOMAIN draws : SettingsExact(draws[n], CallsUpTo(draws[n].at))

\* The last of the frame's calls h that recorded into or reset a buffer.
LastRecorded(h, buffer) ==
  Max({0} \cup {i \in DOMAIN h : /\ h[i].op \in {"RecordCommandBuffer", "ResetCommandBuffer"}
                                 /\ h[i].buffer = buffer})

\* The calls of h that opened a label of a queue nothing has closed, outermost first.
QueueCalls(h, op, queue) == {i \in DOMAIN h : h[i].op = op /\ h[i].queue = queue}
Depth(h, queue, k, m) ==
  Cardinality(QueueCalls(h, "QueueBeginDebugUtilsLabelEXT", queue) \cap (k .. m)) -
  Cardinality(QueueCalls(h, "QueueEndDebugUtilsLabelEXT", queue) \cap (k .. m))
StillOpen(h, queue) ==
  {k \in QueueCalls(h, "QueueBeginDebugUtilsLabelEXT", queue) :
     \A m \in k .. Len(h) : Depth(h, queue, k, m) > 0}
OpenLabels(h, queue) ==
  LET still == StillOpen(h, queue)
      nth(n) == CHOOSE k \in still : Cardinality(still \cap (1 .. k)) = n
  IN  [n \in 1 .. Cardinality(still) |-> h[nth(n)].name]

\* Where a buffer was submitted: <<step, <<submit info, position>>>>.
Places(h) == UNION {{<<s, p>> : p \in SubmittedBuffers(h[s])} :
                       s \in {i \in DOMAIN h : h[i].op = "QueueSubmit"}}
BufferAt(h, a)   == h[a[1]].submits[a[2][1]][a[2][2]]
RecordedAt(h, a) == LastRecorded(SubSeq(h, 1, a[1] - 1), BufferAt(h, a))
ExecutedAt(x, a) ==
  {e \in DOMAIN x : x[e].step = a[1] /\ <<x[e].submit_info, x[e].position>> = a[2]}

\* What the frame's calls h make of its executions x.
FollowsAt(h, x, a) ==
  /\ RecordedAt(h, a) # 0 /\ h[RecordedAt(h, a)].op = "RecordCommandBuffer"
  /\ LET r == h[RecordedAt(h, a)].recording IN
     /\ {x[e].draw : e \in ExecutedAt(x, a)} = DOMAIN results[r].draws
     /\ \A e \in ExecutedAt(x, a) :
          /\ x[e].recording = r
          /\ x[e].queue_labels = OpenLabels(SubSeq(h, 1, a[1] - 1), h[a[1]].queue)
     /\ theme.recordings[r].one_time =>
          \A b \in Places(h) \ {a} :
            BufferAt(h, b) = BufferAt(h, a) => RecordedAt(h, b) # RecordedAt(h, a)

\* An accepted frame executes exactly the draws of what each submitted buffer held
\* when it was submitted, under the labels then open on its queue; a one-time
\* recording is submitted once between two recordings of its buffer; a refused
\* frame reports nothing (inspect_draw_executions()).
ExecutionsFollowTheFrame ==
  /\ frame.status = "refused" => executions = <<>>
  /\ frame.status # "refused" =>
       /\ \A e \in DOMAIN executions : \E a \in Places(steps) : e \in ExecutedAt(executions, a)
       /\ \A a \in Places(steps) : FollowsAt(steps, executions, a)
=============================================================================
