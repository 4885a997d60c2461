---------------------------- MODULE ValueTimelineMC ----------------------------
(***************************************************************************)
(* Small replays for ValueTimeline.  They share the captured objects: two  *)
(* queues of a device, an allocation M with the buffers b1 (bytes 0-3), b2 *)
(* (4-5) and b3 (6-9, which a copy may write), an allocation N that is not *)
(* coherent, and two sets of one uniform binding.  Every theme brings its  *)
(* own frame, whose calls may come in any order.                           *)
(***************************************************************************)
EXTENDS ValueTimeline, TLC

Stage(s, m) == [stage |-> s, module |-> m]
UniformRead == [set |-> 0, binding |-> 0, offset |-> 1, bytes |-> 2]

MCModules ==
  [m \in {"vertex", "reader", "writer"} |->
     [matches |-> TRUE, writes_buffers |-> m = "writer",
      reads |-> IF m = "reader" THEN {UniformRead} ELSE {}]]

-----------------------------------------------------------------------------
(* Captured objects.                                                        *)

Type(flags) == [flags |-> flags, heap |-> 0]
Buffer(n, bytes, usage) ==
  [op |-> "CreateBuffer", name |-> n, device |-> "d", bytes |-> bytes, requirement |-> bytes,
   alignment |-> 2, types |-> {0, 1}, usage |-> usage, plain |-> TRUE]
Bind(b, m, offset) == [buffer |-> b, memory |-> m, offset |-> offset]
Memory(n, type, bytes, bindings) ==
  [op |-> "AllocateMemory", name |-> n, device |-> "d", bytes |-> bytes, type |-> type,
   extensions |-> <<>>, mixed |-> FALSE, plain |-> TRUE, bindings |-> bindings]

Uniform == {"uniform", "transfer_src"}

\* where: the offset of b2, which at 2 shares bytes with b1.
Resources(where) == <<
  [op |-> "GetCompatiblePhysicalDevice", name |-> "p", heaps |-> 1,
   types |-> <<Type({"host_visible", "host_coherent"}), Type({"host_visible"})>>],
  [op |-> "CreateDevice", name |-> "d", physical |-> "p"],
  Buffer("b1", 4, Uniform), Buffer("b2", 2, Uniform), Buffer("b3", 4, Uniform \cup {"transfer_dst"}),
  Buffer("n1", 4, Uniform), [op |-> "RegisterObject", name |-> "d"],
  Memory("M", 0, 10, <<Bind("b1", "M", 0), Bind("b2", "M", where), Bind("b3", "M", 6)>>),
  Memory("N", 1, 4, <<Bind("n1", "N", 0)>>)>>

LayoutOf(type) == <<[binding |-> 0, type |-> type, count |-> 1, immutable_samplers |-> FALSE,
                     flags |-> <<"vertex", "fragment">>]>>
Set(n, type) ==
  [name |-> n, pool |-> "P", device |-> "d", frees |-> TRUE,
   allocation |-> [outputs |-> <<n>>, layouts |-> <<LayoutOf(type)>>]]
SetPool(amount) ==
  [P |-> [maximum |-> 2, device |-> "d",
          sizes |-> <<[type |-> "uniform", amount |-> amount], [type |-> "uniform_dynamic", amount |-> 1]>>]]

Draw(set, fragment) ==
  [pipeline_qualified |-> TRUE, stages |-> <<Stage("vertex", "vertex"), Stage("fragment", fragment)>>,
   bank_qualified |-> TRUE, bank |-> (0 :> [set |-> set, dynamic |-> (0 :> 0)])]
Recording(buffer, set, draws) ==
  [buffer |-> buffer, one_time |-> FALSE, read |-> TRUE, barriers |-> {}, copies |-> {},
   bound |-> {set}, draws |-> draws]

-----------------------------------------------------------------------------
(* Calls.                                                                   *)

InitBegin == [op |-> "InitBegin", instance |-> "i"]
InitEnd   == [op |-> "InitEnd", instance |-> "i"]
Map(m)    == [op |-> "MapMemory", memory |-> m, device |-> "d", offset |-> 0, bytes |-> Whole, plain |-> TRUE]
Unmap(m)  == [op |-> "UnmapMemory", memory |-> m, device |-> "d"]
Free(m)   == [op |-> "FreeMemory", memory |-> m, device |-> "d"]
Populate(b, offset, bytes) ==
  [op |-> "PopulateBuffer", buffer |-> b, device |-> "d", offset |-> offset, bytes |-> bytes]
Update(m, b, offset, bytes) ==
  [op |-> "UpdateMappedMemory", memory |-> m, device |-> "d", offset |-> offset, bytes |-> bytes,
   buffers |-> <<[buffer |-> b, offset |-> offset, range |-> 4]>>]
Destroy(b) == [op |-> "DestroyBuffer", buffer |-> b, device |-> "d"]

WriteSetCall(source) ==
  [op |-> "UpdateDescriptorSets", device |-> "d", source |-> source, handle |-> 1, count |-> 1, copies |-> <<>>]
CopySetCall(from, to) ==
  [op |-> "UpdateDescriptorSets", device |-> "d", source |-> "copy", handle |-> NoDatabase, count |-> 0,
   copies |-> <<[from |-> [set |-> from, binding |-> 0, first |-> 0],
                 to |-> [set |-> to, binding |-> 0, first |-> 0], count |-> 1]>>]
Read(source, set, buffer, offset, range, type) ==
  [source |-> source, capture |-> "c", handle |-> 1,
   writes |-> <<[set |-> set, binding |-> 0, first |-> 0, type |-> type,
                 values |-> <<[buffer |-> buffer, offset |-> offset, range |-> range]>>]>>]

RecordCall(b, r) == [op |-> "RecordCommandBuffer", buffer |-> b, recording |-> r, device |-> "d"]
ResetCall(b)     == [op |-> "ResetCommandBuffer", buffer |-> b]
Submit(q, fence, submits) == [op |-> "QueueSubmit", queue |-> q, fence |-> fence, submits |-> submits]
Idle(q)          == [op |-> "QueueWaitIdle", queue |-> q]
DeviceIdle       == [op |-> "DeviceWaitIdle", device |-> "d"]
Wait(f, timeout) ==
  [op |-> "WaitForFences", device |-> "d", fences |-> {f}, all |-> TRUE, timeout |-> timeout]
ResetFence(f)    == [op |-> "ResetFences", device |-> "d", fences |-> {f}]
Label(op, n)     == [op |-> op, queue |-> "q1", name |-> n]

-----------------------------------------------------------------------------
(* Themes.                                                                  *)

\* S1 holds b1; S2 gets its contents where a frame gives them.
Base ==
  [unsupported |-> {}, capture |-> "c", resources |-> Resources(4),
   pools |-> SetPool(2), sets |-> <<Set("S1", "uniform"), Set("S2", "uniform")>>,
   queues |-> [q \in {"q1", "q2"} |-> [device |-> "d", family |-> 0]],
   command_pools |-> [cp |-> [device |-> "d", family |-> 0, reset |-> TRUE]],
   fences |-> [f |-> [device |-> "d", signaled |-> FALSE]],
   command_buffers |-> [c \in {"c1", "c2"} |->
                          [device |-> "d", pool |-> "cp", primary |-> TRUE, alone |-> TRUE]],
   recordings |-> [r1 |-> Recording("c1", "S1", <<Draw("S1", "reader")>>)],
   reads   |-> <<Read("w1", "S1", "b1", 0, 4, "uniform")>>,
   initial |-> <<InitBegin, Map("M"), WriteSetCall("w1"), Populate("b1", 0, 4), InitEnd>>,
   frame   |-> {}, limit |-> 0]

\* Uploads before, between and during uses; the third update runs into b2.
BytesTheme ==
  [Base EXCEPT !.limit = 6,
     !.frame = {RecordCall("c1", "r1"), Submit("q1", NoFence, <<<<"c1">>>>), Idle("q1"), Idle("q2"),
                Update("M", "b1", 0, 2), Update("M", "b1", 2, 3), Destroy("b2"), Destroy("b1")}]

FencesTheme ==
  [Base EXCEPT !.limit = 6,
     !.frame = {RecordCall("c1", "r1"), Submit("q1", "f", <<<<"c1">>>>),
                Wait("f", Whole), Wait("f", 5), ResetFence("f"), Update("M", "b1", 1, 2)}]

\* The set that is read is written, copied into and freed around its recording.
SetsTheme ==
  [Base EXCEPT !.limit = 6,
     !.recordings = [r1 |-> Recording("c1", "S2", <<Draw("S2", "reader")>>)],
     !.reads = <<Read("w1", "S1", "b1", 0, 4, "uniform"), Read("w2", "S2", "b1", 1, Whole, "uniform")>>,
     !.frame = {RecordCall("c1", "r1"), Submit("q1", NoFence, <<<<"c1">>>>), DeviceIdle,
                WriteSetCall("w2"), CopySetCall("S1", "S2"), CopySetCall("S2", "S1"),
                [op |-> "FreeDescriptorSets", device |-> "d", pool |-> "P", sets |-> <<"S2">>],
                [op |-> "ResetDescriptorPool", device |-> "d", pool |-> "P"]}]

\* Two recordings of one buffer, a one-time one, two buffers in one submission.
BuffersTheme ==
  [Base EXCEPT !.limit = 6,
     !.recordings = [r1 |-> [Recording("c1", "S1", <<Draw("S1", "reader"), Draw("S1", "vertex")>>)
                               EXCEPT !.one_time = TRUE],
                     r2 |-> Recording("c1", "S1", <<>>),
                     r3 |-> Recording("c2", "S1", <<Draw("S1", "reader")>>)],
     !.frame = {RecordCall("c1", "r1"), RecordCall("c1", "r2"), RecordCall("c2", "r3"), ResetCall("c1"),
                Submit("q1", NoFence, <<<<"c1">>, <<"c2">>>>), Submit("q1", "f", <<<<"c1", "c2">>>>),
                Submit("q2", NoFence, <<<<"c1">>>>), DeviceIdle, Wait("f", Whole)}]

\* r2 copies into b3 and r1 reads it, or reads b1 next to it.
GpuTheme(buffer) ==
  [Base EXCEPT !.limit = 6,
     !.recordings = [r1 |-> Recording("c1", "S1", <<Draw("S1", "reader")>>),
                     r2 |-> [Recording("c2", "S1", <<>>) EXCEPT !.copies = {"b3"}]],
     !.reads = <<Read("w1", "S1", buffer, 0, 4, "uniform")>>,
     !.initial = <<InitBegin, Map("M"), WriteSetCall("w1"), Populate(buffer, 0, 4), InitEnd>>,
     !.frame = {RecordCall("c1", "r1"), RecordCall("c2", "r2"), Submit("q1", NoFence, <<<<"c1">>>>),
                Submit("q1", NoFence, <<<<"c2">>>>), Idle("q1"), Update("M", "b3", 6, 4)}]

\* A dynamic offset, mapping and freeing in the frame, labels.
MappingTheme ==
  [Base EXCEPT !.limit = 6,
     !.sets = <<Set("S1", "uniform_dynamic")>>,
     !.recordings = [r1 |-> Recording("c1", "S1", <<[Draw("S1", "reader") EXCEPT
                              !.bank = (0 :> [set |-> "S1", dynamic |-> (0 :> 1)])]>>)],
     !.reads = <<Read("w1", "S1", "b1", 0, 3, "uniform_dynamic")>>,
     !.initial = <<InitBegin, Populate("b1", 0, 4), WriteSetCall("w1"), InitEnd>>,
     !.frame = {RecordCall("c1", "r1"), Submit("q1", NoFence, <<<<"c1">>>>), Idle("q1"), Map("M"), Unmap("M"),
                Free("M"), Update("M", "b1", 1, 2), Label("QueueBeginDebugUtilsLabel", "frame"),
                Label("QueueEndDebugUtilsLabel", "frame")}]

PassiveTheme ==
  [Base EXCEPT !.limit = 2,
     !.frame = {[op |-> "AcquireNextImage", output |-> "earlier local"],
                [op |-> "AcquireNextImage", output |-> "mapped pointer"],
                [op |-> "GetQueryPoolResults", output |-> "owned bytes"],
                [op |-> "QueuePresent", output |-> "none", fences |-> 1, swapchains |-> 1],
                [op |-> "QueuePresent", output |-> "none", fences |-> 2, swapchains |-> 1],
                [op |-> "SetDebugUtilsObjectName"], [op |-> "UnknownCall"]}]

\* The same use of b1 under a source that must not be trusted with it.
UseTheme == [Base EXCEPT !.limit = 3,
  !.frame = {RecordCall("c1", "r1"), Submit("q1", NoFence, <<<<"c1">>>>), Idle("q1")}]

DoubtfulThemes == {
  [UseTheme EXCEPT !.resources = Resources(2)],
  [UseTheme EXCEPT !.resources = Resources(8)],
  [UseTheme EXCEPT !.resources = Append(@, @[2])],
  [UseTheme EXCEPT !.pools = SetPool(1)],
  [UseTheme EXCEPT !.unsupported = {"recording"}],
  [UseTheme EXCEPT !.reads[1].capture = "other"],
  [UseTheme EXCEPT !.reads = @ \o @],
  [UseTheme EXCEPT !.reads[1].writes[1].values[1].range = 2],
  [UseTheme EXCEPT !.reads[1].writes[1].values[1].offset = 2],
  [UseTheme EXCEPT !.initial = <<InitBegin, Map("M"), WriteSetCall("w1"), InitEnd, Populate("b1", 0, 4)>>],
  [UseTheme EXCEPT !.initial = <<InitBegin, WriteSetCall("w1"), Populate("b1", 0, 2), InitEnd,
                                 [op |-> "FreeCachedMemory"]>>],
  [UseTheme EXCEPT !.initial = <<InitBegin, WriteSetCall("w1"), Populate("b1", 2, 2), InitEnd>>],
  [UseTheme EXCEPT !.initial[5].instance = "j"],
  [UseTheme EXCEPT !.initial = <<InitBegin, Map("N"), WriteSetCall("w1"), Populate("n1", 0, 4),
                                 Update("N", "n1", 0, 4), InitEnd>>,
                   !.reads[1].writes[1].values[1].buffer = "n1"],
  [UseTheme EXCEPT !.recordings.r1.barriers = {[families |-> "transferred"]}],
  [UseTheme EXCEPT !.recordings.r1.read = FALSE],
  [UseTheme EXCEPT !.recordings.r1.draws[1].stages[2].module = "writer"],
  [UseTheme EXCEPT !.command_pools.cp.family = 1],
  [UseTheme EXCEPT !.command_buffers["c1"].primary = FALSE]}

MCThemes ==
  {BytesTheme, FencesTheme, SetsTheme, BuffersTheme, GpuTheme("b1"), GpuTheme("b3"), MappingTheme,
   PassiveTheme, UseTheme} \cup DoubtfulThemes
=============================================================================
