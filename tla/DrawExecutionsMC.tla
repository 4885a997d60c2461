--------------------------- MODULE DrawExecutionsMC ---------------------------
(* Small replays for DrawExecutions, one theme per bank and one for the    *)
(* frame: the banks do not read each other.                                *)
EXTENDS DrawExecutions

PushRange(flags, offset, size) == [flags |-> flags, offset |-> offset, size |-> size]
Binding(number, type, count) ==
  [binding |-> number, type |-> type, count |-> count, flags |-> <<"vertex">>, immutable_samplers |-> FALSE]

Sampled == <<Binding(0, "sampled_image", 1)>>
Moving  == <<Binding(1, "uniform_dynamic", 1)>>

\* One push range and two; two lists of sets that agree on their first set only; a
\* layout whose push flags name a stage twice.
MCLayouts ==
  [whole |-> [push |-> <<PushRange(<<"vertex", "fragment">>, 0, 6)>>, sets |-> <<Sampled, Moving>>],
   split |-> [push |-> <<PushRange(<<"vertex">>, 0, 4), PushRange(<<"fragment">>, 2, 2)>>, sets |-> <<>>],
   other |-> [push |-> <<PushRange(<<"vertex", "fragment">>, 0, 6)>>, sets |-> <<Sampled, Sampled>>],
   empty |-> [push |-> <<>>, sets |-> <<Moving, Moving>>],
   wrong |-> [push |-> <<PushRange(<<"all_graphics", "vertex">>, 0, 4)>>, sets |-> <<>>]]

Output(names, layouts) == [outputs |-> names, layouts |-> layouts]
MCAllocations ==
  [s |-> Output(<<"s", "m">>, <<Sampled, Moving>>), m |-> Output(<<"s", "m">>, <<Sampled, Moving>>),
   t |-> Output(<<"t">>, <<Sampled>>)]

Box(x) == [x |-> x, y |-> 0, width |-> 1, height |-> 1]
View(x) == [width |-> 1, height |-> x, near |-> 0, far |-> 1]

MCRenderPasses == [pass |-> [subpasses |-> 1, depth |-> 0, attachments |-> <<>>],
                   deep |-> [subpasses |-> 1, depth |-> 1, attachments |-> <<"d32">>]]

Plain ==
  [created |-> TRUE, pass |-> "pass", formats |-> NoFormats, view_mask |-> 0, discard |-> FALSE, layout |-> "whole",
   dynamic |-> {}, counted |-> {}, count |-> [k \in ArraySettings |-> 1],
   static |-> [k \in Settings |-> CASE k = "scissors" -> <<Box(0)>> [] k = "viewports" -> <<View(1)>>
                                    [] OTHER -> <<"fixed">>]]
MCPipelines ==
  [plain  |-> Plain,
   split  |-> [Plain EXCEPT !.layout = "split"],
   other  |-> [Plain EXCEPT !.layout = "other"],
   setter |-> [Plain EXCEPT !.dynamic = {"cull_mode", "viewports"}, !.count["viewports"] = 2, !.pass = "deep"],
   counts |-> [Plain EXCEPT !.counted = {"viewports"}, !.count["viewports"] = 0,
                            !.pass = "dynamic", !.formats = Formats(<<"r32f">>, "undefined", "undefined")],
   broken |-> [Plain EXCEPT !.discard = TRUE]]

Op(op) == [op |-> op, qualified |-> TRUE]
Push(layout, flags, offset, size) ==
  [op |-> "CmdPushConstants", qualified |-> TRUE, layout |-> layout, flags |-> flags,
   offset |-> offset, size |-> size, resource_size |-> size, handle |-> 10 * offset + size]
Bind(layout, first, sets) ==
  [op |-> "CmdBindDescriptorSets", qualified |-> TRUE, point |-> "graphics", layout |-> layout,
   first |-> first, sets |-> sets, offsets |-> IF sets[Len(sets)] = "m" THEN <<0>> ELSE <<>>]
Pipeline(name) == [op |-> "CmdBindPipeline", qualified |-> TRUE, pipeline |-> name]
Pass(name) == [op |-> "CmdBeginRenderPass", qualified |-> TRUE, pass |-> name]
Nothing == [kind |-> "null", resolves |-> FALSE, format |-> "undefined"]
Rendering(format) ==
  [op |-> "CmdBeginRendering", qualified |-> TRUE, pass |-> "dynamic",
   info |-> [layers |-> 1, view_mask |-> 0, area |-> Box(0), depth |-> Nothing, stencil |-> Nothing,
             colors |-> <<[Nothing EXCEPT !.kind = "2D", !.format = format]>>]]
Setter(value) == [op |-> "CmdSet", qualified |-> TRUE, key |-> "cull_mode", value |-> value, counted |-> FALSE]
Elements(counted, first, elements) ==
  [op |-> "CmdSetArray", qualified |-> TRUE, key |-> "viewports", counted |-> counted, first |-> first,
   elements |-> elements]
DrawCall(indexed) == [op |-> "CmdDraw", qualified |-> TRUE, indexed |-> indexed]
Inline == {Pass("pass"), DrawCall(FALSE)}

Buffer(name, one_time) ==
  [buffer |-> name, begin_qualified |-> TRUE, one_time |-> one_time, primary |-> TRUE]
Theme(c, limit) ==
  [calls |-> c, limit |-> limit, recordings |-> <<Buffer("b", FALSE)>>, frame |-> {}, frame_limit |-> 0,
   value_selection |-> FALSE]

PushTheme == Theme(Inline \cup {Pipeline("plain"), Pipeline("split"),
  Push("whole", <<"vertex", "fragment">>, 0, 6), Push("whole", <<"fragment", "vertex">>, 2, 4),
  Push("whole", <<"vertex">>, 0, 2), Push("whole", <<"vertex", "fragment">>, 0, 4), Push("split", <<"vertex">>, 0, 2), Push("split", <<"vertex">>, 0, 4),
  Push("split", <<"vertex", "fragment">>, 2, 2), Push("whole", <<"vertex", "fragment">>, 4, 4),
  Push("wrong", <<"vertex">>, 0, 4)}, 4)

DescriptorTheme == Theme(Inline \cup {Pipeline("plain"), Pipeline("other"),
  Bind("whole", 0, <<"s">>), Bind("whole", 1, <<"m">>), Bind("whole", 0, <<"s", "m">>),
  Bind("other", 0, <<"s", "t">>), Bind("other", 1, <<"s">>), Bind("empty", 0, <<"m">>),
  Bind("whole", 1, <<"s">>), [Bind("whole", 0, <<"t">>) EXCEPT !.point = "compute"]}, 4)

SettingTheme == Theme({Pass("pass"), Pass("deep"), Rendering("r32f"), Rendering("rgb9e5"), DrawCall(FALSE),
  Op("CmdEndRenderPass"), Op("CmdEndRendering"),
  Pipeline("plain"), Pipeline("setter"), Pipeline("counts"), Pipeline("broken"), Setter("front"), Setter("unknown"),
  Elements(FALSE, 0, <<View(1)>>), Elements(FALSE, 1, <<View(2)>>), Elements(FALSE, 1, <<View(2), View(3)>>), Elements(TRUE, 0, <<View(4)>>)}, 4)

Record(buffer, recording) ==
  [op |-> "RecordCommandBuffer", qualified |-> TRUE, buffer |-> buffer, recording |-> recording]
QueueLabel(name) == [op |-> "QueueBeginDebugUtilsLabelEXT", qualified |-> TRUE, queue |-> "q", name |-> name]
Submit(submits) == [op |-> "QueueSubmit", qualified |-> TRUE, queue |-> "q", submits |-> submits]

FrameTheme ==
  [calls |-> Inline \cup {Op("CmdEndRenderPass"), Op("CmdBindIndexBuffer"), DrawCall(TRUE),
             [op |-> "CmdBeginDebugUtilsLabelEXT", qualified |-> TRUE, name |-> "inner"],
             Op("CmdEndDebugUtilsLabelEXT"), Op("CmdCopyImageToBuffer"), [Op("CmdDispatch") EXCEPT !.qualified = FALSE]},
   limit |-> 0, recordings |-> <<Buffer("b", TRUE), Buffer("c", FALSE)>>, value_selection |-> FALSE,
   frame |-> {Record("b", 1), Record("c", 2), Record("c", 1),
              [op |-> "ResetCommandBuffer", qualified |-> TRUE, buffer |-> "b"], QueueLabel("outer"),
              [op |-> "QueueEndDebugUtilsLabelEXT", qualified |-> TRUE, queue |-> "q"],
              Submit(<<<<"b">>>>), Submit(<<<<"c", "b">>, <<"c">>>>),
              Op("Other"), [Op("Other") EXCEPT !.qualified = FALSE]},
   frame_limit |-> 5]

Vertices(first) == [op |-> "Other", qualified |-> TRUE, first |-> first, count |-> 1, limit |-> 2]
ValueTheme == [FrameTheme EXCEPT !.value_selection = TRUE, !.frame = {},
  !.calls = @ \cup {Vertices(1), Vertices(2)}, 
  !.recordings = <<Buffer("b", TRUE), [Buffer("c", FALSE) EXCEPT !.begin_qualified = FALSE]>>]

MCThemes == {PushTheme, DescriptorTheme, SettingTheme, FrameTheme, ValueTheme}
=============================================================================
