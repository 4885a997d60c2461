----------------------------- MODULE DrawTimingMC -----------------------------
(* Small captures for DrawTiming: every short recording in a short frame, a *)
(* frame that records, resets and submits on two queues, and captures of    *)
(* three intervals.                                                         *)
EXTENDS DrawTiming

Begin(name) == [kind |-> "begin", name |-> name, spelled |-> TRUE]
End         == [kind |-> "end"]
DrawOf(zero) == [kind |-> "draw", zero |-> zero]
State(name) == [kind |-> "state", name |-> name]
Work        == [kind |-> "work"]

Recording(cs) == [usage |-> "0", commands |-> cs]
Once(cs)      == [Recording(cs) EXCEPT !.usage = "one_time"]

Record(buffer, recording) == [op |-> "RecordCommandBuffer", buffer |-> buffer, recording |-> recording]
Allocate(buffer, primary) ==
  [op |-> "AllocateCommandBuffers", buffer |-> buffer, pool |-> "p", primary |-> primary]
Reset(buffer)   == [op |-> "ResetCommandBuffer", buffer |-> buffer]
ResetPool(pool) == [op |-> "ResetCommandPool", pool |-> pool]
QueueBegin(queue, name) == [op |-> "QueueBeginLabel", queue |-> queue, name |-> name, spelled |-> TRUE]
QueueEnd(queue) == [op |-> "QueueEndLabel", queue |-> queue]
Submit(queue, submits) == [op |-> "QueueSubmit", queue |-> queue, submits |-> submits]
Host(qualified) == [op |-> "Host", qualified |-> qualified]

Setup(buffer, recording) == [buffer |-> buffer, recording |-> recording, pool |-> "p", primary |-> TRUE]

Analysis(id, interval, count) ==
  [id |-> id, interval |-> interval, count |-> count, source |-> "capture", sound |-> TRUE]

Alone == {Analysis(1, 1, 1)}
Created == [b |-> "p", c |-> "r", n |-> None]

\* One buffer with any recording of up to four commands, in a frame.
Commands == {Begin("x"), End, DrawOf(FALSE), DrawOf(TRUE), State("s"), Work}
Shapes == UNION {[1..k -> Commands] : k \in 1..4}

ShapeTheme ==
  [recordings |-> {[any |-> Recording(cs)] : cs \in Shapes},
   intervals |-> 1, traced |-> {<<1>>}, created |-> Created, initial |-> <<>>,
   calls |-> {Record("b", "any"), Submit("main", <<<<"b">>>>)},
   limit |-> 3, groups |-> {Alone}, defects |-> {"none"}, omits |-> FALSE, counters |-> {}]

\* Markers that open in one buffer and close in another, a recording that may
\* run once, resets, allocations, two queues.
StreamTheme ==
  [ShapeTheme EXCEPT
   !.recordings = {[open  |-> Recording(<<Begin("y")>>),
                    shut  |-> Recording(<<End>>),
                    drawn |-> Recording(<<State("s"), Begin("z"), State("t"), DrawOf(FALSE), End>>),
                    once  |-> Once(<<Begin("z"), DrawOf(FALSE), End>>),
                    bad   |-> Recording(<<[Begin("z") EXCEPT !.spelled = FALSE], DrawOf(FALSE), End>>)]},
   !.calls = {Record("b", "drawn"), Record("b", "once"), Record("c", "open"), Record("c", "shut"),
              Record("n", "drawn"), Record("n", "bad"), Allocate("n", TRUE), Allocate("n", FALSE), Reset("b"), ResetPool("p"),
              QueueBegin("main", "y"), [QueueBegin("main", "y") EXCEPT !.spelled = FALSE], QueueEnd("main"), Host(TRUE), Host(FALSE),
              Submit("main", <<<<"b">>>>), Submit("main", <<<<"c", "b">>>>), Submit("main", <<<<"c">>, <<"b", "n">>>>),
              Submit("main", <<<<"c">>>>), Submit("side", <<<<"c">>>>), Submit("side", <<<<"b">>>>)},
   !.limit = 5]

\* A buffer that is recorded before the frame.
SetupTheme ==
  [StreamTheme EXCEPT
   !.initial = <<Setup("n", "open")>>, !.limit = 4, !.omits = TRUE, !.counters = {"alpha", "beta"},
   !.defects = {"none", "headers", "duration", "shape"},
   !.calls = {Record("b", "drawn"), Record("c", "shut"), Record("n", "drawn"), Allocate("n", TRUE), ResetPool("p"),
              Submit("main", <<<<"n", "b">>>>), Submit("main", <<<<"c">>>>)}]

\* A recording with a draw before the frame.
BadSetupTheme == [SetupTheme EXCEPT !.initial = <<Setup("n", "drawn")>>]

\* Three intervals that repeat paths or not, traces of the right ones or not.
GroupTheme ==
  [ShapeTheme EXCEPT
   !.recordings = {[one |-> [Recording(<<Begin("x"), DrawOf(FALSE), End>>) EXCEPT !.usage = "simultaneous"],
                    two |-> Recording(<<Begin("x"), Work, End, Begin("y"), DrawOf(FALSE), End>>),
                    bad |-> Recording(<<Begin("x")>>)]},
   !.intervals = 3, !.traced = {<<1, 2, 3>>, <<2, 3, 1>>, <<1, 1, 3>>}, !.initial = <<>>,
   !.calls = {Record("b", r) : r \in {"one", "two", "bad"}} \cup {Submit("main", <<<<"b">>>>)},
   !.limit = 2, !.omits = TRUE,
   !.groups = {{Analysis(1, 1, 3), Analysis(2, 2, 3), Analysis(3, 3, 3)},
               {Analysis(1, 1, 3), Analysis(3, 3, 3), Analysis(4, 1, 3)},
               {Analysis(1, 1, 3)},
               {Analysis(1, 1, 3), Analysis(2, 2, 3), [Analysis(3, 3, 3) EXCEPT !.source = "other"]},
               {Analysis(1, 1, 3), Analysis(2, 2, 3), [Analysis(3, 3, 3) EXCEPT !.sound = FALSE]}}]

MCThemes == {ShapeTheme, StreamTheme, SetupTheme, BadSetupTheme, GroupTheme}
=============================================================================
