------------------------------- MODULE DrawTiming -------------------------------
(***************************************************************************)
(* Durations of draws of a saved capture: correlate_replay_draws() of      *)
(* src/src/inspection/ReplayTiming.cpp and the query that puts the         *)
(* intervals of a capture together (ReplayTimingInspection.cpp).           *)
(*                                                                         *)
(* Each interval of the capture is analysed in processes of its own, that  *)
(* leave a generated C++ project and a trace.  The project's frame is      *)
(* followed call by call; markers of the queues and of the command buffers *)
(* become ranges, draws become candidates.  A candidate has the duration   *)
(* of a trace row when the path of its range names one range only, in the  *)
(* sources and in the traces of every interval.                            *)
(*                                                                         *)
(* A theme is a capture: its recordings, the calls its frames may hold,    *)
(* and what may go wrong with its traces: which interval each was taken    *)
(* of, ranges that were not exported, a table that is not as qualified.    *)
(***************************************************************************)
EXTENDS ProfileMarkers, Bags

LOCAL INSTANCE SequencesExt
LOCAL INSTANCE FiniteSetsExt
LOCAL INSTANCE Functions

CONSTANTS
  Themes,
  Buffers,   \* command buffers
  Queues,
  Pools,     \* command pools
  MaxRecords \* ranges, paths and candidates of a frame (10000 in the code)

None == "none"

VARIABLES
  theme,
  recordings, \* name -> recording
  traced,     \* interval -> the interval that its trace was taken of
  calls,      \* interval -> its calls so far, the last one being read
  frame,      \* what the calls have established
  parsed,     \* interval -> the source of its analysis
  executed,   \* interval -> queue -> the commands that its frame executes
  answer      \* of the query

vars == <<theme, recordings, traced, calls, frame, parsed, executed, answer>>

Intervals == 1..theme.intervals
Reading   == Len(parsed) < theme.intervals
Interval  == Len(calls)

-----------------------------------------------------------------------------
(* The start of a frame: buffers recorded before it, without draws.        *)

EmptyFrame ==
  [refused |-> FALSE, submission |-> 0, once |-> {},
   active |-> [b \in Buffers |-> None], generations |-> [b \in Buffers |-> 0],
   pools |-> [b \in Buffers |-> None],
   queues |-> [q \in Queues |-> <<>>], stacks |-> [q \in Queues |-> <<>>],
   paths |-> EmptyBag, ranges |-> <<>>, candidates |-> <<>>]

Refused == [EmptyFrame EXCEPT !.refused = TRUE]

\* recording(): the usage flags and every command are of a known form.
Usages == {"0", "one_time", "simultaneous"}
Kinds  == {"begin", "end", "draw", "state", "work"}
RecordingOk(r) ==
  /\ r.usage \in Usages
  /\ \A n \in DOMAIN r.commands :
       r.commands[n].kind \in Kinds /\ (r.commands[n].kind = "begin" => r.commands[n].spelled)

Draws(r) == {n \in DOMAIN r.commands : r.commands[n].kind = "draw"}

SetUp(f, s) ==
  IF /\ s.primary /\ f.active[s.buffer] = None
     /\ RecordingOk(recordings[s.recording]) /\ Draws(recordings[s.recording]) = {}
  THEN [f EXCEPT !.active[s.buffer] = s.recording, !.generations[s.buffer] = 1,
                 !.pools[s.buffer] = s.pool]
  ELSE Refused

StartOfFrame == FoldLeft(SetUp, EmptyFrame, theme.initial)

NoAnswer == [status |-> "none"]

Init ==
  /\ theme \in Themes
  /\ recordings \in theme.recordings
  /\ traced \in theme.traced
  /\ calls = <<<<>>>> /\ frame = StartOfFrame /\ parsed = <<>> /\ executed = <<>>
  /\ answer = NoAnswer

-----------------------------------------------------------------------------
(* Calls of the frame.                                                     *)

CallsOf(op) ==
  {c \in theme.calls : /\ c.op = op /\ Reading /\ ~frame.refused
                       /\ Len(calls[Interval]) < theme.limit}

Take(c, f) ==
  /\ frame' = f /\ calls' = [calls EXCEPT ![Interval] = Append(@, c)]
  /\ UNCHANGED <<theme, recordings, traced, parsed, executed, answer>>

\* require_primary(): the pool of a buffer, once its creation is known to be
\* that of one primary buffer.
Primary(f, b) == f.pools[b] # None \/ theme.created[b] # None
PoolOf(f, b)  == IF f.pools[b] # None THEN f.pools[b] ELSE theme.created[b]

RecordCommandBuffer ==
  \E c \in CallsOf("RecordCommandBuffer") :
    Take(c, IF RecordingOk(recordings[c.recording])
            THEN [frame EXCEPT !.active[c.buffer] = c.recording, !.generations[c.buffer] = @ + 1]
            ELSE Refused)

AllocateCommandBuffers ==
  \E c \in CallsOf("AllocateCommandBuffers") :
    Take(c, IF c.primary /\ frame.pools[c.buffer] = None
            THEN [frame EXCEPT !.pools[c.buffer] = c.pool, !.active[c.buffer] = None]
            ELSE Refused)

ResetCommandPool ==
  \E c \in CallsOf("ResetCommandPool") :
    LET recorded == {b \in Buffers : frame.active[b] # None}
    IN Take(c, IF \A b \in recorded : Primary(frame, b)
               THEN [frame EXCEPT
                       !.pools  = [b \in Buffers |-> IF b \in recorded THEN PoolOf(frame, b) ELSE @[b]],
                       !.active = [b \in Buffers |-> IF b \in recorded /\ PoolOf(frame, b) = c.pool
                                                     THEN None ELSE @[b]]]
               ELSE Refused)

ResetCommandBuffer ==
  \E c \in CallsOf("ResetCommandBuffer") : Take(c, [frame EXCEPT !.active[c.buffer] = None])

\* retain_path(): how often each literal path occurs.
Retainable(f, path) ==
  /\ Len(path) <= MaxDepth
  /\ BagIn(path, f.paths) \/ Cardinality(BagToSet(f.paths)) < MaxRecords
Retained(f, path) == f.paths (+) SetToBag({path})

QueueBeginLabel ==
  \E c \in CallsOf("QueueBeginLabel") :
    LET path == Append(frame.queues[c.queue], c.name)
    IN Take(c, IF c.spelled /\ frame.stacks[c.queue] = <<>> /\ Retainable(frame, path)
               THEN [frame EXCEPT !.queues[c.queue] = path, !.paths = Retained(frame, path)]
               ELSE Refused)

QueueEndLabel ==
  \E c \in CallsOf("QueueEndLabel") :
    Take(c, IF frame.stacks[c.queue] = <<>> /\ frame.queues[c.queue] # <<>>
            THEN [frame EXCEPT !.queues[c.queue] = Front(@)]
            ELSE Refused)

\* Calls that the table of host operations knows, and those that it does not.
HostCall ==
  \E c \in CallsOf("Host") : Take(c, IF c.qualified THEN frame ELSE Refused)

-----------------------------------------------------------------------------
(* A submission: the commands of its buffers, one after the other.         *)

Innermost(f, q) == f.ranges[Last(f.stacks[q])]

\* A change to every range that is open on a queue.
Opened(f, q, change(_)) ==
  [f EXCEPT !.ranges = [n \in DOMAIN @ |-> IF Contains(f.stacks[q], n) THEN change(@[n]) ELSE @[n]]]

BeginsRange(f, q, at, c) ==
  LET stack  == f.stacks[q]
      labels == Append(IF stack = <<>> THEN f.queues[q] ELSE Innermost(f, q).labels, c.name)
      nested == IF stack = <<>> THEN f.ranges ELSE [f.ranges EXCEPT ![Last(stack)].children = @ + 1]
  IN IF Retainable(f, labels) /\ Len(f.ranges) < MaxRecords
     THEN [f EXCEPT
             !.paths = Retained(f, labels),
             !.ranges = Append(nested, [labels |-> labels, draws |-> 0, children |-> 0, work |-> FALSE,
                                        states |-> {}, begin |-> at, end |-> None]),
             !.stacks[q] = Append(@, Len(f.ranges) + 1)]
     ELSE Refused

EndsRange(f, q, at) ==
  IF f.stacks[q] = <<>> THEN Refused
  ELSE [f EXCEPT !.ranges[Last(f.stacks[q])].end = <<at>>, !.stacks[q] = Front(@)]

CandidateMutant(f, q, at, c, event) ==
  IF Len(f.candidates) >= MaxRecords THEN Refused
  ELSE [Opened(f, q, LAMBDA r : [r EXCEPT !.draws = IF r = Innermost(f, q) THEN 1 ELSE @]) EXCEPT
          !.candidates = Append(@,
            [selection |-> Append(at, event), at |-> at,
             range |-> IF f.stacks[q] = <<>> THEN 0 ELSE Last(f.stacks[q]),
             refused |-> f.stacks[q] = <<>> \/ c.zero])]
\* The mutant notes that the range has a draw instead of counting it.

Candidate(f, q, at, c, event) ==
  IF Len(f.candidates) >= MaxRecords THEN Refused
  ELSE [Opened(f, q, LAMBDA r : [r EXCEPT !.draws = @ + 1]) EXCEPT
          !.candidates = Append(@,
            [selection |-> Append(at, event), at |-> at,
             range |-> IF f.stacks[q] = <<>> THEN 0 ELSE Last(f.stacks[q]),
             refused |-> f.stacks[q] = <<>> \/ c.zero])]

Executes(f, q, at, c, event) ==
  CASE f.refused        -> f
    [] c.kind = "begin" -> BeginsRange(f, q, at, c)
    [] c.kind = "end"   -> EndsRange(f, q, at)
    [] c.kind = "draw"  -> Candidate(f, q, at, c, event)
    [] c.kind = "state" -> Opened(f, q, LAMBDA r : [r EXCEPT !.states = @ \cup {c.name}])
    [] c.kind = "work"  -> Opened(f, q, LAMBDA r : [r EXCEPT !.work = TRUE])

\* The command buffers of a submission: <<submission, submit info, position, buffer>>.
Places(n, submits) ==
  FlattenSeq([i \in DOMAIN submits |->
    [j \in DOMAIN submits[i] |-> [at |-> <<n, i, j>>, buffer |-> submits[i][j]]]])

SubmittableMutant(f, b) == Primary(f, b) /\ f.active[b] # None
\* The mutant lets a one-time recording run twice.

\* A primary buffer with a current recording, which one_time lets run once.
Submittable(f, b) ==
  /\ Primary(f, b) /\ f.active[b] # None
  /\ recordings[f.active[b]].usage = "one_time" => <<b, f.generations[b]>> \notin f.once

RunsMutant(f, q, place) ==
  LET b == place.buffer
  IN IF f.refused \/ ~Submittable(f, b) THEN Refused
     ELSE LET r == recordings[f.active[b]]
              known == [f EXCEPT !.pools[b] = PoolOf(f, b), !.stacks[q] = <<>>,
                                 !.once = IF r.usage = "one_time" THEN @ \cup {<<b, f.generations[b]>>} ELSE @]
          IN FoldLeft(LAMBDA g, n : Executes(g, q, place.at, r.commands[n], n), known,
                      [n \in DOMAIN r.commands |-> n])
\* The mutant starts every command buffer outside of all ranges.

Runs(f, q, place) ==
  LET b == place.buffer
  IN IF f.refused \/ ~Submittable(f, b) THEN Refused
     ELSE LET r == recordings[f.active[b]]
              known == [f EXCEPT !.pools[b] = PoolOf(f, b),
                                 !.once = IF r.usage = "one_time" THEN @ \cup {<<b, f.generations[b]>>} ELSE @]
          IN FoldLeft(LAMBDA g, n : Executes(g, q, place.at, r.commands[n], n), known,
                      [n \in DOMAIN r.commands |-> n])

QueueSubmit ==
  \E c \in CallsOf("QueueSubmit") :
    LET run == FoldLeft(LAMBDA f, place : Runs(f, c.queue, place), frame, Places(frame.submission, c.submits))
    IN Take(c, IF run.refused THEN Refused ELSE [run EXCEPT !.submission = @ + 1])

-----------------------------------------------------------------------------
(* What the frame of a project executes when it is run to be traced: by    *)
(* the last call before a submission that touched a buffer, not by what    *)
(* the parser knows.                                                       *)

Allocated(s, k, b) ==
  LET here == {j \in 1..k-1 : s[j].op = "AllocateCommandBuffers" /\ s[j].buffer = b}
  IN IF here # {} THEN s[Max(here)].pool
     ELSE IF \E n \in DOMAIN theme.initial : theme.initial[n].buffer = b
     THEN (CHOOSE r \in ToSet(theme.initial) : r.buffer = b).pool
     ELSE theme.created[b]

Touches(s, j, b) ==
  \/ s[j].op \in {"RecordCommandBuffer", "AllocateCommandBuffers", "ResetCommandBuffer"} /\ s[j].buffer = b
  \/ s[j].op = "ResetCommandPool" /\ s[j].pool = Allocated(s, j, b)

\* The recording of a buffer in force, with the call that made it, if there is one.
InForce(s, k, b) ==
  LET touched == {j \in 1..k-1 : Touches(s, j, b)}
      setup   == {r \in ToSet(theme.initial) : r.buffer = b}
  IN IF touched = {} THEN {<<0, r.recording>> : r \in setup}
     ELSE LET j == Max(touched)
          IN IF s[j].op = "RecordCommandBuffer" THEN {<<j, s[j].recording>>} ELSE {}

Ran(s, k, b) == recordings[(CHOOSE r \in InForce(s, k, b) : TRUE)[2]].commands

Submissions(s) == {k \in DOMAIN s : s[k].op = "QueueSubmit"}
Ordinal(s, k)  == Cardinality({j \in Submissions(s) : j < k})

QueueStep(kind, c) == [kind |-> kind, c |-> c, at |-> <<>>, event |-> 0]

Stream(s, q) ==
  FlattenSeq([k \in DOMAIN s |->
    CASE s[k].op = "QueueBeginLabel" /\ s[k].queue = q -> <<QueueStep("begin", s[k])>>
      [] s[k].op = "QueueEndLabel" /\ s[k].queue = q   -> <<QueueStep("end", s[k])>>
      [] s[k].op = "QueueSubmit" /\ s[k].queue = q     ->
           LET places == Places(Ordinal(s, k), s[k].submits)
           IN FlattenSeq([p \in DOMAIN places |->
                LET b == places[p].buffer
                IN IF InForce(s, k, b) = {} THEN <<>>
                   ELSE [n \in DOMAIN Ran(s, k, b) |->
                           [kind |-> Ran(s, k, b)[n].kind, c |-> Ran(s, k, b)[n],
                            at |-> places[p].at, event |-> n]]])
      [] OTHER -> <<>>])

-----------------------------------------------------------------------------
(* The end of a frame.                                                     *)

\* No marker crosses the end of the frame.
Closed(f) == \A q \in Queues : f.queues[q] = <<>> /\ f.stacks[q] = <<>>

\* The next interval's project is another run of the same parser.
EndOfFrame ==
  /\ Reading
  /\ LET f == IF Closed(frame) THEN frame ELSE Refused
     IN parsed' = Append(parsed, [refused |-> f.refused, paths |-> f.paths, ranges |-> f.ranges,
                                  candidates |-> f.candidates])
  /\ IF Len(parsed) + 1 < theme.intervals
     THEN calls' = Append(calls, <<>>) /\ frame' = StartOfFrame
     ELSE UNCHANGED <<calls, frame>>
  /\ executed' = Append(executed, [q \in Queues |-> Stream(calls[Interval], q)])
  /\ UNCHANGED <<theme, recordings, traced, answer>>

-----------------------------------------------------------------------------
(* The trace of an interval.                                               *)

\* How many more markers begin than end from m to n.
Balance(t, m, n) ==
  Cardinality({k \in m..n : t[k].kind = "begin"}) - Cardinality({k \in m..n : t[k].kind = "end"})

\* The marker that begins at m is still open after n.
Encloses(t, m, n) == m < n /\ t[m].kind = "begin" /\ \A k \in m..n : Balance(t, m, k) > 0
Around(t, n)      == {m \in DOMAIN t : Encloses(t, m, n)}
PathAt(t, m)      == LET around == SetToSortSeq(Around(t, m) \cup {m}, <)
                     IN [n \in DOMAIN around |-> t[around[n]].c.name]
EndOf(t, m)       == Min({n \in m..Len(t) : Balance(t, m, n) = 0} \cup {Len(t) + 1})

\* Every range of an interval: <<interval, queue, place in its stream>>.
Markers(i) ==
  UNION {{<<i, q, m>> : m \in {m \in DOMAIN executed[i][q] : executed[i][q][m].kind = "begin"}} : q \in Queues}
Path(m)    == PathAt(executed[m[1]][m[2]], m[3])
Within(m)  == {n \in Markers(m[1]) : n[2] = m[2] /\ (n = m \/ Encloses(executed[m[1]][m[2]], m[3], n[3]))}

\* Queue after queue, each in the order of its stream.
QueueOrder == SetToSeq(Queues)
MarkerOrder(ms) ==
  FlattenSeq([k \in DOMAIN QueueOrder |->
    LET here == {m \in ms : m[2] = QueueOrder[k]} IN SetToSortSeq(here, LAMBDA m, n : m[3] < n[3])])

\* The two exports omit ranges, each with everything in it; regimes come in
\* an order of their own.  A defect is one of the tables being unqualified.
Trace(i, no_event, no_regime, defect) ==
  LET all     == Markers(traced[i])
      without(omitted) == MarkerOrder(all \ UNION {Within(m) : m \in omitted})
      events  == without(no_event)
      regimes == Reverse(without(no_regime))
      called(m) == executed[m[1]][m[2]][m[3]].c
  IN [headers |-> defect # "headers", columns |-> <<"alpha", "beta", "alpha", "gamma">>,
      events |-> [n \in DOMAIN events |->
        [name |-> Last(Path(events[n])), indent |-> Len(Path(events[n])) - 1, marker |-> events[n],
         spelled |-> called(events[n]).spelled, measured |-> defect # "duration"]],
      regimes |-> [n \in DOMAIN regimes |->
        [path |-> Path(regimes[n]), marker |-> regimes[n], shaped |-> defect # "shape"]]]

-----------------------------------------------------------------------------
(* Draws and durations of one analysis.                                    *)

\* The larger of a path's counts in the two exports.
ProfilePaths(t, markers) ==
  LET events(p)  == Cardinality({n \in DOMAIN markers.rows : markers.rows[n].path = p})
      regimes(p) == Cardinality(RegimeRows(t, p))
      paths == {markers.rows[n].path : n \in DOMAIN markers.rows} \cup {t.regimes[n].path : n \in DOMAIN t.regimes}
  IN [p \in paths |-> Max({events(p), regimes(p)})]

\* A range that holds one draw and states only, in one submitted buffer.
OneDraw(range, at) ==
  /\ range.draws = 1 /\ range.children = 0 /\ ~range.work
  /\ range.begin = at /\ range.end = <<at>>

Qualified(p, markers, c) ==
  /\ ~c.refused /\ OneDraw(p.ranges[c.range], c.at)
  /\ CopiesIn(p.ranges[c.range].labels, p.paths) = 1
  /\ markers.status = "available"
  /\ \E n \in DOMAIN markers.rows : markers.rows[n].path = p.ranges[c.range].labels

Timed(i, p, t, markers, c) ==
  LET path == IF c.range = 0 THEN <<>> ELSE p.ranges[c.range].labels
      row  == Min({n \in DOMAIN markers.rows : markers.rows[n].path = path})
  IN [interval |-> i, selection |-> c.selection, path |-> path,
      states |-> IF c.range = 0 THEN {} ELSE p.ranges[c.range].states,
      duration |-> IF Qualified(p, markers, c) /\ markers.rows[row].available
                   THEN <<t.events[row].marker>> ELSE <<>>]

\* A source that is refused leaves no draw and no path.
Correlated(i, t) ==
  LET p == parsed[i]
      markers == CorrelateMarkers(t)
  IN [interpreted |-> ~p.refused /\ markers.status = "available",
      paths |-> p.paths,
      profile_paths |-> IF p.refused THEN <<>> ELSE ProfilePaths(t, markers),
      draws |-> [n \in DOMAIN p.candidates |-> Timed(i, p, t, markers, p.candidates[n])]]

-----------------------------------------------------------------------------
(* The query: every analysis of a capture, and no other.                   *)

\* The bundles must be those of all the intervals of one capture, once each.
Grouped(group) ==
  /\ Cardinality(group) \in {1, 3}
  /\ \A b \in group : b.sound /\ b.count = Cardinality(group)
  /\ {b.interval : b \in group} = 1..Cardinality(group)
  /\ Cardinality({b.source : b \in group}) = 1

Times(counts, path) == IF path \in DOMAIN counts THEN counts[path] ELSE 0

JoinedMutant(analyses) ==
  LET sources(path) == SumFunction([i \in DOMAIN analyses |-> CopiesIn(path, analyses[i].paths)])
      kept(d) == \A i \in DOMAIN analyses : analyses[i].interpreted
  IN FlattenSeq([i \in DOMAIN analyses |->
       [n \in DOMAIN analyses[i].draws |->
          LET d == analyses[i].draws[n]
          IN IF kept(d) /\ sources(d.path) >= 1 THEN d ELSE [d EXCEPT !.duration = <<>>]]])
\* The mutant leaves uniqueness to each interval.

\* Cross-interval identity: a path that names one range of all of them.
Joined(analyses) ==
  LET sources(path)  == SumFunction([i \in DOMAIN analyses |-> CopiesIn(path, analyses[i].paths)])
      profiles(path) == SumFunction([i \in DOMAIN analyses |-> Times(analyses[i].profile_paths, path)])
      complete == \A i \in DOMAIN analyses : analyses[i].interpreted
      kept(d)  == complete /\ sources(d.path) = 1 /\ profiles(d.path) = 1
  IN FlattenSeq([i \in DOMAIN analyses |->
       [n \in DOMAIN analyses[i].draws |->
          LET d == analyses[i].draws[n]
          IN IF d.duration # <<>> /\ ~kept(d) THEN [d EXCEPT !.duration = <<>>] ELSE d]])

\* What is wrong with one of the traces: a table, or ranges that its two exports
\* omit, each one of its own.
Complete(i) == [interval |-> i, defect |-> "none", no_event |-> {}, no_regime |-> {}]
Omissions(i) ==
  LET omitted == {{}} \cup {{m} : m \in Markers(traced[i])}
  IN {[Complete(i) EXCEPT !.no_event = e, !.no_regime = r] : e, r \in omitted}
Faults ==
  UNION {{[Complete(i) EXCEPT !.defect = d] : d \in theme.defects} : i \in Intervals}
    \cup IF theme.omits THEN UNION {Omissions(i) : i \in Intervals} ELSE {}

Exported(i, fault) ==
  IF i = fault.interval THEN Trace(i, fault.no_event, fault.no_regime, fault.defect)
  ELSE Trace(i, {}, {}, "none")

Idle == ~Reading /\ answer = NoAnswer

Ask ==
  /\ Idle
  /\ \E group \in theme.groups, fault \in Faults :
       answer' = IF Grouped(group)
                 THEN [status |-> "draws", fault |-> fault,
                       draws |-> Joined([i \in 1..Cardinality(group) |-> Correlated(i, Exported(i, fault))])]
                 ELSE [status |-> "refused", group |-> group]
  /\ UNCHANGED <<theme, recordings, traced, calls, frame, parsed, executed>>

\* Another query: a counter of one row of one trace.
AskCounter ==
  /\ Idle
  /\ \E name \in theme.counters, fault \in Faults :
       LET t == Exported(fault.interval, fault)
       IN \E row \in DOMAIN t.events :
            answer' = [status |-> "counter", name |-> name, fault |-> fault, row |-> t.events[row].marker,
                       columns |-> t.columns, found |-> CounterOf(t, row, name)]
  /\ UNCHANGED <<theme, recordings, traced, calls, frame, parsed, executed>>

Next ==
  \/ RecordCommandBuffer \/ AllocateCommandBuffers \/ ResetCommandPool \/ ResetCommandBuffer
  \/ QueueBeginLabel \/ QueueEndLabel \/ HostCall \/ QueueSubmit \/ EndOfFrame
  \/ Ask \/ AskCounter

Spec == Init /\ [][Next]_vars

-----------------------------------------------------------------------------
(* Properties.  They look at the streams that the queues execute, where a  *)
(* marker holds what comes between its begin and the end that balances it. *)

\* The places of a draw's interval where it is executed: <<queue, place>>.
PlacesOf(d) ==
  UNION {{<<q, n>> : n \in {n \in DOMAIN executed[d.interval][q] :
            LET e == executed[d.interval][q][n]
            IN e.kind = "draw" /\ d.selection = Append(e.at, e.event)}} : q \in Queues}

\* From m to its end: one draw, in one submitted buffer, with nothing but
\* state around it.
HoldsOnly(t, m, n) ==
  LET inside == m+1..EndOf(t, m)-1
  IN /\ n \in inside /\ EndOf(t, m) \in DOMAIN t
     /\ \A k \in inside \ {n} : t[k].kind = "state"
     /\ t[m].at # <<>> /\ t[m].at = t[EndOf(t, m)].at

\* Every submission runs recordings that are in force then, and a one-time
\* recording runs once.
Executable(i) ==
  LET s == calls[i]
      runs(recording) ==
        UNION {{<<k, place>> : place \in {p \in ToSet(Places(k, s[k].submits)) : InForce(s, k, p.buffer) = recording}} :
                 k \in Submissions(s)}
  IN \A k \in Submissions(s) : \A place \in ToSet(Places(k, s[k].submits)) :
       LET recording == InForce(s, k, place.buffer)
       IN /\ recording # {}
          /\ (\E r \in recording : recordings[r[2]].usage = "one_time") => Cardinality(runs(recording)) = 1

\* A duration is that of the marker around the draw, measured on the interval
\* the draw belongs to, and the marker holds that one draw and the states
\* reported with it - whatever frames repeat, reset and record again, however
\* markers nest across buffers and queues, and also when a trace was taken of
\* another interval, omits ranges or is not as qualified.  And only a frame
\* whose every submission could be followed has draws at all: one that fails
\* discards those before it
\* (ReplayTiming.cpp:305-457, 466-469, ReplayTimingInspection.cpp:487-520).
DurationsAreTheirOwn ==
  answer.status = "draws" =>
    \A k \in DOMAIN answer.draws :
      LET d == answer.draws[k]
      IN /\ Executable(d.interval)
         /\ d.duration # <<>> =>
              \E p \in PlacesOf(d) :
                LET m == d.duration[1]
                    t == executed[d.interval][p[1]]
                IN /\ m[1] = d.interval /\ m[2] = p[1] /\ HoldsOnly(t, m[3], p[2])
                   /\ ~t[p[2]].c.zero
                   /\ d.path = Path(m)
                   /\ d.states = {t[n].c.name : n \in {n \in m[3]..EndOf(t, m[3]) : t[n].kind = "state"}}

\* Every marker ends in the frame, command markers within command buffers and
\* queue markers around them.
Marked(t) ==
  \A n \in DOMAIN t :
    /\ Balance(t, 1, n) >= 0
    /\ t[n].kind = "begin" =>
         /\ t[n].c.spelled /\ Len(PathAt(t, n)) <= MaxDepth
         /\ EndOf(t, n) \in DOMAIN t
         /\ (t[n].at = <<>>) = (t[EndOf(t, n)].at = <<>>)
         /\ t[n].at = <<>> => \A m \in Around(t, n) : t[m].at = <<>>

\* A frame that gives the parser no reason to refuse it.
Lawful(i) ==
  LET s == calls[i] IN
  /\ \A k \in DOMAIN s :
       /\ s[k].op = "RecordCommandBuffer" =>
            RecordingOk(recordings[s[k].recording]) /\ Allocated(s, k, s[k].buffer) # None
       /\ s[k].op = "AllocateCommandBuffers" =>
            s[k].primary /\ Allocated(s, k, s[k].buffer) = None /\ \A j \in 1..k-1 : ~Touches(s, j, s[k].buffer)
       /\ s[k].op = "Host" => s[k].qualified
  /\ Executable(i)
  /\ \A q \in Queues : Marked(executed[i][q])

\* Nothing disturbs the analyses: every interval's frame is lawful, has a
\* marker, is within the bounds and is what its trace was taken of.
Undisturbed ==
  /\ \A i \in Intervals :
       /\ traced[i] = i /\ Lawful(i)
       /\ Markers(i) # {} /\ Cardinality(Markers(i)) <= Min({MaxRows, MaxRecords})
       /\ SumFunction([q \in Queues |-> Cardinality({n \in DOMAIN executed[i][q] : executed[i][q][n].kind = "draw"})])
            <= MaxRecords
  /\ answer.fault \in {Complete(i) : i \in Intervals}

\* Nothing is refused without a reason: every draw of a lawful frame is
\* reported, and one that is alone in a marker whose path no other range has
\* is timed - also when its marker lies in one that spans buffers, when an
\* unrelated pool is reset, when its buffer is recorded and submitted again.
TimedWhenEvident ==
  answer.status = "draws" /\ Undisturbed =>
    \A i \in Intervals : \A q \in Queues :
      LET t == executed[i][q] IN
      \A n \in DOMAIN t : t[n].kind = "draw" =>
        \E k \in DOMAIN answer.draws :
          LET d == answer.draws[k]
              own == {m \in Around(t, n) : HoldsOnly(t, m, n)}
          IN /\ d.interval = i /\ d.selection = Append(t[n].at, t[n].event)
             /\ ~t[n].c.zero =>
                  \A m \in own :
                    (\A other \in UNION {Markers(j) : j \in Intervals} :
                       Path(other) = PathAt(t, m) => other = <<i, q, m>>)
                      => d.duration = <<<<i, q, m>>>>

\* An export lacks a range that it omits and those within.
Lacks(omitted, m) == \E n \in omitted : m \in Within(n)

\* The counter of an event row is that of the same range, in the only column
\* of that name, whichever ranges one of the two exports omits, or both omit.
\* Only where each export lacks the range that the other has may it be that of
\* another range of the same path: paths are all that is compared
\* (ProfileMarkers.cpp:70-94, ProfileInspection.cpp:487-501).
CountersOfTheRow ==
  answer.status = "counter" /\ answer.found.available =>
    /\ \/ answer.found.marker = answer.row
       \/ /\ Path(answer.found.marker) = Path(answer.row)
          /\ Lacks(answer.fault.no_event, answer.found.marker)
          /\ Lacks(answer.fault.no_regime, answer.row)
    /\ {k \in DOMAIN answer.columns : answer.columns[k] = answer.name} = {answer.found.column}

=============================================================================
