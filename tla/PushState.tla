------------------------------ MODULE PushState ------------------------------
(***************************************************************************)
(* The push-constant bank of one recording (src/src/inspection/            *)
(* PushState.cpp): which recorded write supplied each byte of each shader  *)
(* stage, what a draw reports of it, and how verified input bytes are put  *)
(* in place.  Operators only; DrawExecutions keeps the bank as a variable. *)
(*                                                                         *)
(* A mask is a set of stages and a layout's signature is its set of ranges *)
(* (the code hashes the sorted list; a stage occurs in one range at most). *)
(* The empty mask stands for a refused one: the code refuses it too.       *)
(***************************************************************************)
EXTENDS Integers, Sequences, FiniteSets, SequencesExt, FiniteSetsExt

CONSTANTS
  PushLimit,     \* bytes of push constants (256 in the code)
  Word,          \* alignment of offsets and sizes (4)
  MaxPushRanges, \* ranges of one layout (6)
  MaxPushWrites  \* qualified writes of one recording (1024)

ASSUME PushBounds ==
  /\ {PushLimit, Word, MaxPushRanges} \subseteq Nat \ {0}
  /\ MaxPushWrites \in Nat

GraphicsStages == {"vertex", "control", "evaluation", "geometry", "fragment"}
ShaderStages   == GraphicsStages \cup {"compute"}
PushBytes      == 0 .. PushLimit - 1

FlagStages(flag) ==
  IF flag = "all_graphics" THEN GraphicsStages ELSE {flag} \cap ShaderStages

\* Flags joined by "|": none unknown, none named twice, also through all_graphics.
PushStages(flags) ==
  LET named == {FlagStages(flags[i]) : i \in DOMAIN flags}
      sizes == MapThenSumSet(LAMBDA i : Cardinality(FlagStages(flags[i])), DOMAIN flags)
      mask  == UNION named
  IN  IF {} \in named \/ Cardinality(mask) # sizes THEN {} ELSE mask

PushSpanOk(offset, size) ==
  /\ size > 0 /\ offset < PushLimit /\ size <= PushLimit - offset
  /\ offset % Word = 0 /\ size % Word = 0

Span(r) == r.offset .. r.offset + r.size - 1

PushSignature(layout) ==
  {[stages |-> PushStages(r.flags), offset |-> r.offset, size |-> r.size] :
     r \in {layout.push[i] : i \in DOMAIN layout.push}}

\* A stage may be declared by one range only.
PushLayoutOk(layout) ==
  LET ranges == layout.push IN
  /\ Len(ranges) <= MaxPushRanges
  /\ \A i \in DOMAIN ranges :
       /\ PushStages(ranges[i].flags) # {}
       /\ PushSpanOk(ranges[i].offset, ranges[i].size)
       /\ \A j \in 1 .. i - 1 : PushStages(ranges[i].flags) \cap PushStages(ranges[j].flags) = {}

-----------------------------------------------------------------------------
(* record(): an unqualified write spoils the bank for good.                 *)

\* The write (counted from 1) that last supplied each byte; 0 is none.
EmptyPush ==
  [bytes  |-> [s \in ShaderStages |-> [b \in PushBytes |-> 0]],
   writes |-> <<>>, unsupported |-> FALSE]

\* Every byte of the update is declared for exactly the stages it updates.
DeclaredExactly(layout, c) ==
  \A byte \in c.offset .. c.offset + c.size - 1 :
    UNION {r.stages : r \in {q \in PushSignature(layout) : byte \in Span(q)}} = PushStages(c.flags)

PushQualified(push, layout, c) ==
  /\ PushLayoutOk(layout)
  /\ PushStages(c.flags) # {}
  /\ PushSpanOk(c.offset, c.size)
  /\ DeclaredExactly(layout, c)
  /\ c.resource_size = c.size
  /\ Len(push.writes) < MaxPushWrites

RecordPush(push, layout, c) ==
  IF push.unsupported THEN push
  ELSE IF ~PushQualified(push, layout, c) THEN [push EXCEPT !.unsupported = TRUE]
  ELSE LET mask  == PushStages(c.flags)
           write == [signature |-> PushSignature(layout), stages |-> mask,
                     offset |-> c.offset, size |-> c.size, handle |-> c.handle]
       IN  [push EXCEPT
              !.writes = Append(@, write),
              !.bytes  = [s \in ShaderStages |-> [b \in PushBytes |->
                            IF s \in mask /\ b \in Span(c) THEN Len(push.writes) + 1 ELSE @[s][b]]]]

-----------------------------------------------------------------------------
(* at_draw(): per declared stage, the maximal runs of bytes with one write. *)

\* A mutant: the layout of the last write is not compared with that of the draw.
SegmentsMutant(push, signature, stage, range) ==
  LET of(b) == push.bytes[stage][b]
  IN  {[stage |-> stage, offset |-> b, length |-> 1, write |-> of(b),
        resource_offset |-> IF of(b) = 0 THEN 0 ELSE b - push.writes[of(b)].offset,
        status |-> IF of(b) = 0 THEN "unavailable" ELSE "not_read"] : b \in Span(range)}

Segments(push, signature, stage, range) ==
  LET of(b)    == push.bytes[stage][b]
      starts   == {b \in Span(range) : b = range.offset \/ of(b) # of(b - 1)}
      stop(b)  == Min({e \in b + 1 .. range.offset + range.size :
                         e = range.offset + range.size \/ of(e) # of(b)})
      status(w) == IF w = 0 THEN "unavailable"
                   ELSE IF push.writes[w].signature = signature THEN "not_read" ELSE "unsupported"
  IN  {[stage |-> stage, offset |-> b, length |-> stop(b) - b, write |-> of(b),
        resource_offset |-> IF of(b) = 0 THEN 0 ELSE b - push.writes[of(b)].offset,
        status |-> status(of(b))] : b \in starts}

PushAtDraw(push, layout) ==
  LET signature == PushSignature(layout)
      declared  == {p \in GraphicsStages \X signature : p[1] \in p[2].stages}
      segments  == UNION {Segments(push, signature, p[1], p[2]) : p \in declared}
      status    == IF ~PushLayoutOk(layout) THEN "unsupported"
                   ELSE IF declared = {} THEN "not_applicable"
                   ELSE IF push.unsupported THEN "unsupported" ELSE "unavailable"
  IN  [status |-> status, value |-> {},
       segments |-> IF status = "unavailable" THEN segments ELSE {}]

-----------------------------------------------------------------------------
(* resolve_push_data(): reads[handle] are the bytes a verified reader found *)
(* behind a handle that the caller resolved.  A read that does not cover    *)
(* its write refuses the whole report.                                      *)

Covers(read, write, s) ==
  /\ write.size > 0 /\ write.size <= PushLimit
  /\ Len(read) = write.size
  /\ s.resource_offset <= write.size /\ s.length > 0
  /\ s.length <= write.size - s.resource_offset

ResolvePush(push, report, reads) ==
  LET resolvable == {s \in report.segments :
                       s.status = "not_read" /\ push.writes[s.write].handle \in DOMAIN reads}
      read(s) == reads[push.writes[s.write].handle]
      placed  == UNION {{[stage |-> s.stage, byte |-> s.offset + k,
                          data |-> read(s)[s.resource_offset + k + 1]] : k \in 0 .. s.length - 1} :
                         s \in resolvable}
  IN  IF \E s \in resolvable : ~Covers(read(s), push.writes[s.write], s)
      THEN [report EXCEPT !.status = "invalid"]
      ELSE IF report.segments # {} /\ resolvable = report.segments
      THEN [report EXCEPT !.status = "qualified_recorded_state", !.value = placed]
      ELSE report
=============================================================================
