----------------------------- MODULE ValueUploads -----------------------------
(***************************************************************************)
(* The upload ledger of src/src/inspection/ValueUploads.cpp: for every     *)
(* captured buffer the writes of the host that still hold, the mappings,   *)
(* and the submissions that use a buffer and are not known to be over.     *)
(* Operators on one ledger u.  A refused operation leaves u.ok FALSE and   *)
(* nothing is read from such a ledger.  A step is the number of the call.  *)
(***************************************************************************)
EXTENDS ValueMemory

CONSTANTS
  MaxUploads,       \* uploads of a replay (4096 in the code)
  MaxBufferUploads, \* uploads of one buffer (256)
  MaxUploadBytes,   \* bytes of one upload (16 MiB)
  MaxRangeBytes,    \* bytes of a range that is read (64 KiB)
  MaxUsesPending,   \* submissions in flight (10000)
  MaxCompletions,   \* uses completed between two uploads (64)
  MaxListed         \* buffers of one mapped update (64)

ASSUME UploadBounds ==
  {MaxUploads, MaxBufferUploads, MaxUploadBytes, MaxRangeBytes, MaxUsesPending, MaxCompletions,
   MaxListed} \subseteq Nat \ {0}

Whole == -1     \* VK_WHOLE_SIZE, and the infinite timeout UINT64_MAX
NoFence == "no fence"

Least(a, b)    == IF a < b THEN a ELSE b
Greatest(a, b) == IF a < b THEN b ELSE a

UploadLedger(graph) ==
  [ok       |-> graph.qualified,
   buffers  |-> [b \in DOMAIN graph.buffers |->
                   [binding |-> graph.buffers[b], writes |-> <<>>, sound |-> graph.buffers[b].sound,
                    alive |-> TRUE, completions |-> {}]],
   mappings |-> <<>>,
   pending  |-> {},
   uploads  |-> 0]

\* A requirement of the code: what it guards happens only where it holds.
CheckedUpload(u, required, next) == IF u.ok /\ required THEN next ELSE [u EXCEPT !.ok = FALSE]

Alive(u, b) == b \in DOMAIN u.buffers /\ u.buffers[b].alive
InUse(u, b) == \E p \in u.pending : b \in p.buffers
Has(u, b, flag) == flag \in u.buffers[b].binding.flags

\* The sound buffers of an allocation.
SoundIn(u, memory) == {b \in DOMAIN u.buffers : u.buffers[b].sound /\ u.buffers[b].binding.memory = memory}

Invalidate(u, spoilt) ==
  CheckedUpload(u, \A b \in spoilt : Alive(u, b),
    [u EXCEPT !.buffers =
       [b \in DOMAIN @ |-> IF b \in spoilt THEN [@[b] EXCEPT !.writes = <<>>, !.sound = FALSE] ELSE @[b]]])

\* An upload to a buffer that is not sound is counted and not kept.
WriteUpload(u, b, offset, bytes, step) ==
  CheckedUpload(u,
    /\ Alive(u, b) /\ ~InUse(u, b)
    /\ u.uploads < MaxUploads /\ Len(u.buffers[b].writes) < MaxBufferUploads
    /\ u.buffers[b].sound => bytes > 0 /\ offset + bytes <= u.buffers[b].binding.bytes,
    IF ~u.buffers[b].sound THEN [u EXCEPT !.uploads = @ + 1]
    ELSE [u EXCEPT !.uploads = @ + 1,
                   !.buffers[b].writes = Append(@, [offset |-> offset, bytes |-> bytes, step |-> step,
                                                    completions |-> u.buffers[b].completions]),
                   !.buffers[b].completions = {}])

\* A submission without buffers leaves no use.  A use is named by its place: the
\* step, the submit info and the position of the command buffer.
SubmitUses(u, queue, device, fence, buffers, place) ==
  CheckedUpload(u,
    /\ Cardinality(u.pending) < MaxUsesPending
    /\ fence # NoFence => \A p \in u.pending : ~(p.device = device /\ p.fence = fence)
    /\ \A b \in buffers : Alive(u, b) /\ u.buffers[b].binding.device = device,
    IF buffers = {} THEN u
    ELSE [u EXCEPT !.pending = @ \cup {[queue |-> queue, device |-> device, fence |-> fence,
                                       buffers |-> buffers, place |-> place]}])

\* The pending uses done are over as of this step.
Retire(u, done, step) ==
  LET over(b) == {[use |-> p.place, by |-> step] : p \in {q \in done : b \in q.buffers}}
  IN  CheckedUpload(u, \A b \in DOMAIN u.buffers :
                         Cardinality(u.buffers[b].completions \cup over(b)) <= MaxCompletions \/ over(b) = {},
        [u EXCEPT !.pending = @ \ done,
                  !.buffers = [b \in DOMAIN @ |-> [u.buffers[b] EXCEPT !.completions = @ \cup over(b)]]])

-----------------------------------------------------------------------------
(* host(): one operator per call.                                           *)

MapMemory(u, c) ==
  LET sound == SoundIn(u, c.memory)
      allocation == u.buffers[CHOOSE b \in sound : TRUE].binding.allocation
      bytes == IF c.bytes = Whole THEN allocation - c.offset ELSE c.bytes
  IN  CheckedUpload(u,
        /\ c.memory \notin DOMAIN u.mappings /\ c.plain
        /\ sound # {}
        /\ \A b \in sound : u.buffers[b].alive /\ u.buffers[b].binding.device = c.device
                            /\ Has(u, b, "host_visible")
        /\ c.offset < allocation
        /\ bytes > 0 /\ bytes <= allocation - c.offset,
        [u EXCEPT !.mappings = [m \in DOMAIN @ \cup {c.memory} |->
           IF m = c.memory THEN [device |-> c.device, offset |-> c.offset, bytes |-> bytes] ELSE @[m]]])

UnmapMemory(u, c) ==
  CheckedUpload(u, c.memory \in DOMAIN u.mappings /\ u.mappings[c.memory].device = c.device,
    [u EXCEPT !.mappings = [m \in DOMAIN @ \ {c.memory} |-> @[m]]])

\* Only the direct copy of a coherent buffer is an upload; the other forms stage it.
PopulateBuffer(u, c, step) ==
  LET b == u.buffers[c.buffer].binding
      staged == c.offset # 0 \/ ~Has(u, c.buffer, "host_visible") \/ ~Has(u, c.buffer, "host_coherent")
      mapped == b.memory \in DOMAIN u.mappings
      m == u.mappings[b.memory]
  IN  CheckedUpload(u,
        /\ Alive(u, c.buffer) /\ u.buffers[c.buffer].sound /\ b.device = c.device
        /\ c.bytes \in 1 .. MaxUploadBytes,
        IF staged THEN Invalidate(u, {c.buffer})
        ELSE CheckedUpload(u,
               mapped => b.offset >= m.offset /\ b.offset + c.bytes <= m.offset + m.bytes,
               WriteUpload(u, c.buffer, c.offset, c.bytes, step)))

\* One buffer of a mapped update of the bytes [first, first + bytes) of an allocation.
UpdateListed(u, c, first, info, step) ==
  LET b == u.buffers[info.buffer].binding
      written == Least(c.bytes, b.bytes - info.offset)
  IN  CheckedUpload(u,
        /\ Alive(u, info.buffer)
        /\ b.sound /\ b.memory = c.memory /\ b.device = c.device
        /\ first >= b.offset /\ info.offset = first - b.offset /\ info.offset < b.bytes
        /\ info.range >= written,
        IF Has(u, info.buffer, "host_coherent") THEN WriteUpload(u, info.buffer, info.offset, written, step)
        ELSE Invalidate(u, {info.buffer}))

\* A sound buffer that shares a byte with the update must be listed.
UpdateMappedMemory(u, c, step) ==
  LET m     == u.mappings[c.memory]
      first == m.offset + c.offset
      last  == first + c.bytes
      listed == {c.buffers[i].buffer : i \in DOMAIN c.buffers}
      updated[n \in 0 .. Len(c.buffers)] ==
        IF n = 0 THEN u ELSE UpdateListed(updated[n - 1], c, first, c.buffers[n], step)
      done  == updated[Len(c.buffers)]
      reached(b) == LET at == done.buffers[b].binding IN first < at.offset + at.bytes /\ at.offset < last
  IN  CheckedUpload(u,
        /\ c.memory \in DOMAIN u.mappings /\ c.device = m.device
        /\ c.offset + c.bytes <= m.bytes /\ c.bytes \in 1 .. MaxUploadBytes
        /\ Len(c.buffers) \in 1 .. MaxListed /\ Cardinality(listed) = Len(c.buffers),
        CheckedUpload(done, \A b \in SoundIn(done, c.memory) : reached(b) => b \in listed, done))

\* A mutant: a wait that may time out retires uses like one that cannot.
WaitForFencesMutant(u, c, step) ==
  Retire(u, {p \in u.pending : p.device = c.device /\ p.fence \in c.fences}, step)

\* Only a wait for all of its fences, without end, proves that they were signaled.
WaitForFences(u, c, step) ==
  Retire(u, {p \in u.pending : c.all /\ c.timeout = Whole /\ p.device = c.device /\ p.fence \in c.fences}, step)

ResetFences(u, c) ==
  CheckedUpload(u, \A p \in u.pending : ~(p.device = c.device /\ p.fence \in c.fences), u)

QueueWaitIdle(u, c, step)  == Retire(u, {p \in u.pending : p.queue = c.queue}, step)
DeviceWaitIdle(u, c, step) == Retire(u, {p \in u.pending : p.device = c.device}, step)

DestroyBuffer(u, c) ==
  CheckedUpload(u, Alive(u, c.buffer) /\ u.buffers[c.buffer].binding.device = c.device /\ ~InUse(u, c.buffer),
    [u EXCEPT !.buffers[c.buffer] = [@ EXCEPT !.alive = FALSE, !.sound = FALSE, !.writes = <<>>]])

\* An allocation takes every buffer bound to it along.
FreeMemory(u, c) ==
  LET bound == {b \in DOMAIN u.buffers : u.buffers[b].binding.memory = c.memory}
  IN  CheckedUpload(u,
        /\ c.memory \notin DOMAIN u.mappings /\ bound # {}
        /\ \A b \in bound : u.buffers[b].binding.device = c.device /\ ~InUse(u, b),
        [u EXCEPT !.buffers = [b \in DOMAIN @ |->
           IF b \in bound THEN [@[b] EXCEPT !.alive = FALSE, !.sound = FALSE, !.writes = <<>>] ELSE @[b]]])

UploadCalls == {"MapMemory", "UnmapMemory", "UpdateMappedMemory", "WaitForFences", "ResetFences",
                "QueueWaitIdle", "DeviceWaitIdle", "DestroyBuffer", "FreeMemory"}

HostUpload(u, c, step) ==
  CASE c.op = "MapMemory"          -> MapMemory(u, c)
    [] c.op = "UnmapMemory"        -> UnmapMemory(u, c)
    [] c.op = "PopulateBuffer"     -> PopulateBuffer(u, c, step)
    [] c.op = "UpdateMappedMemory" -> UpdateMappedMemory(u, c, step)
    [] c.op = "WaitForFences"      -> WaitForFences(u, c, step)
    [] c.op = "ResetFences"        -> ResetFences(u, c)
    [] c.op = "QueueWaitIdle"      -> QueueWaitIdle(u, c, step)
    [] c.op = "DeviceWaitIdle"     -> DeviceWaitIdle(u, c, step)
    [] c.op = "DestroyBuffer"      -> DestroyBuffer(u, c)
    [] OTHER                       -> FreeMemory(u, c)

-----------------------------------------------------------------------------
(* range(): the latest write of every byte, newest write first.             *)

\* What a write adds to the segments found, and the holes it leaves.
FillHoles(write, found) ==
  LET first(h) == Greatest(h.begin, write.offset)
      last(h)  == Least(h.end, write.offset + write.bytes)
      hit      == {h \in found.holes : first(h) < last(h)}
  IN  [holes |-> (found.holes \ hit)
                 \cup {[begin |-> h.begin, end |-> first(h)] : h \in {g \in hit : g.begin < first(g)}}
                 \cup {[begin |-> last(h), end |-> h.end] : h \in {g \in hit : last(g) < g.end}},
       segments |-> found.segments \cup
                 {[offset |-> first(h), bytes |-> last(h) - first(h), payload |-> first(h) - write.offset,
                   step |-> write.step, completions |-> write.completions] : h \in hit}]

NoRange == [qualified |-> FALSE, segments |-> {}]

UploadRange(u, b, offset, bytes) ==
  LET writes == u.buffers[b].writes
      seen[n \in 0 .. Len(writes)] ==
        IF n = 0 THEN [holes |-> {[begin |-> offset, end |-> offset + bytes]}, segments |-> {}]
        ELSE FillHoles(writes[Len(writes) + 1 - n], seen[n - 1])
      found == seen[Len(writes)]
  IN  IF /\ Alive(u, b) /\ u.buffers[b].sound
         /\ bytes \in 1 .. MaxRangeBytes
         /\ offset + bytes <= u.buffers[b].binding.bytes
         /\ found.holes = {}
      THEN [qualified |-> TRUE, segments |-> found.segments]
      ELSE NoRange
=============================================================================
