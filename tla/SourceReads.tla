------------------------------ MODULE SourceReads ------------------------------
(***************************************************************************)
(* Queries that read bytes and descriptor writes of a captured C++ project *)
(* (src/src/inspection/ResourceRead.cpp, DescriptorRead.cpp and the        *)
(* queries of Inspection.cpp that compose them).                           *)
(*                                                                         *)
(* A query loads the capture and plans its reads; each read opens a bundle *)
(* of its own, checks the helpers, runs a worker twice - for its profile   *)
(* and for the answer - on a snapshot of the database, checks that nothing *)
(* changed in between, and settles the bundle.  A draw-value query has a   *)
(* bundle too, and assembles values from what its reads returned.          *)
(*                                                                         *)
(* Around them: files that change, workers that fail or stay, deadlines    *)
(* that pass, and operations of the store that fail before or after they   *)
(* took effect.  A version of a file is never seen again.                  *)
(***************************************************************************)
EXTENDS SourceWorkers

CONSTANTS
  MaxChanges,     \* bound on changes of files
  MaxFaults,      \* bound on failing store operations
  Installations,  \* the host, and whether each worker is "none", "good" or "bad"
  Captures,       \* captures that a query names
  Queries,        \* what a client asks
  MaxPush,        \* resources whose push constants a query reads (8)
  MaxReads,       \* reads of a draw-value query (32)
  MaxReturned     \* bytes they return (1 MiB)

\* What every tool that reads passes on: its kind and what it asks to be read.
\* cpp_resource asks for one range, cpp_descriptor_writes for updates only.
QueryOk(q) ==
  /\ {"kind", "updates", "resources", "plans", "plain"} \subseteq DOMAIN q
  /\ q.kind \in {"resource", "descriptor", "push", "values"}
  /\ Listed(q.updates) /\ Listed(q.resources) /\ Listed(q.plans)
  /\ \A i \in DOMAIN q.updates :
       q.updates[i].worker = "descriptor" /\ q.updates[i].handle \in Write
  /\ \A i \in DOMAIN q.resources : LET r == q.resources[i] IN
       /\ {"worker", "handle", "offset", "length"} \subseteq DOMAIN r /\ r.worker = "resource"
       /\ r.handle \in Opaque /\ r.offset \in Nat /\ r.length \in Nat
  /\ q.kind = "resource" => q.updates = <<>> /\ Len(q.resources) = 1
  /\ q.kind = "descriptor" => q.resources = <<>>
  /\ \A i \in DOMAIN q.plans : LET p == q.plans[i] IN
       /\ p.base \in Nat /\ p.length \in Nat /\ Listed(p.segments)
       /\ \A k \in DOMAIN p.segments : LET s == p.segments[k] IN
            s.handle \in Opaque /\ {s.first, s.count, s.at} \subseteq Nat

ASSUME QueriesAssumption == \A q \in Queries : QueryOk(q)

ASSUME CapturesAssumption == \A c \in Captures : Listed(c.registrations)

VARIABLES
  installed,  \* member of Installations
  capture,    \* member of Captures
  disk,       \* [Files -> version]
  bundles,    \* bundles the queries opened, in order
  query, read,
  late,       \* the deadlines that passed
  pages,      \* what a client that follows next_offset has
  changes, faults

vars == <<installed, capture, disk, bundles, query, read, late, pages, changes, faults>>

Workers == {"resource", "descriptor"}
Files   == Workers \cup {"helpers", "contract", "sources", "data", "rec"}
Inputs  == {"data", "rec"}
Unread  == MaxChanges + 1    \* a fingerprint not taken
Forged  == MaxChanges + 2    \* bytes of no database
Captured == [f \in Inputs |-> 0]

\* The binary of a version: configured wrongly, it is qualified once replaced.
Good(kind, version) == (installed[kind] = "good") = (version = 0)

NoRead  == [stage |-> "none"]
NoQuery == [phase |-> "none"]
NoPages == [offset |-> 0, bytes |-> <<>>, inputs |-> {}, next |-> <<>>]

Init ==
  /\ installed \in Installations /\ capture \in Captures
  /\ disk = [f \in Files |-> 0] /\ bundles = <<>>
  /\ query = NoQuery /\ read = NoRead /\ late = {} /\ pages = NoPages
  /\ changes = 0 /\ faults = 0

-----------------------------------------------------------------------------
(* Operations of the store and of the file system, which may fail.         *)

Results    == {"ok", "before", "after"}
Failing(rs) == Cardinality({i \in DOMAIN rs : rs[i] # "ok"})
Affordable(rs) == faults + Failing(rs) <= MaxFaults
Charged(rs) == faults' = faults + Failing(rs)

\* A report is truncated and written: it stays, is torn, or is new.
Written(old, new, result) ==
  CASE result = "ok" -> new [] result = "before" -> old [] OTHER -> "torn"

Bundle(kind) ==
  [kind |-> kind, state |-> "staged", report |-> "none", live |-> FALSE,
   copies |-> [f \in Inputs |-> Unread]]

\* The report of the bundle that is read into, or the exception of flush().
Flushes(id, status, result) ==
  bundles' = [bundles EXCEPT ![id].report = Written(@, status, result)]

SettlesMutant(id, cleanup, flushed, result) ==
  IF bundles[id].state # "staged" THEN bundles
  ELSE LET written == [bundles EXCEPT ![id].report = Written(@, "failed", flushed)]
       IN IF flushed # "ok" \/ result = "before" THEN written
          ELSE [written EXCEPT ![id].state = "failed"]
\* The mutant publishes a failure whatever run_process() said of the cleanup.

SettlesUnwritten(id, cleanup, flushed, result) ==
  IF bundles[id].state # "staged" \/ result = "before" THEN bundles
  ELSE [bundles EXCEPT ![id].state = IF cleanup THEN "failed" ELSE "quarantined"]
\* The mutant publishes the report as the failed operation left it.

\* The handlers: flush(), then publish_failure() or quarantine().  A bundle
\* whose publication took effect has moved: its path is gone, flush() throws.
Settles(id, cleanup, flushed, result) ==
  IF bundles[id].state # "staged" THEN bundles
  ELSE LET written == [bundles EXCEPT ![id].report = Written(@, "failed", flushed)]
       IN IF flushed # "ok" \/ result = "before" THEN written
          ELSE [written EXCEPT ![id].state = IF cleanup THEN "failed" ELSE "quarantined"]

Publishes(id, result) ==
  bundles' = IF result = "before" THEN bundles
             ELSE [bundles EXCEPT ![id].state = "succeeded"]

-----------------------------------------------------------------------------
(* What the queries ask of a capture.                                      *)

\* load_capture(): the bundle, its manifest and report, and the index of the project.
Attested == capture.complete /\ capture.cpp /\ capture.agrees /\ capture.producer \in {"2026.3", "2026.2"}
Indexed  == capture.indexed  \* paths, every published source, metadata of the same tools
Loadable == Attested /\ Indexed
Supported == ~capture.unsupported
\* validated_cpp_sources(): every input has the fingerprint of the capture.
Anchored ==
  /\ Supported /\ capture.producer = "2026.3" /\ capture.fingerprinted
  /\ \A f \in {"sources"} \cup Inputs : disk[f] = 0

\* A request the reader does not refuse before it opens a bundle.
Admitted(r) ==
  /\ installed[r.worker] # "none" /\ r.readable
  /\ IF r.worker = "resource"
     THEN ResourceArgumentsOk(r)
     ELSE DescriptorArgumentsOk(r)

\* Distinct requests, in the order in which they are first made: byte_cache.
Distinct(requests) ==
  LET cache[n \in 0..Len(requests)] ==
        IF n = 0 THEN <<>>
        ELSE IF requests[n] \in ToSet(cache[n - 1]) THEN cache[n - 1]
        ELSE Append(cache[n - 1], requests[n])
  IN cache[Len(requests)]

Segments(plans) == FlattenSeq([i \in DOMAIN plans |-> plans[i].segments])

\* The part of a payload that covers a segment of a plan.
SegmentRequest(s) ==
  [worker |-> "resource", handle |-> s.handle, offset |-> s.first, length |-> s.count,
   declared |-> Blobs[s.handle], readable |-> TRUE]

Requested(q) ==
  IF q.kind # "values" THEN q.updates \o q.resources
  ELSE q.updates \o q.resources
         \o Distinct([i \in DOMAIN Segments(q.plans) |-> SegmentRequest(Segments(q.plans)[i])])

-----------------------------------------------------------------------------
(* A query begins.                                                         *)

Asked(q, phase, id) ==
  query' = [phase |-> phase, kind |-> q.kind, wanted |-> q, todo |-> Requested(q),
            done |-> <<>>, returned |-> 0, bundle |-> id, values |-> <<>>]

Readable(q) ==
  CASE q.kind = "resource" -> Loadable /\ Supported
    [] q.kind = "values"   -> Loadable /\ Anchored /\ \A w \in Workers : installed[w] # "none"
    [] q.kind = "push"     -> Loadable /\ Anchored /\ Len(Distinct(q.resources)) <= MaxPush
    [] OTHER               -> Loadable /\ Anchored

\* load_capture() and the sources; a draw-value query then opens its bundle.
Ask(q, result) ==
  /\ query.phase = "none" /\ Affordable(<<result>>) /\ Charged(<<result>>)
  /\ result # "ok" => Readable(q) /\ q.kind = "values"
  /\ IF Readable(q) /\ q.kind = "values"
     THEN /\ bundles' = IF result = "before" THEN bundles ELSE Append(bundles, Bundle("values"))
          /\ IF result = "ok" THEN Asked(q, "contract", Len(bundles) + 1)
             ELSE Asked(q, "refused", 0)
     ELSE Asked(q, IF Readable(q) THEN "reading" ELSE "refused", 0) /\ UNCHANGED bundles
  /\ UNCHANGED <<installed, capture, disk, read, late, pages, changes>>

\* flush(), the six exported helpers, and the number of descriptor updates.
Contract(result) ==
  /\ query.phase = "contract" /\ Affordable(<<result>>)
  /\ Flushes(query.bundle, "preparing", result) /\ Charged(<<result>>)
  /\ query' = [query EXCEPT !.phase =
       IF /\ result = "ok" /\ disk["contract"] = 0 /\ capture.contract
          /\ "query" \notin late /\ Len(query.wanted.updates) <= MaxReads
       THEN "reading" ELSE "handler"]
  /\ UNCHANGED <<installed, capture, disk, read, late, pages, changes>>

-----------------------------------------------------------------------------
(* A read.                                                                 *)

\* A read of cpp_resource has a deadline of its own only.
Expired == "read" \in late \/ (query.kind # "resource" /\ "query" \in late)

WorthAsking ==
  query.kind # "values" \/ ("query" \notin late /\ Len(query.done) < MaxReads)

Read(r, stage, id) ==
  [stage |-> stage, request |-> r, bundle |-> id, cleanup |-> TRUE, worker |-> Unread,
   image |-> Unread, inputs |-> [f \in Inputs |-> Unread], answer |-> <<>>]

Begins(r, result) ==
  IF ~Admitted(r) THEN read' = Read(r, "threw", 0) /\ UNCHANGED bundles /\ result = "ok"
  ELSE /\ bundles' = IF result = "before" THEN bundles ELSE Append(bundles, Bundle(r.worker))
       /\ read' = IF result = "ok" THEN Read(r, "prepare", Len(bundles) + 1) ELSE Read(r, "threw", 0)

\* The parent accounts the request and writes its report before it reads.
NextRead(noted, result) ==
  /\ query.phase = "reading" /\ query.todo # <<>> /\ read.stage = "none"
  /\ Affordable(<<noted, result>>) /\ Charged(<<noted, result>>)
  /\ noted # "ok" => query.kind = "values" /\ result = "ok"
  /\ IF WorthAsking /\ noted = "ok"
     THEN Begins(Head(query.todo), result) /\ late' = late \ {"read"} /\ UNCHANGED query
     ELSE /\ result = "ok" /\ query' = [query EXCEPT !.phase = "handler"]
          /\ IF WorthAsking THEN Flushes(query.bundle, "preparing", noted)
             ELSE noted = "ok" /\ UNCHANGED bundles
          /\ UNCHANGED <<read, late>>
  /\ UNCHANGED <<installed, capture, disk, pages, changes>>

Kind == read.request.worker
Here == read.bundle

\* The closure of the helpers, and the fingerprint of the worker.
Prepare(result) ==
  /\ read.stage = "prepare" /\ Affordable(<<result>>) /\ Charged(<<result>>)
  /\ Flushes(Here, "preparing", result)
  /\ read' = IF result = "ok" /\ disk["helpers"] = 0 /\ capture.helpers /\ ~Expired
             THEN [read EXCEPT !.stage = "profile", !.worker = disk[Kind]]
             ELSE [read EXCEPT !.stage = "handler"]
  /\ UNCHANGED <<installed, capture, disk, query, late, pages, changes>>

\* run(): the process, its record in the report, and what it must have been.
Processes == {"exited", "failed", "unconfirmed", "thrown"}
Left(process) == process = "unconfirmed"
Mishap(process) == IF process = "exited" THEN "ok" ELSE "before"

\* The worker reports the profile it was built with.
Profile(process, result) ==
  /\ read.stage = "profile"
  /\ Affordable(<<Mishap(process), result>>) /\ Charged(<<Mishap(process), result>>)
  /\ process = "thrown" => result = "ok"
  /\ IF Expired
     THEN /\ process = "exited" /\ result = "ok"
          /\ read' = [read EXCEPT !.stage = "handler"] /\ UNCHANGED bundles
     ELSE /\ bundles' = [bundles EXCEPT
                          ![Here].live = Left(process),
                          ![Here].report =
                             IF process = "thrown" THEN @ ELSE Written(@, "preparing", result)]
          /\ read' = [read EXCEPT
                 !.cleanup = process \in {"exited", "failed"},
                 !.stage = IF process = "exited" /\ result = "ok" /\ Good(Kind, disk[Kind])
                           THEN "data" ELSE "handler"]
  /\ UNCHANGED <<installed, capture, disk, query, late, pages, changes>>

\* snapshot_file() and the fingerprint of the copy, which a descriptor read
\* compares with the fingerprint of the capture.
Snapshot(f, result) ==
  /\ read.stage = f /\ Affordable(<<result>>) /\ Charged(<<result>>)
  /\ Expired => result = "ok"
  /\ IF Expired \/ result # "ok"
     THEN read' = [read EXCEPT !.stage = "handler"] /\ UNCHANGED bundles
     ELSE /\ bundles' = [bundles EXCEPT ![Here].copies[f] = disk[f]]
          /\ read' = [read EXCEPT
                 !.inputs[f] = disk[f],
                 !.stage = IF Kind = "descriptor" /\ disk[f] # Captured[f] THEN "handler"
                           ELSE IF f = "data" THEN "rec" ELSE "launch"]
  /\ UNCHANGED <<installed, capture, disk, query, late, pages, changes>>

\* The worker starts from the binary that is on disk now.
Launch(result) ==
  /\ read.stage = "launch" /\ Affordable(<<result>>) /\ Charged(<<result>>)
  /\ IF result # "ok" \/ Expired
     THEN /\ Flushes(Here, "running", result)
          /\ read' = [read EXCEPT !.stage = "handler"]
     ELSE /\ bundles' = [bundles EXCEPT ![Here].report = "running", ![Here].live = TRUE]
          /\ read' = [read EXCEPT !.stage = "running", !.cleanup = FALSE, !.image = disk[Kind]]
  /\ UNCHANGED <<installed, capture, disk, query, late, pages, changes>>

\* What the worker that runs makes of the copies that are there now.
Answers ==
  LET copies == bundles[Here].copies
      data   == IF Good(Kind, read.image) THEN copies["data"] ELSE Forged
  IN IF Kind = "resource" THEN ResourceWorker(installed.host, read.request, data, copies["rec"])
     ELSE DescriptorWorker(installed.host, read.request, data, copies["rec"])

Answer(process, result) ==
  /\ read.stage = "running"
  /\ Affordable(<<Mishap(process), result>>) /\ Charged(<<Mishap(process), result>>)
  /\ process = "thrown" => result = "ok"
  /\ bundles' = [bundles EXCEPT
       ![Here].live = Left(process),
       ![Here].report = IF process = "thrown" THEN @ ELSE Written(@, "running", result)]
  /\ read' = [read EXCEPT
       !.cleanup = process \in {"exited", "failed"},
       !.answer = IF process = "exited" THEN Answers ELSE <<>>,
       !.stage = IF process = "exited" /\ result = "ok" /\ Answers # <<>> THEN "judge"
                 ELSE "handler"]
  /\ UNCHANGED <<installed, capture, disk, query, late, pages, changes>>

UnmodifiedMutant == bundles[Here].copies = read.inputs
\* The mutant does not look at the worker again.
Unmodified == disk[Kind] = read.worker /\ bundles[Here].copies = read.inputs

ResourceAccepted(r, a) ==
  /\ a.handle = r.handle /\ a.offset = r.offset
  /\ a.total \in 1..MaxBlob /\ r.declared \in {0, a.total}
  /\ r.offset <= a.total /\ a.count = Least(r.length, a.total - r.offset)
  /\ Len(a.bytes) = a.count

DescriptorAccepted(r, a) ==
  /\ a.handle = r.handle /\ a.count = r.count
  /\ a.input_bytes \in (r.count * StructBytes)..MaxBlob
  /\ a.capacity = r.capacity /\ a.used \in (r.count * StructBytes)..r.capacity
  /\ WritesQualified(a, capture.registrations, r.count)

Accepted ==
  IF Kind = "resource" THEN ResourceAccepted(read.request, read.answer[1])
  ELSE DescriptorAccepted(read.request, read.answer[1])

\* Fingerprints again, the answer against the request, and the result.
Judge(result) ==
  /\ read.stage = "judge" /\ Affordable(<<result>>) /\ Charged(<<result>>)
  /\ IF ~Expired /\ Unmodified /\ Accepted
     THEN /\ Flushes(Here, "succeeded", result)
          /\ read' = [read EXCEPT !.stage = IF result = "ok" THEN "publish" ELSE "handler"]
     ELSE /\ result = "ok" /\ read' = [read EXCEPT !.stage = "handler"] /\ UNCHANGED bundles
  /\ UNCHANGED <<installed, capture, disk, query, late, pages, changes>>

Publish(result) ==
  /\ read.stage = "publish" /\ Affordable(<<result>>) /\ Charged(<<result>>)
  /\ Publishes(Here, result)
  /\ read' = [read EXCEPT !.stage = IF result = "ok" THEN "returned" ELSE "handler"]
  /\ UNCHANGED <<installed, capture, disk, query, late, pages, changes>>

\* The handler of the read; the caller is told, whatever became of the bundle.
Handle(flushed, result) ==
  /\ read.stage = "handler" /\ Affordable(<<flushed, result>>) /\ Charged(<<flushed, result>>)
  /\ flushed # "ok" => result = "ok"
  /\ bundles[Here].state # "staged" => flushed = "ok" /\ result = "ok"
  /\ bundles' = Settles(Here, read.cleanup, flushed, result)
  /\ read' = [read EXCEPT !.stage = "threw"]
  /\ UNCHANGED <<installed, capture, disk, query, late, pages, changes>>

-----------------------------------------------------------------------------
(* The query goes on with what a read returned.                            *)

NextOffset(r, a) == IF r.offset + a.count < a.total THEN <<r.offset + a.count>> ELSE <<>>

Returns ==
  LET a == read.answer[1]
      base == [request |-> read.request, inputs |-> read.inputs, artifact |-> Here]
  IN IF Kind = "resource"
     THEN [base |-> base, bytes |-> a.bytes, total |-> a.total, next |-> NextOffset(read.request, a),
           writes |-> <<>>]
     ELSE [base |-> base, bytes |-> <<>>, total |-> a.used, next |-> <<>>,
           writes |-> QualifiedWrites(a, capture.registrations)]

\* The bytes a read adds to the budget of a draw-value query.
Charge == IF Kind = "resource" THEN read.request.length ELSE read.answer[1].used

\* What a query that composes reads requires of a read it made.
Wanted ==
  CASE query.kind = "values" ->
         /\ Kind = "resource" => /\ read.inputs = Captured
                                 /\ Len(read.answer[1].bytes) = read.request.length
         /\ query.returned + Charge <= MaxReturned /\ "query" \notin late
    [] query.kind = "push" ->
         /\ read.inputs = Captured
         /\ NextOffset(read.request, read.answer[1]) = <<>>
    [] OTHER -> TRUE

Receive ==
  /\ read.stage = "returned"
  /\ query' = IF Wanted
              THEN [query EXCEPT !.done = Append(@, Returns), !.todo = Tail(@),
                                 !.returned = IF query.kind = "values" THEN @ + Charge ELSE @]
              ELSE [query EXCEPT !.phase = IF query.kind = "values" THEN "handler" ELSE "refused"]
  /\ read' = NoRead
  /\ UNCHANGED <<installed, capture, disk, bundles, late, pages, changes, faults>>

ReadThrew ==
  /\ read.stage = "threw"
  /\ query' = [query EXCEPT !.phase = IF query.kind = "values" THEN "handler" ELSE "refused"]
  /\ read' = NoRead
  /\ UNCHANGED <<installed, capture, disk, bundles, late, pages, changes, faults>>

\* A client keeps the pages of a resource until the last.
Page(p, d) ==
  [offset |-> IF p.bytes = <<>> THEN d.base.request.offset ELSE p.offset,
   bytes |-> p.bytes \o d.bytes, inputs |-> p.inputs \cup {d.base.inputs}, next |-> d.next]

AnswerQuery ==
  /\ query.phase = "reading" /\ query.todo = <<>> /\ query.kind # "values"
  /\ query' = [query EXCEPT !.phase = "answered"]
  /\ pages' = IF query.kind = "resource" THEN Page(pages, query.done[1]) ELSE pages
  /\ UNCHANGED <<installed, capture, disk, bundles, read, late, changes, faults>>

\* The client asks for the page after this one.
NextPage ==
  /\ query.phase = "answered" /\ pages.next # <<>>
  /\ LET q == [query.wanted EXCEPT !.resources[1].offset = pages.next[1]]
     IN Asked(q, IF Readable(q) THEN "reading" ELSE "refused", 0)
  /\ UNCHANGED <<installed, capture, disk, bundles, read, late, pages, changes, faults>>

-----------------------------------------------------------------------------
(* The values of a draw are assembled and published.                       *)

ReadsOf(s) == {i \in DOMAIN query.done : query.done[i].base.request = SegmentRequest(s)}
ReadOf(s)  == query.done[Min(ReadsOf(s))]

Covering(p, k) == {i \in DOMAIN p.segments : k - p.segments[i].at \in 0..(p.segments[i].count - 1)}

\* Every byte of the prefix comes from one segment, and none from outside.
Covers(p) ==
  /\ p.length \in 1..MaxLength
  /\ \A i \in DOMAIN p.segments :
       /\ p.segments[i].at >= p.base /\ p.segments[i].count > 0
       /\ p.segments[i].at + p.segments[i].count <= p.base + p.length
       /\ ReadsOf(p.segments[i]) # {}    \* byte_cache.at()
       /\ ReadOf(p.segments[i]).total = Blobs[p.segments[i].handle]
  /\ \A k \in p.base..(p.base + p.length - 1) : Cardinality(Covering(p, k)) = 1

Assembled(p) ==
  [n \in 1..p.length |->
     LET k == p.base + n - 1
         s == p.segments[Min(Covering(p, k))]
     IN ReadOf(s).bytes[k - s.at + 1]]

Assemble(result) ==
  /\ query.phase = "reading" /\ query.todo = <<>> /\ query.kind = "values"
  /\ Affordable(<<result>>) /\ Charged(<<result>>)
  /\ LET plans == query.wanted.plans
     IN IF "query" \in late \/ \E i \in DOMAIN plans : ~Covers(plans[i])
        THEN /\ result = "ok" /\ query' = [query EXCEPT !.phase = "handler"] /\ UNCHANGED bundles
        ELSE /\ Flushes(query.bundle, "succeeded", result)
             /\ query' = [query EXCEPT
                    !.phase = IF result = "ok" THEN "publish" ELSE "handler",
                    !.values = [i \in DOMAIN plans |-> Assembled(plans[i])]]
  /\ UNCHANGED <<installed, capture, disk, read, late, pages, changes>>

PublishQuery(result) ==
  /\ query.phase = "publish" /\ Affordable(<<result>>) /\ Charged(<<result>>)
  /\ Publishes(query.bundle, result)
  /\ query' = [query EXCEPT !.phase = IF result = "ok" THEN "answered" ELSE "handler"]
  /\ UNCHANGED <<installed, capture, disk, read, late, pages, changes>>

\* No process is this query's own: its reads quarantined theirs.
HandleQuery(flushed, result) ==
  /\ query.phase = "handler" /\ Affordable(<<flushed, result>>) /\ Charged(<<flushed, result>>)
  /\ flushed # "ok" => result = "ok"
  /\ bundles[query.bundle].state # "staged" => flushed = "ok" /\ result = "ok"
  /\ bundles' = Settles(query.bundle, TRUE, flushed, result)
  /\ query' = [query EXCEPT !.phase = "refused"]
  /\ UNCHANGED <<installed, capture, disk, read, late, pages, changes>>

-----------------------------------------------------------------------------
(* Around the queries.                                                     *)

Active == query.phase \notin {"none", "answered", "refused"}

ChangeFile(f) ==
  /\ query.phase # "refused" /\ changes < MaxChanges
  /\ changes' = changes + 1 /\ disk' = [disk EXCEPT ![f] = changes + 1]
  /\ UNCHANGED <<installed, capture, bundles, query, read, late, pages, faults>>

\* Someone, or a worker that stayed, writes into a bundle that is not published.
ChangeCopy(f) ==
  /\ read.stage \in {"data", "rec", "launch", "running", "judge"} /\ changes < MaxChanges
  /\ bundles[Here].copies[f] # Unread
  /\ changes' = changes + 1
  /\ bundles' = [bundles EXCEPT ![Here].copies[f] = changes + 1]
  /\ UNCHANGED <<installed, capture, disk, query, read, late, pages, faults>>

TreeEnds(id) ==
  /\ bundles[id].live /\ ~(read.stage = "running" /\ Here = id)
  /\ bundles' = [bundles EXCEPT ![id].live = FALSE]
  /\ UNCHANGED <<installed, capture, disk, query, read, late, pages, changes, faults>>

DeadlinePasses(d) ==
  /\ Active /\ d \notin late
  /\ IF d = "read" THEN read.stage # "none" ELSE query.kind # "resource"
  /\ late' = late \cup {d}
  /\ UNCHANGED <<installed, capture, disk, bundles, query, read, pages, changes, faults>>

Next ==
  \/ \E q \in Queries, r \in Results : Ask(q, r)
  \/ \E r \in Results : Contract(r) \/ Prepare(r) \/ Launch(r) \/ Judge(r) \/ Publish(r)
  \/ \E r \in Results : Assemble(r) \/ PublishQuery(r)
  \/ \E f, r \in Results : NextRead(f, r) \/ Handle(f, r) \/ HandleQuery(f, r)
  \/ \E p \in Processes, r \in Results : Profile(p, r) \/ Answer(p, r)
  \/ \E f \in Inputs, r \in Results : Snapshot(f, r)
  \/ Receive \/ ReadThrew \/ AnswerQuery \/ NextPage
  \/ \E f \in Files : ChangeFile(f)
  \/ \E f \in Inputs : ChangeCopy(f)
  \/ \E id \in DOMAIN bundles : TreeEnds(id)
  \/ \E d \in {"query", "read"} : DeadlinePasses(d)

Spec == Init /\ [][Next]_vars

-----------------------------------------------------------------------------
(* Properties.                                                             *)

\* What the descriptor update of a handle says, in the symbols of the source.
Named(registrations, type, id) ==
  IF id = 0 THEN "null"
  ELSE (CHOOSE r \in ToSet(registrations) : r.type = type /\ r.id = id).symbol

Meaning(registrations, w) ==
  [w EXCEPT
     !.dst = Named(registrations, "descriptor_set", w.dst),
     !.buffers = [k \in DOMAIN w.buffers |->
        [w.buffers[k] EXCEPT !.buffer = Named(registrations, "buffer", w.buffers[k].buffer)]],
     !.images = [k \in DOMAIN w.images |->
        [w.images[k] EXCEPT !.view = Named(registrations, "image_view", w.images[k].view),
                            !.sampler = Named(registrations, "sampler", w.images[k].sampler)]]]

Meant(registrations, handle) ==
  [k \in DOMAIN Updates[handle].writes |-> Meaning(registrations, Updates[handle].writes[k])]

\* A read has the bytes its evidence says: the range asked for, of the
\* database whose fingerprints it reports.
RangeExact(d) ==
  LET r == d.base.request
      n == Least(r.length, Extent(r.handle, d.base.inputs["rec"]) - r.offset)
  IN d.bytes = Slice(d.base.inputs["data"], r.handle, r.offset, n)

PagesExact ==
  Cardinality(pages.inputs) = 1 =>
    LET inputs == CHOOSE i \in pages.inputs : TRUE
        handle == query.wanted.resources[1].handle
    IN /\ pages.bytes = Slice(inputs["data"], handle, pages.offset, Len(pages.bytes))
       /\ pages.next = <<>> => pages.offset + Len(pages.bytes) = Extent(handle, inputs["rec"])

\* The bytes of a plan, straight from the captured database.
ValueExact(p, bytes) ==
  /\ Len(bytes) = p.length
  /\ \A i \in DOMAIN p.segments, n \in 0..(p.length - 1) :
       p.base + n - p.segments[i].at \in 0..(p.segments[i].count - 1)
         => bytes[n + 1] = <<0, p.segments[i].handle,
                             p.segments[i].first + p.base + n - p.segments[i].at>>

\* An answer tells what the capture holds, although the worker's binary, the
\* retained files and the snapshot may be replaced between any two steps
\* (ResourceRead.cpp:164, DescriptorRead.cpp:277, Inspection.cpp:976, :1297):
\* bytes are the range asked for of the database that the answer identifies,
\* pages followed to the end are the whole of it, descriptor writes and draw
\* values are those of the database as it was captured.
AnswersAreTheCapture ==
  query.phase = "answered" =>
    /\ \A i \in DOMAIN query.done :
         LET d == query.done[i]
         IN IF d.base.request.worker = "resource" THEN RangeExact(d)
            ELSE d.writes = Meant(capture.registrations, d.base.request.handle)
    /\ query.kind = "resource" => PagesExact
    /\ query.kind # "resource" => \A i \in DOMAIN query.done : query.done[i].base.inputs = Captured
    /\ query.kind = "values" =>
         \A i \in DOMAIN query.wanted.plans : ValueExact(query.wanted.plans[i], query.values[i])

\* A bundle is published only when no process of its worker may still write
\* into it; otherwise it is quarantined, whatever failed first
\* (ResourceRead.cpp:212, DescriptorRead.cpp:318).
WorkersGoneBeforePublication ==
  \A id \in DOMAIN bundles : bundles[id].state \in {"succeeded", "failed"} => ~bundles[id].live

\* The report in a published bundle tells what the manifest tells, also when
\* publication fails after the report said "succeeded", or fails after it
\* took effect; and the bundles an answer rests on are successes
\* (ResourceRead.cpp:203-217, Inspection.cpp:1431-1448).
ReportsAgree ==
  /\ \A id \in DOMAIN bundles :
       bundles[id].state \in {"succeeded", "failed"} => bundles[id].report = bundles[id].state
  /\ query.phase = "answered" =>
       /\ \A i \in DOMAIN query.done : bundles[query.done[i].base.artifact].state = "succeeded"
       /\ query.kind = "values" => bundles[query.bundle].state = "succeeded"
  /\ query.phase = "refused" /\ faults = 0 /\ query.bundle # 0
       => bundles[query.bundle].state = "failed"

\* Nothing disturbs the query, and what it asks is within the workers' reach.
Undisturbed ==
  /\ changes = 0 /\ faults = 0 /\ late = {}
  /\ Confines(installed.host) /\ \A w \in Workers : installed[w] = "good"
  /\ capture.plain /\ query.wanted.plain

\* No query is refused without a reason: objects of different types that
\* share an id, a range that ends where the payload does, a draw whose parts
\* are read twice are all answered (DescriptorWorker.cpp:85,
\* ResourceRead.cpp:178, Inspection.cpp:1384).
RefusedForAReason == query.phase = "refused" => ~Undisturbed

================================================================================
