--------------------------- MODULE SourceReadsProofs ---------------------------
(***************************************************************************)
(* What SourceReads checks on small captures, for any queries, captures    *)
(* and installations and any number of failing store operations and        *)
(* changes of files: what a published bundle of a read says, and that no   *)
(* worker may still write into it.                                         *)
(*                                                                         *)
(* A bundle is written by the read that opened it or by the draw-value     *)
(* query that opened it, and by nobody after its publication.  So IInv     *)
(* says how the read, and the query, fit the bundle they have.             *)
(*                                                                         *)
(* An answer is what the capture holds (the second half).  EInv says, for  *)
(* each stage of a read, what follows from the worker and the copies being *)
(* still the ones that were fingerprinted: the final comparison makes that *)
(* a fact about the answer.  What a read then returned is the payload's    *)
(* bytes, or the update in the symbols of the generated source             *)
(* (DescriptorMeans: tokens, objects and registrations lead back to the    *)
(* handle).  Wanting, PagesKept and ValuesKept carry that through the      *)
(* query that composes the reads.                                          *)
(*                                                                         *)
(* A recursive function is what its steps make it: Counting is induction   *)
(* up to a number, by the least counterexample, and Stepwise gives the     *)
(* function that the steps define.                                         *)
(***************************************************************************)
EXTENDS SourceReads, SequenceTheorems, FiniteSetTheorems, WellFoundedInduction, TLAPS

BundleFields == {"kind", "state", "report", "live", "copies"}
QueryFields  == {"phase", "kind", "wanted", "todo", "done", "returned", "bundle", "values"}
ReadFields   == {"stage", "request", "bundle", "cleanup", "worker", "image", "inputs", "answer"}

Phases == {"none", "contract", "reading", "publish", "handler", "answered", "refused"}
Before == {"prepare", "profile", "data", "rec", "launch"}   \* stages before the answer
Stages == {"none", "threw"} \cup Before \cup {"running", "judge", "publish", "returned", "handler"}

\* The records have their fields.
Shaped ==
  /\ Listed(bundles) /\ faults \in Nat
  /\ query.phase \in Phases /\ read.stage \in Stages
  /\ query.phase # "none" => /\ DOMAIN query = QueryFields /\ Listed(query.done)
                             /\ "kind" \in DOMAIN query.wanted /\ query.wanted.kind = query.kind
  /\ read.stage # "none" => DOMAIN read = ReadFields

\* A published bundle says what it is, and no process may write into it.
Sound(b) ==
  /\ DOMAIN b = BundleFields
  /\ b.state \in {"succeeded", "failed"} => b.report = b.state /\ ~b.live

\* A read and its bundle: it is published once its report says so, and until
\* then it is staged; a cleanup is confirmed only when no worker is left.
ReadFits(r, b) ==
  /\ r.stage \in Before \cup {"running", "judge", "publish"} => b.state = "staged"
  /\ r.stage = "publish" => b.report = "succeeded"
  /\ r.stage = "returned" => b.state = "succeeded"
  /\ r.stage = "handler" => b.state \in {"staged", "succeeded"}
  /\ r.stage \notin {"running", "handler"} => r.cleanup
  /\ r.stage # "running" /\ r.cleanup => ~b.live

\* A draw-value query and its bundle, which no process of its own writes.
QueryFits(phase, failed, b) ==
  /\ ~b.live
  /\ phase \in {"contract", "reading", "publish"} => b.state = "staged"
  /\ phase = "publish" => b.report = "succeeded"
  /\ phase = "handler" => b.state = "staged" \/ (b.state = "succeeded" /\ failed # 0)
  /\ phase = "answered" => b.state = "succeeded"
  /\ phase = "refused" => b.state = "failed" \/ failed # 0

Reading ==
  read.stage # "none" =>
    /\ query.phase = "reading" /\ query.todo # <<>>
    /\ read.stage # "threw" => /\ Here \in DOMAIN bundles /\ Here # query.bundle
                               /\ ReadFits(read, bundles[Here])

Querying ==
  query.phase # "none" =>
    /\ query.kind # "values" =>
         query.bundle = 0 /\ query.phase \notin {"contract", "handler", "publish"}
    /\ query.kind = "values" /\ ~(query.phase = "refused" /\ query.bundle = 0) =>
         /\ query.bundle \in DOMAIN bundles
         /\ QueryFits(query.phase, faults, bundles[query.bundle])
    /\ \A i \in DOMAIN query.done :
         /\ query.done[i].base.artifact \in DOMAIN bundles
         /\ bundles[query.done[i].base.artifact].state = "succeeded"

\* Pages are those of a resource.
Paging == pages.next # <<>> => query.phase # "none" /\ query.kind = "resource"

IInv ==
  /\ Shaped /\ Reading /\ Querying /\ Paging
  /\ \A id \in DOMAIN bundles : Sound(bundles[id])

-----------------------------------------------------------------------------
(* Lemmas about lists and failing operations.                              *)

\* A list with one element replaced is a list, with the others in place.
LEMMA Replaced ==
  ASSUME NEW s, Listed(s), NEW i \in DOMAIN s, NEW v
  PROVE  LET t == [s EXCEPT ![i] = v]
         IN /\ Listed(t) /\ DOMAIN t = DOMAIN s /\ t[i] = v
            /\ \A j \in DOMAIN s : j # i => t[j] = s[j]
PROOF
<1> DEFINE t == [s EXCEPT ![i] = v]
<1>1. s \in [1..Len(s) -> ToSet(s)] /\ DOMAIN s = 1..Len(s) /\ Len(s) \in Nat BY DEF Listed
<1>2. DOMAIN t = 1..Len(s) /\ t[i] = v /\ \A j \in DOMAIN s : j # i => t[j] = s[j] BY <1>1
<1>3. t \in [1..Len(s) -> ToSet(t)]
  <2>1. \A j \in DOMAIN t : t[j] \in ToSet(t) BY DEF ToSet
  <2>2. t = [j \in DOMAIN t |-> t[j]] BY <1>1
  <2> QED BY <2>1, <2>2, <1>2
<1>4. t \in Seq(ToSet(t))
  <2> HIDE DEF t
  <2> QED BY <1>1, <1>3
<1> QED BY <1>1, <1>2, <1>4 DEF Listed

\* A list with one element more.
LEMMA Appended ==
  ASSUME NEW s, Listed(s), NEW v
  PROVE  LET t == Append(s, v)
         IN /\ Listed(t) /\ DOMAIN t = 1..(Len(s) + 1) /\ Len(s) \in Nat
            /\ DOMAIN s = 1..Len(s) /\ t[Len(s) + 1] = v
            /\ \A j \in DOMAIN s : j \in DOMAIN t /\ t[j] = s[j]
PROOF
<1> DEFINE t == Append(s, v)  S == ToSet(s) \cup {v}
<1>1. s \in Seq(ToSet(s)) /\ DOMAIN s = 1..Len(s) /\ Len(s) \in Nat BY DEF Listed
<1>2. s \in Seq(S)
  <2>1. \A j \in 1..Len(s) : s[j] \in S BY <1>1 DEF ToSet
  <2> HIDE DEF S
  <2> QED BY <1>1, <2>1, SeqDef
<1>3. /\ t \in Seq(S) /\ Len(t) = Len(s) + 1 /\ DOMAIN t = 1..(Len(s) + 1)
      /\ \A j \in 1..Len(s) : t[j] = s[j]
      /\ t[Len(s) + 1] = v
  <2>1. v \in S OBVIOUS
  <2> HIDE DEF S
  <2>2. /\ Append(s, v) \in Seq(S)
        /\ Len(Append(s, v)) = Len(s) + 1
        /\ \A j \in 1..Len(s) : Append(s, v)[j] = s[j]
        /\ Append(s, v)[Len(s) + 1] = v
    BY <1>2, <2>1, AppendProperties
  <2> QED BY <2>2, <1>1
<1>4. Listed(t)
  <2>1. \A j \in DOMAIN t : t[j] \in ToSet(t) BY DEF ToSet
  <2> HIDE DEF t, S
  <2>2. t \in Seq(ToSet(t)) BY <1>3, <1>1, <2>1, SeqDef
  <2> QED BY <2>2 DEF Listed
<1> HIDE DEF t
<1>5. \A j \in DOMAIN s : j \in DOMAIN t /\ t[j] = s[j] BY <1>1, <1>3
<1> QED BY <1>1, <1>3, <1>4, <1>5 DEF t

\* Operations that fail are counted, so without a failure they all succeed.
LEMMA Counted ==
  ASSUME faults \in Nat, NEW rs \in Seq(Results), Charged(rs)
  PROVE  /\ faults' \in Nat /\ faults' >= faults
         /\ (\E i \in DOMAIN rs : rs[i] # "ok") => faults' > 0
PROOF
<1> DEFINE F == {i \in DOMAIN rs : rs[i] # "ok"}
<1>1. IsFiniteSet(F)
  <2>1. DOMAIN rs = 1..Len(rs) /\ Len(rs) \in Nat OBVIOUS
  <2>2. IsFiniteSet(1..Len(rs)) BY <2>1, FS_Interval
  <2> QED BY <2>1, <2>2, FS_Subset
<1>2. Cardinality(F) \in Nat /\ (Cardinality(F) = 0 <=> F = {})
  BY <1>1, FS_CardinalityType, FS_EmptySet
<1>3. faults' = faults + Cardinality(F) BY DEF Charged, Failing
<1>4. (\E i \in DOMAIN rs : rs[i] # "ok") => F # {} OBVIOUS
<1> HIDE DEF F
<1> QED BY <1>2, <1>3, <1>4

\* The same for an action with one operation.
LEMMA CountedOne ==
  ASSUME faults \in Nat, NEW r \in Results, Charged(<<r>>)
  PROVE  faults' \in Nat /\ faults' >= faults /\ (r # "ok" => faults' > 0)
PROOF
<1>1. <<r>> \in Seq(Results) /\ 1 \in DOMAIN <<r>> /\ <<r>>[1] = r OBVIOUS
<1> QED BY <1>1, Counted

\* And for an action with two.
LEMMA CountedTwo ==
  ASSUME faults \in Nat, NEW r \in Results, NEW s \in Results, Charged(<<r, s>>)
  PROVE  faults' \in Nat /\ faults' >= faults /\ (r # "ok" \/ s # "ok" => faults' > 0)
PROOF
<1>1. /\ <<r, s>> \in Seq(Results) /\ DOMAIN <<r, s>> = {1, 2}
      /\ <<r, s>>[1] = r /\ <<r, s>>[2] = s
  OBVIOUS
<1> QED BY <1>1, Counted

-----------------------------------------------------------------------------
(* What a step may do to the bundle of the read, or of the query.          *)

\* Only one bundle is written.
Touched(id) ==
  /\ Listed(bundles') /\ DOMAIN bundles' = DOMAIN bundles
  /\ \A other \in DOMAIN bundles : other # id => bundles'[other] = bundles[other]

\* A step that writes no bundle writes at most one.
LEMMA Untouched ==
  ASSUME IInv, UNCHANGED bundles, NEW id
  PROVE  Touched(id)
BY DEF Touched, IInv, Shaped

\* Zero is not a bundle.
LEMMA NotZero == ASSUME IInv PROVE 0 \notin DOMAIN bundles
PROOF
<1>1. DOMAIN bundles = 1..Len(bundles) /\ Len(bundles) \in Nat BY DEF IInv, Shaped, Listed
<1> QED BY <1>1

\* flush() changes the report of a bundle that is not published.
LEMMA Flushed ==
  ASSUME IInv, NEW id \in DOMAIN bundles, bundles[id].state = "staged",
         NEW status, NEW result, Flushes(id, status, result)
  PROVE  /\ Touched(id) /\ Sound(bundles'[id])
         /\ bundles'[id].state = "staged" /\ bundles'[id].live = bundles[id].live
         /\ bundles'[id].report = Written(bundles[id].report, status, result)
         /\ bundles'[id].copies = bundles[id].copies
PROOF
<1>1. Listed(bundles) /\ Sound(bundles[id]) BY DEF IInv, Shaped
<1> DEFINE b == [bundles[id] EXCEPT !.report = Written(bundles[id].report, status, result)]
<1>2. bundles' = [bundles EXCEPT ![id] = b] BY DEF Flushes
<1>3. /\ DOMAIN b = BundleFields /\ b.state = bundles[id].state /\ b.live = bundles[id].live
      /\ b.report = Written(bundles[id].report, status, result)
      /\ b.copies = bundles[id].copies
  BY <1>1 DEF Sound, BundleFields
<1> HIDE DEF b
<1>4. Touched(id) /\ bundles'[id] = b BY <1>1, <1>2, Replaced DEF Touched
<1>5. Sound(b) BY <1>3 DEF Sound
<1> QED BY <1>3, <1>4, <1>5

\* The handler settles a bundle that is staged and leaves one that is published.
LEMMA Settled ==
  ASSUME IInv, NEW id \in DOMAIN bundles, NEW cleanup, NEW flushed, NEW result,
         cleanup => ~bundles[id].live,
         bundles' = Settles(id, cleanup, flushed, result)
  PROVE  /\ Touched(id) /\ Sound(bundles'[id])
         /\ bundles'[id].live = bundles[id].live
         /\ bundles[id].state # "staged" => bundles'[id] = bundles[id]
         /\ bundles[id].state = "staged" /\ cleanup /\ flushed = "ok" /\ result # "before"
              => bundles'[id].state = "failed"
PROOF
<1>1. Listed(bundles) /\ Sound(bundles[id]) BY DEF IInv, Shaped
<1>2. CASE bundles[id].state # "staged"
  <2>1. bundles' = bundles BY <1>2 DEF Settles
  <2> QED BY <2>1, <1>1, <1>2, Untouched
<1>3. CASE bundles[id].state = "staged"
  <2> DEFINE b == [bundles[id] EXCEPT !.report = Written(bundles[id].report, "failed", flushed)]
             new == IF cleanup THEN "failed" ELSE "quarantined"
             c == [b EXCEPT !.state = new]
             written == [bundles EXCEPT ![id] = b]
  <2>1. /\ DOMAIN b = BundleFields /\ b.state = "staged" /\ b.live = bundles[id].live
        /\ b.report = Written(bundles[id].report, "failed", flushed)
    BY <1>1, <1>3 DEF Sound, BundleFields
  <2>2. /\ DOMAIN c = BundleFields /\ c.state = new /\ c.live = bundles[id].live
        /\ c.report = Written(bundles[id].report, "failed", flushed)
    <3> HIDE DEF b, new
    <3> QED BY <2>1 DEF BundleFields
  <2>3. Sound(b) BY <2>1 DEF Sound
  <2>4. flushed = "ok" => Sound(c)
    <3>1. flushed = "ok" => c.report = "failed" BY <2>2 DEF Written
    <3>2. c.state \in {"succeeded", "failed"} => c.state = "failed" /\ cleanup BY <2>2
    <3> HIDE DEF c
    <3> QED BY <2>2, <3>1, <3>2 DEF Sound
  <2>5. /\ Listed(written) /\ DOMAIN written = DOMAIN bundles /\ written[id] = b
        /\ \A j \in DOMAIN bundles : j # id => written[j] = bundles[j]
    <3> HIDE DEF b
    <3> QED BY <1>1, Replaced
  <2>6. CASE flushed # "ok" \/ result = "before"
    <3>1. bundles' = written BY <1>3, <2>6 DEF Settles
    <3> HIDE DEF b, written
    <3>2. /\ Listed(bundles') /\ DOMAIN bundles' = DOMAIN bundles /\ bundles'[id] = b
          /\ \A j \in DOMAIN bundles : j # id => bundles'[j] = bundles[j]
      BY <2>5, <3>1
    <3>3. Touched(id) BY <3>2 DEF Touched
    <3> QED BY <3>2, <3>3, <2>1, <2>3, <2>6, <1>3
  <2>7. CASE flushed = "ok" /\ result # "before"
    <3>1. bundles' = [written EXCEPT ![id].state = new] BY <1>3, <2>7 DEF Settles
    <3> HIDE DEF b, written, new
    <3>2. bundles' = [written EXCEPT ![id] = c] BY <3>1, <2>5
    <3> HIDE DEF c
    <3>3. LET t == [written EXCEPT ![id] = c]
          IN /\ Listed(t) /\ DOMAIN t = DOMAIN written /\ t[id] = c
             /\ \A j \in DOMAIN written : j # id => t[j] = written[j]
      <4>1. id \in DOMAIN written BY <2>5
      <4> QED BY <2>5, <4>1, Replaced
    <3>4. /\ Listed(bundles') /\ DOMAIN bundles' = DOMAIN bundles /\ bundles'[id] = c
          /\ \A j \in DOMAIN bundles : j # id => bundles'[j] = bundles[j]
      BY <3>2, <3>3, <2>5
    <3>5. Touched(id) BY <3>4 DEF Touched
    <3>6. cleanup => c.state = "failed" BY <2>2 DEF new
    <3> QED BY <3>4, <3>5, <3>6, <2>2, <2>4, <2>7, <1>3
  <2> QED BY <2>6, <2>7
<1> QED BY <1>2, <1>3

\* publish_success() of a bundle whose report says so.
LEMMA Published ==
  ASSUME IInv, NEW id \in DOMAIN bundles, NEW result \in Results, Publishes(id, result),
         bundles[id].state = "staged", bundles[id].report = "succeeded", ~bundles[id].live
  PROVE  /\ Touched(id) /\ Sound(bundles'[id]) /\ ~bundles'[id].live
         /\ bundles'[id].report = "succeeded"
         /\ bundles'[id].state = IF result = "before" THEN "staged" ELSE "succeeded"
PROOF
<1>1. Listed(bundles) /\ Sound(bundles[id]) BY DEF IInv, Shaped
<1>2. CASE result = "before"
  <2>1. bundles' = bundles BY <1>2 DEF Publishes
  <2> QED BY <2>1, <1>1, <1>2, Untouched
<1>3. CASE result # "before"
  <2> DEFINE b == [bundles[id] EXCEPT !.state = "succeeded"]
  <2>1. bundles' = [bundles EXCEPT ![id] = b] BY <1>3 DEF Publishes
  <2>2. /\ DOMAIN b = BundleFields /\ b.state = "succeeded" /\ ~b.live
        /\ b.report = "succeeded"
    BY <1>1 DEF Sound, BundleFields
  <2> HIDE DEF b
  <2>3. Touched(id) /\ bundles'[id] = b BY <1>1, <2>1, Replaced DEF Touched
  <2> QED BY <2>2, <2>3, <1>3 DEF Sound
<1> QED BY <1>2, <1>3

-----------------------------------------------------------------------------
(* A step of the read, and a step of the query, keep the invariant.        *)

\* The read changes its own bundle and its place, and fits the bundle again.
LEMMA ReadMoves ==
  ASSUME IInv, read.stage \notin {"none", "threw"},
         UNCHANGED <<query, pages>>, faults' \in Nat, faults' >= faults,
         Touched(Here), Sound(bundles'[Here]),
         bundles[Here].state = "succeeded" => bundles'[Here].state = "succeeded",
         DOMAIN read' = ReadFields, read'.stage \in Stages \ {"none"},
         read'.stage # "threw" =>
           read'.bundle = read.bundle /\ ReadFits(read', bundles'[Here])
  PROVE  IInv'
PROOF
<1>1. Shaped'
  <2>1. query' = query /\ Listed(bundles') BY DEF Touched
  <2> QED BY <2>1 DEF IInv, Shaped
<1>2. Here \in DOMAIN bundles /\ Here # query.bundle /\ query.phase = "reading"
      /\ query.todo # <<>>
  BY DEF IInv, Reading
<1>3. Reading' BY <1>2 DEF Reading, Here, Touched
<1>4. Querying'
  <2>1. Querying BY DEF IInv
  <2>2. \A id \in DOMAIN bundles : bundles[id].state = "succeeded" => bundles'[id].state = "succeeded"
    BY DEF Touched
  <2>3. \A i \in DOMAIN query.done :
          /\ query.done[i].base.artifact \in DOMAIN bundles'
          /\ bundles'[query.done[i].base.artifact].state = "succeeded"
    BY <2>1, <2>2, <1>2 DEF Querying, Touched
  <2>4. query.kind = "values" =>
          /\ query.bundle \in DOMAIN bundles'
          /\ bundles'[query.bundle] = bundles[query.bundle]
          /\ QueryFits(query.phase, faults, bundles[query.bundle])
    BY <2>1, <1>2 DEF Querying, Touched
  <2>5. QueryFits(query.phase, faults, bundles[query.bundle])
          => QueryFits(query.phase, faults', bundles[query.bundle])
    BY <1>2 DEF QueryFits
  <2> QED BY <2>1, <2>3, <2>4, <2>5, <1>2 DEF Querying
<1>5. Paging' BY DEF IInv, Paging
<1>6. \A id \in DOMAIN bundles' : Sound(bundles'[id])
  BY DEF IInv, Touched
<1> QED BY <1>1, <1>3, <1>4, <1>5, <1>6 DEF IInv

\* The query changes its own bundle and its phase, while nothing is read.
LEMMA QueryMoves ==
  ASSUME IInv, query.kind = "values", query.phase \notin {"none", "answered", "refused"},
         read.stage = "none", UNCHANGED <<read, pages>>,
         faults' \in Nat, faults' >= faults,
         Touched(query.bundle), Sound(bundles'[query.bundle]),
         bundles[query.bundle].state = "succeeded"
           => bundles'[query.bundle].state = "succeeded",
         DOMAIN query' = QueryFields, query'.phase \in Phases \ {"none"},
         query'.kind = query.kind, query'.wanted = query.wanted,
         query'.done = query.done, query'.bundle = query.bundle,
         QueryFits(query'.phase, faults', bundles'[query.bundle])
  PROVE  IInv'
PROOF
<1>1. Shaped'
  <2>1. Listed(bundles') BY DEF Touched
  <2> QED BY <2>1 DEF IInv, Shaped
<1>2. Reading' BY DEF Reading
<1>3. Querying'
  <2>1. Querying BY DEF IInv
  <2>2. query.bundle \in DOMAIN bundles BY <2>1 DEF Querying
  <2>3. \A id \in DOMAIN bundles : bundles[id].state = "succeeded" => bundles'[id].state = "succeeded"
    BY DEF Touched
  <2>4. \A i \in DOMAIN query.done :
          /\ query.done[i].base.artifact \in DOMAIN bundles'
          /\ bundles'[query.done[i].base.artifact].state = "succeeded"
    BY <2>1, <2>3 DEF Querying, Touched
  <2> QED BY <2>2, <2>4 DEF Querying, Touched
<1>4. Paging' BY DEF IInv, Paging
<1>5. \A id \in DOMAIN bundles' : Sound(bundles'[id])
  BY DEF IInv, Touched
<1> QED BY <1>1, <1>2, <1>3, <1>4, <1>5 DEF IInv

-----------------------------------------------------------------------------
(* The steps of a read.                                                    *)

\* What the invariant says of a read that has its bundle.
LEMMA Open ==
  ASSUME IInv, read.stage \notin {"none", "threw"}
  PROVE  /\ Here \in DOMAIN bundles /\ ReadFits(read, bundles[Here]) /\ Sound(bundles[Here])
         /\ DOMAIN read = ReadFields /\ faults \in Nat
BY DEF IInv, Reading, Shaped

\* Helpers are checked, or the read fails.
LEMMA PrepareStep ==
  ASSUME IInv, NEW result \in Results, Prepare(result)
  PROVE  IInv'
PROOF
<1>1. read.stage = "prepare" /\ Charged(<<result>>) /\ Flushes(Here, "preparing", result)
      /\ UNCHANGED <<query, pages>>
  BY DEF Prepare
<1>2. /\ Here \in DOMAIN bundles /\ ReadFits(read, bundles[Here]) /\ Sound(bundles[Here])
      /\ DOMAIN read = ReadFields /\ faults \in Nat
  BY <1>1, Open
<1>3. bundles[Here].state = "staged" /\ ~bundles[Here].live /\ read.cleanup
  BY <1>1, <1>2 DEF ReadFits, Before
<1>4. /\ Touched(Here) /\ Sound(bundles'[Here])
      /\ bundles'[Here].state = "staged" /\ bundles'[Here].live = bundles[Here].live
  BY <1>1, <1>2, <1>3, Flushed
<1>5. /\ DOMAIN read' = ReadFields /\ read'.stage \in {"profile", "handler"}
      /\ read'.bundle = read.bundle /\ read'.cleanup = read.cleanup
  <2>1. read' \in {[read EXCEPT !.stage = "profile", !.worker = disk[Kind]],
                   [read EXCEPT !.stage = "handler"]}
    BY DEF Prepare
  <2> QED BY <2>1, <1>2 DEF ReadFields
<1>6. ReadFits(read', bundles'[Here]) BY <1>3, <1>4, <1>5 DEF ReadFits, Before
<1>7. faults' \in Nat /\ faults' >= faults BY <1>1, <1>2, CountedOne
<1> QED BY <1>1, <1>3, <1>4, <1>5, <1>6, <1>7, ReadMoves DEF Stages, Before

\* The worker reports its profile; a process that stays leaves no cleanup.
LEMMA ProfileStep ==
  ASSUME IInv, NEW process \in Processes, NEW result \in Results, Profile(process, result)
  PROVE  IInv'
PROOF
<1>1. read.stage = "profile" /\ Charged(<<Mishap(process), result>>)
      /\ UNCHANGED <<query, pages>>
  BY DEF Profile
<1>2. /\ Here \in DOMAIN bundles /\ ReadFits(read, bundles[Here]) /\ Sound(bundles[Here])
      /\ DOMAIN read = ReadFields /\ faults \in Nat
  BY <1>1, Open
<1>3. bundles[Here].state = "staged" /\ ~bundles[Here].live /\ read.cleanup
  BY <1>1, <1>2 DEF ReadFits, Before
<1>4. faults' \in Nat /\ faults' >= faults
  <2>1. Mishap(process) \in Results BY DEF Mishap, Results
  <2> QED BY <1>1, <1>2, <2>1, CountedTwo
<1>5. CASE Expired
  <2>1. read' = [read EXCEPT !.stage = "handler"] /\ UNCHANGED bundles
    BY <1>5 DEF Profile
  <2>2. /\ DOMAIN read' = ReadFields /\ read'.stage = "handler"
        /\ read'.bundle = read.bundle /\ read'.cleanup = read.cleanup
    BY <2>1, <1>2 DEF ReadFields
  <2>3. ReadFits(read', bundles'[Here]) BY <2>1, <2>2, <1>3 DEF ReadFits, Before
  <2>4. Touched(Here) BY <2>1, Untouched
  <2> QED BY <1>1, <1>2, <1>4, <2>1, <2>2, <2>3, <2>4, ReadMoves DEF Stages
<1>6. CASE ~Expired
  <2> DEFINE stay == IF process = "exited" /\ result = "ok" /\ Good(Kind, disk[Kind])
                     THEN "data" ELSE "handler"
             over == process \in {"exited", "failed"}
             report == IF process = "thrown" THEN bundles[Here].report
                       ELSE Written(bundles[Here].report, "preparing", result)
             b == [bundles[Here] EXCEPT !.live = Left(process), !.report = report]
  <2>1. read' = [read EXCEPT !.cleanup = over, !.stage = stay]
    BY <1>6 DEF Profile
  <2>2. /\ DOMAIN read' = ReadFields /\ read'.stage = stay
        /\ read'.bundle = read.bundle /\ read'.cleanup = over
    <3> HIDE DEF stay, over
    <3> QED BY <2>1, <1>2 DEF ReadFields
  <2>3. bundles' = [bundles EXCEPT ![Here] = b]
    BY <1>6, <1>2 DEF Profile
  <2>4. DOMAIN b = BundleFields /\ b.state = "staged" /\ (b.live <=> Left(process))
    <3> HIDE DEF report
    <3> QED BY <1>2, <1>3 DEF Sound, BundleFields, Left
  <2> HIDE DEF b
  <2>5. Touched(Here) /\ bundles'[Here] = b
    BY <2>3, <1>2, Replaced DEF Touched, IInv, Shaped
  <2>6. Sound(bundles'[Here]) BY <2>4, <2>5 DEF Sound
  <2>7. stay \in {"data", "handler"} /\ (stay = "data" => over) /\ (over => ~Left(process))
    BY DEF Left
  <2> HIDE DEF stay, over
  <2>8. ReadFits(read', bundles'[Here]) BY <2>2, <2>4, <2>5, <2>7 DEF ReadFits, Before
  <2> QED BY <1>1, <1>3, <1>4, <2>2, <2>5, <2>6, <2>7, <2>8, ReadMoves DEF Stages, Before
<1> QED BY <1>5, <1>6

\* A file is copied, or the read fails; the copies are not part of the invariant.
LEMMA SnapshotStep ==
  ASSUME IInv, NEW f \in Inputs, NEW result \in Results, Snapshot(f, result)
  PROVE  IInv'
PROOF
<1>1. read.stage \in {"data", "rec"} /\ Charged(<<result>>) /\ UNCHANGED <<query, pages>>
  BY DEF Snapshot, Inputs
<1>2. /\ Here \in DOMAIN bundles /\ ReadFits(read, bundles[Here]) /\ Sound(bundles[Here])
      /\ DOMAIN read = ReadFields /\ faults \in Nat
  BY <1>1, Open
<1>3. bundles[Here].state = "staged" /\ ~bundles[Here].live /\ read.cleanup
  BY <1>1, <1>2 DEF ReadFits, Before
<1>4. faults' \in Nat /\ faults' >= faults BY <1>1, <1>2, CountedOne
<1>5. /\ Touched(Here) /\ DOMAIN bundles'[Here] = BundleFields
      /\ bundles'[Here].state = "staged" /\ bundles'[Here].live = bundles[Here].live
  <2>1. CASE UNCHANGED bundles
    BY <2>1, <1>2, <1>3, Untouched DEF Sound
  <2>2. CASE bundles' = [bundles EXCEPT ![Here].copies[f] = disk[f]]
    <3> DEFINE b == [bundles[Here] EXCEPT !.copies = [bundles[Here].copies EXCEPT ![f] = disk[f]]]
    <3>1. bundles' = [bundles EXCEPT ![Here] = b] BY <2>2
    <3>2. DOMAIN b = BundleFields /\ b.state = "staged" /\ b.live = bundles[Here].live
      BY <1>2, <1>3 DEF Sound, BundleFields
    <3> HIDE DEF b
    <3>3. Touched(Here) /\ bundles'[Here] = b
      BY <3>1, <1>2, Replaced DEF Touched, IInv, Shaped
    <3> QED BY <3>2, <3>3
  <2> QED BY <2>1, <2>2 DEF Snapshot
<1>6. /\ DOMAIN read' = ReadFields /\ read'.stage \in {"rec", "launch", "handler"}
      /\ read'.bundle = read.bundle /\ read'.cleanup = read.cleanup
  <2>1. CASE read' = [read EXCEPT !.stage = "handler"]
    BY <2>1, <1>2 DEF ReadFields
  <2>2. CASE read' = [read EXCEPT
                 !.inputs[f] = disk[f],
                 !.stage = IF Kind = "descriptor" /\ disk[f] # Captured[f] THEN "handler"
                           ELSE IF f = "data" THEN "rec" ELSE "launch"]
    BY <2>2, <1>2 DEF ReadFields
  <2> QED BY <2>1, <2>2 DEF Snapshot
<1>7. Sound(bundles'[Here]) /\ ReadFits(read', bundles'[Here])
  BY <1>3, <1>5, <1>6 DEF Sound, ReadFits, Before
<1> QED BY <1>1, <1>3, <1>4, <1>5, <1>6, <1>7, ReadMoves DEF Stages, Before

\* The worker starts: from now on its cleanup is not confirmed.
LEMMA LaunchStep ==
  ASSUME IInv, NEW result \in Results, Launch(result)
  PROVE  IInv'
PROOF
<1>1. read.stage = "launch" /\ Charged(<<result>>) /\ UNCHANGED <<query, pages>>
  BY DEF Launch
<1>2. /\ Here \in DOMAIN bundles /\ ReadFits(read, bundles[Here]) /\ Sound(bundles[Here])
      /\ DOMAIN read = ReadFields /\ faults \in Nat
  BY <1>1, Open
<1>3. bundles[Here].state = "staged" /\ ~bundles[Here].live /\ read.cleanup
  BY <1>1, <1>2 DEF ReadFits, Before
<1>4. faults' \in Nat /\ faults' >= faults BY <1>1, <1>2, CountedOne
<1>5. CASE result # "ok" \/ Expired
  <2>1. Flushes(Here, "running", result) /\ read' = [read EXCEPT !.stage = "handler"]
    BY <1>5 DEF Launch
  <2>2. /\ DOMAIN read' = ReadFields /\ read'.stage = "handler"
        /\ read'.bundle = read.bundle /\ read'.cleanup = read.cleanup
    BY <2>1, <1>2 DEF ReadFields
  <2>3. /\ Touched(Here) /\ Sound(bundles'[Here])
        /\ bundles'[Here].state = "staged" /\ bundles'[Here].live = bundles[Here].live
    BY <2>1, <1>2, <1>3, Flushed
  <2>4. ReadFits(read', bundles'[Here]) BY <2>2, <2>3, <1>3 DEF ReadFits, Before
  <2> QED BY <1>1, <1>3, <1>4, <2>2, <2>3, <2>4, ReadMoves DEF Stages, Before
<1>6. CASE ~(result # "ok" \/ Expired)
  <2> DEFINE b == [bundles[Here] EXCEPT !.report = "running", !.live = TRUE]
  <2>1. /\ bundles' = [bundles EXCEPT ![Here] = b]
        /\ read' = [read EXCEPT !.stage = "running", !.cleanup = FALSE, !.image = disk[Kind]]
    BY <1>6, <1>2 DEF Launch
  <2>2. DOMAIN b = BundleFields /\ b.state = "staged" BY <1>2, <1>3 DEF Sound, BundleFields
  <2> HIDE DEF b
  <2>3. Touched(Here) /\ bundles'[Here] = b
    BY <2>1, <1>2, Replaced DEF Touched, IInv, Shaped
  <2>4. DOMAIN read' = ReadFields /\ read'.stage = "running" /\ read'.bundle = read.bundle
    BY <2>1, <1>2 DEF ReadFields
  <2>5. Sound(bundles'[Here]) /\ ReadFits(read', bundles'[Here])
    BY <2>2, <2>3, <2>4 DEF Sound, ReadFits, Before
  <2> QED BY <1>1, <1>3, <1>4, <2>3, <2>4, <2>5, ReadMoves DEF Stages, Before
<1> QED BY <1>5, <1>6

\* The process ends or stays; only one that ended leaves an answer.
LEMMA AnswerStep ==
  ASSUME IInv, NEW process \in Processes, NEW result \in Results, Answer(process, result)
  PROVE  IInv'
PROOF
<1>1. read.stage = "running" /\ Charged(<<Mishap(process), result>>)
      /\ UNCHANGED <<query, pages>>
  BY DEF Answer
<1>2. /\ Here \in DOMAIN bundles /\ ReadFits(read, bundles[Here]) /\ Sound(bundles[Here])
      /\ DOMAIN read = ReadFields /\ faults \in Nat
  BY <1>1, Open
<1>3. bundles[Here].state = "staged" BY <1>1, <1>2 DEF ReadFits
<1>4. faults' \in Nat /\ faults' >= faults
  <2>1. Mishap(process) \in Results BY DEF Mishap, Results
  <2> QED BY <1>1, <1>2, <2>1, CountedTwo
<1> DEFINE told == IF process = "exited" THEN Answers ELSE <<>>
           next == IF process = "exited" /\ result = "ok" /\ Answers # <<>> THEN "judge"
                   ELSE "handler"
           over == process \in {"exited", "failed"}
           report == IF process = "thrown" THEN bundles[Here].report
                     ELSE Written(bundles[Here].report, "running", result)
           b == [bundles[Here] EXCEPT !.live = Left(process), !.report = report]
<1>5. read' = [read EXCEPT !.cleanup = over, !.answer = told, !.stage = next] BY DEF Answer
<1>6. /\ DOMAIN read' = ReadFields /\ read'.stage = next
      /\ read'.bundle = read.bundle /\ read'.cleanup = over
  <2> HIDE DEF next, over, told
  <2> QED BY <1>5, <1>2 DEF ReadFields
<1>7. bundles' = [bundles EXCEPT ![Here] = b] BY <1>2 DEF Answer
<1>8. DOMAIN b = BundleFields /\ b.state = "staged" /\ (b.live <=> Left(process))
  <2> HIDE DEF report
  <2> QED BY <1>2, <1>3 DEF Sound, BundleFields, Left
<1>9. next \in {"judge", "handler"} /\ (next = "judge" => over) /\ (over => ~Left(process))
  BY DEF Left
<1> HIDE DEF b, next, over, told
<1>10. Touched(Here) /\ bundles'[Here] = b
  BY <1>7, <1>2, Replaced DEF Touched, IInv, Shaped
<1>11. Sound(bundles'[Here]) /\ ReadFits(read', bundles'[Here])
  BY <1>6, <1>8, <1>9, <1>10 DEF Sound, ReadFits, Before
<1> QED BY <1>1, <1>3, <1>4, <1>6, <1>9, <1>10, <1>11, ReadMoves DEF Stages

\* The report says "succeeded" before the bundle is published.
LEMMA JudgeStep ==
  ASSUME IInv, NEW result \in Results, Judge(result)
  PROVE  IInv'
PROOF
<1>1. read.stage = "judge" /\ Charged(<<result>>) /\ UNCHANGED <<query, pages>>
  BY DEF Judge
<1>2. /\ Here \in DOMAIN bundles /\ ReadFits(read, bundles[Here]) /\ Sound(bundles[Here])
      /\ DOMAIN read = ReadFields /\ faults \in Nat
  BY <1>1, Open
<1>3. bundles[Here].state = "staged" /\ ~bundles[Here].live /\ read.cleanup
  BY <1>1, <1>2 DEF ReadFits, Before
<1>4. faults' \in Nat /\ faults' >= faults BY <1>1, <1>2, CountedOne
<1> DEFINE next == IF result = "ok" THEN "publish" ELSE "handler"
<1>5. \/ Flushes(Here, "succeeded", result) /\ read' = [read EXCEPT !.stage = next]
      \/ UNCHANGED bundles /\ read' = [read EXCEPT !.stage = "handler"]
  BY DEF Judge
<1>6. /\ Touched(Here) /\ Sound(bundles'[Here])
      /\ bundles'[Here].state = "staged" /\ bundles'[Here].live = bundles[Here].live
  <2>1. CASE Flushes(Here, "succeeded", result) BY <2>1, <1>2, <1>3, Flushed
  <2>2. CASE UNCHANGED bundles BY <2>2, <1>2, <1>3, Untouched
  <2> QED BY <1>5, <2>1, <2>2
<1>7. /\ DOMAIN read' = ReadFields /\ read'.stage \in {"publish", "handler"}
      /\ read'.bundle = read.bundle /\ read'.cleanup = read.cleanup
      /\ read'.stage = "publish" => bundles'[Here].report = "succeeded"
  <2>1. CASE Flushes(Here, "succeeded", result) /\ read' = [read EXCEPT !.stage = next]
    <3>1. DOMAIN read' = ReadFields /\ read'.bundle = read.bundle /\ read'.stage = next
          /\ read'.cleanup = read.cleanup
      <4> HIDE DEF next
      <4> QED BY <2>1, <1>2 DEF ReadFields
    <3>2. bundles'[Here].report = Written(bundles[Here].report, "succeeded", result)
      BY <2>1, <1>2, <1>3, Flushed
    <3> QED BY <3>1, <3>2 DEF Written
  <2>2. CASE read' = [read EXCEPT !.stage = "handler"]
    BY <2>2, <1>2 DEF ReadFields
  <2> QED BY <1>5, <2>1, <2>2
<1>8. ReadFits(read', bundles'[Here]) BY <1>3, <1>6, <1>7 DEF ReadFits, Before
<1> QED BY <1>1, <1>3, <1>4, <1>6, <1>7, <1>8, ReadMoves DEF Stages

\* The publication takes effect or not, whatever its caller is told.
LEMMA PublishStep ==
  ASSUME IInv, NEW result \in Results, Publish(result)
  PROVE  IInv'
PROOF
<1>1. /\ read.stage = "publish" /\ Charged(<<result>>) /\ UNCHANGED <<query, pages>>
      /\ Publishes(Here, result)
      /\ read' = [read EXCEPT !.stage = IF result = "ok" THEN "returned" ELSE "handler"]
  BY DEF Publish
<1>2. /\ Here \in DOMAIN bundles /\ ReadFits(read, bundles[Here]) /\ Sound(bundles[Here])
      /\ DOMAIN read = ReadFields /\ faults \in Nat
  BY <1>1, Open
<1>3. bundles[Here].state = "staged" /\ bundles[Here].report = "succeeded"
      /\ ~bundles[Here].live /\ read.cleanup
  BY <1>1, <1>2 DEF ReadFits, Before
<1>4. faults' \in Nat /\ faults' >= faults BY <1>1, <1>2, CountedOne
<1>5. /\ Touched(Here) /\ Sound(bundles'[Here]) /\ ~bundles'[Here].live
      /\ bundles'[Here].state = IF result = "before" THEN "staged" ELSE "succeeded"
  BY <1>1, <1>2, <1>3, Published
<1> DEFINE next == IF result = "ok" THEN "returned" ELSE "handler"
<1>6. /\ DOMAIN read' = ReadFields /\ read'.stage = next
      /\ read'.bundle = read.bundle /\ read'.cleanup = read.cleanup
  <2>1. read' = [read EXCEPT !.stage = next] BY <1>1
  <2> HIDE DEF next
  <2> QED BY <2>1, <1>2 DEF ReadFields
<1>7. next \in {"returned", "handler"} /\ (next = "returned" => result = "ok") OBVIOUS
<1> HIDE DEF next
<1>8. ReadFits(read', bundles'[Here]) BY <1>3, <1>5, <1>6, <1>7 DEF ReadFits, Before
<1> QED BY <1>1, <1>3, <1>4, <1>5, <1>6, <1>7, <1>8, ReadMoves DEF Stages

\* The handler settles the bundle by what was said of the cleanup.
LEMMA HandleStep ==
  ASSUME IInv, NEW flushed \in Results, NEW result \in Results, Handle(flushed, result)
  PROVE  IInv'
PROOF
<1>1. /\ read.stage = "handler" /\ Charged(<<flushed, result>>) /\ UNCHANGED <<query, pages>>
      /\ bundles' = Settles(Here, read.cleanup, flushed, result)
      /\ read' = [read EXCEPT !.stage = "threw"]
  BY DEF Handle
<1>2. /\ Here \in DOMAIN bundles /\ ReadFits(read, bundles[Here]) /\ Sound(bundles[Here])
      /\ DOMAIN read = ReadFields /\ faults \in Nat
  BY <1>1, Open
<1>3. read.cleanup => ~bundles[Here].live BY <1>1, <1>2 DEF ReadFits
<1>4. faults' \in Nat /\ faults' >= faults BY <1>1, <1>2, CountedTwo
<1>5. /\ Touched(Here) /\ Sound(bundles'[Here])
      /\ bundles[Here].state # "staged" => bundles'[Here] = bundles[Here]
  BY <1>1, <1>2, <1>3, Settled
<1>6. DOMAIN read' = ReadFields /\ read'.stage = "threw"
  BY <1>1, <1>2 DEF ReadFields
<1> QED BY <1>1, <1>4, <1>5, <1>6, ReadMoves DEF Stages

-----------------------------------------------------------------------------
(* Bundles are opened, and the query takes what its reads return.          *)

\* Bundles are kept, and a new one has nothing to say.
Kept ==
  /\ Listed(bundles')
  /\ \A id \in DOMAIN bundles : id \in DOMAIN bundles' /\ bundles'[id] = bundles[id]
  /\ \A id \in DOMAIN bundles' : Sound(bundles'[id])

\* A step that opens no bundle keeps them.
LEMMA KeptAll ==
  ASSUME IInv, UNCHANGED bundles
  PROVE  Kept
BY DEF Kept, IInv, Shaped

\* begin() adds a bundle that is staged and that nobody writes.
LEMMA Opened ==
  ASSUME IInv, NEW kind, bundles' = Append(bundles, Bundle(kind))
  PROVE  LET id == Len(bundles) + 1
         IN /\ Kept /\ id \in DOMAIN bundles' /\ id \notin DOMAIN bundles /\ id # 0
            /\ bundles'[id].state = "staged" /\ ~bundles'[id].live
            /\ DOMAIN bundles'[id].copies = Inputs
PROOF
<1> DEFINE id == Len(bundles) + 1
<1>1. /\ Listed(bundles') /\ DOMAIN bundles' = 1..(Len(bundles) + 1) /\ Len(bundles) \in Nat
      /\ DOMAIN bundles = 1..Len(bundles) /\ bundles'[id] = Bundle(kind)
      /\ \A j \in DOMAIN bundles : j \in DOMAIN bundles' /\ bundles'[j] = bundles[j]
  BY Appended DEF IInv, Shaped
<1>2. /\ DOMAIN Bundle(kind) = BundleFields /\ Bundle(kind).state = "staged"
      /\ ~Bundle(kind).live /\ DOMAIN Bundle(kind).copies = Inputs
  BY DEF Bundle, BundleFields
<1>3. \A j \in DOMAIN bundles' : Sound(bundles'[j])
  <2>1. Sound(Bundle(kind)) BY <1>2 DEF Sound
  <2>2. \A j \in DOMAIN bundles' : j \in DOMAIN bundles \/ j = id BY <1>1
  <2>3. \A j \in DOMAIN bundles : Sound(bundles[j]) BY DEF IInv
  <2> QED BY <2>1, <2>2, <2>3, <1>1
<1>4. id \in DOMAIN bundles' /\ id \notin DOMAIN bundles /\ id # 0 BY <1>1
<1> QED BY <1>1, <1>2, <1>3, <1>4 DEF Kept

\* What is kept of the query's bundle and of its reads' bundles.
LEMMA QueryKept ==
  ASSUME IInv, Kept, UNCHANGED query, faults' \in Nat, faults' >= faults
  PROVE  Querying'
PROOF
<1>1. Querying BY DEF IInv
<1>2. \A id \in DOMAIN bundles : id \in DOMAIN bundles' /\ bundles'[id] = bundles[id]
  BY DEF Kept
<1>3. \A b : QueryFits(query.phase, faults, b) => QueryFits(query.phase, faults', b)
  <2>1. faults # 0 => faults' # 0 BY DEF IInv, Shaped
  <2> QED BY <2>1 DEF QueryFits
<1>4. query.phase # "none" => \A i \in DOMAIN query.done :
          /\ query.done[i].base.artifact \in DOMAIN bundles'
          /\ bundles'[query.done[i].base.artifact].state = "succeeded"
  BY <1>1, <1>2 DEF Querying
<1> QED BY <1>1, <1>2, <1>3, <1>4 DEF Querying

\* A read begins in a bundle of its own, or the query fails.
LEMMA NextReadStep ==
  ASSUME IInv, NEW noted \in Results, NEW result \in Results, NextRead(noted, result)
  PROVE  IInv'
PROOF
<1>1. /\ query.phase = "reading" /\ query.todo # <<>> /\ read.stage = "none"
      /\ Charged(<<noted, result>>) /\ UNCHANGED pages
  BY DEF NextRead
<1>2. Shaped /\ Reading /\ Querying /\ Paging BY DEF IInv
<1>3. faults' \in Nat /\ faults' >= faults
  BY <1>1, <1>2, CountedTwo DEF Shaped
<1>4. CASE WorthAsking /\ noted = "ok"
  <2> DEFINE r == Head(query.todo)
  <2>1. Begins(r, result) /\ UNCHANGED query BY <1>4 DEF NextRead
  <2>2. /\ Kept
        /\ \/ read' = Read(r, "threw", 0)
           \/ /\ read' = Read(r, "prepare", Len(bundles) + 1)
              /\ bundles' = Append(bundles, Bundle(r.worker))
    <3>1. CASE UNCHANGED bundles /\ read' = Read(r, "threw", 0) BY <3>1, KeptAll
    <3>2. CASE bundles' = Append(bundles, Bundle(r.worker))
               /\ read' \in {Read(r, "prepare", Len(bundles) + 1), Read(r, "threw", 0)}
      <4>1. Kept BY <3>2, Opened
      <4> QED BY <3>2, <4>1
    <3> QED BY <2>1, <3>1, <3>2 DEF Begins
  <2>3. DOMAIN read' = ReadFields /\ read'.stage \in {"threw", "prepare"}
    BY <2>2 DEF Read, ReadFields
  <2>4. Shaped' BY <2>1, <2>2, <2>3, <1>1, <1>2, <1>3 DEF Shaped, Kept, Stages, Before
  <2>5. Querying' BY <2>1, <2>2, <1>3, QueryKept
  <2>6. Paging' BY <2>1, <1>1, <1>2 DEF Paging
  <2>7. Reading'
    <3>1. CASE read' = Read(r, "threw", 0)
      <4>1. read'.stage = "threw" BY <3>1 DEF Read
      <4> QED BY <4>1, <2>1, <1>1 DEF Reading
    <3>2. CASE read' = Read(r, "prepare", Len(bundles) + 1)
               /\ bundles' = Append(bundles, Bundle(r.worker))
      <4> DEFINE id == Len(bundles) + 1
      <4>1. /\ id \in DOMAIN bundles' /\ id \notin DOMAIN bundles /\ id # 0
            /\ bundles'[id].state = "staged" /\ ~bundles'[id].live
        BY <3>2, Opened
      <4> HIDE DEF id
      <4>2. read'.stage = "prepare" /\ read'.bundle = id /\ read'.cleanup
        BY <3>2 DEF Read, id
      <4>3. query.bundle \in DOMAIN bundles \cup {0} BY <1>1, <1>2 DEF Querying
      <4>4. ReadFits(read', bundles'[id]) BY <4>1, <4>2 DEF ReadFits
      <4> QED BY <4>1, <4>2, <4>3, <4>4, <2>1, <1>1 DEF Reading, Here
    <3> QED BY <2>2, <3>1, <3>2
  <2> QED BY <2>2, <2>4, <2>5, <2>6, <2>7 DEF IInv, Kept
<1>5. CASE ~(WorthAsking /\ noted = "ok")
  <2>1. /\ query' = [query EXCEPT !.phase = "handler"] /\ UNCHANGED read
        /\ query.kind = "values"
        /\ Flushes(query.bundle, "preparing", noted) \/ UNCHANGED bundles
    BY <1>5 DEF NextRead, WorthAsking
  <2>2. /\ query.bundle \in DOMAIN bundles /\ bundles[query.bundle].state = "staged"
        /\ ~bundles[query.bundle].live /\ Sound(bundles[query.bundle])
    BY <2>1, <1>1, <1>2 DEF Querying, QueryFits, IInv
  <2>3. /\ Touched(query.bundle) /\ Sound(bundles'[query.bundle])
        /\ bundles'[query.bundle].state = "staged" /\ ~bundles'[query.bundle].live
    <3>1. CASE Flushes(query.bundle, "preparing", noted) BY <3>1, <2>2, Flushed
    <3>2. CASE UNCHANGED bundles BY <3>2, <2>2, Untouched
    <3> QED BY <2>1, <3>1, <3>2
  <2>4. /\ DOMAIN query' = QueryFields /\ query'.phase = "handler" /\ query'.kind = query.kind
        /\ query'.wanted = query.wanted /\ query'.done = query.done
        /\ query'.bundle = query.bundle
    BY <2>1, <1>1, <1>2 DEF Shaped, QueryFields
  <2>5. QueryFits(query'.phase, faults', bundles'[query.bundle])
    BY <2>3, <2>4 DEF QueryFits
  <2> QED BY <1>1, <1>3, <2>1, <2>2, <2>3, <2>4, <2>5, QueryMoves DEF Phases
<1> QED BY <1>4, <1>5

\* A read that fails fails the query.
LEMMA QueryFails ==
  ASSUME IInv, read.stage # "none", read' = NoRead, UNCHANGED <<bundles, pages, faults>>,
         query' = [query EXCEPT !.phase = IF query.kind = "values" THEN "handler" ELSE "refused"]
  PROVE  IInv'
PROOF
<1>1. Shaped /\ Reading /\ Querying /\ Paging BY DEF IInv
<1>2. query.phase = "reading" BY <1>1 DEF Reading
<1>3. read'.stage = "none" BY DEF NoRead
<1> DEFINE next == IF query.kind = "values" THEN "handler" ELSE "refused"
<1>4. /\ DOMAIN query' = QueryFields /\ query'.phase = next /\ query'.kind = query.kind
      /\ query'.wanted = query.wanted /\ query'.done = query.done
      /\ query'.bundle = query.bundle
  <2>1. query' = [query EXCEPT !.phase = next] OBVIOUS
  <2> HIDE DEF next
  <2> QED BY <2>1, <1>1, <1>2 DEF Shaped, QueryFields
<1>5. Shaped' BY <1>1, <1>2, <1>3, <1>4 DEF Shaped, Phases, Stages
<1>6. Querying' BY <1>1, <1>2, <1>4 DEF Querying, QueryFits
<1>7. Reading' BY <1>3 DEF Reading
<1>8. Paging' BY <1>1, <1>4 DEF Paging
<1> QED BY <1>1, <1>5, <1>6, <1>7, <1>8 DEF IInv

\* The caller of a read that failed.
LEMMA ReadThrewStep == ASSUME IInv, ReadThrew PROVE IInv'
BY QueryFails DEF ReadThrew

\* What a read returned rests on a bundle that is a success.
LEMMA ReceiveStep == ASSUME IInv, Receive PROVE IInv'
PROOF
<1>1. Shaped /\ Reading /\ Querying /\ Paging BY DEF IInv
<1>2. /\ read.stage = "returned" /\ read' = NoRead /\ UNCHANGED <<bundles, pages, faults>>
      /\ query.phase = "reading" /\ Here \in DOMAIN bundles
      /\ bundles[Here].state = "succeeded"
  BY <1>1 DEF Receive, Reading, ReadFits
<1>3. CASE ~Wanted
  BY <1>2, <1>3, QueryFails DEF Receive
<1>4. CASE Wanted
  <2> DEFINE sum == IF query.kind = "values" THEN query.returned + Charge ELSE query.returned
  <2>1. query' = [query EXCEPT !.done = Append(query.done, Returns), !.todo = Tail(query.todo),
                               !.returned = sum]
    BY <1>4 DEF Receive
  <2>2. /\ DOMAIN query' = QueryFields /\ query'.phase = "reading"
        /\ query'.kind = query.kind /\ query'.wanted = query.wanted
        /\ query'.done = Append(query.done, Returns) /\ query'.bundle = query.bundle
    <3> HIDE DEF sum
    <3> QED BY <2>1, <1>1, <1>2 DEF Shaped, QueryFields
  <2>3. /\ Listed(query'.done) /\ Len(query.done) \in Nat
        /\ DOMAIN query'.done = 1..(Len(query.done) + 1)
        /\ DOMAIN query.done = 1..Len(query.done)
        /\ query'.done[Len(query.done) + 1] = Returns
        /\ \A i \in DOMAIN query.done : query'.done[i] = query.done[i]
    BY <2>2, <1>1, <1>2, Appended DEF Shaped
  <2>4. Returns.base.artifact = Here BY DEF Returns
  <2>5. \A i \in DOMAIN query'.done : i \in DOMAIN query.done \/ i = Len(query.done) + 1
    BY <2>3
  <2>6. \A i \in DOMAIN query'.done :
          /\ query'.done[i].base.artifact \in DOMAIN bundles
          /\ bundles[query'.done[i].base.artifact].state = "succeeded"
    <3>1. \A i \in DOMAIN query.done :
            /\ query.done[i].base.artifact \in DOMAIN bundles
            /\ bundles[query.done[i].base.artifact].state = "succeeded"
      BY <1>1, <1>2 DEF Querying
    <3> TAKE i \in DOMAIN query'.done
    <3>2. CASE i \in DOMAIN query.done BY <3>1, <3>2, <2>3
    <3>3. CASE i = Len(query.done) + 1 BY <3>3, <2>3, <2>4, <1>2
    <3> QED BY <2>5, <3>2, <3>3
  <2>7. Querying'
    <3>1. query.kind # "values" => query.bundle = 0 BY <1>1, <1>2 DEF Querying
    <3>2. query.kind = "values" =>
            query.bundle \in DOMAIN bundles /\ QueryFits("reading", faults, bundles[query.bundle])
      BY <1>1, <1>2 DEF Querying
    <3> QED BY <3>1, <3>2, <2>2, <2>6, <1>2 DEF Querying
  <2>8. read'.stage = "none" BY <1>2 DEF NoRead
  <2>9. Shaped' BY <1>1, <1>2, <2>2, <2>3, <2>8 DEF Shaped, Phases, Stages
  <2>10. Reading' BY <2>8 DEF Reading
  <2>11. Paging' BY <1>1, <1>2, <2>2 DEF Paging
  <2> QED BY <1>2, <2>7, <2>9, <2>10, <2>11 DEF IInv
<1> QED BY <1>3, <1>4

\* A query without a bundle of its own is answered.
LEMMA AnswerQueryStep == ASSUME IInv, AnswerQuery PROVE IInv'
PROOF
<1>1. Shaped /\ Reading /\ Querying /\ Paging BY DEF IInv
<1>2. /\ query.phase = "reading" /\ query.todo = <<>> /\ query.kind # "values"
      /\ query' = [query EXCEPT !.phase = "answered"]
      /\ UNCHANGED <<bundles, read, faults>>
      /\ query.kind # "resource" => UNCHANGED pages
  BY DEF AnswerQuery
<1>3. read.stage = "none" BY <1>1, <1>2 DEF Reading
<1>4. /\ DOMAIN query' = QueryFields /\ query'.phase = "answered" /\ query'.kind = query.kind
      /\ query'.wanted = query.wanted /\ query'.done = query.done
      /\ query'.bundle = query.bundle
  BY <1>1, <1>2 DEF Shaped, QueryFields
<1>5. Shaped' BY <1>1, <1>2, <1>4 DEF Shaped, Phases
<1>6. Querying' BY <1>1, <1>2, <1>4 DEF Querying
<1>7. Reading' BY <1>2, <1>3 DEF Reading
<1>8. Paging' BY <1>1, <1>2, <1>4 DEF Paging
<1> QED BY <1>1, <1>2, <1>5, <1>6, <1>7, <1>8 DEF IInv

\* What a query begins with.
LEMMA AskedFresh ==
  ASSUME NEW q, NEW phase \in Phases \ {"none"}, NEW id, Asked(q, phase, id),
         "kind" \in DOMAIN q
  PROVE  /\ DOMAIN query' = QueryFields /\ query'.phase = phase /\ query'.kind = q.kind
         /\ query'.wanted = q /\ query'.bundle = id
         /\ Listed(query'.done) /\ DOMAIN query'.done = {}
PROOF
<1>1. query'.done = <<>> BY DEF Asked
<1>2. Listed(<<>>) /\ DOMAIN <<>> = {} BY DEF Listed, ToSet
<1> QED BY <1>1, <1>2 DEF Asked, QueryFields

\* A query begins, with a bundle of its own if it is about values.
LEMMA AskStep ==
  ASSUME IInv, NEW q \in Queries, NEW result \in Results, Ask(q, result)
  PROVE  IInv'
PROOF
<1>1. Shaped /\ Reading /\ Querying /\ Paging BY DEF IInv
<1>2. query.phase = "none" /\ Charged(<<result>>) /\ UNCHANGED <<read, pages>>
  BY DEF Ask
<1>3. faults' \in Nat /\ faults' >= faults /\ (result # "ok" => faults' > 0)
  BY <1>1, <1>2, CountedOne DEF Shaped
<1>4. "kind" \in DOMAIN q BY QueriesAssumption DEF QueryOk
<1>5. read.stage = "none" BY <1>1, <1>2 DEF Reading
<1>6. pages.next = <<>> BY <1>1, <1>2 DEF Paging
<1>7. ASSUME NEW phase \in Phases \ {"none"}, NEW id, Asked(q, phase, id), Kept,
             q.kind # "values" => id = 0 /\ phase \notin {"contract", "handler", "publish"},
             q.kind = "values" /\ ~(phase = "refused" /\ id = 0) =>
               id \in DOMAIN bundles' /\ QueryFits(phase, faults', bundles'[id])
      PROVE  IInv'
  <2>1. /\ DOMAIN query' = QueryFields /\ query'.phase = phase /\ query'.kind = q.kind
        /\ query'.wanted = q /\ query'.bundle = id
        /\ Listed(query'.done) /\ DOMAIN query'.done = {}
    BY <1>7, <1>4, AskedFresh
  <2>2. Shaped' BY <2>1, <1>1, <1>2, <1>3, <1>4, <1>5, <1>7 DEF Shaped, Kept
  <2>3. Querying' BY <2>1, <1>7 DEF Querying
  <2>4. Reading' BY <1>2, <1>5 DEF Reading
  <2>5. Paging' BY <1>2, <1>6 DEF Paging
  <2> QED BY <2>2, <2>3, <2>4, <2>5, <1>7 DEF IInv, Kept
<1>8. CASE Readable(q) /\ q.kind = "values"
  <2>1. bundles' = IF result = "before" THEN bundles ELSE Append(bundles, Bundle("values"))
    BY <1>8 DEF Ask
  <2>2. Kept BY <2>1, KeptAll, Opened
  <2>3. CASE result = "ok"
    <3> DEFINE id == Len(bundles) + 1
    <3>1. bundles' = Append(bundles, Bundle("values")) BY <2>1, <2>3
    <3>2. id \in DOMAIN bundles' /\ bundles'[id].state = "staged" /\ ~bundles'[id].live
      BY <3>1, Opened
    <3>3. Asked(q, "contract", id) BY <1>8, <2>3 DEF Ask
    <3> HIDE DEF id
    <3>4. QueryFits("contract", faults', bundles'[id]) BY <3>2 DEF QueryFits
    <3>5. "contract" \in Phases \ {"none"} BY DEF Phases
    <3> QED BY <1>7, <1>8, <2>2, <3>2, <3>3, <3>4, <3>5
  <2>4. CASE result # "ok"
    <3>1. Asked(q, "refused", 0) BY <1>8, <2>4 DEF Ask
    <3>2. "refused" \in Phases \ {"none"} BY DEF Phases
    <3> QED BY <1>7, <1>8, <2>2, <3>1, <3>2
  <2> QED BY <2>3, <2>4
<1>9. CASE ~(Readable(q) /\ q.kind = "values")
  <2>1. Kept BY <1>9, KeptAll DEF Ask
  <2>2. CASE Readable(q)
    <3>1. Asked(q, "reading", 0) /\ q.kind # "values" BY <1>9, <2>2 DEF Ask
    <3>2. "reading" \in Phases \ {"none"} BY DEF Phases
    <3> QED BY <1>7, <2>1, <3>1, <3>2
  <2>3. CASE ~Readable(q)
    <3>1. Asked(q, "refused", 0) BY <1>9, <2>3 DEF Ask
    <3>2. "refused" \in Phases \ {"none"} BY DEF Phases
    <3> QED BY <1>7, <2>1, <3>1, <3>2
  <2> QED BY <2>2, <2>3
<1> QED BY <1>8, <1>9

\* The next page is a query of its own, of the same kind.
LEMMA NextPageStep == ASSUME IInv, NextPage PROVE IInv'
PROOF
<1>1. Shaped /\ Reading /\ Querying /\ Paging BY DEF IInv
<1>2. query.phase = "answered" /\ pages.next # <<>> /\ query.kind = "resource"
      /\ UNCHANGED <<bundles, read, pages, faults>>
  BY <1>1 DEF NextPage, Paging
<1>3. read.stage = "none" BY <1>1, <1>2 DEF Reading
<1> DEFINE q == [query.wanted EXCEPT !.resources[1].offset = pages.next[1]]
           phase == IF Readable(q) THEN "reading" ELSE "refused"
<1>4. Asked(q, phase, 0) BY DEF NextPage
<1>5. "kind" \in DOMAIN q /\ q.kind = "resource" BY <1>1, <1>2 DEF Shaped
<1>6. phase \in Phases \ {"none"} /\ phase \in {"reading", "refused"} BY DEF Phases
<1> HIDE DEF q, phase
<1>7. /\ DOMAIN query' = QueryFields /\ query'.phase = phase /\ query'.kind = q.kind
      /\ query'.wanted = q /\ query'.bundle = 0
      /\ Listed(query'.done) /\ DOMAIN query'.done = {}
  BY <1>4, <1>5, <1>6, AskedFresh
<1>8. Shaped' BY <1>1, <1>2, <1>5, <1>6, <1>7 DEF Shaped
<1>9. Querying' BY <1>5, <1>6, <1>7 DEF Querying
<1>10. Reading' BY <1>2, <1>3 DEF Reading
<1>11. Paging' BY <1>5, <1>6, <1>7 DEF Paging
<1> QED BY <1>2, <1>8, <1>9, <1>10, <1>11 DEF IInv

-----------------------------------------------------------------------------
(* The steps of a draw-value query with its own bundle.                    *)

\* What the invariant says of a draw-value query that has its bundle.
LEMMA Assembling ==
  ASSUME IInv, query.phase \in {"contract", "reading", "publish", "handler"},
         query.phase = "reading" => query.todo = <<>> /\ query.kind = "values"
  PROVE  /\ query.kind = "values" /\ query.bundle \in DOMAIN bundles
         /\ Sound(bundles[query.bundle])
         /\ QueryFits(query.phase, faults, bundles[query.bundle])
         /\ read.stage = "none" /\ DOMAIN query = QueryFields /\ faults \in Nat
BY DEF IInv, Querying, Reading, Shaped

\* A step that sets the phase leaves the rest of the query.
LEMMA PhaseSet ==
  ASSUME DOMAIN query = QueryFields, NEW phase, query' = [query EXCEPT !.phase = phase]
  PROVE  /\ DOMAIN query' = QueryFields /\ query'.phase = phase /\ query'.kind = query.kind
         /\ query'.wanted = query.wanted /\ query'.done = query.done
         /\ query'.bundle = query.bundle
BY DEF QueryFields

\* The helpers of the query are checked, or it fails.
LEMMA ContractStep ==
  ASSUME IInv, NEW result \in Results, Contract(result)
  PROVE  IInv'
PROOF
<1> DEFINE next == IF /\ result = "ok" /\ disk["contract"] = 0 /\ capture.contract
                      /\ "query" \notin late /\ Len(query.wanted.updates) <= MaxReads
                   THEN "reading" ELSE "handler"
<1>1. /\ query.phase = "contract" /\ Charged(<<result>>)
      /\ Flushes(query.bundle, "preparing", result) /\ UNCHANGED <<read, pages>>
      /\ query' = [query EXCEPT !.phase = next]
  BY DEF Contract
<1>2. next \in {"reading", "handler"} OBVIOUS
<1> HIDE DEF next
<1>3. /\ query.kind = "values" /\ query.bundle \in DOMAIN bundles
      /\ QueryFits(query.phase, faults, bundles[query.bundle])
      /\ read.stage = "none" /\ DOMAIN query = QueryFields /\ faults \in Nat
  BY <1>1, Assembling
<1>4. bundles[query.bundle].state = "staged" /\ ~bundles[query.bundle].live
  BY <1>1, <1>3 DEF QueryFits
<1>5. /\ Touched(query.bundle) /\ Sound(bundles'[query.bundle])
      /\ bundles'[query.bundle].state = "staged" /\ ~bundles'[query.bundle].live
  BY <1>1, <1>3, <1>4, Flushed
<1>6. /\ DOMAIN query' = QueryFields /\ query'.phase = next /\ query'.kind = query.kind
      /\ query'.wanted = query.wanted /\ query'.done = query.done
      /\ query'.bundle = query.bundle
  BY <1>1, <1>3, PhaseSet
<1>7. faults' \in Nat /\ faults' >= faults BY <1>1, <1>3, CountedOne
<1>8. QueryFits(query'.phase, faults', bundles'[query.bundle])
  BY <1>2, <1>5, <1>6 DEF QueryFits
<1> QED BY <1>1, <1>2, <1>3, <1>4, <1>5, <1>6, <1>7, <1>8, QueryMoves DEF Phases

\* The values are written into the report, or the query fails.
LEMMA AssembleStep ==
  ASSUME IInv, NEW result \in Results, Assemble(result)
  PROVE  IInv'
PROOF
<1> DEFINE values == [i \in DOMAIN query.wanted.plans |-> Assembled(query.wanted.plans[i])]
           next == IF result = "ok" THEN "publish" ELSE "handler"
<1>1. /\ query.phase = "reading" /\ query.todo = <<>> /\ query.kind = "values"
      /\ Charged(<<result>>) /\ UNCHANGED <<read, pages>>
      /\ \/ UNCHANGED bundles /\ query' = [query EXCEPT !.phase = "handler"]
         \/ /\ Flushes(query.bundle, "succeeded", result)
            /\ query' = [query EXCEPT !.phase = next, !.values = values]
  BY DEF Assemble
<1> HIDE DEF values
<1>2. /\ query.kind = "values" /\ query.bundle \in DOMAIN bundles
      /\ Sound(bundles[query.bundle])
      /\ QueryFits(query.phase, faults, bundles[query.bundle])
      /\ read.stage = "none" /\ DOMAIN query = QueryFields /\ faults \in Nat
  BY <1>1, Assembling
<1>3. bundles[query.bundle].state = "staged" /\ ~bundles[query.bundle].live
  BY <1>1, <1>2 DEF QueryFits
<1>4. faults' \in Nat /\ faults' >= faults BY <1>1, <1>2, CountedOne
<1>5. CASE UNCHANGED bundles /\ query' = [query EXCEPT !.phase = "handler"]
  <2>1. /\ DOMAIN query' = QueryFields /\ query'.phase = "handler"
        /\ query'.kind = query.kind /\ query'.wanted = query.wanted
        /\ query'.done = query.done /\ query'.bundle = query.bundle
    BY <1>5, <1>2, PhaseSet
  <2>2. Touched(query.bundle) BY <1>5, Untouched
  <2>3. QueryFits(query'.phase, faults', bundles'[query.bundle])
    BY <1>3, <1>5, <2>1 DEF QueryFits
  <2> QED BY <1>1, <1>2, <1>3, <1>4, <1>5, <2>1, <2>2, <2>3, QueryMoves DEF Phases
<1>6. CASE /\ Flushes(query.bundle, "succeeded", result)
           /\ query' = [query EXCEPT !.phase = next, !.values = values]
  <2>1. /\ Touched(query.bundle) /\ Sound(bundles'[query.bundle])
        /\ bundles'[query.bundle].state = "staged" /\ ~bundles'[query.bundle].live
        /\ bundles'[query.bundle].report =
             Written(bundles[query.bundle].report, "succeeded", result)
    BY <1>2, <1>3, <1>6, Flushed
  <2>2. next = "publish" => bundles'[query.bundle].report = "succeeded"
    BY <2>1 DEF Written
  <2>3. next \in {"publish", "handler"} OBVIOUS
  <2> HIDE DEF next
  <2>4. /\ DOMAIN query' = QueryFields /\ query'.phase = next
        /\ query'.kind = query.kind /\ query'.wanted = query.wanted
        /\ query'.done = query.done /\ query'.bundle = query.bundle
    BY <1>6, <1>2 DEF QueryFields
  <2>5. QueryFits(query'.phase, faults', bundles'[query.bundle])
    BY <2>1, <2>2, <2>3, <2>4 DEF QueryFits
  <2> QED BY <1>1, <1>2, <1>3, <1>4, <2>1, <2>3, <2>4, <2>5, QueryMoves DEF Phases
<1> QED BY <1>1, <1>5, <1>6

\* Only a failing operation leaves a success to the handler.
LEMMA PublishQueryStep ==
  ASSUME IInv, NEW result \in Results, PublishQuery(result)
  PROVE  IInv'
PROOF
<1> DEFINE next == IF result = "ok" THEN "answered" ELSE "handler"
<1>1. /\ query.phase = "publish" /\ Charged(<<result>>) /\ UNCHANGED <<read, pages>>
      /\ Publishes(query.bundle, result) /\ query' = [query EXCEPT !.phase = next]
  BY DEF PublishQuery
<1>2. next \in {"answered", "handler"} /\ (next = "answered" <=> result = "ok") OBVIOUS
<1> HIDE DEF next
<1>3. /\ query.kind = "values" /\ query.bundle \in DOMAIN bundles
      /\ QueryFits(query.phase, faults, bundles[query.bundle])
      /\ read.stage = "none" /\ DOMAIN query = QueryFields /\ faults \in Nat
  BY <1>1, Assembling
<1>4. /\ bundles[query.bundle].state = "staged" /\ ~bundles[query.bundle].live
      /\ bundles[query.bundle].report = "succeeded"
  BY <1>1, <1>3 DEF QueryFits
<1>5. /\ Touched(query.bundle) /\ Sound(bundles'[query.bundle]) /\ ~bundles'[query.bundle].live
      /\ bundles'[query.bundle].state = IF result = "before" THEN "staged" ELSE "succeeded"
  BY <1>1, <1>3, <1>4, Published
<1>6. /\ DOMAIN query' = QueryFields /\ query'.phase = next /\ query'.kind = query.kind
      /\ query'.wanted = query.wanted /\ query'.done = query.done
      /\ query'.bundle = query.bundle
  BY <1>1, <1>3, PhaseSet
<1>7. faults' \in Nat /\ faults' >= faults /\ (result # "ok" => faults' > 0)
  BY <1>1, <1>3, CountedOne
<1>8. QueryFits(query'.phase, faults', bundles'[query.bundle])
  BY <1>2, <1>5, <1>6, <1>7 DEF QueryFits
<1> QED BY <1>1, <1>2, <1>3, <1>4, <1>5, <1>6, <1>7, <1>8, QueryMoves DEF Phases

\* Without a failing operation, the bundle of a refused query is a failure.
LEMMA HandleQueryStep ==
  ASSUME IInv, NEW flushed \in Results, NEW result \in Results, HandleQuery(flushed, result)
  PROVE  IInv'
PROOF
<1>1. /\ query.phase = "handler" /\ Charged(<<flushed, result>>) /\ UNCHANGED <<read, pages>>
      /\ bundles' = Settles(query.bundle, TRUE, flushed, result)
      /\ query' = [query EXCEPT !.phase = "refused"]
  BY DEF HandleQuery
<1>2. /\ query.kind = "values" /\ query.bundle \in DOMAIN bundles
      /\ QueryFits(query.phase, faults, bundles[query.bundle])
      /\ read.stage = "none" /\ DOMAIN query = QueryFields /\ faults \in Nat
  BY <1>1, Assembling
<1>3. /\ ~bundles[query.bundle].live
      /\ bundles[query.bundle].state = "staged"
           \/ (bundles[query.bundle].state = "succeeded" /\ faults # 0)
  BY <1>1, <1>2 DEF QueryFits
<1>4. /\ faults' \in Nat /\ faults' >= faults
      /\ flushed # "ok" \/ result # "ok" => faults' > 0
  BY <1>1, <1>2, CountedTwo
<1>5. /\ Touched(query.bundle) /\ Sound(bundles'[query.bundle])
      /\ bundles'[query.bundle].live = bundles[query.bundle].live
      /\ bundles[query.bundle].state # "staged"
           => bundles'[query.bundle] = bundles[query.bundle]
      /\ bundles[query.bundle].state = "staged" /\ flushed = "ok" /\ result # "before"
           => bundles'[query.bundle].state = "failed"
  <2>1. PICK c \in BOOLEAN : c /\ bundles' = Settles(query.bundle, c, flushed, result)
    <3> WITNESS TRUE \in BOOLEAN
    <3> QED BY <1>1
  <2>2. c => ~bundles[query.bundle].live BY <1>3
  <2>3. query.bundle \in DOMAIN bundles /\ bundles' = Settles(query.bundle, c, flushed, result)
    BY <1>2, <2>1
  <2>4. /\ Touched(query.bundle) /\ Sound(bundles'[query.bundle])
        /\ bundles'[query.bundle].live = bundles[query.bundle].live
        /\ bundles[query.bundle].state # "staged"
             => bundles'[query.bundle] = bundles[query.bundle]
        /\ bundles[query.bundle].state = "staged" /\ c /\ flushed = "ok" /\ result # "before"
             => bundles'[query.bundle].state = "failed"
    BY <2>2, <2>3, Settled
  <2> QED BY <2>1, <2>4
<1>6. /\ DOMAIN query' = QueryFields /\ query'.phase = "refused" /\ query'.kind = query.kind
      /\ query'.wanted = query.wanted /\ query'.done = query.done
      /\ query'.bundle = query.bundle
  BY <1>1, <1>2, PhaseSet
<1>7. bundles'[query.bundle].state = "failed" \/ faults' # 0
  BY <1>2, <1>3, <1>4, <1>5
<1>8. QueryFits(query'.phase, faults', bundles'[query.bundle])
  BY <1>3, <1>5, <1>6, <1>7 DEF QueryFits
<1>9. bundles[query.bundle].state = "succeeded" => bundles'[query.bundle].state = "succeeded"
  BY <1>5
<1> QED BY <1>1, <1>2, <1>4, <1>5, <1>6, <1>8, <1>9, QueryMoves DEF Phases

-----------------------------------------------------------------------------
(* What happens around the queries, and the invariant.                     *)

\* A step that changes neither a bundle nor the place of a read or query.
LEMMA QuietStep ==
  ASSUME IInv, UNCHANGED <<bundles, query, read, pages, faults>>
  PROVE  IInv'
BY DEF IInv, Shaped, Reading, Querying, Paging, Here

\* A copy of a read's bundle changes.
LEMMA ChangeCopyStep ==
  ASSUME IInv, NEW f \in Inputs, ChangeCopy(f)
  PROVE  IInv'
PROOF
<1>1. /\ read.stage \in {"data", "rec", "launch", "running", "judge"}
      /\ bundles' = [bundles EXCEPT ![Here].copies[f] = changes + 1]
      /\ UNCHANGED <<query, read, pages, faults>>
  BY DEF ChangeCopy
<1>2. /\ Here \in DOMAIN bundles /\ ReadFits(read, bundles[Here]) /\ Sound(bundles[Here])
      /\ DOMAIN read = ReadFields /\ faults \in Nat
  BY <1>1, Open
<1>3. bundles[Here].state = "staged" BY <1>1, <1>2 DEF ReadFits, Before
<1> DEFINE b == [bundles[Here] EXCEPT !.copies = [bundles[Here].copies EXCEPT ![f] = changes + 1]]
<1>4. bundles' = [bundles EXCEPT ![Here] = b] BY <1>1
<1>5. DOMAIN b = BundleFields /\ b.state = "staged" /\ b.live = bundles[Here].live
  BY <1>2, <1>3 DEF Sound, BundleFields
<1> HIDE DEF b
<1>6. Touched(Here) /\ bundles'[Here] = b
  BY <1>4, <1>2, Replaced DEF Touched, IInv, Shaped
<1>7. Sound(bundles'[Here]) BY <1>5, <1>6 DEF Sound
<1>8. ReadFits(read', bundles'[Here]) BY <1>1, <1>2, <1>5, <1>6 DEF ReadFits
<1>9. read'.stage \in Stages \ {"none"} BY <1>1 DEF Stages, Before
<1> QED BY <1>1, <1>2, <1>3, <1>6, <1>7, <1>8, <1>9, ReadMoves

\* A process that stayed ends.
LEMMA TreeEndsStep ==
  ASSUME IInv, NEW id \in DOMAIN bundles, TreeEnds(id)
  PROVE  IInv'
PROOF
<1>1. Shaped /\ Reading /\ Querying /\ Paging /\ Sound(bundles[id]) BY DEF IInv
<1> DEFINE b == [bundles[id] EXCEPT !.live = FALSE]
<1>2. bundles' = [bundles EXCEPT ![id] = b] /\ UNCHANGED <<query, read, pages, faults>>
  BY DEF TreeEnds
<1>3. DOMAIN b = BundleFields /\ b.state = bundles[id].state
      /\ b.report = bundles[id].report /\ ~b.live
  BY <1>1 DEF Sound, BundleFields
<1> HIDE DEF b
<1>4. /\ Listed(bundles') /\ DOMAIN bundles' = DOMAIN bundles /\ bundles'[id] = b
      /\ \A j \in DOMAIN bundles : j # id => bundles'[j] = bundles[j]
  BY <1>1, <1>2, Replaced DEF Shaped
<1>5. \A j \in DOMAIN bundles :
        /\ bundles'[j].state = bundles[j].state /\ bundles'[j].report = bundles[j].report
        /\ ~bundles[j].live => ~bundles'[j].live
  BY <1>3, <1>4
<1>6. \A j \in DOMAIN bundles' : Sound(bundles'[j])
  <2>1. \A j \in DOMAIN bundles : Sound(bundles[j]) BY DEF IInv
  <2>2. Sound(b) BY <1>1, <1>3 DEF Sound
  <2> QED BY <2>1, <2>2, <1>4
<1>7. Reading' BY <1>1, <1>2, <1>4, <1>5 DEF Reading, ReadFits, Here
<1>8. Querying'
  <2>1. \A j \in DOMAIN bundles : QueryFits(query.phase, faults, bundles[j])
                                    => QueryFits(query.phase, faults, bundles'[j])
    BY <1>5 DEF QueryFits
  <2> QED BY <1>1, <1>2, <1>4, <1>5, <2>1 DEF Querying
<1>9. Shaped' /\ Paging' BY <1>1, <1>2, <1>4 DEF Shaped, Paging
<1> QED BY <1>6, <1>7, <1>8, <1>9 DEF IInv

\* The invariant holds in every state, for every value of the constants.
THEOREM ReadsInvariant == Spec => []IInv
PROOF
<1>1. ASSUME Init PROVE IInv
  <2>1. Listed(<<>>) /\ DOMAIN <<>> = {} BY DEF Listed, ToSet
  <2>2. bundles = <<>> /\ query.phase = "none" /\ read.stage = "none" /\ faults = 0
        /\ pages.next = <<>>
    BY <1>1 DEF Init, NoQuery, NoRead, NoPages
  <2> QED BY <2>1, <2>2 DEF IInv, Shaped, Reading, Querying, Paging, Phases, Stages
<1>2. ASSUME IInv, [Next]_vars PROVE IInv'
  <2> USE <1>2
  <2>1. CASE \E q \in Queries, r \in Results : Ask(q, r) BY <2>1, AskStep
  <2>2. CASE \E r \in Results : Contract(r) \/ Prepare(r) \/ Launch(r) \/ Judge(r) \/ Publish(r)
    BY <2>2, ContractStep, PrepareStep, LaunchStep, JudgeStep, PublishStep
  <2>3. CASE \E r \in Results : Assemble(r) \/ PublishQuery(r)
    BY <2>3, AssembleStep, PublishQueryStep
  <2>4. CASE \E f, r \in Results : NextRead(f, r) \/ Handle(f, r) \/ HandleQuery(f, r)
    BY <2>4, NextReadStep, HandleStep, HandleQueryStep
  <2>5. CASE \E p \in Processes, r \in Results : Profile(p, r) \/ Answer(p, r)
    BY <2>5, ProfileStep, AnswerStep
  <2>6. CASE \E f \in Inputs, r \in Results : Snapshot(f, r) BY <2>6, SnapshotStep
  <2>7. CASE Receive \/ ReadThrew \/ AnswerQuery \/ NextPage
    BY <2>7, ReceiveStep, ReadThrewStep, AnswerQueryStep, NextPageStep
  <2>8. CASE \E f \in Files : ChangeFile(f) BY <2>8, QuietStep DEF ChangeFile
  <2>9. CASE \E f \in Inputs : ChangeCopy(f) BY <2>9, ChangeCopyStep
  <2>10. CASE \E id \in DOMAIN bundles : TreeEnds(id) BY <2>10, TreeEndsStep
  <2>11. CASE \E d \in {"query", "read"} : DeadlinePasses(d)
    BY <2>11, QuietStep DEF DeadlinePasses
  <2>12. CASE UNCHANGED vars BY <2>12, QuietStep DEF vars
  <2> QED
    BY <2>1, <2>2, <2>3, <2>4, <2>5, <2>6, <2>7, <2>8, <2>9, <2>10, <2>11, <2>12 DEF Next
<1> QED BY <1>1, <1>2, PTL DEF Spec

\* No bundle of a read or of a draw-value query is published while a worker may
\* still write into it, whatever failed first (ResourceRead.cpp:212,
\* DescriptorRead.cpp:318).
THEOREM AlwaysWorkersGone == Spec => []WorkersGoneBeforePublication
PROOF
<1>1. ASSUME IInv PROVE WorkersGoneBeforePublication
  BY <1>1 DEF IInv, Sound, WorkersGoneBeforePublication
<1> QED BY <1>1, ReadsInvariant, PTL

\* The report of a published bundle agrees with its manifest, an answer rests on
\* successes, and without a failing store operation the bundle of a refused
\* draw-value query is published as a failure (ResourceRead.cpp:203-217,
\* Inspection.cpp:1431-1448).
THEOREM AlwaysReportsAgree == Spec => []ReportsAgree
PROOF
<1>1. ASSUME IInv PROVE ReportsAgree
  <2>1. \A id \in DOMAIN bundles :
          bundles[id].state \in {"succeeded", "failed"} => bundles[id].report = bundles[id].state
    BY <1>1 DEF IInv, Sound
  <2>2. query.phase = "answered" =>
          /\ \A i \in DOMAIN query.done : bundles[query.done[i].base.artifact].state = "succeeded"
          /\ query.kind = "values" => bundles[query.bundle].state = "succeeded"
    BY <1>1 DEF IInv, Querying, QueryFits
  <2>3. query.phase = "refused" /\ faults = 0 /\ query.bundle # 0
          => bundles[query.bundle].state = "failed"
    BY <1>1 DEF IInv, Querying, QueryFits
  <2> QED BY <2>1, <2>2, <2>3 DEF ReportsAgree
<1> QED BY <1>1, ReadsInvariant, PTL

-----------------------------------------------------------------------------
(* Numbers, and functions that are defined step by step.                   *)

Less == {ss \in Nat \X Nat : ss[1] < ss[2]}

\* Numbers have a least one.
LEMMA LeastOf == ASSUME NEW S \in SUBSET Nat, S # {} PROVE \E x \in S : \A y \in S : x <= y
PROOF
<1>1. IsWellFoundedOn(Less, Nat) BY NatLessThanWellFounded DEF Less, OpToRel
<1>2. PICK x \in S : \A y \in S : ~(<<y, x>> \in Less) BY <1>1, WFMin
<1>3. ASSUME NEW y \in S PROVE x <= y
  <2>1. ~(y < x) BY <1>2 DEF Less
  <2> QED BY <2>1
<1> QED BY <1>3

\* So Min is one of them.
LEMMA MinOf == ASSUME NEW S \in SUBSET Nat, S # {} PROVE Min(S) \in S
BY LeastOf DEF Min

\* And of one number that number.
LEMMA MinOne == ASSUME NEW n \in Nat PROVE Min({n}) = n
PROOF
<1>1. {n} \in SUBSET Nat /\ {n} # {} OBVIOUS
<1> QED BY <1>1, MinOf

\* A set of numbers that holds 0 and with each number the next one.
LEMMA Counting ==
  ASSUME NEW N \in Nat, NEW S, 0 \in S, \A n \in 1..N : n - 1 \in S => n \in S
  PROVE  0..N \subseteq S
PROOF
<1> DEFINE Out == {n \in 0..N : n \notin S}
<1>1. SUFFICES ASSUME Out # {} PROVE FALSE OBVIOUS
<1>2. Out \in SUBSET Nat OBVIOUS
<1>3. PICK x \in Out : \A y \in Out : x <= y BY <1>1, <1>2, LeastOf
<1>4. x # 0 /\ x \in 1..N BY <1>3
<1>5. x - 1 \in 0..N /\ ~(x <= x - 1) BY <1>4
<1>6. x - 1 \in S BY <1>3, <1>5
<1> QED BY <1>3, <1>4, <1>6

\* A function that is defined step by step exists.
Unfolds(h, N, V, base, step) ==
  h \in [0..N -> V] /\ h[0] = base /\ \A n \in 1..N : h[n] = step[n][h[n - 1]]

LEMMA Stepwise ==
  ASSUME NEW N \in Nat, NEW V, NEW base \in V, NEW step \in [1..N -> [V -> V]]
  PROVE  \E h : Unfolds(h, N, V, base, step)
PROOF
<1> DEFINE Steps(h, n) == h[0] = base /\ \A k \in 1..n : h[k] = step[k][h[k - 1]]
           S == {n \in 0..N : \E h \in [0..N -> V] : Steps(h, n)}
<1>1. 0 \in S
  <2> DEFINE h == [k \in 0..N |-> base]
  <2>1. h \in [0..N -> V] /\ Steps(h, 0) OBVIOUS
  <2> HIDE DEF h, Steps
  <2> QED BY <2>1
<1>2. ASSUME NEW n \in 1..N, n - 1 \in S PROVE n \in S
  <2>1. PICK h \in [0..N -> V] : Steps(h, n - 1) BY <1>2
  <2>2. n - 1 \in 0..N /\ h[n - 1] \in V BY <2>1
  <2> DEFINE g == [h EXCEPT ![n] = step[n][h[n - 1]]]
  <2>3. g \in [0..N -> V] BY <2>2
  <2>4. g[0] = base /\ g[n] = step[n][h[n - 1]] /\ \A k \in 0..N : k # n => g[k] = h[k]
    BY <2>1
  <2>5. ASSUME NEW k \in 1..n PROVE g[k] = step[k][g[k - 1]]
    <3>1. k - 1 \in 0..N /\ k - 1 # n /\ k \in 0..N OBVIOUS
    <3>2. g[k - 1] = h[k - 1] BY <2>4, <3>1
    <3>3. CASE k = n BY <2>4, <3>2, <3>3
    <3>4. CASE k # n
      <4>1. k \in 1..(n - 1) BY <3>4
      <4>2. h[k] = step[k][h[k - 1]] BY <2>1, <4>1
      <4>3. g[k] = h[k] BY <2>4, <3>1, <3>4
      <4> HIDE DEF g
      <4> QED BY <3>2, <4>2, <4>3
    <3> QED BY <3>3, <3>4
  <2> HIDE DEF g
  <2>6. Steps(g, n) BY <2>4, <2>5
  <2> QED BY <2>3, <2>6
<1> HIDE DEF S
<1>3. 0..N \subseteq S BY <1>1, <1>2, Counting
<1>4. N \in S BY <1>3
<1> QED BY <1>4 DEF S, Unfolds

\* The requests that are read are among those that are made.
LEMMA DistinctOf ==
  ASSUME NEW s, Listed(s)
  PROVE  Distinct(s) \in Seq(ToSet(s))
PROOF
<1> DEFINE N == Len(s)  V == Seq(ToSet(s))
           Next0(n, c) == IF n = 0 THEN <<>> ELSE IF s[n] \in ToSet(c) THEN c ELSE Append(c, s[n])
           step == [n \in 1..N |-> [c \in V |-> IF s[n] \in ToSet(c) THEN c ELSE Append(c, s[n])]]
           cache == CHOOSE c : c = [n \in 0..N |->
                      IF n = 0 THEN <<>>
                      ELSE IF s[n] \in ToSet(c[n - 1]) THEN c[n - 1] ELSE Append(c[n - 1], s[n])]
<1>1. N \in Nat /\ DOMAIN s = 1..N /\ \A n \in 1..N : s[n] \in ToSet(s)
  BY DEF Listed, ToSet
<1>2. <<>> \in V /\ step \in [1..N -> [V -> V]]
  BY <1>1
<1>3. PICK h : Unfolds(h, N, V, <<>>, step)
  <2> HIDE DEF V, step, N
  <2> QED BY <1>1, <1>2, Stepwise
<1>4. \A n \in 1..N : /\ h[n - 1] \in V
                      /\ h[n] = IF s[n] \in ToSet(h[n - 1]) THEN h[n - 1] ELSE Append(h[n - 1], s[n])
  <2> SUFFICES ASSUME NEW n \in 1..N PROVE /\ h[n - 1] \in V
                      /\ h[n] = IF s[n] \in ToSet(h[n - 1]) THEN h[n - 1] ELSE Append(h[n - 1], s[n])
    OBVIOUS
  <2>1. n - 1 \in 0..N BY <1>1
  <2>2. h[n - 1] \in V BY <2>1, <1>3 DEF Unfolds
  <2> HIDE DEF V
  <2> QED BY <2>2, <1>3 DEF Unfolds
<1>5. h = [n \in 0..N |-> IF n = 0 THEN <<>>
             ELSE IF s[n] \in ToSet(h[n - 1]) THEN h[n - 1] ELSE Append(h[n - 1], s[n])]
  <2> HIDE DEF V, step, N
  <2>1. \A n \in 0..N : n = 0 \/ n \in 1..N BY <1>1
  <2>2. h = [n \in 0..N |-> h[n]] BY <1>3 DEF Unfolds
  <2> QED BY <1>3, <1>4, <2>1, <2>2 DEF Unfolds
<1>6. cache = [n \in 0..N |-> IF n = 0 THEN <<>>
             ELSE IF s[n] \in ToSet(cache[n - 1]) THEN cache[n - 1] ELSE Append(cache[n - 1], s[n])]
  BY <1>5
<1> HIDE DEF cache, N
<1> DEFINE S == {n \in 0..N : cache[n] \in V}
<1>7. 0 \in S BY <1>1, <1>2, <1>6
<1>8. ASSUME NEW n \in 1..N, n - 1 \in S PROVE n \in S
  <2>1. n \in 0..N /\ n # 0 /\ s[n] \in ToSet(s) BY <1>1
  <2>2. cache[n] = IF s[n] \in ToSet(cache[n - 1]) THEN cache[n - 1] ELSE Append(cache[n - 1], s[n])
    BY <1>6, <2>1
  <2>3. cache[n - 1] \in V BY <1>8
  <2>4. cache[n] \in V BY <2>1, <2>2, <2>3
  <2> HIDE DEF V
  <2> QED BY <2>1, <2>4
<1>9. 0..N \subseteq S
  <2> HIDE DEF S
  <2> QED BY <1>1, <1>7, <1>8, Counting
<1>10. cache[N] \in V BY <1>9, <1>1
<1>11. Distinct(s) = cache[N] BY DEF Distinct, cache, N
<1> QED BY <1>10, <1>11

\* The segments of plans are those of one of them.
LEMMA SegmentsOf ==
  ASSUME NEW plans, Listed(plans), NEW T, \A i \in DOMAIN plans : plans[i].segments \in Seq(T)
  PROVE  Segments(plans) \in Seq(T)
PROOF
<1> DEFINE N == Len(plans)  V == Seq(T)  parts == [i \in DOMAIN plans |-> plans[i].segments]
           flat == CHOOSE c : c = [i \in 1..N |-> IF i = 1 THEN parts[i] ELSE c[i - 1] \o parts[i]]
           step == [n \in 1..N |-> [c \in V |-> IF n = 1 THEN parts[n] ELSE c \o parts[n]]]
<1>1. N \in Nat /\ DOMAIN plans = 1..N BY DEF Listed
<1>2. /\ DOMAIN parts = 1..N /\ \A i \in 1..N : parts[i] \in V
      /\ Len(parts) = N
  BY <1>1
<1>3. CASE N = 0
  <2>1. Segments(plans) = parts /\ parts = <<>> BY <1>1, <1>2, <1>3 DEF Segments, FlattenSeq
  <2> HIDE DEF parts
  <2> QED BY <2>1
<1>4. CASE N # 0
  <2> HIDE DEF parts
  <2>1. <<>> \in V /\ step \in [1..N -> [V -> V]] BY <1>1, <1>2
  <2>2. PICK h : Unfolds(h, N, V, <<>>, step)
    <3>1. N \in Nat BY <1>1
    <3> HIDE DEF V, step, N
    <3> QED BY <2>1, <3>1, Stepwise
  <2>3. \A n \in 1..N : h[n - 1] \in V /\ h[n] = IF n = 1 THEN parts[n] ELSE h[n - 1] \o parts[n]
    <3> SUFFICES ASSUME NEW n \in 1..N
                 PROVE h[n - 1] \in V /\ h[n] = IF n = 1 THEN parts[n] ELSE h[n - 1] \o parts[n]
      OBVIOUS
    <3>1. h[n - 1] \in V BY <2>2, <1>1 DEF Unfolds
    <3> HIDE DEF V
    <3> QED BY <3>1, <2>2 DEF Unfolds
  <2> DEFINE g == [i \in 1..N |-> h[i]]
  <2>4. g = [i \in 1..N |-> IF i = 1 THEN parts[i] ELSE g[i - 1] \o parts[i]]
    <3> HIDE DEF V, step
    <3>1. \A i \in 1..N : i # 1 => i - 1 \in 1..N BY <1>1
    <3> QED BY <2>3, <3>1
  <2> HIDE DEF g
  <2>5. flat = [i \in 1..N |-> IF i = 1 THEN parts[i] ELSE flat[i - 1] \o parts[i]] BY <2>4
  <2> HIDE DEF flat
  <2> DEFINE S == {n \in 0..N : n = 0 \/ flat[n] \in V}
  <2>6. ASSUME NEW n \in 1..N, n - 1 \in S PROVE n \in S
    <3>1. flat[n] = IF n = 1 THEN parts[n] ELSE flat[n - 1] \o parts[n] BY <2>5
    <3>2. n # 1 => flat[n - 1] \in V BY <2>6
    <3>3. flat[n] \in V BY <1>2, <3>1, <3>2
    <3> QED BY <3>3, <1>1
  <2>7. 0..N \subseteq S
    <3>1. 0 \in S BY <1>1
    <3> HIDE DEF S, N
    <3> QED BY <1>1, <2>6, <3>1, Counting
  <2>8. flat[N] \in V BY <2>7, <1>1, <1>4
  <2>9. Segments(plans) = flat[N]
    BY <1>2, <1>4 DEF Segments, FlattenSeq, flat, parts
  <2> QED BY <2>8, <2>9
<1> QED BY <1>3, <1>4

\* What a list holds is finite.
LEMMA HeldFinite == ASSUME NEW s, NEW n \in Nat, DOMAIN s = 1..n PROVE IsFiniteSet(ToSet(s))
PROOF
<1> DEFINE f == [i \in 1..n |-> s[i]]
<1>1. f \in Surjection(1..n, ToSet(s)) BY DEF ToSet, Surjection
<1>2. IsFiniteSet(1..n) BY FS_Interval
<1> HIDE DEF f
<1> QED BY <1>1, <1>2, FS_Surjection

\* SetToSeq names each member once.
LEMMA Enumerates ==
  ASSUME NEW S, IsFiniteSet(S)
  PROVE  LET s == SetToSeq(S)
         IN /\ DOMAIN s = 1..Cardinality(S) /\ Cardinality(S) \in Nat /\ Len(s) = Cardinality(S)
            /\ \A x \in S : \E i \in DOMAIN s : s[i] = x
            /\ \A i, j \in DOMAIN s : s[i] = s[j] => i = j
PROOF
<1> DEFINE n == Cardinality(S)  s == SetToSeq(S)
<1>1. n \in Nat /\ ExistsBijection(1..n, S) BY FS_CardinalityType
<1>2. PICK f \in Bijection(1..n, S) : TRUE BY <1>1 DEF ExistsBijection
<1>3. f \in [1..n -> S] /\ \A i, j \in DOMAIN f : f[i] = f[j] => i = j
  BY <1>2 DEF Bijection, Injection, IsInjective
<1>4. s \in [1..n -> S] /\ \A i, j \in DOMAIN s : s[i] = s[j] => i = j
  BY <1>3 DEF SetToSeq, IsInjective
<1>5. s \in Injection(1..n, S) BY <1>4 DEF Injection, IsInjective
<1>6. s \in Surjection(1..n, S)
  <2>1. IsFiniteSet(1..n) /\ Cardinality(1..n) = n BY <1>1, FS_Interval
  <2> HIDE DEF s
  <2> QED BY <1>5, <2>1, FS_Injection
<1>7. \A x \in S : \E i \in DOMAIN s : s[i] = x
  <2> HIDE DEF s
  <2> QED BY <1>6 DEF Surjection
<1> HIDE DEF s
<1>8. Len(s) = n BY <1>1, <1>4
<1> QED BY <1>1, <1>4, <1>7, <1>8 DEF s

\* An update as it is captured.
WriteOk(w) ==
  /\ {"dst", "buffers", "images"} \subseteq DOMAIN w
  /\ Listed(w.buffers) /\ Listed(w.images)
  /\ \A k \in DOMAIN w.buffers : "buffer" \in DOMAIN w.buffers[k]
  /\ \A k \in DOMAIN w.images : {"view", "sampler"} \subseteq DOMAIN w.images[k]

\* Every update is captured so.
LEMMA WritesOk ==
  ASSUME NEW handle \in Write
  PROVE  /\ Listed(Updates[handle].writes)
         /\ \A i \in DOMAIN Updates[handle].writes : WriteOk(Updates[handle].writes[i])
BY WorkersAssumption DEF Write, WriteOk

\* A write has finitely many handles.
LEMMA HandlesFinite ==
  ASSUME NEW w, WriteOk(w)
  PROVE  IsFiniteSet(HandlesOf(w))
PROOF
<1> DEFINE Views == [i \in DOMAIN w.images |-> Key("image_view", w.images[i].view)]
           Samplers == [i \in DOMAIN w.images |-> Key("sampler", w.images[i].sampler)]
           Buffers == [i \in DOMAIN w.buffers |-> Key("buffer", w.buffers[i].buffer)]
           All == {Key("descriptor_set", w.dst)} \cup ToSet(Views) \cup ToSet(Samplers) \cup ToSet(Buffers)
<1>1. /\ Len(w.images) \in Nat /\ DOMAIN w.images = 1..Len(w.images)
      /\ Len(w.buffers) \in Nat /\ DOMAIN w.buffers = 1..Len(w.buffers)
  BY DEF WriteOk, Listed
<1>2. /\ DOMAIN Views = 1..Len(w.images) /\ DOMAIN Samplers = 1..Len(w.images)
      /\ DOMAIN Buffers = 1..Len(w.buffers)
  BY <1>1
<1>3. HandlesOf(w) \subseteq All BY DEF HandlesOf, ToSet
<1> HIDE DEF Views, Samplers, Buffers
<1>4. IsFiniteSet(ToSet(Views)) /\ IsFiniteSet(ToSet(Samplers)) /\ IsFiniteSet(ToSet(Buffers))
  BY <1>1, <1>2, HeldFinite
<1>5. IsFiniteSet({Key("descriptor_set", w.dst)}) BY FS_Singleton
<1>6. IsFiniteSet(All) BY <1>4, <1>5, FS_Union
<1> HIDE DEF All
<1> QED BY <1>3, <1>6, FS_Subset

\* The objects of an update, each once.
ObjectsOf(writes) == UNION {HandlesOf(writes[i]) : i \in DOMAIN writes}

LEMMA ObjectsFinite ==
  ASSUME NEW writes, Listed(writes), \A i \in DOMAIN writes : WriteOk(writes[i])
  PROVE  IsFiniteSet(ObjectsOf(writes))
PROOF
<1> DEFINE f == [i \in DOMAIN writes |-> HandlesOf(writes[i])]
<1>1. Len(writes) \in Nat /\ DOMAIN f = 1..Len(writes) /\ DOMAIN writes = 1..Len(writes)
  BY DEF Listed
<1>2. \A T \in ToSet(f) : IsFiniteSet(T) BY HandlesFinite DEF ToSet
<1>3. ObjectsOf(writes) = UNION ToSet(f) BY DEF ObjectsOf, ToSet
<1> HIDE DEF f
<1>4. IsFiniteSet(ToSet(f)) BY <1>1, HeldFinite
<1> QED BY <1>2, <1>3, <1>4, FS_UNION

\* A token stands for the object that the helper asked it for.
LEMMA TokenNames ==
  ASSUME NEW S, IsFiniteSet(S), NEW type, NEW id, id # 0 => Key(type, id) \in S
  PROVE  LET objects == SetToSeq(S)
         IN ObjectOf(objects, Token(objects, type, id)) = IF id = 0 THEN NoObject ELSE Key(type, id)
PROOF
<1> DEFINE objects == SetToSeq(S)
<1>1. CASE id = 0 BY <1>1 DEF ObjectOf, Token
<1>2. CASE id # 0
  <2>1. /\ DOMAIN objects = 1..Cardinality(S) /\ Cardinality(S) \in Nat
        /\ \A x \in S : \E i \in DOMAIN objects : objects[i] = x
        /\ \A i, j \in DOMAIN objects : objects[i] = objects[j] => i = j
    BY Enumerates
  <2> HIDE DEF objects
  <2>2. PICK k \in DOMAIN objects : objects[k] = Key(type, id) BY <1>2, <2>1
  <2>3. {i \in DOMAIN objects : SameObject(objects[i], Key(type, id))} = {k}
    BY <2>1, <2>2 DEF SameObject
  <2>4. k \in Nat /\ k > 0 /\ Min({k}) = k BY <2>1, <2>2, MinOne
  <2>5. Token(objects, type, id) = 999 + k BY <1>2, <2>3, <2>4 DEF Token, TokenBase
  <2>6. ObjectOf(objects, 999 + k) = objects[k]
    <3>1. 999 + k # 0 /\ (999 + k) - 1000 + 1 = k BY <2>4
    <3>2. ObjectOf(objects, 999 + k) = objects[(999 + k) - 1000 + 1] BY <3>1 DEF ObjectOf, TokenBase
    <3> QED BY <3>1, <3>2
  <2>7. ObjectOf(objects, Token(objects, type, id)) = Key(type, id) BY <2>2, <2>5, <2>6
  <2> QED BY <1>2, <2>7 DEF objects
<1> QED BY <1>1, <1>2

\* And the rows name it as the generated source does.
LEMMA SymbolNames ==
  ASSUME NEW registrations, Listed(registrations), Unambiguous(registrations), NEW type, NEW id,
         NEW nullable,
         RegisteredAs(registrations, IF id = 0 THEN NoObject ELSE Key(type, id), type, nullable)
  PROVE  Symbol(registrations, IF id = 0 THEN NoObject ELSE Key(type, id))
           = Named(registrations, type, id)
PROOF
<1>1. CASE id = 0 BY <1>1 DEF Symbol, Named
<1>2. CASE id # 0
  <2>1. Key(type, id) # NoObject BY <1>2 DEF Key, NoObject
  <2>2. Registered(registrations, Key(type, id)) # {} BY <1>2, <2>1 DEF RegisteredAs
  <2>3. PICK k \in DOMAIN registrations : registrations[k].type = type /\ registrations[k].id = id
    BY <2>2 DEF Registered, Key
  <2>4. \A i \in DOMAIN registrations :
          registrations[i].type = type /\ registrations[i].id = id => i = k
    BY <2>3 DEF Unambiguous
  <2>5. Registered(registrations, Key(type, id)) = {k} BY <2>3, <2>4 DEF Registered, Key
  <2>6. Min({k}) = k
    <3>1. k \in Nat BY DEF Listed
    <3> QED BY <3>1, MinOne
  <2>7. Symbol(registrations, Key(type, id)) = registrations[k].symbol
    BY <2>1, <2>5, <2>6 DEF Symbol
  <2> DEFINE R == {registrations[i] : i \in DOMAIN registrations}
             c == CHOOSE r \in R : r.type = type /\ r.id = id
  <2>8. c \in R /\ c.type = type /\ c.id = id BY <2>3
  <2>9. c = registrations[k] BY <2>4, <2>8
  <2> QED BY <1>2, <2>7, <2>9 DEF Named, ToSet
<1> QED BY <1>1, <1>2

Three == {"dst", "buffers", "images"}

BufferAs(b, x)   == [b EXCEPT !.buffer = x]
ImageAs(m, v, s) == [m EXCEPT !.view = v, !.sampler = s]

\* v is w with its handles replaced.
Replaces(v, w, New(_, _)) ==
  /\ DOMAIN v = DOMAIN w /\ v = [f \in DOMAIN w |-> v[f]]
  /\ \A f \in DOMAIN w : f \notin Three => v[f] = w[f]
  /\ v.dst = New("descriptor_set", w.dst)
  /\ DOMAIN v.buffers = DOMAIN w.buffers /\ v.buffers = [i \in DOMAIN w.buffers |-> v.buffers[i]]
  /\ \A i \in DOMAIN w.buffers :
       v.buffers[i] = BufferAs(w.buffers[i], New("buffer", w.buffers[i].buffer))
  /\ DOMAIN v.images = DOMAIN w.images /\ v.images = [i \in DOMAIN w.images |-> v.images[i]]
  /\ \A i \in DOMAIN w.images :
       v.images[i] = ImageAs(w.images[i], New("image_view", w.images[i].view),
                                          New("sampler", w.images[i].sampler))

\* Of two replacements of a buffer the last one stays.
LEMMA BufferTwice ==
  ASSUME NEW b, "buffer" \in DOMAIN b, NEW x
  PROVE  /\ "buffer" \in DOMAIN BufferAs(b, x) /\ BufferAs(b, x).buffer = x
         /\ \A y : BufferAs(BufferAs(b, x), y) = BufferAs(b, y)
BY DEF BufferAs

\* And of two replacements of an image.
LEMMA ImageTwice ==
  ASSUME NEW m, {"view", "sampler"} \subseteq DOMAIN m, NEW v, NEW s
  PROVE  /\ {"view", "sampler"} \subseteq DOMAIN ImageAs(m, v, s)
         /\ ImageAs(m, v, s).view = v /\ ImageAs(m, v, s).sampler = s
         /\ \A v1, s1 : ImageAs(ImageAs(m, v, s), v1, s1) = ImageAs(m, v1, s1)
BY DEF ImageAs

Object(type, id) == IF id = 0 THEN NoObject ELSE Key(type, id)

\* The rows tell the objects of the update itself.
LEMMA RowObjects ==
  ASSUME NEW w, WriteOk(w), NEW S, IsFiniteSet(S), HandlesOf(w) \subseteq S
  PROVE  Replaces(Row(Hydrated(w, SetToSeq(S)), SetToSeq(S)), w, Object)
PROOF
<1> DEFINE objects == SetToSeq(S)  h == Hydrated(w, objects)  row == Row(h, objects)
<1>0. Three \subseteq DOMAIN w BY DEF WriteOk, Three
<1>1. Replaces(h, w, LAMBDA type, id : Token(objects, type, id)) 
  BY <1>0 DEF Hydrated, Replacing, Three, BufferAs, ImageAs, Replaces
<1>2. Replaces(row, h, LAMBDA type, token : ObjectOf(objects, token))
  <2> HIDE DEF h, objects
  <2>1. Three \subseteq DOMAIN h BY <1>0, <1>1 DEF Replaces
  <2> QED BY <2>1 DEF Row, Replacing, Three, BufferAs, ImageAs, Replaces, row
<1>3. ASSUME NEW type, NEW id, id # 0 => Key(type, id) \in S
      PROVE  ObjectOf(objects, Token(objects, type, id)) = Object(type, id)
  BY <1>3, TokenNames DEF Object
<1> HIDE DEF objects, h, row
<1>4. /\ w.dst # 0 => Key("descriptor_set", w.dst) \in S
      /\ \A i \in DOMAIN w.buffers : w.buffers[i].buffer # 0 => Key("buffer", w.buffers[i].buffer) \in S
      /\ \A i \in DOMAIN w.images :
           /\ w.images[i].view # 0 => Key("image_view", w.images[i].view) \in S
           /\ w.images[i].sampler # 0 => Key("sampler", w.images[i].sampler) \in S
  BY DEF HandlesOf, Key
<1>5. row.dst = Object("descriptor_set", w.dst)
  <2>1. row.dst = ObjectOf(objects, Token(objects, "descriptor_set", w.dst))
    BY <1>1, <1>2 DEF Replaces
  <2> QED BY <2>1, <1>3, <1>4
<1>6. ASSUME NEW i \in DOMAIN w.buffers
      PROVE  row.buffers[i] = BufferAs(w.buffers[i], Object("buffer", w.buffers[i].buffer))
  <2> DEFINE b == w.buffers[i]  t == Token(objects, "buffer", b.buffer)
  <2>1. "buffer" \in DOMAIN b BY DEF WriteOk
  <2>2. h.buffers[i] = BufferAs(b, t) /\ i \in DOMAIN h.buffers BY <1>1 DEF Replaces
  <2>3. row.buffers[i] = BufferAs(h.buffers[i], ObjectOf(objects, h.buffers[i].buffer))
    BY <1>2, <2>2 DEF Replaces
  <2>4. ObjectOf(objects, t) = Object("buffer", b.buffer) BY <1>3, <1>4
  <2> HIDE DEF t, b
  <2>5. row.buffers[i] = BufferAs(b, Object("buffer", b.buffer))
    BY <2>1, <2>2, <2>3, <2>4, BufferTwice
  <2> QED BY <2>5 DEF b
<1>7. ASSUME NEW i \in DOMAIN w.images
      PROVE  row.images[i] = ImageAs(w.images[i], Object("image_view", w.images[i].view),
                                                  Object("sampler", w.images[i].sampler))
  <2> DEFINE m == w.images[i]
             v == Token(objects, "image_view", m.view)  s == Token(objects, "sampler", m.sampler)
  <2>1. {"view", "sampler"} \subseteq DOMAIN m BY DEF WriteOk
  <2>2. h.images[i] = ImageAs(m, v, s) /\ i \in DOMAIN h.images BY <1>1 DEF Replaces
  <2>3. row.images[i] = ImageAs(h.images[i], ObjectOf(objects, h.images[i].view),
                                             ObjectOf(objects, h.images[i].sampler))
    BY <1>2, <2>2 DEF Replaces
  <2>4. /\ ObjectOf(objects, v) = Object("image_view", m.view)
        /\ ObjectOf(objects, s) = Object("sampler", m.sampler)
    BY <1>3, <1>4
  <2> HIDE DEF v, s, m
  <2>5. row.images[i] = ImageAs(m, Object("image_view", m.view), Object("sampler", m.sampler))
    BY <2>1, <2>2, <2>3, <2>4, ImageTwice
  <2> QED BY <2>5 DEF m
<1>8. /\ DOMAIN row = DOMAIN w /\ row = [f \in DOMAIN w |-> row[f]]
      /\ \A f \in DOMAIN w : f \notin Three => row[f] = w[f]
      /\ DOMAIN row.buffers = DOMAIN w.buffers /\ row.buffers = [i \in DOMAIN w.buffers |-> row.buffers[i]]
      /\ DOMAIN row.images = DOMAIN w.images /\ row.images = [i \in DOMAIN w.images |-> row.images[i]]
  BY <1>1, <1>2 DEF Replaces
<1>9. Replaces(row, w, Object) BY <1>5, <1>6, <1>7, <1>8 DEF Replaces
<1> QED BY <1>9 DEF row, h, objects

\* Two replacements that agree.
LEMMA Agree ==
  ASSUME NEW u, NEW v, NEW w, Three \subseteq DOMAIN w,
         DOMAIN u = DOMAIN w, u = [f \in DOMAIN w |-> u[f]],
         DOMAIN v = DOMAIN w, v = [f \in DOMAIN w |-> v[f]],
         \A f \in DOMAIN w : f \notin Three => u[f] = v[f],
         u.dst = v.dst, u.buffers = v.buffers, u.images = v.images
  PROVE  u = v
PROOF
<1>1. \A f \in DOMAIN w : u[f] = v[f] BY DEF Three
<1> QED BY <1>1

\* A qualified row, in the symbols of the source, says what the update says.
LEMMA RowMeans ==
  ASSUME NEW w, WriteOk(w), NEW S, IsFiniteSet(S), HandlesOf(w) \subseteq S,
         NEW regs, Listed(regs), Unambiguous(regs),
         RowQualified(Row(Hydrated(w, SetToSeq(S)), SetToSeq(S)), regs)
  PROVE  Replacing(Row(Hydrated(w, SetToSeq(S)), SetToSeq(S)),
                   LAMBDA type, object : Symbol(regs, object)) = Meaning(regs, w)
PROOF
<1> DEFINE row == Row(Hydrated(w, SetToSeq(S)), SetToSeq(S))
           u == Replacing(row, LAMBDA type, object : Symbol(regs, object))
           v == Meaning(regs, w)
<1>1. Replaces(row, w, Object) BY RowObjects
<1>2. Three \subseteq DOMAIN w BY DEF WriteOk, Three
<1>3. RowQualified(row, regs) OBVIOUS
<1> HIDE DEF row
<1>4. /\ RegisteredAs(regs, row.dst, "descriptor_set", FALSE)
      /\ \A i \in DOMAIN row.buffers : RegisteredAs(regs, row.buffers[i].buffer, "buffer", TRUE)
      /\ \A i \in DOMAIN row.images :
           /\ RegisteredAs(regs, row.images[i].view, "image_view", TRUE)
           /\ RegisteredAs(regs, row.images[i].sampler, "sampler", TRUE)
  <2>1. row.type \in Images => row.buffers = <<>> BY <1>3 DEF RowQualified
  <2>2. row.type \notin Images => row.images = <<>> BY <1>3 DEF RowQualified
  <2>3. DOMAIN <<>> = {} OBVIOUS
  <2> QED BY <1>3, <2>1, <2>2, <2>3 DEF RowQualified
<1>5. Replaces(u, row, LAMBDA type, object : Symbol(regs, object))
  <2>1. Three \subseteq DOMAIN row BY <1>1, <1>2 DEF Replaces
  <2> QED BY <2>1 DEF Replacing, Three, BufferAs, ImageAs, Replaces
<1>6. Replaces(v, w, LAMBDA type, id : Named(regs, type, id))
  BY <1>2 DEF Meaning, Three, BufferAs, ImageAs, Replaces
<1>7. ASSUME NEW type, NEW id, NEW nullable, RegisteredAs(regs, Object(type, id), type, nullable)
      PROVE  Symbol(regs, Object(type, id)) = Named(regs, type, id)
  BY <1>7, SymbolNames DEF Object
<1> HIDE DEF u, v
<1>8. u.dst = v.dst
  <2>1. row.dst = Object("descriptor_set", w.dst) BY <1>1 DEF Replaces
  <2>2. Symbol(regs, row.dst) = Named(regs, "descriptor_set", w.dst) BY <1>4, <1>7, <2>1
  <2> QED BY <1>5, <1>6, <2>2 DEF Replaces
<1>9. ASSUME NEW i \in DOMAIN w.buffers PROVE u.buffers[i] = v.buffers[i]
  <2> DEFINE b == w.buffers[i]
  <2>1. "buffer" \in DOMAIN b BY DEF WriteOk
  <2>2. row.buffers[i] = BufferAs(b, Object("buffer", b.buffer)) /\ i \in DOMAIN row.buffers
    BY <1>1 DEF Replaces
  <2>3. u.buffers[i] = BufferAs(row.buffers[i], Symbol(regs, row.buffers[i].buffer))
    BY <1>5, <2>2 DEF Replaces
  <2>4. v.buffers[i] = BufferAs(b, Named(regs, "buffer", b.buffer)) BY <1>6 DEF Replaces
  <2>5. RegisteredAs(regs, row.buffers[i].buffer, "buffer", TRUE) BY <1>4, <2>2
  <2> HIDE DEF b
  <2>6. row.buffers[i].buffer = Object("buffer", b.buffer) BY <2>1, <2>2, BufferTwice
  <2>7. Symbol(regs, row.buffers[i].buffer) = Named(regs, "buffer", b.buffer) BY <1>7, <2>5, <2>6
  <2> QED BY <2>1, <2>2, <2>3, <2>4, <2>7, BufferTwice
<1>10. ASSUME NEW i \in DOMAIN w.images PROVE u.images[i] = v.images[i]
  <2> DEFINE m == w.images[i]
  <2>1. {"view", "sampler"} \subseteq DOMAIN m BY DEF WriteOk
  <2>2. /\ row.images[i] = ImageAs(m, Object("image_view", m.view), Object("sampler", m.sampler))
        /\ i \in DOMAIN row.images
    BY <1>1 DEF Replaces
  <2>3. u.images[i] = ImageAs(row.images[i], Symbol(regs, row.images[i].view),
                                             Symbol(regs, row.images[i].sampler))
    BY <1>5, <2>2 DEF Replaces
  <2>4. v.images[i] = ImageAs(m, Named(regs, "image_view", m.view), Named(regs, "sampler", m.sampler))
    BY <1>6 DEF Replaces
  <2>5. /\ RegisteredAs(regs, row.images[i].view, "image_view", TRUE)
        /\ RegisteredAs(regs, row.images[i].sampler, "sampler", TRUE)
    BY <1>4, <2>2
  <2> HIDE DEF m
  <2>6. /\ row.images[i].view = Object("image_view", m.view)
        /\ row.images[i].sampler = Object("sampler", m.sampler)
    BY <2>1, <2>2, ImageTwice
  <2>7. /\ Symbol(regs, row.images[i].view) = Named(regs, "image_view", m.view)
        /\ Symbol(regs, row.images[i].sampler) = Named(regs, "sampler", m.sampler)
    BY <1>7, <2>5, <2>6
  <2> QED BY <2>1, <2>2, <2>3, <2>4, <2>7, ImageTwice
<1>11. /\ DOMAIN u.buffers = DOMAIN w.buffers /\ u.buffers = [i \in DOMAIN w.buffers |-> u.buffers[i]]
       /\ DOMAIN v.buffers = DOMAIN w.buffers /\ v.buffers = [i \in DOMAIN w.buffers |-> v.buffers[i]]
       /\ DOMAIN u.images = DOMAIN w.images /\ u.images = [i \in DOMAIN w.images |-> u.images[i]]
       /\ DOMAIN v.images = DOMAIN w.images /\ v.images = [i \in DOMAIN w.images |-> v.images[i]]
  BY <1>1, <1>5, <1>6 DEF Replaces
<1>12. u.buffers = v.buffers /\ u.images = v.images BY <1>9, <1>10, <1>11
<1>13. /\ DOMAIN u = DOMAIN w /\ u = [f \in DOMAIN w |-> u[f]]
       /\ DOMAIN v = DOMAIN w /\ v = [f \in DOMAIN w |-> v[f]]
       /\ \A f \in DOMAIN w : f \notin Three => u[f] = v[f]
  BY <1>1, <1>5, <1>6 DEF Replaces
<1>14. u = v BY <1>2, <1>8, <1>12, <1>13, Agree
<1> QED BY <1>14 DEF u, v, row

\* What the worker answers of the captured database.
Described(host, r, rec, answer) == answer # <<>> /\ answer = DescriptorWorker(host, r, 0, rec)

\* Qualified writes of the captured database are what the update says.
LEMMA DescriptorMeans ==
  ASSUME NEW host, NEW r, NEW rec, NEW count, NEW answer, NEW regs, r.handle \in Write,
         Described(host, r, rec, answer),
         Listed(regs), WritesQualified(answer[1], regs, count)
  PROVE  QualifiedWrites(answer[1], regs) = Meant(regs, r.handle)
PROOF
<1> DEFINE writes == Updates[r.handle].writes
           S == UNION {HandlesOf(writes[i]) : i \in DOMAIN writes}
           objects == SetToSeq(S)
<1>1. Listed(writes) /\ \A i \in DOMAIN writes : WriteOk(writes[i]) BY WritesOk
<1>2. IsFiniteSet(S)
  <2>1. IsFiniteSet(ObjectsOf(writes))
    <3> HIDE DEF writes
    <3> QED BY <1>1, ObjectsFinite
  <2> QED BY <2>1 DEF ObjectsOf
<1>3. WritesAt(r.handle, 0) = writes BY DEF WritesAt
<1>4. Objects(writes) = objects BY DEF Objects
<1> DEFINE h == [i \in DOMAIN writes |-> Hydrated(writes[i], objects)]
           rows == [i \in DOMAIN writes |-> Row(h[i], objects)]
<1>5. answer[1].rows = rows
  <2> HIDE DEF writes, objects
  <2> QED BY <1>3, <1>4 DEF DescriptorWorker, Described
<1>6. \A i \in DOMAIN writes : rows[i] = Row(Hydrated(writes[i], objects), objects) OBVIOUS
<1>7. DOMAIN rows = DOMAIN writes OBVIOUS
<1> HIDE DEF rows, h
<1>8. ASSUME NEW i \in DOMAIN writes
      PROVE  Replacing(rows[i], LAMBDA type, object : Symbol(regs, object)) = Meaning(regs, writes[i])
  <2>1. HandlesOf(writes[i]) \subseteq S OBVIOUS
  <2>2. RowQualified(rows[i], regs) /\ Unambiguous(regs)
    BY <1>5, <1>7 DEF WritesQualified
  <2>3. WriteOk(writes[i]) BY <1>1
  <2> DEFINE w == writes[i]
  <2>4. RowQualified(Row(Hydrated(w, SetToSeq(S)), SetToSeq(S)), regs) BY <1>6, <2>2
  <2> HIDE DEF w, S
  <2>5. Replacing(Row(Hydrated(w, SetToSeq(S)), SetToSeq(S)),
                  LAMBDA type, object : Symbol(regs, object)) = Meaning(regs, w)
    BY <1>2, <2>1, <2>2, <2>3, <2>4, RowMeans DEF w
  <2> QED BY <2>5, <1>6 DEF w
<1>9. QualifiedWrites(answer[1], regs)
        = [i \in DOMAIN rows |-> Replacing(rows[i], LAMBDA type, object : Symbol(regs, object))]
  BY <1>5 DEF QualifiedWrites
<1> QED BY <1>7, <1>8, <1>9 DEF Meant

-----------------------------------------------------------------------------
(* Ranges of bytes.                                                        *)

\* A range has as many bytes as it says.
LEMMA SliceLength ==
  ASSUME NEW data, NEW handle, NEW offset \in Nat, NEW n \in Nat
  PROVE  /\ Len(Slice(data, handle, offset, n)) = n
         /\ Slice(data, handle, offset, n) \in Seq({data} \X {handle} \X Nat)
         /\ n = 0 => Slice(data, handle, offset, n) = <<>>
         /\ Slice(data, handle, offset, n) = <<>> => n = 0
PROOF
<1> DEFINE s == Slice(data, handle, offset, n)
<1>1. s \in [1..n -> {data} \X {handle} \X Nat] /\ DOMAIN s = 1..n BY DEF Slice
<1> HIDE DEF s
<1>2. s \in Seq({data} \X {handle} \X Nat) /\ Len(s) = n BY <1>1
<1>3. s = <<>> <=> n = 0 BY <1>2
<1> QED BY <1>2, <1>3 DEF s

\* A range and the range after it are one range.
LEMMA SliceJoined ==
  ASSUME NEW data, NEW handle, NEW offset \in Nat, NEW n \in Nat, NEW m \in Nat
  PROVE  Slice(data, handle, offset, n) \o Slice(data, handle, offset + n, m)
           = Slice(data, handle, offset, n + m)
PROOF
<1> DEFINE s == Slice(data, handle, offset, n)  t == Slice(data, handle, offset + n, m)
           u == Slice(data, handle, offset, n + m)  T == {data} \X {handle} \X Nat
<1>1. /\ s \in Seq(T) /\ Len(s) = n /\ t \in Seq(T) /\ Len(t) = m
      /\ u \in Seq(T) /\ Len(u) = n + m
  BY SliceLength
<1>2. /\ \A i \in 1..n : s[i] = <<data, handle, offset + i - 1>>
      /\ \A i \in 1..m : t[i] = <<data, handle, (offset + n) + i - 1>>
      /\ \A i \in 1..(n + m) : u[i] = <<data, handle, offset + i - 1>>
  BY DEF Slice
<1> HIDE DEF s, t, u, T
<1>3. s \o t \in Seq(T) /\ Len(s \o t) = n + m BY <1>1
<1>4. ASSUME NEW i \in 1..(n + m) PROVE (s \o t)[i] = u[i]
  <2>1. CASE i <= n
    <3>1. (s \o t)[i] = s[i] BY <1>1, <2>1
    <3> QED BY <1>2, <2>1, <3>1
  <2>2. CASE ~(i <= n)
    <3>1. (s \o t)[i] = t[i - n] /\ i - n \in 1..m
      <4>1. i - n \in 1..m BY <2>2
      <4>2. (s \o t)[i] = IF i <= n THEN s[i] ELSE t[i - n] BY <1>1, ConcatProperties
      <4> QED BY <4>1, <4>2, <2>2
    <3>2. (offset + n) + (i - n) - 1 = offset + i - 1 OBVIOUS
    <3>3. t[i - n] = <<data, handle, (offset + n) + (i - n) - 1>> BY <1>2, <3>1
    <3>4. u[i] = <<data, handle, offset + i - 1>> BY <1>2
    <3> QED BY <3>1, <3>2, <3>3, <3>4
  <2> QED BY <2>1, <2>2
<1> QED BY <1>1, <1>3, <1>4, SeqEqual DEF s, t, u

-----------------------------------------------------------------------------
(* The values of a plan.                                                   *)

\* What a query asks of a plan.
PlanOk(p) ==
  /\ p.base \in Nat /\ p.length \in Nat /\ Listed(p.segments)
  /\ \A k \in DOMAIN p.segments : LET s == p.segments[k] IN
       s.handle \in Opaque /\ {s.first, s.count, s.at} \subseteq Nat

\* A read of a draw-value query that asks for a range returned it whole.
WholeRange(d) ==
  LET r == d.base.request
  IN r.worker = "resource" => d.bytes = Slice(0, r.handle, r.offset, r.length)

\* A segment that was read has the bytes that it names.
LEMMA ReadOfIs ==
  ASSUME NEW n \in Nat, DOMAIN query.done = 1..n, NEW s, ReadsOf(s) # {},
         \A i \in DOMAIN query.done : WholeRange(query.done[i])
  PROVE  ReadOf(s).bytes = Slice(0, s.handle, s.first, s.count)
PROOF
<1>1. ReadsOf(s) \in SUBSET Nat BY DEF ReadsOf
<1>2. Min(ReadsOf(s)) \in ReadsOf(s) BY <1>1, MinOf
<1> DEFINE d == query.done[Min(ReadsOf(s))]
<1>3. d.base.request = SegmentRequest(s) /\ WholeRange(d) BY <1>2 DEF ReadsOf
<1>4. ReadOf(s) = d BY DEF ReadOf
<1> HIDE DEF d
<1> QED BY <1>3, <1>4 DEF WholeRange, SegmentRequest

\* Where a byte of a value lies in the segment that covers it.
LEMMA Between ==
  ASSUME NEW base \in Nat, NEW m \in Nat, NEW at \in Nat, NEW count \in Nat, NEW first \in Nat,
         base + m - at \in 0..(count - 1)
  PROVE  /\ base + m - at + 1 \in 1..count
         /\ first + (base + m - at + 1) - 1 = first + base + m - at
OBVIOUS

\* The plans that are covered are assembled from the database.
LEMMA AssembledIs ==
  ASSUME NEW n \in Nat, DOMAIN query.done = 1..n,
         \A i \in DOMAIN query.done : WholeRange(query.done[i]),
         NEW p, PlanOk(p), Covers(p)
  PROVE  ValueExact(p, Assembled(p))
PROOF
<1>1. Len(Assembled(p)) = p.length BY DEF Assembled, PlanOk
<1>2. ASSUME NEW i \in DOMAIN p.segments, NEW m \in 0..(p.length - 1),
             p.base + m - p.segments[i].at \in 0..(p.segments[i].count - 1)
      PROVE  Assembled(p)[m + 1] = <<0, p.segments[i].handle,
                                     p.segments[i].first + p.base + m - p.segments[i].at>>
  <2> DEFINE s == p.segments[i]  k == p.base + m
  <2>1. /\ p.base \in Nat /\ p.length \in Nat /\ m \in Nat
        /\ s.first \in Nat /\ s.count \in Nat /\ s.at \in Nat
    BY DEF PlanOk
  <2>2. i \in Covering(p, k) BY <1>2, <2>1 DEF Covering
  <2>3. Covering(p, k) = {i}
    <3>1. Cardinality(Covering(p, k)) = 1
      <4>1. k \in p.base..(p.base + p.length - 1) BY <2>1
      <4> QED BY <4>1 DEF Covers
    <3>2. IsFiniteSet(Covering(p, k))
      <4>1. Covering(p, k) \subseteq 1..Len(p.segments) /\ Len(p.segments) \in Nat
        BY DEF Covering, PlanOk, Listed
      <4>2. IsFiniteSet(1..Len(p.segments)) BY <4>1, FS_Interval
      <4> QED BY <4>1, <4>2, FS_Subset
    <3> QED BY <2>2, <3>1, <3>2, FS_Singleton
  <2>4. Min({i}) = i
    <3>1. i \in Nat BY DEF PlanOk, Listed
    <3> QED BY <3>1, MinOne
  <2>5. ReadOf(s).bytes = Slice(0, s.handle, s.first, s.count)
    <3>1. ReadsOf(s) # {} BY DEF Covers
    <3> QED BY <3>1, ReadOfIs
  <2>6. Assembled(p)[m + 1] = ReadOf(s).bytes[k - s.at + 1]
    <3>1. m + 1 \in 1..p.length /\ p.base + (m + 1) - 1 = k BY <2>1
    <3>2. Assembled(p)[m + 1] =
            LET k0 == p.base + (m + 1) - 1
                s0 == p.segments[Min(Covering(p, k0))]
            IN ReadOf(s0).bytes[k0 - s0.at + 1]
      BY <3>1 DEF Assembled
    <3> HIDE DEF k, s
    <3> QED BY <3>1, <3>2, <2>3, <2>4 DEF s
  <2>7. k - s.at + 1 \in 1..s.count /\ s.first + (k - s.at + 1) - 1 = s.first + p.base + m - s.at
    <3>1. p.base + m - s.at \in 0..(s.count - 1) BY <1>2
    <3>2. p.base + m - s.at + 1 \in 1..s.count
      <4> HIDE DEF s
      <4> QED BY <2>1, <3>1, Between
    <3>3. s.first + (p.base + m - s.at + 1) - 1 = s.first + p.base + m - s.at
      <4> HIDE DEF s
      <4> QED BY <2>1, <3>1, Between
    <3>4. s.at \in Nat /\ p.base \in Nat /\ m \in Nat BY <2>1
    <3>5. k - s.at = p.base + m - s.at
      <4> HIDE DEF s
      <4> QED BY <3>4
    <3> HIDE DEF s, k
    <3> QED BY <3>2, <3>3, <3>5
  <2>8. Slice(0, s.handle, s.first, s.count)[k - s.at + 1] = <<0, s.handle, s.first + (k - s.at + 1) - 1>>
    <3> HIDE DEF s, k
    <3> QED BY <2>7 DEF Slice
  <2> QED BY <2>5, <2>6, <2>7, <2>8
<1> QED BY <1>1, <1>2 DEF ValueExact

-----------------------------------------------------------------------------
(* What a read returned is what the database holds.                        *)

\* A read asks for what its query may ask for.
RequestOk(kind, r) ==
  /\ r.worker \in Workers
  /\ r.worker = "descriptor" => kind # "resource" /\ r.handle \in Write
  /\ r.worker = "resource" =>
       kind # "descriptor" /\ r.handle \in Opaque /\ r.offset \in Nat /\ r.length \in Nat

\* A resource read returned the range asked for of the database whose
\* fingerprints it reports, and the offset that follows it; a descriptor read
\* returned what the update says; and every read of a query about a draw read
\* the captured database, one of a draw value all that it asked for.
ReadExactly(registrations, kind, d) ==
  LET r     == d.base.request
      total == Extent(r.handle, d.base.inputs["rec"])
      n     == Least(r.length, total - r.offset)
  IN /\ RequestOk(kind, r)
     /\ kind # "resource" => d.base.inputs = Captured
     /\ r.worker = "resource" =>
          /\ total \in Nat /\ r.offset <= total /\ r.length > 0
          /\ d.bytes = Slice(d.base.inputs["data"], r.handle, r.offset, n)
          /\ d.next = IF r.offset + n < total THEN <<r.offset + n>> ELSE <<>>
          /\ kind = "values" => n = r.length
     /\ r.worker = "descriptor" => d.writes = Meant(registrations, r.handle)

ReadsAreTheDatabase ==
  query.phase # "none" =>
    \A i \in DOMAIN query.done : ReadExactly(capture.registrations, query.kind, query.done[i])

\* No version is seen before its change.
Versions ==
  /\ changes \in Nat /\ DOMAIN disk = Files
  /\ \A f \in Files : disk[f] \in 0..changes

Asks(r) == r.request.worker
Reads(r) ==
  IF Asks(r) = "resource"
  THEN ResourceWorker(installed.host, r.request, r.inputs["data"], r.inputs["rec"])
  ELSE DescriptorWorker(installed.host, r.request, r.inputs["data"], r.inputs["rec"])

Qualified(r) == WritesQualified(r.answer[1], capture.registrations, r.request.count)

FromData   == {"rec", "launch", "running", "judge"}    \* data.bin is copied
FromRec    == {"launch", "running", "judge"}           \* and data.bin.rec

\* While the worker's binary is the one that was fingerprinted it is the one
\* that told its profile, and the one that answers; while the copies are those
\* that were fingerprinted it answers from them.
Traced(r, b) ==
  /\ r.inputs = [f \in Inputs |-> r.inputs[f]] /\ DOMAIN b.copies = Inputs
  /\ r.stage \in {"profile", "data"} \cup FromData => r.worker \in 0..changes
  /\ r.stage \in {"data"} \cup FromData /\ disk[Asks(r)] = r.worker => Good(Asks(r), r.worker)
  /\ r.stage \in FromData =>
       /\ r.inputs["data"] \in 0..changes
       /\ Asks(r) = "descriptor" => r.inputs["data"] = 0
  /\ r.stage \in FromRec =>
       /\ r.inputs["rec"] \in 0..changes
       /\ Asks(r) = "descriptor" => r.inputs["rec"] = 0
  /\ r.stage = "running" /\ disk[Asks(r)] = r.worker => r.image = r.worker
  /\ r.stage \in {"judge", "publish", "returned"} => r.answer # <<>>
  /\ r.stage = "judge" /\ disk[Asks(r)] = r.worker /\ b.copies = r.inputs => r.answer = Reads(r)
  /\ r.stage \in {"publish", "returned"} =>
       /\ r.answer = Reads(r)
       /\ Asks(r) = "descriptor" => r.inputs = Captured /\ Qualified(r)

Tracing ==
  read.stage \notin {"none", "threw"} /\ Asks(read) \in Workers => Traced(read, bundles[Here])

EInv == Versions /\ Tracing /\ ReadsAreTheDatabase

-----------------------------------------------------------------------------
(* What a query wants.                                                     *)

\* What is still to read is what the query may ask for; a query about a
\* resource makes one read, the one it was asked for.
Wanting ==
  /\ capture \in Captures
  /\ query.phase # "none" =>
       /\ QueryOk(query.wanted)
       /\ Listed(query.todo) /\ \A i \in DOMAIN query.todo : RequestOk(query.kind, query.todo[i])
       /\ query.kind = "resource" =>
            \/ query.todo = query.wanted.resources /\ DOMAIN query.done = {}
            \/ /\ query.todo = <<>> /\ DOMAIN query.done = {1}
               /\ query.done[1].base.request = query.wanted.resources[1]
       /\ read.stage # "none" => read.request = Head(query.todo)

\* A sequence over a set is a list of members of it.
LEMMA HeldBy ==
  ASSUME NEW T, NEW s \in Seq(T)
  PROVE  /\ Listed(s) /\ DOMAIN s = 1..Len(s) /\ Len(s) \in Nat
         /\ \A i \in DOMAIN s : s[i] \in T
PROOF
<1>1. DOMAIN s = 1..Len(s) /\ Len(s) \in Nat /\ \A i \in DOMAIN s : s[i] \in T OBVIOUS
<1>2. \A i \in 1..Len(s) : s[i] \in ToSet(s) BY <1>1 DEF ToSet
<1>3. s = [i \in 1..Len(s) |-> s[i]] OBVIOUS
<1>4. s \in Seq(ToSet(s)) BY <1>1, <1>2, <1>3, SeqDef
<1> QED BY <1>1, <1>4 DEF Listed

\* And a list of members is one.
LEMMA HeldIn ==
  ASSUME NEW s, Listed(s), NEW T, \A i \in DOMAIN s : s[i] \in T
  PROVE  s \in Seq(T)
PROOF
<1>1. DOMAIN s = 1..Len(s) /\ Len(s) \in Nat /\ s = [i \in 1..Len(s) |-> s[i]] BY DEF Listed
<1> QED BY <1>1, SeqDef

\* What a query asks for is what it may ask for.
LEMMA RequestedOk ==
  ASSUME NEW q, QueryOk(q)
  PROVE  /\ Listed(Requested(q)) /\ \A i \in DOMAIN Requested(q) : RequestOk(q.kind, Requested(q)[i])
         /\ q.kind = "resource" => Requested(q) = q.resources
PROOF
<1> DEFINE S == {s \in UNION {ToSet(q.plans[i].segments) : i \in DOMAIN q.plans} :
                   s.handle \in Opaque /\ {s.first, s.count, s.at} \subseteq Nat}
           A == ToSet(q.updates) \cup ToSet(q.resources) \cup {SegmentRequest(s) : s \in S}
           T == {r \in A : RequestOk(q.kind, r)}
<1>1. q.updates \in Seq(T)
  <2>1. Listed(q.updates) BY DEF QueryOk
  <2>2. ASSUME NEW i \in DOMAIN q.updates PROVE q.updates[i] \in T
    <3>1. q.kind # "resource" BY DEF QueryOk
    <3>2. RequestOk(q.kind, q.updates[i]) BY <3>1 DEF QueryOk, RequestOk, Workers
    <3> QED BY <3>2 DEF ToSet
  <2> HIDE DEF T
  <2> QED BY <2>1, <2>2, HeldIn
<1>2. q.resources \in Seq(T)
  <2>1. Listed(q.resources) BY DEF QueryOk
  <2>2. ASSUME NEW i \in DOMAIN q.resources PROVE q.resources[i] \in T
    <3>1. q.kind # "descriptor" BY DEF QueryOk
    <3>2. RequestOk(q.kind, q.resources[i]) BY <3>1 DEF QueryOk, RequestOk, Workers
    <3> QED BY <3>2 DEF ToSet
  <2> HIDE DEF T
  <2> QED BY <2>1, <2>2, HeldIn
<1>3. q.kind = "values" =>
        Distinct([i \in DOMAIN Segments(q.plans) |-> SegmentRequest(Segments(q.plans)[i])]) \in Seq(T)
  <2>1. SUFFICES ASSUME q.kind = "values"
                 PROVE Distinct([i \in DOMAIN Segments(q.plans) |-> SegmentRequest(Segments(q.plans)[i])])
                         \in Seq(T)
    OBVIOUS
  <2> DEFINE segments == Segments(q.plans)
             requests == [i \in DOMAIN segments |-> SegmentRequest(segments[i])]
  <2>2. segments \in Seq(S)
    <3>1. \A i \in DOMAIN q.plans : q.plans[i].segments \in Seq(S)
      <4> TAKE i \in DOMAIN q.plans
      <4>1. Listed(q.plans[i].segments) BY DEF QueryOk
      <4>2. \A k \in DOMAIN q.plans[i].segments : q.plans[i].segments[k] \in S
        BY DEF QueryOk, ToSet
      <4> HIDE DEF S
      <4> QED BY <4>1, <4>2, HeldIn
    <3>2. Listed(q.plans) BY DEF QueryOk
    <3> HIDE DEF S
    <3> QED BY <3>1, <3>2, SegmentsOf
  <2> HIDE DEF segments
  <2>3. \A s \in S : SegmentRequest(s) \in T
    BY <2>1 DEF SegmentRequest, RequestOk, Workers
  <2> HIDE DEF S, T
  <2>4. DOMAIN segments = 1..Len(segments) /\ Len(segments) \in Nat
        /\ \A i \in DOMAIN segments : segments[i] \in S
    BY <2>2, HeldBy
  <2>5. requests \in Seq(T)
    <3>1. \A i \in 1..Len(segments) : SegmentRequest(segments[i]) \in T BY <2>3, <2>4
    <3> QED BY <2>4, <3>1
  <2> HIDE DEF requests
  <2>6. Listed(requests) /\ \A i \in DOMAIN requests : requests[i] \in T BY <2>5, HeldBy
  <2>7. Distinct(requests) \in Seq(ToSet(requests)) BY <2>6, DistinctOf
  <2>8. ToSet(requests) \subseteq T BY <2>6 DEF ToSet
  <2>9. Distinct(requests) \in Seq(T)
    <3>1. /\ Listed(Distinct(requests))
          /\ \A i \in DOMAIN Distinct(requests) : Distinct(requests)[i] \in ToSet(requests)
      BY <2>7, HeldBy
    <3> QED BY <2>8, <3>1, HeldIn
  <2> QED BY <2>9 DEF requests, segments
<1> HIDE DEF T
<1>4. Requested(q) \in Seq(T)
  <2>1. q.updates \o q.resources \in Seq(T) BY <1>1, <1>2
  <2> QED BY <1>3, <2>1 DEF Requested
<1>5. Listed(Requested(q)) /\ \A i \in DOMAIN Requested(q) : Requested(q)[i] \in T
  BY <1>4, HeldBy
<1>6. q.kind = "resource" => Requested(q) = q.resources
  <2>1. q.kind = "resource" => q.updates = <<>> BY DEF QueryOk
  <2>2. <<>> \o q.resources = q.resources BY <1>2
  <2> QED BY <2>1, <2>2 DEF Requested
<1> QED BY <1>5, <1>6 DEF T

\* A query begins with what it wants.
LEMMA AskedWants ==
  ASSUME capture \in Captures, UNCHANGED capture, read'.stage = "none",
         NEW q, QueryOk(q), NEW phase, NEW id, Asked(q, phase, id)
  PROVE  Wanting'
PROOF
<1>1. /\ query'.wanted = q /\ query'.todo = Requested(q) /\ query'.kind = q.kind
      /\ query'.done = <<>>
  BY DEF Asked
<1>2. DOMAIN <<>> = {} OBVIOUS
<1> QED BY <1>1, <1>2, RequestedOk DEF Wanting

\* A step that leaves what is to do.
LEMMA WantingKept ==
  ASSUME Wanting, UNCHANGED capture,
         query'.phase # "none" =>
           /\ query.phase # "none" /\ query'.wanted = query.wanted /\ query'.todo = query.todo
           /\ query'.done = query.done /\ query'.kind = query.kind,
         read'.stage # "none" => read.stage # "none" /\ read'.request = read.request
  PROVE  Wanting'
BY DEF Wanting

-----------------------------------------------------------------------------
(* The steps of a read, again, for what it reads.                          *)

\* A step of the read leaves what was read before it.
LEMMA TraceKeeps ==
  ASSUME EInv, UNCHANGED <<changes, disk, query, capture>>, Tracing'
  PROVE  EInv'
BY DEF EInv, Versions, ReadsAreTheDatabase

\* What the invariants say of a read that is open.
LEMMA Trace ==
  ASSUME IInv, EInv, read.stage \notin {"none", "threw"}, Asks(read) \in Workers
  PROVE  /\ Here \in DOMAIN bundles /\ bundles[Here].state \in {"staged", "succeeded"}
         /\ read.stage \in {"running", "judge", "publish"} \cup Before => bundles[Here].state = "staged"
         /\ DOMAIN read = ReadFields /\ DOMAIN bundles[Here] = BundleFields
         /\ Traced(read, bundles[Here])
         /\ Asks(read) \in Files /\ disk[Asks(read)] \in 0..changes /\ changes \in Nat
PROOF
<1>1. /\ Here \in DOMAIN bundles /\ ReadFits(read, bundles[Here]) /\ Sound(bundles[Here])
      /\ DOMAIN read = ReadFields
  BY Open
<1>2. Traced(read, bundles[Here]) BY DEF EInv, Tracing
<1>3. Asks(read) \in Files /\ disk[Asks(read)] \in 0..changes /\ changes \in Nat
  BY DEF EInv, Versions, Files
<1>4. read.stage \in Stages BY DEF IInv, Shaped
<1>5. /\ bundles[Here].state \in {"staged", "succeeded"}
      /\ read.stage \in {"running", "judge", "publish"} \cup Before => bundles[Here].state = "staged"
  BY <1>1, <1>4 DEF ReadFits, Stages
<1> QED BY <1>1, <1>2, <1>3, <1>5 DEF Sound

\* A read that goes to its handler has nothing to say of its answer.
LEMMA TraceFails ==
  ASSUME IInv, EInv, read.stage \notin {"none", "threw"},
         read' = [read EXCEPT !.stage = "handler"], bundles'[Here].copies = bundles[Here].copies
  PROVE  Tracing'
PROOF
<1>1. DOMAIN read = ReadFields BY DEF IInv, Shaped
<1>2. /\ read'.stage = "handler" /\ read'.inputs = read.inputs /\ Here' = Here
      /\ Asks(read)' = Asks(read)
  BY <1>1 DEF ReadFields, Here, Asks
<1>3. Asks(read) \in Workers => Traced(read, bundles[Here]) BY DEF EInv, Tracing
<1>4. Asks(read) \in Workers => Traced(read, bundles[Here])'
  BY <1>2, <1>3 DEF Traced, FromData, FromRec
<1> QED BY <1>2, <1>4 DEF Tracing

\* The worker is fingerprinted.
LEMMA PrepareTraces ==
  ASSUME IInv, EInv, NEW result \in Results, Prepare(result)
  PROVE  EInv'
PROOF
<1>1. /\ read.stage = "prepare" /\ Flushes(Here, "preparing", result)
      /\ UNCHANGED <<changes, disk, query, capture>>
      /\ \/ read' = [read EXCEPT !.stage = "profile", !.worker = disk[Kind]]
         \/ read' = [read EXCEPT !.stage = "handler"]
  BY DEF Prepare
<1>2. bundles'[Here].copies = bundles[Here].copies
  <2>1. Here \in DOMAIN bundles /\ bundles[Here].state = "staged"
    BY <1>1, Open DEF ReadFits, Before
  <2> QED BY <1>1, <2>1, Flushed
<1>3. CASE read' = [read EXCEPT !.stage = "handler"]
  <2>1. Tracing' BY <1>1, <1>2, <1>3, TraceFails
  <2> QED BY <1>1, <2>1, TraceKeeps
<1>4. CASE read' = [read EXCEPT !.stage = "profile", !.worker = disk[Kind]]
  <2>1. DOMAIN read = ReadFields BY <1>1 DEF IInv, Shaped
  <2>2. /\ read'.stage = "profile" /\ read'.inputs = read.inputs /\ Here' = Here
        /\ Asks(read)' = Asks(read) /\ read'.worker = disk[Asks(read)]
    BY <1>4, <2>1 DEF ReadFields, Here, Asks, Kind
  <2>3. ASSUME Asks(read) \in Workers PROVE Traced(read, bundles[Here])'
    <3>1. Traced(read, bundles[Here]) /\ disk[Asks(read)] \in 0..changes
      BY <1>1, <2>3, Trace
    <3> QED BY <1>1, <1>2, <2>2, <3>1 DEF Traced, FromData, FromRec
  <2>4. Tracing' BY <2>2, <2>3 DEF Tracing
  <2> QED BY <1>1, <2>4, TraceKeeps
<1> QED BY <1>1, <1>3, <1>4

\* The worker that is on disk tells its profile.
LEMMA ProfileTraces ==
  ASSUME IInv, EInv, NEW process \in Processes, NEW result \in Results, Profile(process, result)
  PROVE  EInv'
PROOF
<1>1. read.stage = "profile" /\ UNCHANGED <<changes, disk, query, installed, capture>>
  BY DEF Profile
<1>2. CASE Expired
  <2>1. read' = [read EXCEPT !.stage = "handler"] /\ UNCHANGED bundles
    BY <1>2 DEF Profile
  <2>2. Tracing' BY <1>1, <2>1, TraceFails
  <2> QED BY <1>1, <2>2, TraceKeeps
<1>3. CASE ~Expired
  <2> DEFINE next == IF process = "exited" /\ result = "ok" /\ Good(Kind, disk[Kind])
                     THEN "data" ELSE "handler"
             over == process \in {"exited", "failed"}
             report == IF process = "thrown" THEN bundles[Here].report
                       ELSE Written(bundles[Here].report, "preparing", result)
             b == [bundles[Here] EXCEPT !.live = Left(process), !.report = report]
  <2>1. read' = [read EXCEPT !.cleanup = over, !.stage = next]
    BY <1>3 DEF Profile
  <2>2. DOMAIN read = ReadFields BY <1>1 DEF IInv, Shaped
  <2>3. Here \in DOMAIN bundles /\ DOMAIN bundles[Here] = BundleFields
    BY <1>1, Open DEF Sound
  <2>4. bundles' = [bundles EXCEPT ![Here] = b] BY <1>3, <2>3 DEF Profile
  <2>5. bundles'[Here].copies = bundles[Here].copies
    <3>1. bundles'[Here] = b BY <2>3, <2>4
    <3> HIDE DEF report
    <3> QED BY <2>3, <3>1 DEF BundleFields
  <2>6. next \in {"data", "handler"} /\ (next = "data" => Good(Asks(read), disk[Asks(read)]))
    BY DEF Kind, Asks
  <2> HIDE DEF next, over
  <2>7. /\ read'.stage = next /\ read'.inputs = read.inputs /\ Here' = Here
        /\ Asks(read)' = Asks(read) /\ read'.worker = read.worker
    BY <2>1, <2>2 DEF ReadFields, Here, Asks
  <2>8. ASSUME Asks(read) \in Workers PROVE Traced(read, bundles[Here])'
    <3>1. Traced(read, bundles[Here]) BY <1>1, <2>8, Trace
    <3>2. read.worker \in 0..changes /\ read.inputs = [f \in Inputs |-> read.inputs[f]]
          /\ DOMAIN bundles[Here].copies = Inputs
      BY <1>1, <3>1 DEF Traced
    <3>3. next = "data" /\ disk[Asks(read)] = read.worker
            => Good(Asks(read), read.worker)
      BY <2>6
    <3>4. Good(Asks(read), read.worker)' = Good(Asks(read), read.worker)
      BY <1>1, <2>7 DEF Good
    <3> QED BY <1>1, <2>5, <2>6, <2>7, <3>2, <3>3, <3>4 DEF Traced, FromData, FromRec
  <2>9. Tracing' BY <2>6, <2>7, <2>8 DEF Tracing
  <2> QED BY <1>1, <2>9, TraceKeeps
<1> QED BY <1>2, <1>3

\* A file is copied, and the copy is fingerprinted.
LEMMA SnapshotTraces ==
  ASSUME IInv, EInv, NEW f \in Inputs, NEW result \in Results, Snapshot(f, result)
  PROVE  EInv'
PROOF
<1>1. /\ read.stage = f /\ f \in {"data", "rec"} /\ UNCHANGED <<changes, disk, query, installed, capture>>
  BY DEF Snapshot, Inputs
<1> DEFINE next == IF Kind = "descriptor" /\ disk[f] # Captured[f] THEN "handler"
                   ELSE IF f = "data" THEN "rec" ELSE "launch"
<1>2. \/ read' = [read EXCEPT !.stage = "handler"] /\ UNCHANGED bundles
      \/ /\ bundles' = [bundles EXCEPT ![Here].copies[f] = disk[f]]
         /\ read' = [read EXCEPT !.inputs[f] = disk[f], !.stage = next]
  BY DEF Snapshot
<1>3. CASE read' = [read EXCEPT !.stage = "handler"] /\ UNCHANGED bundles
  <2>1. Tracing' BY <1>1, <1>3, TraceFails
  <2> QED BY <1>1, <2>1, TraceKeeps
<1>4. CASE /\ bundles' = [bundles EXCEPT ![Here].copies[f] = disk[f]]
           /\ read' = [read EXCEPT !.inputs[f] = disk[f], !.stage = next]
  <2>1. DOMAIN read = ReadFields BY <1>1 DEF IInv, Shaped
  <2>2. Here \in DOMAIN bundles /\ DOMAIN bundles[Here] = BundleFields
    BY <1>1, Open DEF Sound
  <2>3. /\ next \in {"rec", "launch", "handler"} /\ (next = "rec" => f = "data")
        /\ next = "launch" => f = "rec"
        /\ Asks(read) = "descriptor" /\ next # "handler" => disk[f] = 0
    BY <1>1 DEF Kind, Asks, Captured
  <2> HIDE DEF next
  <2>4. /\ read'.stage = next /\ read'.inputs = [read.inputs EXCEPT ![f] = disk[f]]
        /\ Here' = Here /\ Asks(read)' = Asks(read) /\ read'.worker = read.worker
    BY <1>4, <2>1 DEF ReadFields, Here, Asks
  <2>5. bundles'[Here].copies = [bundles[Here].copies EXCEPT ![f] = disk[f]]
    BY <1>4, <2>2 DEF BundleFields
  <2>6. ASSUME Asks(read) \in Workers PROVE Traced(read, bundles[Here])'
    <3>1. Traced(read, bundles[Here]) /\ changes \in Nat BY <1>1, <2>6, Trace
    <3>2. disk[f] \in 0..changes BY <1>1 DEF EInv, Versions, Files, Inputs
    <3>3. /\ read'.inputs = [g \in Inputs |-> read'.inputs[g]] /\ read'.inputs[f] = disk[f]
          /\ \A g \in Inputs : g # f => read'.inputs[g] = read.inputs[g]
          /\ DOMAIN bundles'[Here].copies = Inputs
      BY <2>4, <2>5, <3>1 DEF Traced
    <3>4. read.worker \in 0..changes
          /\ (disk[Asks(read)] = read.worker => Good(Asks(read), read.worker))
      BY <1>1, <3>1 DEF Traced, FromData
    <3>5. Good(Asks(read), read.worker)' = Good(Asks(read), read.worker)
      BY <1>1, <2>4 DEF Good
    <3>6. next = "rec" => read'.inputs["data"] = disk[f] BY <2>3, <3>3
    <3>7. next = "launch" =>
            /\ read'.inputs["rec"] = disk[f] /\ read'.inputs["data"] = read.inputs["data"]
            /\ read.inputs["data"] \in 0..changes
            /\ Asks(read) = "descriptor" => read.inputs["data"] = 0
      BY <1>1, <2>3, <3>1, <3>3 DEF Traced, FromData, Inputs
    <3> QED
      BY <1>1, <2>3, <2>4, <3>2, <3>3, <3>4, <3>5, <3>6, <3>7 DEF Traced, FromData, FromRec
  <2>7. Tracing' BY <2>3, <2>4, <2>6 DEF Tracing
  <2> QED BY <1>1, <2>7, TraceKeeps
<1> QED BY <1>2, <1>3, <1>4

\* The worker starts from the binary on disk: if that is the one fingerprinted,
\* so is the one that runs.
LEMMA LaunchTraces ==
  ASSUME IInv, EInv, NEW result \in Results, Launch(result)
  PROVE  EInv'
PROOF
<1>1. read.stage = "launch" /\ UNCHANGED <<changes, disk, query, installed, capture>>
  BY DEF Launch
<1>2. DOMAIN read = ReadFields BY <1>1 DEF IInv, Shaped
<1>3. /\ Here \in DOMAIN bundles /\ DOMAIN bundles[Here] = BundleFields
      /\ bundles[Here].state = "staged"
  BY <1>1, Open DEF Sound, ReadFits, Before
<1>4. CASE result # "ok" \/ Expired
  <2>1. Flushes(Here, "running", result) /\ read' = [read EXCEPT !.stage = "handler"]
    BY <1>4 DEF Launch
  <2>2. bundles'[Here].copies = bundles[Here].copies BY <1>3, <2>1, Flushed
  <2>3. Tracing' BY <1>1, <2>1, <2>2, TraceFails
  <2> QED BY <1>1, <2>3, TraceKeeps
<1>5. CASE ~(result # "ok" \/ Expired)
  <2>1. /\ bundles' = [bundles EXCEPT ![Here].report = "running", ![Here].live = TRUE]
        /\ read' = [read EXCEPT !.stage = "running", !.cleanup = FALSE, !.image = disk[Kind]]
    BY <1>5 DEF Launch
  <2>2. bundles'[Here].copies = bundles[Here].copies BY <1>3, <2>1 DEF BundleFields
  <2>3. /\ read'.stage = "running" /\ read'.inputs = read.inputs /\ Here' = Here
        /\ Asks(read)' = Asks(read) /\ read'.worker = read.worker
        /\ read'.image = disk[Asks(read)]
    BY <2>1, <1>2 DEF ReadFields, Here, Asks, Kind
  <2>4. ASSUME Asks(read) \in Workers PROVE Traced(read, bundles[Here])'
    <3>1. Traced(read, bundles[Here]) BY <1>1, <2>4, Trace
    <3>2. Good(Asks(read), read.worker)' = Good(Asks(read), read.worker)
      BY <1>1, <2>3 DEF Good
    <3> QED BY <1>1, <2>2, <2>3, <3>1, <3>2 DEF Traced, FromData, FromRec
  <2>5. Tracing' BY <2>3, <2>4 DEF Tracing
  <2> QED BY <1>1, <2>5, TraceKeeps
<1> QED BY <1>4, <1>5

\* A worker that is the one fingerprinted answers from the copies.
LEMMA AnswerTraces ==
  ASSUME IInv, EInv, NEW process \in Processes, NEW result \in Results, Answer(process, result)
  PROVE  EInv'
PROOF
<1>1. read.stage = "running" /\ UNCHANGED <<changes, disk, query, installed, capture>>
  BY DEF Answer
<1>2. DOMAIN read = ReadFields BY <1>1 DEF IInv, Shaped
<1>3. Here \in DOMAIN bundles /\ DOMAIN bundles[Here] = BundleFields
  BY <1>1, Open DEF Sound
<1> DEFINE told == IF process = "exited" THEN Answers ELSE <<>>
           next == IF process = "exited" /\ result = "ok" /\ Answers # <<>> THEN "judge"
                   ELSE "handler"
           over == process \in {"exited", "failed"}
           report == IF process = "thrown" THEN bundles[Here].report
                     ELSE Written(bundles[Here].report, "running", result)
           b == [bundles[Here] EXCEPT !.live = Left(process), !.report = report]
<1>4. read' = [read EXCEPT !.cleanup = over, !.answer = told, !.stage = next] BY DEF Answer
<1>5. next \in {"judge", "handler"} /\ (next = "judge" => told = Answers /\ told # <<>>)
  OBVIOUS
<1>6. bundles' = [bundles EXCEPT ![Here] = b] BY <1>3 DEF Answer
<1>7. bundles'[Here].copies = bundles[Here].copies
  <2>1. bundles'[Here] = b BY <1>3, <1>6
  <2> HIDE DEF report
  <2> QED BY <1>3, <2>1 DEF BundleFields
<1> HIDE DEF told, next, over
<1>8. /\ read'.stage = next /\ read'.inputs = read.inputs /\ Here' = Here
      /\ read'.request = read.request /\ read'.answer = told /\ read'.worker = read.worker
  BY <1>4, <1>2 DEF ReadFields, Here
<1>9. ASSUME Asks(read) \in Workers PROVE Traced(read, bundles[Here])'
  <2>1. Traced(read, bundles[Here]) BY <1>1, <1>9, Trace
  <2>2. Asks(read)' = Asks(read) BY <1>8 DEF Asks
  <2>3. Good(Asks(read), read.worker)' = Good(Asks(read), read.worker)
    BY <1>1, <1>8, <2>2 DEF Good
  <2>4. disk[Asks(read)] = read.worker => Good(Asks(read), read.image)
    BY <1>1, <2>1 DEF Traced, FromData
  <2>5. ASSUME disk[Asks(read)] = read.worker, bundles[Here].copies = read.inputs
        PROVE  Answers = Reads(read)
    <3>1. Kind = Asks(read) /\ Good(Kind, read.image) BY <2>4, <2>5 DEF Kind, Asks
    <3> QED BY <2>5, <3>1 DEF Answers, Reads
  <2>6. Reads(read)' = Reads(read) BY <1>1, <1>8, <2>2 DEF Reads
  <2>7. next = "judge" /\ disk[Asks(read)] = read.worker
          /\ bundles[Here].copies = read.inputs => told = Reads(read)
    BY <1>5, <2>5
  <2>8. /\ read.worker \in 0..changes
        /\ disk[Asks(read)] = read.worker => Good(Asks(read), read.worker)
        /\ read.inputs["data"] \in 0..changes /\ read.inputs["rec"] \in 0..changes
        /\ Asks(read) = "descriptor" => read.inputs["data"] = 0 /\ read.inputs["rec"] = 0
        /\ read.inputs = [f \in Inputs |-> read.inputs[f]]
        /\ DOMAIN bundles[Here].copies = Inputs
    BY <1>1, <2>1 DEF Traced, FromData, FromRec
  <2> QED
    BY <1>1, <1>5, <1>7, <1>8, <2>2, <2>3, <2>6, <2>7, <2>8 DEF Traced, FromData, FromRec
<1>10. Tracing' 
  <2>1. Asks(read)' = Asks(read) BY <1>8 DEF Asks
  <2> QED BY <1>9, <2>1 DEF Tracing
<1> QED BY <1>1, <1>10, TraceKeeps

\* The answer is taken when the worker and the copies are those fingerprinted.
LEMMA JudgeTraces ==
  ASSUME IInv, EInv, NEW result \in Results, Judge(result)
  PROVE  EInv'
PROOF
<1>1. read.stage = "judge" /\ UNCHANGED <<changes, disk, query, installed, capture>>
  BY DEF Judge
<1>2. DOMAIN read = ReadFields BY <1>1 DEF IInv, Shaped
<1>3. Here \in DOMAIN bundles /\ bundles[Here].state = "staged"
  BY <1>1, Open DEF ReadFits
<1>4. \/ /\ Unmodified /\ Accepted /\ Flushes(Here, "succeeded", result)
         /\ read' = [read EXCEPT !.stage = "publish"]
      \/ /\ Flushes(Here, "succeeded", result) \/ UNCHANGED bundles
         /\ read' = [read EXCEPT !.stage = "handler"]
  BY DEF Judge
<1>5. bundles'[Here].copies = bundles[Here].copies BY <1>3, <1>4, Flushed
<1>6. CASE read' = [read EXCEPT !.stage = "handler"]
  <2>1. Tracing' BY <1>1, <1>5, <1>6, TraceFails
  <2> QED BY <1>1, <2>1, TraceKeeps
<1>7. CASE Unmodified /\ Accepted /\ read' = [read EXCEPT !.stage = "publish"]
  <2>1. /\ read'.stage = "publish" /\ read'.inputs = read.inputs /\ Here' = Here
        /\ read'.request = read.request /\ read'.answer = read.answer
    BY <1>7, <1>2 DEF ReadFields, Here
  <2>2. ASSUME Asks(read) \in Workers PROVE Traced(read, bundles[Here])'
    <3>1. Traced(read, bundles[Here]) BY <1>1, <2>2, Trace
    <3>2. Asks(read)' = Asks(read) /\ Reads(read)' = Reads(read)
      BY <1>1, <2>1 DEF Asks, Reads
    <3>3. disk[Asks(read)] = read.worker /\ bundles[Here].copies = read.inputs
      BY <1>7 DEF Unmodified, Kind, Asks
    <3>4. read.answer = Reads(read) BY <1>1, <3>1, <3>3 DEF Traced
    <3>5. read.answer # <<>> BY <1>1, <3>1 DEF Traced
    <3>6. Asks(read) = "descriptor" => read.inputs = Captured
      <4>1. read.inputs = [f \in Inputs |-> read.inputs[f]] BY <3>1 DEF Traced
      <4>2. Asks(read) = "descriptor" => \A f \in Inputs : read.inputs[f] = 0
        BY <1>1, <3>1 DEF Traced, FromData, FromRec, Inputs
      <4> QED BY <4>1, <4>2 DEF Captured
    <3>7. read.inputs = [f \in Inputs |-> read.inputs[f]] /\ DOMAIN bundles[Here].copies = Inputs
      BY <3>1 DEF Traced
    <3>8. Asks(read) = "descriptor" => Qualified(read)'
      <4>1. Asks(read) = "descriptor" => Qualified(read)
        BY <1>7 DEF Accepted, DescriptorAccepted, Asks, Kind, Qualified
      <4> QED BY <1>1, <2>1, <4>1 DEF Qualified
    <3> QED BY <1>5, <2>1, <3>2, <3>4, <3>5, <3>6, <3>7, <3>8 DEF Traced, FromData, FromRec
  <2>3. Tracing'
    <3>1. Asks(read)' = Asks(read) BY <2>1 DEF Asks
    <3> QED BY <2>2, <3>1 DEF Tracing
  <2> QED BY <1>1, <2>3, TraceKeeps
<1> QED BY <1>4, <1>6, <1>7

\* Publication leaves the answer.
LEMMA PublishTraces ==
  ASSUME IInv, EInv, NEW result \in Results, Publish(result)
  PROVE  EInv'
PROOF
<1>1. /\ read.stage = "publish" /\ UNCHANGED <<changes, disk, query, installed, capture>>
      /\ Publishes(Here, result)
      /\ \/ read' = [read EXCEPT !.stage = "returned"]
         \/ read' = [read EXCEPT !.stage = "handler"]
  BY DEF Publish
<1>2. DOMAIN read = ReadFields BY <1>1 DEF IInv, Shaped
<1>3. Here \in DOMAIN bundles /\ DOMAIN bundles[Here] = BundleFields
  BY <1>1, Open DEF Sound
<1>4. bundles'[Here].copies = bundles[Here].copies
  BY <1>1, <1>3 DEF Publishes, BundleFields
<1>5. CASE read' = [read EXCEPT !.stage = "handler"]
  <2>1. Tracing' BY <1>1, <1>4, <1>5, TraceFails
  <2> QED BY <1>1, <2>1, TraceKeeps
<1>6. CASE read' = [read EXCEPT !.stage = "returned"]
  <2>1. /\ read'.stage = "returned" /\ read'.inputs = read.inputs /\ Here' = Here
        /\ read'.request = read.request /\ read'.answer = read.answer
    BY <1>6, <1>2 DEF ReadFields, Here
  <2>2. Asks(read)' = Asks(read) /\ Reads(read)' = Reads(read) /\ Qualified(read)' = Qualified(read)
    BY <1>1, <2>1 DEF Asks, Reads, Qualified
  <2>3. ASSUME Asks(read) \in Workers PROVE Traced(read, bundles[Here])'
    <3>1. Traced(read, bundles[Here]) BY <1>1, <2>3, Trace
    <3> QED BY <1>1, <1>4, <2>1, <2>2, <3>1 DEF Traced, FromData, FromRec
  <2>4. Tracing' BY <2>1, <2>2, <2>3 DEF Tracing
  <2> QED BY <1>1, <2>4, TraceKeeps
<1> QED BY <1>1, <1>5, <1>6

-----------------------------------------------------------------------------
(* The other steps, for what the query has.                                *)

\* While nothing is read, only what the query has counts.
LEMMA EvidenceKept ==
  ASSUME EInv, UNCHANGED <<changes, disk, capture>>, read'.stage \in {"none", "threw"},
         query'.phase # "none" => \/ query'.done = query.done /\ query'.kind = query.kind
                                     /\ query.phase # "none"
                                  \/ DOMAIN query'.done = {}
  PROVE  EInv'
PROOF
<1>1. Versions' BY DEF EInv, Versions
<1>2. Tracing' BY DEF Tracing
<1>3. ReadsAreTheDatabase' BY DEF EInv, ReadsAreTheDatabase
<1> QED BY <1>1, <1>2, <1>3 DEF EInv

\* What a read returns is what it asked for, of the database it identifies.
LEMMA ReturnsExactly ==
  ASSUME IInv, Wanting, EInv, read.stage = "returned", Wanted
  PROVE  ReadExactly(capture.registrations, query.kind, Returns)
PROOF
<1> DEFINE r == read.request
           total == Extent(r.handle, read.inputs["rec"])
           n == Least(r.length, total - r.offset)
<1>1. /\ Returns.base.request = r /\ Returns.base.inputs = read.inputs
      /\ Kind = "resource" => /\ Returns.bytes = read.answer[1].bytes
                              /\ Returns.next = NextOffset(r, read.answer[1])
      /\ Kind # "resource" =>
           Returns.writes = QualifiedWrites(read.answer[1], capture.registrations)
  BY DEF Returns
<1>2. /\ query.phase = "reading" /\ query.todo # <<>> /\ query.wanted.kind = query.kind
  BY DEF IInv, Reading, Shaped
<1>3. RequestOk(query.kind, r) /\ query.kind \in {"resource", "descriptor", "push", "values"}
  <2>1. r = Head(query.todo) /\ Listed(query.todo) BY <1>2 DEF Wanting
  <2>2. Head(query.todo) = query.todo[1] /\ 1 \in DOMAIN query.todo
    BY <1>2, <2>1 DEF Listed
  <2> QED BY <1>2, <2>1, <2>2 DEF Wanting, QueryOk
<1>4. Kind = r.worker /\ Asks(read) = r.worker /\ r.worker \in {"resource", "descriptor"}
  BY <1>3 DEF Kind, Asks, RequestOk, Workers
<1>5. /\ read.answer = Reads(read) /\ read.answer # <<>>
      /\ r.worker = "descriptor" => read.inputs = Captured /\ Qualified(read)
  BY <1>4 DEF EInv, Tracing, Traced, Workers
<1>6. ASSUME r.worker = "resource"
      PROVE  /\ total \in Nat /\ r.offset <= total /\ r.length > 0
             /\ Returns.bytes = Slice(read.inputs["data"], r.handle, r.offset, n)
             /\ Returns.next = IF r.offset + n < total THEN <<r.offset + n>> ELSE <<>>
             /\ query.kind = "values" => n = r.length
             /\ query.kind # "resource" => read.inputs = Captured
  <2>1. Kind = "resource" /\ r.offset \in Nat /\ r.length \in Nat /\ query.kind # "descriptor"
    BY <1>3, <1>4, <1>6 DEF RequestOk
  <2> DEFINE given == ResourceWorker(installed.host, r, read.inputs["data"], read.inputs["rec"])
  <2>2. read.answer = given /\ given # <<>> BY <1>4, <1>5, <1>6 DEF Reads
  <2>3. ResourceAnswers(installed.host, r, total) BY <2>2 DEF ResourceWorker
  <2>4. /\ given[1].bytes = Slice(read.inputs["data"], r.handle, r.offset, n)
        /\ given[1].count = n /\ given[1].total = total
    BY <2>3 DEF ResourceWorker, Returned
  <2> HIDE DEF given
  <2>5. total \in Nat /\ r.offset <= total /\ r.length > 0
    <3>1. total \in 1..MaxBlob /\ r.offset <= total /\ r.length \in 1..MaxLength
      BY <2>3 DEF ResourceAnswers, ResourceArgumentsOk
    <3> HIDE DEF total
    <3> QED BY <3>1, <2>1
  <2>6. n \in Nat
    <3> HIDE DEF total
    <3> QED BY <2>1, <2>5 DEF Least
  <2> HIDE DEF total, n
  <2>7. Returns.bytes = Slice(read.inputs["data"], r.handle, r.offset, n)
        /\ Returns.next = IF r.offset + n < total THEN <<r.offset + n>> ELSE <<>>
    BY <1>1, <2>1, <2>2, <2>4 DEF NextOffset
  <2>8. query.kind = "values" => n = r.length
    <3>1. query.kind = "values" => Len(read.answer[1].bytes) = r.length
      BY <2>1 DEF Wanted
    <3>2. Len(Slice(read.inputs["data"], r.handle, r.offset, n)) = n BY <2>1, <2>6, SliceLength
    <3> QED BY <2>2, <2>4, <3>1, <3>2
  <2>9. query.kind # "resource" => read.inputs = Captured
    BY <1>3, <2>1 DEF Wanted
  <2> QED BY <2>5, <2>7, <2>8, <2>9
<1>7. ASSUME r.worker = "descriptor"
      PROVE  read.inputs = Captured /\ Returns.writes = Meant(capture.registrations, r.handle)
  <2>1. read.inputs = Captured /\ Qualified(read) BY <1>5, <1>7
  <2>2. read.answer = DescriptorWorker(installed.host, r, 0, read.inputs["rec"])
    <3>1. read.inputs["data"] = 0 BY <2>1 DEF Captured, Inputs
    <3> QED BY <1>4, <1>5, <1>7, <3>1 DEF Reads
  <2>3. r.handle \in Write BY <1>3, <1>7 DEF RequestOk
  <2>4. Listed(capture.registrations) BY CapturesAssumption DEF Wanting
  <2>5. WritesQualified(read.answer[1], capture.registrations, r.count) BY <2>1 DEF Qualified
  <2>6. QualifiedWrites(read.answer[1], capture.registrations)
          = Meant(capture.registrations, r.handle)
    <3>1. Described(installed.host, r, read.inputs["rec"], read.answer)
      BY <1>5, <2>2 DEF Described
    <3> HIDE DEF r
    <3> QED BY <2>3, <2>4, <2>5, <3>1, DescriptorMeans
  <2> QED BY <1>1, <1>4, <1>7, <2>1, <2>6
<1>8. query.kind # "resource" => read.inputs = Captured BY <1>4, <1>6, <1>7
<1> HIDE DEF r
<1> QED BY <1>1, <1>3, <1>6, <1>7, <1>8 DEF ReadExactly

\* The query takes what the read returned.
LEMMA ReceiveTraces == ASSUME IInv, Wanting, EInv, Receive PROVE EInv'
PROOF
<1>1. read.stage = "returned" /\ read' = NoRead /\ UNCHANGED <<changes, disk, capture>>
  BY DEF Receive
<1>2. query.phase = "reading" /\ DOMAIN query = QueryFields /\ Listed(query.done)
      /\ read'.stage = "none"
  BY <1>1 DEF IInv, Reading, Shaped, NoRead
<1>3. CASE ~Wanted
  <2> DEFINE next == IF query.kind = "values" THEN "handler" ELSE "refused"
  <2>1. query' = [query EXCEPT !.phase = next] BY <1>3 DEF Receive
  <2> HIDE DEF next
  <2>2. query'.done = query.done /\ query'.kind = query.kind
    BY <2>1, <1>2 DEF QueryFields
  <2> QED BY <1>1, <1>2, <2>2, EvidenceKept
<1>4. CASE Wanted
  <2> DEFINE sum == IF query.kind = "values" THEN query.returned + Charge ELSE query.returned
  <2>1. query' = [query EXCEPT !.done = Append(query.done, Returns), !.todo = Tail(query.todo),
                               !.returned = sum]
    BY <1>4 DEF Receive
  <2>2. query'.done = Append(query.done, Returns) /\ query'.kind = query.kind
    <3> HIDE DEF sum
    <3> QED BY <2>1, <1>2 DEF QueryFields
  <2>3. /\ DOMAIN query'.done = 1..(Len(query.done) + 1) /\ Len(query.done) \in Nat
        /\ DOMAIN query.done = 1..Len(query.done)
        /\ query'.done[Len(query.done) + 1] = Returns
        /\ \A i \in DOMAIN query.done : query'.done[i] = query.done[i]
    BY <2>2, <1>2, Appended
  <2>4. \A i \in DOMAIN query'.done : i \in DOMAIN query.done \/ i = Len(query.done) + 1
    BY <2>3
  <2>5. \A i \in DOMAIN query.done : ReadExactly(capture.registrations, query.kind, query.done[i])
    BY <1>2 DEF EInv, ReadsAreTheDatabase
  <2>6. ReadExactly(capture.registrations, query.kind, Returns) BY <1>1, <1>4, ReturnsExactly
  <2>7. \A i \in DOMAIN query'.done : ReadExactly(capture.registrations, query.kind, query'.done[i])
    BY <2>3, <2>4, <2>5, <2>6
  <2>8. ReadsAreTheDatabase' BY <1>1, <2>2, <2>7 DEF ReadsAreTheDatabase
  <2>9. Versions' /\ Tracing' BY <1>1, <1>2 DEF EInv, Versions, Tracing
  <2> QED BY <2>8, <2>9 DEF EInv
<1> QED BY <1>3, <1>4

\* A read begins with nothing read.
LEMMA NextReadTraces ==
  ASSUME IInv, EInv, NEW noted \in Results, NEW result \in Results, NextRead(noted, result)
  PROVE  EInv'
PROOF
<1>1. query.phase = "reading" /\ read.stage = "none" /\ UNCHANGED <<changes, disk, capture>>
      /\ DOMAIN query = QueryFields
  BY DEF NextRead, IInv, Shaped
<1>2. CASE WorthAsking /\ noted = "ok"
  <2> DEFINE r == Head(query.todo)  id == Len(bundles) + 1
  <2>1. Begins(r, result) /\ UNCHANGED query BY <1>2 DEF NextRead
  <2>2. \/ read' = Read(r, "threw", 0)
        \/ read' = Read(r, "prepare", id) /\ bundles' = Append(bundles, Bundle(r.worker))
    <3>1. CASE ~Admitted(r) BY <2>1, <3>1 DEF Begins
    <3>2. CASE Admitted(r) /\ result = "ok" BY <2>1, <3>2 DEF Begins
    <3>3. CASE Admitted(r) /\ result # "ok" BY <2>1, <3>3 DEF Begins
    <3> QED BY <3>1, <3>2, <3>3
  <2>3. CASE read' = Read(r, "threw", 0)
    <3>1. read'.stage = "threw" BY <2>3 DEF Read
    <3> QED BY <1>1, <2>1, <3>1, EvidenceKept
  <2>4. CASE read' = Read(r, "prepare", id) /\ bundles' = Append(bundles, Bundle(r.worker))
    <3>1. DOMAIN bundles'[id].copies = Inputs BY <2>4, Opened
    <3> HIDE DEF id
    <3>2. read'.stage = "prepare" /\ Here' = id /\ read'.inputs = [f \in Inputs |-> Unread]
      BY <2>4 DEF Read, Here
    <3>3. Traced(read, bundles[Here])' BY <3>1, <3>2 DEF Traced, FromData, FromRec
    <3>4. Tracing' BY <3>3 DEF Tracing
    <3> QED BY <1>1, <2>1, <3>4, TraceKeeps
  <2> QED BY <2>2, <2>3, <2>4
<1>3. CASE ~(WorthAsking /\ noted = "ok")
  <2>1. query' = [query EXCEPT !.phase = "handler"] /\ UNCHANGED read
    BY <1>3 DEF NextRead
  <2>2. query'.done = query.done /\ query'.kind = query.kind
    BY <2>1, <1>1 DEF QueryFields
  <2> QED BY <1>1, <2>1, <2>2, EvidenceKept
<1> QED BY <1>2, <1>3

\* A query that only sets its phase keeps what it has.
LEMMA PhaseTraces ==
  ASSUME IInv, EInv, query.phase # "none", UNCHANGED <<changes, disk, capture>>,
         read'.stage \in {"none", "threw"},
         \/ \E phase : query' = [query EXCEPT !.phase = phase]
         \/ \E phase, values : query' = [query EXCEPT !.phase = phase, !.values = values]
  PROVE  EInv'
PROOF
<1>1. DOMAIN query = QueryFields BY DEF IInv, Shaped
<1>2. query'.done = query.done /\ query'.kind = query.kind
  <2>1. CASE \E phase : query' = [query EXCEPT !.phase = phase]
    BY <1>1, <2>1 DEF QueryFields
  <2>2. CASE \E phase, values : query' = [query EXCEPT !.phase = phase, !.values = values]
    <3>1. PICK phase, values : query' = [query EXCEPT !.phase = phase, !.values = values]
      BY <2>2
    <3> QED BY <1>1, <3>1 DEF QueryFields
  <2> QED BY <2>1, <2>2
<1> QED BY <1>2, EvidenceKept

\* A page, or a query, begins with no reads.
LEMMA AskTraces ==
  ASSUME IInv, EInv, \/ \E q \in Queries, r \in Results : Ask(q, r)
                     \/ NextPage
  PROVE  EInv'
PROOF
<1>1. PICK q, phase, id : Asked(q, phase, id) BY DEF Ask, NextPage
<1>2. DOMAIN query'.done = {}
  <2>1. query'.done = <<>> BY <1>1 DEF Asked
  <2> QED BY <2>1
<1>3. query.phase \in {"none", "answered"} /\ UNCHANGED <<changes, disk, read, capture>>
  BY DEF Ask, NextPage
<1>4. read.stage = "none" BY <1>3 DEF IInv, Reading
<1> QED BY <1>2, <1>3, <1>4, EvidenceKept

\* The query's own steps set its phase, and the values that it assembled.
LEMMA PhaseOnly ==
  ASSUME NEW flushed \in Results, NEW result \in Results,
         \/ Contract(result) \/ Assemble(result) \/ PublishQuery(result)
         \/ HandleQuery(flushed, result) \/ AnswerQuery \/ ReadThrew
  PROVE  \/ \E phase : query' = [query EXCEPT !.phase = phase]
         \/ \E phase, values : query' = [query EXCEPT !.phase = phase, !.values = values]
PROOF
<1>1. CASE Contract(result)
  <2> DEFINE next == IF /\ result = "ok" /\ disk["contract"] = 0 /\ capture.contract
                        /\ "query" \notin late /\ Len(query.wanted.updates) <= MaxReads
                     THEN "reading" ELSE "handler"
  <2>1. query' = [query EXCEPT !.phase = next] BY <1>1 DEF Contract
  <2> HIDE DEF next
  <2> QED BY <2>1
<1>2. CASE Assemble(result)
  <2> DEFINE values == [i \in DOMAIN query.wanted.plans |-> Assembled(query.wanted.plans[i])]
             next == IF result = "ok" THEN "publish" ELSE "handler"
  <2>1. \/ query' = [query EXCEPT !.phase = "handler"]
        \/ query' = [query EXCEPT !.phase = next, !.values = values]
    BY <1>2 DEF Assemble
  <2> HIDE DEF values, next
  <2> QED BY <2>1
<1>3. CASE PublishQuery(result) BY <1>3 DEF PublishQuery
<1>4. CASE HandleQuery(flushed, result) BY <1>4 DEF HandleQuery
<1>5. CASE AnswerQuery BY <1>5 DEF AnswerQuery
<1>6. CASE ReadThrew BY <1>6 DEF ReadThrew
<1> QED BY <1>1, <1>2, <1>3, <1>4, <1>5, <1>6

\* The query's own steps keep what it has.
LEMMA QueryTraces ==
  ASSUME IInv, EInv, NEW flushed \in Results, NEW result \in Results,
         \/ Contract(result) \/ Assemble(result) \/ PublishQuery(result)
         \/ HandleQuery(flushed, result) \/ AnswerQuery \/ ReadThrew
  PROVE  EInv'
PROOF
<1>1. query.phase # "none" /\ UNCHANGED <<changes, disk, capture>>
  <2>1. CASE ReadThrew BY <2>1 DEF ReadThrew, IInv, Reading
  <2> QED BY <2>1 DEF Contract, Assemble, PublishQuery, HandleQuery, AnswerQuery
<1>2. read'.stage \in {"none", "threw"}
  <2>1. CASE ReadThrew BY <2>1 DEF ReadThrew, NoRead
  <2>2. CASE ~ReadThrew
    <3>1. /\ query.phase \in {"contract", "reading", "publish", "handler"} /\ UNCHANGED read
          /\ query.phase = "reading" => query.todo = <<>>
      BY <2>2 DEF Contract, Assemble, PublishQuery, HandleQuery, AnswerQuery
    <3> QED BY <3>1 DEF IInv, Reading
  <2> QED BY <2>1, <2>2
<1> QED BY <1>1, <1>2, PhaseOnly, PhaseTraces

\* A file changes: its version is new, so it is not the one that was seen.
LEMMA ChangeFileTraces ==
  ASSUME IInv, EInv, NEW f \in Files, ChangeFile(f)
  PROVE  EInv'
PROOF
<1>1. /\ changes' = changes + 1 /\ disk' = [disk EXCEPT ![f] = changes + 1]
      /\ UNCHANGED <<installed, bundles, query, read, capture>>
  BY DEF ChangeFile
<1>2. changes \in Nat /\ DOMAIN disk = Files /\ \A g \in Files : disk[g] \in 0..changes
  BY DEF EInv, Versions
<1>3. Versions' BY <1>1, <1>2 DEF Versions
<1>4. ReadsAreTheDatabase' BY <1>1 DEF EInv, ReadsAreTheDatabase
<1>5. ASSUME read.stage \notin {"none", "threw"}, Asks(read) \in Workers
      PROVE  Traced(read, bundles[Here])'
  <2>1. Traced(read, bundles[Here]) BY <1>5, Trace
  <2>2. Asks(read)' = Asks(read) /\ Here' = Here /\ Reads(read)' = Reads(read)
        /\ Good(Asks(read), read.worker)' = Good(Asks(read), read.worker)
        /\ Qualified(read)' = Qualified(read)
    BY <1>1 DEF Asks, Here, Reads, Good, Qualified
  <2>3. read.worker \in 0..changes /\ disk'[Asks(read)] = read.worker
          => disk[Asks(read)] = read.worker
    BY <1>1, <1>2, <1>5 DEF Files
  <2>4. \A n : n \in 0..changes => n \in 0..changes' BY <1>1, <1>2
  <2>5. read.stage \in {"judge", "running"} => read.worker \in 0..changes
    BY <2>1 DEF Traced, FromData
  <2> QED BY <1>1, <2>1, <2>2, <2>3, <2>4, <2>5 DEF Traced, FromData, FromRec
<1>6. Tracing' BY <1>1, <1>5 DEF Tracing, Asks
<1> QED BY <1>3, <1>4, <1>6 DEF EInv

\* A copy changes: it is no longer the one that was fingerprinted.
LEMMA ChangeCopyTraces ==
  ASSUME IInv, EInv, NEW f \in Inputs, ChangeCopy(f)
  PROVE  EInv'
PROOF
<1>1. /\ changes' = changes + 1
      /\ bundles' = [bundles EXCEPT ![Here].copies[f] = changes + 1]
      /\ UNCHANGED <<installed, disk, query, read, capture>>
      /\ read.stage \in {"data", "running", "launch", "rec", "judge"}
  BY DEF ChangeCopy
<1>2. changes \in Nat /\ DOMAIN disk = Files /\ \A g \in Files : disk[g] \in 0..changes
  BY DEF EInv, Versions
<1>3. Versions' BY <1>1, <1>2 DEF Versions
<1>4. ReadsAreTheDatabase' BY <1>1 DEF EInv, ReadsAreTheDatabase
<1>5. Here \in DOMAIN bundles /\ DOMAIN bundles[Here] = BundleFields
  BY <1>1, Open DEF Sound
<1>6. bundles'[Here].copies = [bundles[Here].copies EXCEPT ![f] = changes + 1]
  BY <1>1, <1>5 DEF BundleFields
<1>7. ASSUME Asks(read) \in Workers PROVE Traced(read, bundles[Here])'
  <2>1. Traced(read, bundles[Here]) BY <1>1, <1>7, Trace
  <2>2. Asks(read)' = Asks(read) /\ Here' = Here
        /\ Good(Asks(read), read.worker)' = Good(Asks(read), read.worker)
    BY <1>1 DEF Asks, Here, Good
  <2>3. DOMAIN bundles'[Here].copies = Inputs /\ bundles'[Here].copies[f] = changes + 1
    BY <1>6, <2>1 DEF Traced
  <2>4. read.stage = "judge" => bundles'[Here].copies # read.inputs
    <3>1. read.stage = "judge" => read.inputs[f] \in 0..changes
      BY <2>1 DEF Traced, FromData, FromRec, Inputs
    <3> QED BY <3>1, <2>3, <1>2
  <2>5. \A n : n \in 0..changes => n \in 0..changes' BY <1>1, <1>2
  <2> QED BY <1>1, <2>1, <2>2, <2>3, <2>4, <2>5 DEF Traced, FromData, FromRec
<1>8. Tracing' BY <1>1, <1>7 DEF Tracing, Asks
<1> QED BY <1>3, <1>4, <1>8 DEF EInv

\* A process that ends leaves the copies.
LEMMA TreeEndsTraces ==
  ASSUME IInv, EInv, NEW id \in DOMAIN bundles, TreeEnds(id)
  PROVE  EInv'
PROOF
<1>1. /\ bundles' = [bundles EXCEPT ![id].live = FALSE]
      /\ UNCHANGED <<installed, disk, changes, query, read, capture>>
  BY DEF TreeEnds
<1>2. \A j \in DOMAIN bundles : bundles'[j].copies = bundles[j].copies
  BY <1>1 DEF IInv, Sound, BundleFields
<1>3. ASSUME read.stage \notin {"none", "threw"}, Asks(read) \in Workers
      PROVE  Traced(read, bundles[Here])'
  <2>1. Traced(read, bundles[Here]) /\ Here \in DOMAIN bundles BY <1>3, Trace
  <2>2. Asks(read)' = Asks(read) /\ Here' = Here /\ Reads(read)' = Reads(read)
        /\ Good(Asks(read), read.worker)' = Good(Asks(read), read.worker)
        /\ Qualified(read)' = Qualified(read)
    BY <1>1 DEF Asks, Here, Reads, Good, Qualified
  <2> QED BY <1>1, <1>2, <2>1, <2>2 DEF Traced, FromData, FromRec
<1>4. Tracing' BY <1>1, <1>3 DEF Tracing, Asks
<1> QED BY <1>1, <1>4, TraceKeeps

\* A step that leaves what was read and what is on disk.
LEMMA QuietTraces ==
  ASSUME EInv, UNCHANGED <<installed, disk, changes, bundles, query, read, capture>>
  PROVE  EInv'
BY DEF EInv, Versions, Tracing, Traced, ReadsAreTheDatabase, Asks, Reads, Good, Here, Qualified

\* A read that failed has nothing to say.
LEMMA HandleTraces ==
  ASSUME IInv, EInv, NEW flushed \in Results, NEW result \in Results, Handle(flushed, result)
  PROVE  EInv'
PROOF
<1>1. /\ read.stage = "handler" /\ read' = [read EXCEPT !.stage = "threw"]
      /\ UNCHANGED <<disk, changes, query, capture>>
  BY DEF Handle
<1>2. read'.stage = "threw" BY <1>1 DEF IInv, Shaped, ReadFields
<1>3. Tracing' BY <1>2 DEF Tracing
<1> QED BY <1>1, <1>3, TraceKeeps

-----------------------------------------------------------------------------
(* The pages that a client keeps, and the values of a draw.                *)

\* The pages of a resource are one range of it, which the next page continues;
\* once there is none they reach the end.  While the retained files stay the
\* pages are of one database, and are what it holds.
PagesKept ==
  /\ query.phase = "none" => pages = NoPages
  /\ query.phase # "none" /\ query.kind = "resource" =>
       LET r == query.wanted.resources[1]
       IN /\ pages.offset \in Nat /\ Listed(pages.bytes) /\ IsFiniteSet(pages.inputs)
          /\ pages.next # <<>> =>
               /\ pages.bytes # <<>> /\ pages.inputs # {}
               /\ pages.next = <<pages.offset + Len(pages.bytes)>>
          /\ query.phase = "reading" => pages = NoPages \/ pages.next = <<r.offset>>
          /\ \A inputs \in pages.inputs : pages.inputs = {inputs} =>
               /\ pages.bytes = Slice(inputs["data"], r.handle, pages.offset, Len(pages.bytes))
               /\ query.phase = "answered" /\ pages.next = <<>> =>
                    pages.offset + Len(pages.bytes) = Extent(r.handle, inputs["rec"])

\* Values that are published are those of the database as it was captured.
ValuesKept ==
  query.phase \in {"publish", "answered"} /\ query.kind = "values" =>
    \A i \in DOMAIN query.wanted.plans : ValueExact(query.wanted.plans[i], query.values[i])

-----------------------------------------------------------------------------
(* The steps, for what the query wants.                                    *)

\* A step of a read leaves the query, and what is asked.
LEMMA ReadWants ==
  ASSUME IInv, Wanting, NEW f \in Inputs, NEW process \in Processes,
         NEW flushed \in Results, NEW result \in Results,
         \/ Prepare(result) \/ Profile(process, result) \/ Snapshot(f, result) \/ Launch(result)
         \/ Answer(process, result) \/ Judge(result) \/ Publish(result) \/ Handle(flushed, result)
  PROVE  Wanting'
PROOF
<1>1. UNCHANGED <<query, capture>>
  BY DEF Prepare, Profile, Snapshot, Launch, Answer, Judge, Publish, Handle
<1>2. read.stage # "none"
  BY DEF Prepare, Profile, Snapshot, Launch, Answer, Judge, Publish, Handle, Inputs
<1>3. DOMAIN read = ReadFields BY <1>2 DEF IInv, Shaped
<1>4. CASE Prepare(result) \/ Launch(result) \/ Judge(result) \/ Publish(result) \/ Handle(flushed, result)
  <2>1. read'.request = read.request
    BY <1>3, <1>4 DEF Prepare, Launch, Judge, Publish, Handle, ReadFields
  <2> QED BY <1>1, <1>2, <2>1, WantingKept
<1>5. CASE Profile(process, result) \/ Answer(process, result)
  <2>1. \/ \E stage : read' = [read EXCEPT !.stage = stage]
        \/ \E over, stage : read' = [read EXCEPT !.cleanup = over, !.stage = stage]
        \/ \E over, told, stage : read' = [read EXCEPT !.cleanup = over, !.answer = told, !.stage = stage]
    <3>1. CASE Profile(process, result)
      <4> DEFINE over == process \in {"exited", "failed"}
                 stage == IF process = "exited" /\ result = "ok" /\ Good(Kind, disk[Kind])
                          THEN "data" ELSE "handler"
      <4>1. \/ read' = [read EXCEPT !.stage = "handler"]
            \/ read' = [read EXCEPT !.cleanup = over, !.stage = stage]
        BY <3>1 DEF Profile
      <4> HIDE DEF over, stage
      <4> QED BY <4>1
    <3>2. CASE Answer(process, result)
      <4> DEFINE over == process \in {"exited", "failed"}
                 told == IF process = "exited" THEN Answers ELSE <<>>
                 stage == IF process = "exited" /\ result = "ok" /\ Answers # <<>> THEN "judge"
                          ELSE "handler"
      <4>1. read' = [read EXCEPT !.cleanup = over, !.answer = told, !.stage = stage]
        BY <3>2 DEF Answer
      <4> HIDE DEF over, told, stage
      <4> QED BY <4>1
    <3> QED BY <1>5, <3>1, <3>2
  <2>2. read'.request = read.request BY <1>3, <2>1 DEF ReadFields
  <2> QED BY <1>1, <1>2, <2>2, WantingKept
<1>6. CASE Snapshot(f, result)
  <2> DEFINE stage == IF Kind = "descriptor" /\ disk[f] # Captured[f] THEN "handler"
                      ELSE IF f = "data" THEN "rec" ELSE "launch"
  <2>1. \/ read' = [read EXCEPT !.stage = "handler"]
        \/ read' = [read EXCEPT !.inputs[f] = disk[f], !.stage = stage]
    BY <1>6 DEF Snapshot
  <2> HIDE DEF stage
  <2>2. read'.request = read.request BY <1>3, <2>1 DEF ReadFields
  <2> QED BY <1>1, <1>2, <2>2, WantingKept
<1> QED BY <1>4, <1>5, <1>6

\* A read begins with the first request that is left.
LEMMA NextReadWants ==
  ASSUME IInv, Wanting, NEW noted \in Results, NEW result \in Results, NextRead(noted, result)
  PROVE  Wanting'
PROOF
<1>1. /\ query.phase = "reading" /\ read.stage = "none" /\ UNCHANGED capture
      /\ DOMAIN query = QueryFields
  BY DEF NextRead, IInv, Shaped
<1>2. CASE WorthAsking /\ noted = "ok"
  <2>1. Begins(Head(query.todo), result) /\ UNCHANGED query BY <1>2 DEF NextRead
  <2>2. read'.request = Head(query.todo) BY <2>1 DEF Begins, Read
  <2> QED BY <1>1, <2>1, <2>2 DEF Wanting
<1>3. CASE ~(WorthAsking /\ noted = "ok")
  <2>1. query' = [query EXCEPT !.phase = "handler"] /\ UNCHANGED read
    BY <1>3 DEF NextRead
  <2>2. /\ query'.wanted = query.wanted /\ query'.todo = query.todo
        /\ query'.done = query.done /\ query'.kind = query.kind
    BY <2>1, <1>1 DEF QueryFields
  <2> QED BY <1>1, <2>1, <2>2, WantingKept
<1> QED BY <1>2, <1>3

\* What is left of a list.
LEMMA TailHeld ==
  ASSUME NEW s, Listed(s), s # <<>>
  PROVE  /\ Listed(Tail(s)) /\ Len(s) \in Nat \ {0}
         /\ \A i \in DOMAIN Tail(s) : i + 1 \in DOMAIN s /\ Tail(s)[i] = s[i + 1]
         /\ Len(s) = 1 => Tail(s) = <<>>
PROOF
<1>1. s \in Seq(ToSet(s)) BY DEF Listed
<1>2. Tail(s) \in Seq(ToSet(s)) /\ Len(Tail(s)) = Len(s) - 1 /\ Len(s) \in Nat \ {0} BY <1>1
<1>3. Listed(Tail(s)) /\ DOMAIN Tail(s) = 1..Len(Tail(s)) BY <1>2, HeldBy
<1>4. \A i \in DOMAIN Tail(s) : i + 1 \in DOMAIN s /\ Tail(s)[i] = s[i + 1]
  BY <1>1, <1>2, <1>3
<1>5. ASSUME Len(s) = 1 PROVE Tail(s) = <<>>
  <2>1. Len(Tail(s)) = 0 BY <1>2, <1>5
  <2> QED BY <1>2, <2>1, EmptySeq
<1> QED BY <1>2, <1>3, <1>4, <1>5

\* The query takes what was read, and goes on with the rest.
LEMMA ReceiveWants == ASSUME IInv, Wanting, Receive PROVE Wanting'
PROOF
<1>1. read.stage = "returned" /\ read' = NoRead /\ UNCHANGED capture BY DEF Receive
<1>2. /\ query.phase = "reading" /\ query.todo # <<>> /\ DOMAIN query = QueryFields
      /\ Listed(query.done) /\ read'.stage = "none"
  BY <1>1 DEF IInv, Reading, Shaped, NoRead
<1>3. CASE ~Wanted
  <2> DEFINE next == IF query.kind = "values" THEN "handler" ELSE "refused"
  <2>1. query' = [query EXCEPT !.phase = next] BY <1>3 DEF Receive
  <2> HIDE DEF next
  <2>2. /\ query'.wanted = query.wanted /\ query'.todo = query.todo
        /\ query'.done = query.done /\ query'.kind = query.kind
    BY <2>1, <1>2 DEF QueryFields
  <2> QED BY <1>1, <1>2, <2>2, WantingKept
<1>4. CASE Wanted
  <2> DEFINE sum == IF query.kind = "values" THEN query.returned + Charge ELSE query.returned
  <2>1. query' = [query EXCEPT !.done = Append(query.done, Returns), !.todo = Tail(query.todo),
                               !.returned = sum]
    BY <1>4 DEF Receive
  <2>2. /\ query'.done = Append(query.done, Returns) /\ query'.kind = query.kind
        /\ query'.todo = Tail(query.todo) /\ query'.wanted = query.wanted
        /\ query'.phase = query.phase
    <3> HIDE DEF sum
    <3> QED BY <2>1, <1>2 DEF QueryFields
  <2>3. /\ QueryOk(query.wanted) /\ Listed(query.todo)
        /\ \A i \in DOMAIN query.todo : RequestOk(query.kind, query.todo[i])
        /\ read.request = Head(query.todo)
    BY <1>1, <1>2 DEF Wanting
  <2>4. /\ Listed(query'.todo)
        /\ \A i \in DOMAIN query'.todo : RequestOk(query'.kind, query'.todo[i])
    BY <1>2, <2>2, <2>3, TailHeld
  <2>5. ASSUME query.kind = "resource"
        PROVE  /\ query'.todo = <<>> /\ DOMAIN query'.done = {1}
               /\ query'.done[1].base.request = query.wanted.resources[1]
    <3>1. query.todo = query.wanted.resources /\ DOMAIN query.done = {}
      BY <1>2, <2>5 DEF Wanting
    <3>2. Len(query.todo) = 1
      <4>1. query.wanted.kind = "resource" BY <1>2, <2>5 DEF IInv, Shaped
      <4> QED BY <2>3, <3>1, <4>1 DEF QueryOk
    <3>3. Len(query.done) = 0
      <4>1. DOMAIN query.done = 1..Len(query.done) /\ Len(query.done) \in Nat
        BY <1>2 DEF Listed
      <4>2. ASSUME Len(query.done) # 0 PROVE FALSE
        <5>1. 1 \in 1..Len(query.done) BY <4>1, <4>2
        <5> QED BY <3>1, <4>1, <5>1
      <4> QED BY <4>2
    <3>4. DOMAIN query'.done = 1..1 /\ query'.done[1] = Returns
      BY <1>2, <2>2, <3>3, Appended
    <3>5. Returns.base.request = Head(query.todo) BY <2>3 DEF Returns
    <3>6. Head(query.todo) = query.todo[1] OBVIOUS
    <3>7. query'.todo = <<>> BY <1>2, <2>2, <2>3, <3>2, TailHeld
    <3> QED BY <3>1, <3>4, <3>5, <3>6, <3>7
  <2>6. capture' \in Captures BY <1>1 DEF Wanting
  <2> QED BY <1>2, <2>2, <2>3, <2>4, <2>5, <2>6 DEF Wanting
<1> QED BY <1>3, <1>4

\* The next page is asked for as the page before it was.
LEMMA NextPageOk ==
  ASSUME NEW q, QueryOk(q), q.kind = "resource", NEW offset \in Nat
  PROVE  LET n == [q EXCEPT !.resources[1].offset = offset]
         IN /\ QueryOk(n) /\ n.kind = "resource" /\ DOMAIN n = DOMAIN q
            /\ n.resources[1].offset = offset
            /\ n.resources[1].handle = q.resources[1].handle
PROOF
<1> DEFINE r == [q.resources[1] EXCEPT !.offset = offset]
           resources == [q.resources EXCEPT ![1] = r]
           n == [q EXCEPT !.resources = resources]
<1>1. /\ {"kind", "updates", "resources", "plans", "plain"} \subseteq DOMAIN q
      /\ Listed(q.resources) /\ Len(q.resources) = 1 /\ 1 \in DOMAIN q.resources
      /\ {"worker", "handle", "offset", "length"} \subseteq DOMAIN q.resources[1]
  BY DEF QueryOk, Listed
<1>2. /\ Listed(resources) /\ DOMAIN resources = DOMAIN q.resources /\ resources[1] = r
  <2> HIDE DEF r
  <2> QED BY <1>1, Replaced
<1>3. DOMAIN q.resources = {1} /\ Len(resources) = 1 BY <1>1, <1>2 DEF Listed
<1>4. /\ r.offset = offset /\ r.handle = q.resources[1].handle
      /\ r.worker = q.resources[1].worker /\ r.length \in Nat
      /\ DOMAIN r = DOMAIN q.resources[1]
  BY <1>1 DEF QueryOk
<1> HIDE DEF r, resources
<1>5. /\ n.kind = q.kind /\ n.updates = q.updates /\ n.plans = q.plans
      /\ n.resources = resources /\ DOMAIN n = DOMAIN q
  BY <1>1
<1>6. n = [q EXCEPT !.resources[1].offset = offset] BY DEF r, resources
<1> HIDE DEF n
<1>7. QueryOk(n) BY <1>1, <1>2, <1>3, <1>4, <1>5 DEF QueryOk
<1> QED BY <1>2, <1>4, <1>5, <1>6, <1>7

\* A query, or its next page, begins.
LEMMA AskWants ==
  ASSUME IInv, Wanting, PagesKept, \/ \E q \in Queries, r \in Results : Ask(q, r)
                                   \/ NextPage
  PROVE  Wanting'
PROOF
<1>1. query.phase \in {"none", "answered"} /\ UNCHANGED <<read, capture>> BY DEF Ask, NextPage
<1>2. read'.stage = "none" BY <1>1 DEF IInv, Reading
<1>3. capture \in Captures BY DEF Wanting
<1>4. CASE \E q \in Queries, r \in Results : Ask(q, r)
  <2>1. PICK q \in Queries, r \in Results : Ask(q, r) BY <1>4
  <2>2. PICK phase, id : Asked(q, phase, id) BY <2>1 DEF Ask
  <2>3. QueryOk(q) BY QueriesAssumption
  <2> QED BY <1>1, <1>2, <1>3, <2>2, <2>3, AskedWants
<1>5. CASE NextPage
  <2> DEFINE q == [query.wanted EXCEPT !.resources[1].offset = pages.next[1]]
             phase == IF Readable(q) THEN "reading" ELSE "refused"
  <2>1. Asked(q, phase, 0) BY <1>5 DEF NextPage
  <2>2. /\ query.phase = "answered" /\ query.kind = "resource" /\ query.wanted.kind = "resource"
        /\ pages.next # <<>>
    BY <1>5 DEF NextPage, IInv, Paging, Shaped
  <2>3. QueryOk(query.wanted) BY <2>2 DEF Wanting
  <2>4. pages.next[1] \in Nat
    <3>1. /\ pages.offset \in Nat /\ Listed(pages.bytes)
          /\ pages.next = <<pages.offset + Len(pages.bytes)>>
      BY <2>2 DEF PagesKept
    <3>2. Len(pages.bytes) \in Nat BY <3>1 DEF Listed
    <3> QED BY <3>1, <3>2
  <2>5. QueryOk(q) BY <2>2, <2>3, <2>4, NextPageOk
  <2> HIDE DEF q, phase
  <2> QED BY <1>1, <1>2, <1>3, <2>1, <2>5, AskedWants
<1> QED BY <1>4, <1>5

\* The query's own steps leave what it wants.
LEMMA QueryWants ==
  ASSUME IInv, Wanting, NEW flushed \in Results, NEW result \in Results,
         \/ Contract(result) \/ Assemble(result) \/ PublishQuery(result)
         \/ HandleQuery(flushed, result) \/ AnswerQuery \/ ReadThrew
  PROVE  Wanting'
PROOF
<1>1. query.phase # "none" /\ UNCHANGED capture
  <2>1. CASE ReadThrew BY <2>1 DEF ReadThrew, IInv, Reading
  <2> QED BY <2>1 DEF Contract, Assemble, PublishQuery, HandleQuery, AnswerQuery
<1>2. UNCHANGED read \/ read'.stage = "none"
  <2>1. CASE ReadThrew BY <2>1 DEF ReadThrew, NoRead
  <2> QED BY <2>1 DEF Contract, Assemble, PublishQuery, HandleQuery, AnswerQuery
<1>3. DOMAIN query = QueryFields BY <1>1 DEF IInv, Shaped
<1>4. /\ query'.wanted = query.wanted /\ query'.todo = query.todo
      /\ query'.done = query.done /\ query'.kind = query.kind
  <2>1. \/ \E phase : query' = [query EXCEPT !.phase = phase]
        \/ \E phase, values : query' = [query EXCEPT !.phase = phase, !.values = values]
    BY PhaseOnly
  <2>2. CASE \E phase : query' = [query EXCEPT !.phase = phase]
    BY <1>3, <2>2 DEF QueryFields
  <2>3. CASE \E phase, values : query' = [query EXCEPT !.phase = phase, !.values = values]
    <3>1. PICK phase, values : query' = [query EXCEPT !.phase = phase, !.values = values]
      BY <2>3
    <3> QED BY <1>3, <3>1 DEF QueryFields
  <2> QED BY <2>1, <2>2, <2>3
<1> QED BY <1>1, <1>2, <1>4, WantingKept

-----------------------------------------------------------------------------
(* The steps, for the pages and the values.                                *)

\* A step that leaves the pages and the values, and answers nothing new.
LEMMA WholeKept ==
  ASSUME PagesKept, ValuesKept, UNCHANGED pages, query.phase # "none",
         query'.phase # "none", query'.wanted = query.wanted, query'.kind = query.kind,
         query.kind = "resource" =>
           /\ query'.phase = "reading" => query.phase = "reading"
           /\ query'.phase = "answered" => query.phase = "answered",
         query.kind = "values" /\ query'.phase \in {"publish", "answered"} =>
           query.phase \in {"publish", "answered"} /\ query'.values = query.values
  PROVE  PagesKept' /\ ValuesKept'
BY DEF PagesKept, ValuesKept

\* What is left of a range, and whether it is the end.
LEMMA RangeEnds ==
  ASSUME NEW offset \in Nat, NEW length \in Nat, NEW total \in Nat,
         offset <= total, length > 0
  PROVE  LET n == Least(length, total - offset)
         IN /\ n \in Nat
            /\ offset + n < total => n > 0
            /\ ~(offset + n < total) => offset + n = total
BY DEF Least

\* A query that is only asked keeps its pages.
LEMMA AskWhole ==
  ASSUME IInv, Wanting, PagesKept, ValuesKept,
         \/ \E q \in Queries, r \in Results : Ask(q, r)
         \/ NextPage
  PROVE  PagesKept' /\ ValuesKept'
PROOF
<1>1. CASE \E q \in Queries, r \in Results : Ask(q, r)
  <2>1. PICK q \in Queries, r \in Results : Ask(q, r) BY <1>1
  <2>2. UNCHANGED pages /\ query.phase = "none" BY <2>1 DEF Ask
  <2>3a. PICK phase \in {"contract", "reading", "refused"} : \E id : Asked(q, phase, id)
    BY <2>1 DEF Ask
  <2>3. PICK id : Asked(q, phase, id) BY <2>3a
  <2>4. query'.phase \in {"contract", "reading", "refused"} BY <2>3 DEF Asked
  <2>5. pages = NoPages BY <2>2 DEF PagesKept
  <2>6. /\ pages.offset \in Nat /\ Listed(pages.bytes) /\ IsFiniteSet(pages.inputs)
        /\ pages.next = <<>> /\ pages.inputs = {}
    BY <2>5, FS_EmptySet DEF NoPages, Listed, ToSet
  <2> QED BY <2>2, <2>4, <2>5, <2>6 DEF PagesKept, ValuesKept
<1>2. CASE NextPage
  <2> DEFINE q == [query.wanted EXCEPT !.resources[1].offset = pages.next[1]]
             phase == IF Readable(q) THEN "reading" ELSE "refused"
  <2>1. Asked(q, phase, 0) /\ UNCHANGED pages BY <1>2 DEF NextPage
  <2>2. /\ query.phase = "answered" /\ query.kind = "resource" /\ query.wanted.kind = "resource"
        /\ pages.next # <<>>
    BY <1>2 DEF NextPage, IInv, Paging, Shaped
  <2>3. QueryOk(query.wanted) BY <2>2 DEF Wanting
  <2>4. /\ pages.offset \in Nat /\ Listed(pages.bytes)
        /\ pages.next = <<pages.offset + Len(pages.bytes)>>
    BY <2>2 DEF PagesKept
  <2>5. pages.next[1] \in Nat
    <3>1. Len(pages.bytes) \in Nat BY <2>4 DEF Listed
    <3> QED BY <2>4, <3>1
  <2>6. /\ q.kind = "resource" /\ q.resources[1].offset = pages.next[1]
        /\ q.resources[1].handle = query.wanted.resources[1].handle
    BY <2>2, <2>3, <2>5, NextPageOk
  <2>7. phase \in {"reading", "refused"} OBVIOUS
  <2> HIDE DEF q, phase
  <2>8. query'.wanted = q /\ query'.kind = q.kind /\ query'.phase = phase BY <2>1 DEF Asked
  <2>9. pages.next = <<query'.wanted.resources[1].offset>> BY <2>4, <2>6, <2>8
  <2>10. PagesKept' BY <2>1, <2>2, <2>6, <2>7, <2>8, <2>9 DEF PagesKept
  <2>11. ValuesKept' BY <2>6, <2>8 DEF ValuesKept
  <2> QED BY <2>10, <2>11
<1> QED BY <1>1, <1>2

\* What a page adds to a range.
Joins(data, handle, offset, n, m) ==
  Slice(data, handle, offset, n) \o Slice(data, handle, offset + n, m)
    = Slice(data, handle, offset, n + m)

LEMMA PageJoins ==
  ASSUME NEW data, NEW handle, NEW offset \in Nat, NEW n \in Nat, NEW m \in Nat
  PROVE  Joins(data, handle, offset, n, m)
PROOF
<1>1. \A x, h : \A a, b, c \in Nat :
        Slice(x, h, a, b) \o Slice(x, h, a + b, c) = Slice(x, h, a, b + c)
  BY SliceJoined
<1>2. \A x, h : \A a, b, c \in Nat : Joins(x, h, a, b, c) BY <1>1 DEF Joins
<1> QED BY <1>2

\* A page joins the pages before it.
LEMMA AnswerQueryWhole ==
  ASSUME IInv, Wanting, EInv, PagesKept, ValuesKept, AnswerQuery
  PROVE  PagesKept' /\ ValuesKept'
PROOF
<1>1. /\ query.phase = "reading" /\ query.todo = <<>> /\ query.kind # "values"
      /\ query' = [query EXCEPT !.phase = "answered"]
      /\ pages' = IF query.kind = "resource" THEN Page(pages, query.done[1]) ELSE pages
      /\ DOMAIN query = QueryFields
  BY DEF AnswerQuery, IInv, Shaped
<1>2. /\ query'.phase = "answered" /\ query'.wanted = query.wanted /\ query'.kind = query.kind
  BY <1>1 DEF QueryFields
<1>3. CASE query.kind # "resource"
  BY <1>1, <1>2, <1>3, WholeKept
<1>4. CASE query.kind = "resource"
  <2> DEFINE p == pages  d == query.done[1]  r == query.wanted.resources[1]
             inputs0 == d.base.inputs
             total == Extent(r.handle, inputs0["rec"])
             n == Least(r.length, total - r.offset)
  <2>1. /\ 1 \in DOMAIN query.done /\ d.base.request = r /\ r.worker = "resource"
        /\ r.offset \in Nat /\ r.length \in Nat
    <3>1. QueryOk(query.wanted) /\ query.wanted.kind = "resource"
      BY <1>1, <1>4 DEF Wanting, IInv, Shaped
    <3>2. Len(query.wanted.resources) = 1 /\ 1 \in DOMAIN query.wanted.resources
      BY <3>1 DEF QueryOk, Listed
    <3>3. r.worker = "resource" /\ r.offset \in Nat /\ r.length \in Nat
      BY <3>1, <3>2 DEF QueryOk
    <3>4. query.todo # query.wanted.resources BY <1>1, <3>2
    <3>5. DOMAIN query.done = {1} /\ d.base.request = r
      BY <1>1, <1>4, <3>4 DEF Wanting
    <3> QED BY <3>3, <3>5
  <2>2. ReadExactly(capture.registrations, "resource", d)
    BY <1>1, <1>4, <2>1 DEF EInv, ReadsAreTheDatabase
  <2>3. /\ total \in Nat /\ r.offset <= total /\ r.length > 0
        /\ d.bytes = Slice(inputs0["data"], r.handle, r.offset, n)
        /\ d.next = IF r.offset + n < total THEN <<r.offset + n>> ELSE <<>>
    BY <2>1, <2>2 DEF ReadExactly
  <2> HIDE DEF total, n
  <2>4. n \in Nat /\ (r.offset + n < total => n > 0)
        /\ (~(r.offset + n < total) => r.offset + n = total)
    <3> HIDE DEF r
    <3> QED BY <2>1, <2>3, RangeEnds DEF n
  <2>5. pages' = Page(p, d) BY <1>1, <1>4
  <2>6. /\ pages'.bytes = p.bytes \o d.bytes /\ pages'.inputs = p.inputs \cup {inputs0}
        /\ pages'.next = d.next
        /\ pages'.offset = IF p.bytes = <<>> THEN r.offset ELSE p.offset
    BY <2>1, <2>5 DEF Page
  <2> HIDE DEF d
  <2>7. /\ d.bytes \in Seq({inputs0["data"]} \X {r.handle} \X Nat) /\ Len(d.bytes) = n
    <3> HIDE DEF r, inputs0
    <3> QED BY <2>1, <2>3, <2>4, SliceLength
  <2>8. Listed(p.bytes) /\ IsFiniteSet(p.inputs) /\ p.offset \in Nat
    BY <1>1, <1>4 DEF PagesKept
  <2>9. Listed(pages'.bytes) /\ Len(pages'.bytes) = Len(p.bytes) + n /\ Len(p.bytes) \in Nat
    <3> DEFINE T == ToSet(p.bytes) \cup ({inputs0["data"]} \X {r.handle} \X Nat)
    <3>1. p.bytes \in Seq(T)
      <4>1. \A i \in DOMAIN p.bytes : p.bytes[i] \in T BY DEF ToSet
      <4> HIDE DEF T
      <4> QED BY <2>8, <4>1, HeldIn
    <3>2. d.bytes \in Seq(T)
      <4>1. /\ Listed(d.bytes)
            /\ \A i \in DOMAIN d.bytes : d.bytes[i] \in {inputs0["data"]} \X {r.handle} \X Nat
        <5> DEFINE U == {inputs0["data"]} \X {r.handle} \X Nat
        <5>1. d.bytes \in Seq(U) BY <2>7
        <5> HIDE DEF U
        <5>2. Listed(d.bytes) /\ \A i \in DOMAIN d.bytes : d.bytes[i] \in U BY <5>1, HeldBy
        <5> QED BY <5>2 DEF U
      <4>2. \A i \in DOMAIN d.bytes : d.bytes[i] \in T BY <4>1
      <4> HIDE DEF T
      <4> QED BY <4>1, <4>2, HeldIn
    <3> HIDE DEF T
    <3>3. p.bytes \o d.bytes \in Seq(T) /\ Len(p.bytes \o d.bytes) = Len(p.bytes) + Len(d.bytes)
      BY <3>1, <3>2
    <3>4. Listed(p.bytes \o d.bytes) BY <3>3, HeldBy
    <3>5. Len(p.bytes) \in Nat BY <3>1, HeldBy
    <3> QED BY <2>6, <2>7, <3>3, <3>4, <3>5
  <2>10. IsFiniteSet(pages'.inputs) /\ pages'.inputs # {}
    <3>1. IsFiniteSet({inputs0}) BY FS_Singleton
    <3>2. inputs0 \in pages'.inputs BY <2>6
    <3> HIDE DEF inputs0
    <3>3. IsFiniteSet(p.inputs \cup {inputs0}) BY <2>8, <3>1, FS_Union
    <3> QED BY <2>6, <3>2, <3>3
  <2>11. \/ p.inputs = {} /\ p.bytes = <<>>
         \/ /\ p.inputs # {} /\ p.bytes # <<>> /\ r.offset = p.offset + Len(p.bytes)
    <3>1. CASE p = NoPages BY <3>1 DEF NoPages
    <3>2. CASE p # NoPages
      <4>1. p.next = <<r.offset>> BY <1>1, <1>4, <3>2 DEF PagesKept
      <4>2. p.next # <<>> BY <4>1
      <4>3. p.bytes # <<>> /\ p.inputs # {} /\ p.next = <<p.offset + Len(p.bytes)>>
        BY <1>1, <1>4, <4>2 DEF PagesKept
      <4> HIDE DEF r
      <4> QED BY <4>1, <4>3
    <3> QED BY <3>1, <3>2
  <2>12. /\ pages'.offset \in Nat
         /\ pages'.offset + Len(pages'.bytes) = r.offset + n
    <3>1. CASE p.bytes = <<>>
      <4>1. Len(p.bytes) = 0 BY <3>1
      <4> HIDE DEF r, p
      <4> QED BY <2>1, <2>4, <2>6, <2>9, <3>1, <4>1
    <3>2. CASE p.bytes # <<>>
      <4> HIDE DEF r, p
      <4> QED BY <2>1, <2>4, <2>6, <2>8, <2>9, <2>11, <3>2
    <3> QED BY <3>1, <3>2
  <2>13. pages'.next # <<>> =>
           pages'.bytes # <<>> /\ pages'.next = <<pages'.offset + Len(pages'.bytes)>>
    <3>1. SUFFICES ASSUME pages'.next # <<>>
                   PROVE pages'.bytes # <<>> /\ pages'.next = <<pages'.offset + Len(pages'.bytes)>>
      OBVIOUS
    <3>2. pages'.next = <<r.offset + n>> /\ n > 0 BY <2>3, <2>4, <2>6, <3>1
    <3>3. Len(pages'.bytes) > 0
      <4> HIDE DEF p
      <4> QED BY <2>4, <2>9, <3>2
    <3>4. pages'.bytes # <<>> BY <3>3
    <3> QED BY <2>12, <3>2, <3>4
  <2>14. pages'.next = <<>> => pages'.offset + Len(pages'.bytes) = total
    <3>1. SUFFICES ASSUME pages'.next = <<>> PROVE pages'.offset + Len(pages'.bytes) = total
      OBVIOUS
    <3>2. ~(r.offset + n < total) BY <2>3, <2>6, <3>1
    <3> QED BY <2>4, <2>12, <3>2
  <2>15. ASSUME NEW inputs \in pages'.inputs, pages'.inputs = {inputs}
         PROVE  /\ pages'.bytes = Slice(inputs["data"], r.handle, pages'.offset, Len(pages'.bytes))
                /\ pages'.next = <<>> => pages'.offset + Len(pages'.bytes) = Extent(r.handle, inputs["rec"])
    <3>1. inputs = inputs0 /\ p.inputs \subseteq {inputs} BY <2>6, <2>15
    <3>2. pages'.next = <<>> => pages'.offset + Len(pages'.bytes) = Extent(r.handle, inputs["rec"])
      BY <2>14, <3>1 DEF total
    <3>3. CASE p.bytes = <<>>
      <4>1. pages'.bytes = d.bytes /\ pages'.offset = r.offset BY <2>6, <2>7, <3>3
      <4>2. Len(pages'.bytes) = n BY <2>7, <4>1
      <4> QED BY <2>3, <3>1, <3>2, <4>1, <4>2
    <3>4. CASE p.bytes # <<>>
      <4>1. p.inputs = {inputs} /\ r.offset = p.offset + Len(p.bytes) BY <2>11, <3>1, <3>4
      <4>2. p.bytes = Slice(inputs["data"], r.handle, p.offset, Len(p.bytes))
        <5>1. \A i \in p.inputs : p.inputs = {i} =>
                p.bytes = Slice(i["data"], r.handle, p.offset, Len(p.bytes))
          BY <1>1, <1>4 DEF PagesKept
        <5> QED BY <4>1, <5>1
      <4>3. p.bytes \o d.bytes = Slice(inputs["data"], r.handle, p.offset, Len(p.bytes) + n)
        <5>1. d.bytes = Slice(inputs["data"], r.handle, p.offset + Len(p.bytes), n)
          BY <2>3, <3>1, <4>1
        <5>2. p.offset \in Nat /\ Len(p.bytes) \in Nat /\ n \in Nat BY <2>4, <2>8, <2>9
        <5> HIDE DEF r, p
        <5>3. Joins(inputs["data"], r.handle, p.offset, Len(p.bytes), n) BY <5>2, PageJoins
        <5> QED BY <4>2, <5>1, <5>3 DEF Joins
      <4>4. pages'.offset = p.offset /\ pages'.bytes = p.bytes \o d.bytes
            /\ Len(pages'.bytes) = Len(p.bytes) + n
        BY <2>6, <2>9, <3>4
      <4> QED BY <3>2, <4>3, <4>4
    <3> QED BY <3>3, <3>4
  <2>16. PagesKept'
    BY <1>2, <1>4, <2>9, <2>10, <2>12, <2>13, <2>15 DEF PagesKept
  <2>17. ValuesKept' BY <1>2, <1>4 DEF ValuesKept
  <2> QED BY <2>16, <2>17
<1> QED BY <1>3, <1>4

\* The values are assembled from what was read of the captured database.
LEMMA AssembleWhole ==
  ASSUME IInv, Wanting, EInv, PagesKept, ValuesKept, NEW result \in Results, Assemble(result)
  PROVE  PagesKept' /\ ValuesKept'
PROOF
<1> DEFINE plans == query.wanted.plans
           values == [i \in DOMAIN plans |-> Assembled(plans[i])]
           next == IF result = "ok" THEN "publish" ELSE "handler"
<1>1. /\ query.phase = "reading" /\ query.kind = "values" /\ UNCHANGED pages
      /\ DOMAIN query = QueryFields /\ Listed(query.done) /\ query.wanted.kind = "values"
      /\ \/ query' = [query EXCEPT !.phase = "handler"]
         \/ /\ \A i \in DOMAIN plans : Covers(plans[i])
            /\ query' = [query EXCEPT !.phase = next, !.values = values]
  BY DEF Assemble, IInv, Shaped
<1>2. next \in {"publish", "handler"} OBVIOUS
<1>3. CASE query' = [query EXCEPT !.phase = "handler"]
  <2>1. query'.phase = "handler" /\ query'.wanted = query.wanted /\ query'.kind = query.kind
    BY <1>1, <1>3 DEF QueryFields
  <2> QED BY <1>1, <2>1, WholeKept
<1>4. CASE /\ \A i \in DOMAIN plans : Covers(plans[i])
           /\ query' = [query EXCEPT !.phase = next, !.values = values]
  <2> HIDE DEF next
  <2>1. /\ query'.phase = next /\ query'.wanted = query.wanted /\ query'.kind = query.kind
        /\ query'.values = values
    <3> HIDE DEF values
    <3> QED BY <1>1, <1>4 DEF QueryFields
  <2>2. \A i \in DOMAIN query.done : WholeRange(query.done[i])
    <3> TAKE i \in DOMAIN query.done
    <3>1. ReadExactly(capture.registrations, "values", query.done[i])
      BY <1>1 DEF EInv, ReadsAreTheDatabase
    <3> DEFINE d == query.done[i]
    <3>2. ReadExactly(capture.registrations, "values", d) BY <3>1
    <3>3. d.base.inputs["data"] = 0 BY <3>2 DEF ReadExactly, Captured, Inputs
    <3>4. WholeRange(d)
      <4> HIDE DEF d
      <4> QED BY <3>2, <3>3 DEF ReadExactly, WholeRange
    <3> QED BY <3>4
  <2>3. Len(query.done) \in Nat /\ DOMAIN query.done = 1..Len(query.done) BY <1>1 DEF Listed
  <2>4. \A i \in DOMAIN plans : PlanOk(plans[i])
    <3>1. QueryOk(query.wanted) BY <1>1 DEF Wanting
    <3> QED BY <3>1 DEF QueryOk, PlanOk
  <2>5. \A i \in DOMAIN plans : ValueExact(plans[i], Assembled(plans[i]))
    <3> TAKE i \in DOMAIN plans
    <3> DEFINE p == plans[i]
    <3>1. PlanOk(p) /\ Covers(p) BY <1>4, <2>4
    <3> HIDE DEF p
    <3>2. ValueExact(p, Assembled(p)) BY <2>2, <2>3, <3>1, AssembledIs
    <3> QED BY <3>2 DEF p
  <2>6. ValuesKept' BY <2>1, <2>5 DEF ValuesKept
  <2>7. PagesKept' BY <1>1, <2>1, <1>2 DEF PagesKept
  <2> QED BY <2>6, <2>7
<1> QED BY <1>1, <1>3, <1>4

\* The other steps of a query answer nothing new.
LEMMA QueryWhole ==
  ASSUME IInv, PagesKept, ValuesKept, NEW flushed \in Results, NEW noted \in Results,
         NEW result \in Results,
         \/ Contract(result) \/ PublishQuery(result) \/ HandleQuery(flushed, result)
         \/ ReadThrew \/ Receive \/ NextRead(noted, result)
  PROVE  PagesKept' /\ ValuesKept'
PROOF
<1>1. UNCHANGED pages /\ query.phase # "none" /\ DOMAIN query = QueryFields
  <2>1. query.phase # "none"
    <3>1. CASE ReadThrew \/ Receive BY <3>1 DEF ReadThrew, Receive, IInv, Reading
    <3>2. CASE ~(ReadThrew \/ Receive)
      BY <3>2 DEF Contract, PublishQuery, HandleQuery, NextRead
    <3> QED BY <3>1, <3>2
  <2>2. UNCHANGED pages
    BY DEF ReadThrew, Receive, Contract, PublishQuery, HandleQuery, NextRead
  <2> QED BY <2>1, <2>2 DEF IInv, Shaped
<1>2. CASE Contract(result)
  <2> DEFINE next == IF /\ result = "ok" /\ disk["contract"] = 0 /\ capture.contract
                        /\ "query" \notin late /\ Len(query.wanted.updates) <= MaxReads
                     THEN "reading" ELSE "handler"
  <2>1. query' = [query EXCEPT !.phase = next] BY <1>2 DEF Contract
  <2>2. next \in {"reading", "handler"} OBVIOUS
  <2> HIDE DEF next
  <2>3. query'.phase = next /\ query'.wanted = query.wanted /\ query'.kind = query.kind
    BY <1>1, <2>1 DEF QueryFields
  <2>4. query.kind = "values" BY <1>2, Assembling DEF Contract
  <2> QED BY <1>1, <2>2, <2>3, <2>4, WholeKept
<1>3. CASE PublishQuery(result)
  <2> DEFINE next == IF result = "ok" THEN "answered" ELSE "handler"
  <2>1. query' = [query EXCEPT !.phase = next] /\ query.phase = "publish"
    BY <1>3 DEF PublishQuery
  <2>2. next \in {"answered", "handler"} OBVIOUS
  <2> HIDE DEF next
  <2>3. /\ query'.phase = next /\ query'.wanted = query.wanted /\ query'.kind = query.kind
        /\ query'.values = query.values
    BY <1>1, <2>1 DEF QueryFields
  <2>4. query.kind = "values" BY <2>1, Assembling
  <2> QED BY <1>1, <2>1, <2>2, <2>3, <2>4, WholeKept
<1>4. CASE HandleQuery(flushed, result)
  <2>1. query' = [query EXCEPT !.phase = "refused"] BY <1>4 DEF HandleQuery
  <2>2. query'.phase = "refused" /\ query'.wanted = query.wanted /\ query'.kind = query.kind
    BY <1>1, <2>1 DEF QueryFields
  <2> QED BY <1>1, <2>2, WholeKept
<1>5. CASE ReadThrew
  <2> DEFINE next == IF query.kind = "values" THEN "handler" ELSE "refused"
  <2>1. query' = [query EXCEPT !.phase = next] BY <1>5 DEF ReadThrew
  <2>2. next \in {"refused", "handler"} OBVIOUS
  <2> HIDE DEF next
  <2>3. query'.phase = next /\ query'.wanted = query.wanted /\ query'.kind = query.kind
    BY <1>1, <2>1 DEF QueryFields
  <2> QED BY <1>1, <2>2, <2>3, WholeKept
<1>6. CASE Receive
  <2> DEFINE next == IF query.kind = "values" THEN "handler" ELSE "refused"
             sum == IF query.kind = "values" THEN query.returned + Charge ELSE query.returned
  <2>1. \/ query' = [query EXCEPT !.phase = next]
        \/ query' = [query EXCEPT !.done = Append(query.done, Returns), !.todo = Tail(query.todo),
                                  !.returned = sum]
    BY <1>6 DEF Receive
  <2>2. next \in {"refused", "handler"} OBVIOUS
  <2>3. query.phase = "reading" BY <1>6 DEF Receive, IInv, Reading
  <2> HIDE DEF next, sum
  <2>4. query'.phase \in {"reading", "refused", "handler"}
        /\ query'.wanted = query.wanted /\ query'.kind = query.kind
    BY <1>1, <2>1, <2>2, <2>3 DEF QueryFields
  <2> QED BY <1>1, <2>3, <2>4, WholeKept
<1>7. CASE NextRead(noted, result)
  <2>1. query.phase = "reading" /\ (UNCHANGED query \/ query' = [query EXCEPT !.phase = "handler"])
    BY <1>7 DEF NextRead
  <2>2. query'.phase \in {"reading", "handler"}
        /\ query'.wanted = query.wanted /\ query'.kind = query.kind
    BY <1>1, <2>1 DEF QueryFields
  <2> QED BY <1>1, <2>1, <2>2, WholeKept
<1> QED BY <1>2, <1>3, <1>4, <1>5, <1>6, <1>7

-----------------------------------------------------------------------------
(* The theorems.                                                           *)

Answering == Wanting /\ EInv /\ PagesKept /\ ValuesKept

\* A step that leaves the query and its pages.
LEMMA QuietWhole ==
  ASSUME PagesKept, ValuesKept, UNCHANGED <<query, pages>>
  PROVE  PagesKept' /\ ValuesKept'
BY DEF PagesKept, ValuesKept

\* A step around the query leaves what it wants.
LEMMA QuietWants ==
  ASSUME Wanting, UNCHANGED <<query, read, capture>>
  PROVE  Wanting'
BY DEF Wanting

\* Nothing is answered yet.
LEMMA AnsweringInit == ASSUME Init PROVE Answering
PROOF
<1>1. /\ changes = 0 /\ disk = [f \in Files |-> 0] /\ query.phase = "none"
      /\ read.stage = "none" /\ capture \in Captures /\ pages = NoPages
  BY DEF Init, NoQuery, NoRead
<1> QED BY <1>1 DEF Answering, Wanting, EInv, Versions, Tracing, ReadsAreTheDatabase,
                    PagesKept, ValuesKept

\* No step answers anything else.
LEMMA AnsweringNext == ASSUME IInv, Answering, [Next]_vars PROVE Answering'
PROOF
<1> USE DEF Answering
<1>0. "ok" \in Results /\ "data" \in Inputs /\ "exited" \in Processes
  BY DEF Results, Inputs, Processes
<1>1. CASE \E q \in Queries, r \in Results : Ask(q, r)
  BY <1>1, AskTraces, AskWants, AskWhole
<1>2. CASE \E r \in Results : Contract(r)
  BY <1>2, <1>0, QueryTraces, QueryWants, QueryWhole
<1>3. CASE \E r \in Results : Prepare(r) \/ Launch(r) \/ Judge(r) \/ Publish(r)
  <2>1. PICK r \in Results : Prepare(r) \/ Launch(r) \/ Judge(r) \/ Publish(r) BY <1>3
  <2>2. EInv' BY <2>1, PrepareTraces, LaunchTraces, JudgeTraces, PublishTraces
  <2>3. Wanting' BY <2>1, <1>0, ReadWants
  <2>4. UNCHANGED <<query, pages>> BY <2>1 DEF Prepare, Launch, Judge, Publish
  <2> QED BY <2>2, <2>3, <2>4, QuietWhole
<1>4. CASE \E r \in Results : Assemble(r)
  BY <1>4, <1>0, QueryTraces, QueryWants, AssembleWhole
<1>5. CASE \E r \in Results : PublishQuery(r)
  BY <1>5, <1>0, QueryTraces, QueryWants, QueryWhole
<1>6. CASE \E f, r \in Results : NextRead(f, r)
  BY <1>6, NextReadTraces, NextReadWants, QueryWhole
<1>7. CASE \E f, r \in Results : Handle(f, r)
  <2>1. PICK f, r \in Results : Handle(f, r) BY <1>7
  <2>2. EInv' BY <2>1, HandleTraces
  <2>3. Wanting' BY <2>1, <1>0, ReadWants
  <2>4. UNCHANGED <<query, pages>> BY <2>1 DEF Handle
  <2> QED BY <2>2, <2>3, <2>4, QuietWhole
<1>8. CASE \E f, r \in Results : HandleQuery(f, r)
  BY <1>8, QueryTraces, QueryWants, QueryWhole
<1>9. CASE \E p \in Processes, r \in Results : Profile(p, r) \/ Answer(p, r)
  <2>1. PICK p \in Processes, r \in Results : Profile(p, r) \/ Answer(p, r) BY <1>9
  <2>2. EInv' BY <2>1, ProfileTraces, AnswerTraces
  <2>3. Wanting' BY <2>1, <1>0, ReadWants
  <2>4. UNCHANGED <<query, pages>> BY <2>1 DEF Profile, Answer
  <2> QED BY <2>2, <2>3, <2>4, QuietWhole
<1>10. CASE \E f \in Inputs, r \in Results : Snapshot(f, r)
  <2>1. PICK f \in Inputs, r \in Results : Snapshot(f, r) BY <1>10
  <2>2. EInv' BY <2>1, SnapshotTraces
  <2>3. Wanting' BY <2>1, <1>0, ReadWants
  <2>4. UNCHANGED <<query, pages>> BY <2>1 DEF Snapshot
  <2> QED BY <2>2, <2>3, <2>4, QuietWhole
<1>11. CASE Receive BY <1>11, <1>0, ReceiveTraces, ReceiveWants, QueryWhole
<1>12. CASE ReadThrew BY <1>12, <1>0, QueryTraces, QueryWants, QueryWhole
<1>13. CASE AnswerQuery BY <1>13, <1>0, QueryTraces, QueryWants, AnswerQueryWhole
<1>14. CASE NextPage BY <1>14, AskTraces, AskWants, AskWhole
<1>15. CASE \/ \E f \in Files : ChangeFile(f)
            \/ \E f \in Inputs : ChangeCopy(f)
            \/ \E id \in DOMAIN bundles : TreeEnds(id)
            \/ \E d \in {"query", "read"} : DeadlinePasses(d)
            \/ UNCHANGED vars
  <2>1. UNCHANGED <<query, read, capture, pages>>
    BY <1>15 DEF ChangeFile, ChangeCopy, TreeEnds, DeadlinePasses, vars
  <2>2. EInv'
    <3>1. CASE UNCHANGED vars BY <3>1, QuietTraces DEF vars
    <3>2. CASE \E d \in {"query", "read"} : DeadlinePasses(d)
      BY <3>2, QuietTraces DEF DeadlinePasses
    <3> QED BY <1>15, <3>1, <3>2, ChangeFileTraces, ChangeCopyTraces, TreeEndsTraces
  <2> QED BY <2>1, <2>2, QuietWants, QuietWhole
<1> QED BY <1>1, <1>2, <1>3, <1>4, <1>5, <1>6, <1>7, <1>8, <1>9, <1>10, <1>11, <1>12, <1>13,
           <1>14, <1>15 DEF Next

\* A byte range that a read returned is the range that was asked for, of the
\* database whose fingerprints it reports, by the worker whose profile was checked,
\* and what a descriptor read returned is what the update says, in the symbols
\* of the generated source, although the binary, the retained files and the
\* copies may be replaced between any two steps; what a query about a draw has
\* was read from the database as it was captured
\* (ResourceRead.cpp:164, DescriptorRead.cpp:277, Inspection.cpp:976, :1297).
THEOREM AlwaysReadsAreTheDatabase == Spec => []ReadsAreTheDatabase
PROOF
<1>1. ASSUME Answering PROVE ReadsAreTheDatabase BY <1>1 DEF Answering, EInv
<1> QED BY <1>1, AnsweringInit, AnsweringNext, ReadsInvariant, PTL DEF Spec

\* What the invariants say of an answer.
LEMMA AnswersWhole == ASSUME IInv, Answering PROVE AnswersAreTheCapture
PROOF
<1> SUFFICES ASSUME query.phase = "answered"
             PROVE  /\ \A i \in DOMAIN query.done :
                         LET d == query.done[i]
                         IN IF d.base.request.worker = "resource" THEN RangeExact(d)
                            ELSE d.writes = Meant(capture.registrations, d.base.request.handle)
                    /\ query.kind = "resource" => PagesExact
                    /\ query.kind # "resource" =>
                         \A i \in DOMAIN query.done : query.done[i].base.inputs = Captured
                    /\ query.kind = "values" =>
                         \A i \in DOMAIN query.wanted.plans :
                           ValueExact(query.wanted.plans[i], query.values[i])
  BY DEF AnswersAreTheCapture
<1>1. \A i \in DOMAIN query.done : ReadExactly(capture.registrations, query.kind, query.done[i])
  BY DEF Answering, EInv, ReadsAreTheDatabase
<1>2. ASSUME NEW i \in DOMAIN query.done
      PROVE  LET d == query.done[i]
             IN IF d.base.request.worker = "resource" THEN RangeExact(d)
                ELSE d.writes = Meant(capture.registrations, d.base.request.handle)
  <2> DEFINE d == query.done[i]
  <2>1. ReadExactly(capture.registrations, query.kind, d) BY <1>1
  <2> HIDE DEF d
  <2>2. CASE d.base.request.worker = "resource"
    <3>1. RangeExact(d) BY <2>1, <2>2 DEF ReadExactly, RangeExact
    <3> QED BY <2>2, <3>1 DEF d
  <2>3. CASE d.base.request.worker # "resource"
    <3>1. d.base.request.worker = "descriptor"
      BY <2>1, <2>3 DEF ReadExactly, RequestOk, Workers
    <3>2. d.writes = Meant(capture.registrations, d.base.request.handle)
      BY <2>1, <3>1 DEF ReadExactly
    <3> QED BY <2>3, <3>2 DEF d
  <2> QED BY <2>2, <2>3
<1>3. ASSUME query.kind = "resource" PROVE PagesExact
  <2>1. SUFFICES ASSUME Cardinality(pages.inputs) = 1
                 PROVE LET inputs == CHOOSE i \in pages.inputs : TRUE
                           handle == query.wanted.resources[1].handle
                       IN /\ pages.bytes = Slice(inputs["data"], handle, pages.offset, Len(pages.bytes))
                          /\ pages.next = <<>> =>
                               pages.offset + Len(pages.bytes) = Extent(handle, inputs["rec"])
    BY DEF PagesExact
  <2> DEFINE inputs == CHOOSE i \in pages.inputs : TRUE
  <2>2. IsFiniteSet(pages.inputs) BY <1>3 DEF Answering, PagesKept
  <2>3. \E x : pages.inputs = {x} BY <2>1, <2>2, FS_Singleton
  <2>4. inputs \in pages.inputs /\ pages.inputs = {inputs} BY <2>3
  <2> HIDE DEF inputs
  <2>5. /\ pages.bytes = Slice(inputs["data"], query.wanted.resources[1].handle,
                               pages.offset, Len(pages.bytes))
        /\ pages.next = <<>> => pages.offset + Len(pages.bytes)
                                  = Extent(query.wanted.resources[1].handle, inputs["rec"])
    BY <1>3, <2>4 DEF Answering, PagesKept
  <2> QED BY <2>5 DEF inputs
<1>4. query.kind # "resource" => \A i \in DOMAIN query.done : query.done[i].base.inputs = Captured
  BY <1>1 DEF ReadExactly
<1>5. query.kind = "values" => \A i \in DOMAIN query.wanted.plans :
                                 ValueExact(query.wanted.plans[i], query.values[i])
  BY DEF Answering, ValuesKept
<1> QED BY <1>2, <1>3, <1>4, <1>5

\* Every answer tells what the capture holds: a byte range is the range asked
\* for of the database that the answer identifies, pages followed to the end are
\* the whole of it, descriptor writes are those of the update in the symbols of
\* the generated source, and draw values are those of the database as it was
\* captured, although the worker's binary, the retained files and the copies may
\* be replaced between any two steps
\* (ResourceRead.cpp:164, DescriptorRead.cpp:277, Inspection.cpp:976, :1297).
THEOREM AnswersAlwaysTheCapture == Spec => []AnswersAreTheCapture
PROOF
<1> QED BY AnswersWhole, AnsweringInit, AnsweringNext, ReadsInvariant, PTL DEF Spec

================================================================================
