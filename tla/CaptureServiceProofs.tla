------------------------ MODULE CaptureServiceProofs ------------------------
(***************************************************************************)
(* What CaptureService checks on one or two submissions, for any number of *)
(* submissions, failing store operations and changes of files, and for any *)
(* tools, requests and outputs: where the trees of processes are, what is  *)
(* published, what a success and a quarantine say, and what a replay ran   *)
(* on.                                                                     *)
(*                                                                         *)
(* Apart from the source of a replay, the invariant relates an attempt to  *)
(* its own bundle, tree and place, and a step is the step of one attempt;  *)
(* so a part is a predicate of an attempt, proved for the attempt that     *)
(* moves by what its action does and for the others by OthersKept.         *)
(***************************************************************************)
EXTENDS CaptureService, TLAPS

\* Where an attempt may be: before the worker, in it, in the handler of a
\* failed completion, and over.
Early   == {"none", "queued", "dropped"}
Rescue  == {"re_report", "re_provenance", "re_publish"}
Staging == {"queued", "dropped", "ready", "running", "finish", "report", "provenance", "publish"}
Started == {"ready", "running", "finish", "report", "provenance", "publish", "inspect", "done"}
             \cup Rescue
Places  == Early \cup Started \cup {"retired"}

TryFields    == DOMAIN NoTry
BundleFields == DOMAIN NoBundle
IsTry(t)     == t = [f \in TryFields |-> t[f]]
IsBundle(b)  == b = [f \in BundleFields |-> b[f]]

Last(a) == attempt[a].stage = Len(Stages(attempt[a].kind))

\* The records have their fields, and what the invariant computes with its type.
Shaped ==
  /\ attempt = [a \in Tries |-> attempt[a]] /\ bundle = [id \in Ids |-> bundle[id]]
  /\ \A a \in Tries : /\ IsTry(attempt[a]) /\ attempt[a].at \in Places /\ attempt[a].stage \in Nat
                      /\ attempt[a].source \in Ids \cup {Nobody}
                      /\ attempt[a].at # "none" => attempt[a].kind \in AnyKind
  /\ \A id \in Ids : /\ IsBundle(bundle[id]) /\ bundle[id].payload \in 0..MaxChanges
                     /\ bundle[id].home \in {"none", "staging", "bundles", "gone"}
  /\ trees \in [Tries -> Nat] /\ gpu \in Tries \cup {Nobody}
  /\ faults \in Nat /\ changes \in 0..MaxChanges

\* A tree lives only while its cleanup is unconfirmed, beside the GPU and
\* before the publication.
Confined(a) ==
  /\ trees[a] <= 1
  /\ trees[a] = 1 => gpu = a /\ ~attempt[a].cleanup /\ bundle[a].home = "staging"
  /\ attempt[a].at \in Early => attempt[a].cleanup /\ trees[a] = 0 /\ attempt[a].stage = 0
  /\ attempt[a].at = "ready" => attempt[a].cleanup
  /\ attempt[a].at \in Started => gpu = a

\* Where the bundle of an attempt is; the handler runs for a failure whose
\* cleanup is confirmed.
Housed(a) ==
  /\ attempt[a].at = "none" => bundle[a].home = "none"
  /\ attempt[a].at \in Staging \cup Rescue => bundle[a].home = "staging"
  /\ attempt[a].at \in Staging \cup Rescue \cup {"inspect"} => ~bundle[a].quarantined
  /\ attempt[a].at \in Rescue \cup {"inspect"}
       => attempt[a].cleanup /\ attempt[a].outcome = "failed"
  /\ attempt[a].at \in {"inspect", "done", "retired"} => bundle[a].home # "none"

\* The outputs of the stages an attempt passed, and a report once it is saved.
Collected(a) ==
  /\ attempt[a].at \in {"ready", "running"} => attempt[a].stage \in DOMAIN Stages(attempt[a].kind)
  /\ attempt[a].at = "running" => Stage(a) \notin Checks
  /\ attempt[a].at \in Staging =>
       \A k \in DOMAIN Stages(attempt[a].kind) :
         /\ k < attempt[a].stage \/ (k = attempt[a].stage /\ attempt[a].outcome = "succeeded")
         /\ Stages(attempt[a].kind)[k] \in Required(attempt[a].kind)
         => Stages(attempt[a].kind)[k] \in bundle[a].outputs
  /\ attempt[a].at \in {"provenance", "publish"} => "report" \in bundle[a].outputs

\* A success passed the last stage with its cleanup confirmed; what is
\* complete is published, with everything it requires.
Evident(a) ==
  /\ attempt[a].at \in Early \cup {"ready", "running"} => attempt[a].outcome = "none"
  /\ attempt[a].outcome = "succeeded" => attempt[a].cleanup /\ Last(a)
  /\ attempt[a].outcome = "succeeded" /\ attempt[a].at \in {"done", "retired"}
       => \/ bundle[a].status = "complete" /\ bundle[a].home = "bundles"
          \/ bundle[a].home = "gone"
  /\ bundle[a].status = "complete"
       => /\ bundle[a].home = "bundles" /\ attempt[a].cleanup /\ Last(a)
          /\ attempt[a].outcome = "succeeded" \/ faults > 0
          /\ Required(attempt[a].kind) \subseteq bundle[a].outputs

\* What is left unpublished when the worker gives up.
Doubted(a) ==
  bundle[a].home = "staging" =>
    /\ attempt[a].at \in Rescue \cup {"inspect"} => faults >= 1 \/ "unsafe" \in bundle[a].outputs
    /\ attempt[a].at = "done"
         => ~attempt[a].cleanup \/ "unsafe" \in bundle[a].outputs \/ faults >= 2
    /\ attempt[a].at = "retired"
         => /\ bundle[a].quarantined
            /\ \/ ~attempt[a].cleanup
               \/ "unsafe" \in bundle[a].outputs
               \/ faults >= 2
               \/ faults = 1 /\ attempt[a].stage = 0

\* Past its snapshot a replay observed the bytes whose hash its source has.
Sourced(a) ==
  /\ attempt[a].at # "none" => (attempt[a].source = Nobody <=> attempt[a].kind \in Captures)
  /\ attempt[a].source # Nobody =>
       LET source == bundle[attempt[a].source]
       IN /\ attempt[a].at # "none"
          /\ source.home \in {"bundles", "gone"}
          /\ attempt[a].at # "retired" => source.home = "bundles"
          /\ attempt[a].stage > 2 => /\ attempt[a].observed # Never
                                     /\ source.hash = 0 => attempt[a].observed = 0

IInv ==
  /\ Shaped
  /\ \A a \in Tries : /\ Confined(a) /\ Housed(a) /\ Collected(a) /\ Evident(a) /\ Doubted(a)
                      /\ Sourced(a)

-----------------------------------------------------------------------------
(* Stages and required outputs.                                            *)

LEMMA NobodyIsNone == Nobody \notin Tries /\ Nobody \notin Ids /\ Never # 0
BY CaptureBounds DEF Nobody, Tries, Ids, Never

LEMMA StagesLong ==
  ASSUME NEW kind \in AnyKind
  PROVE  Len(Stages(kind)) \in Nat /\ Len(Stages(kind)) > 2
           /\ DOMAIN Stages(kind) = 1..Len(Stages(kind))
<1> USE DEF Stages, CaptureStages, ReplayStages, Captures
<1>1. CASE kind = "graphics"
  BY <1>1
<1>2. CASE kind = "cpp"
  BY <1>2
<1>5. CASE kind = "profile"
  BY <1>5
<1>3. CASE kind = "replay"
  BY <1>3
<1>4. CASE kind = "timing"
  BY <1>4
<1> QED
  BY <1>1, <1>2, <1>3, <1>4, <1>5 DEF AnyKind

\* The snapshot is the second stage, of a replay only; a graphics capture
\* names its capture, and no replay does.
LEMMA SnapshotSecond ==
  ASSUME NEW kind \in AnyKind, NEW k \in DOMAIN Stages(kind)
  PROVE  /\ Stages(kind)[k] = "snapshot" <=> k = 2 /\ kind \notin Captures
         /\ Stages(kind)[k] = "capture" => kind \in Captures
<1> USE DEF Stages, CaptureStages, ReplayStages, Captures
<1>1. CASE kind = "graphics"
  BY <1>1
<1>2. CASE kind \in {"cpp", "profile"}
  BY <1>2
<1>3. CASE kind = "replay"
  BY <1>3
<1>4. CASE kind = "timing"
  BY <1>4
<1> QED
  BY <1>1, <1>2, <1>3, <1>4 DEF AnyKind

\* What a kind requires, apart from the report, is what its stages make.
LEMMA RequiredMade ==
  ASSUME NEW kind \in AnyKind
  PROVE  /\ \A output \in Required(kind) \ {"report"} :
              \E k \in DOMAIN Stages(kind) : Stages(kind)[k] = output
         /\ Required(kind) \cap Optional = {}
         /\ Required(kind) \cap (Checks \cup {"discovery"}) \subseteq {"snapshot"}
BY DEF AnyKind, Captures, Stages, CaptureStages, ReplayStages, Required, Optional, Checks

-----------------------------------------------------------------------------
(* What the operators do to the record of an attempt.                      *)

LEMMA NoTryIs ==
  /\ IsTry(NoTry) /\ NoTry.at = "none" /\ NoTry.stage = 0 /\ NoTry.source = Nobody
  /\ NoTry.cleanup = TRUE /\ NoTry.outcome = "none"
BY DEF IsTry, TryFields, NoTry

LEMMA FailedIs ==
  ASSUME NEW t, IsTry(t)
  PROVE  /\ IsTry(Failed(t)) /\ Failed(t).at = "finish" /\ Failed(t).outcome = "failed"
         /\ Failed(t).kind = t.kind /\ Failed(t).source = t.source /\ Failed(t).stage = t.stage
         /\ Failed(t).cleanup = t.cleanup /\ Failed(t).observed = t.observed
BY DEF IsTry, TryFields, NoTry, Failed

LEMMA AdvancedIs ==
  ASSUME NEW t, IsTry(t)
  PROVE  /\ IsTry(Advanced(t))
         /\ Advanced(t).kind = t.kind /\ Advanced(t).source = t.source
         /\ Advanced(t).cleanup = t.cleanup /\ Advanced(t).observed = t.observed
         /\ IF t.stage = Len(Stages(t.kind))
            THEN /\ Advanced(t).at = "finish" /\ Advanced(t).outcome = "succeeded"
                 /\ Advanced(t).stage = t.stage
            ELSE /\ Advanced(t).at = "ready" /\ Advanced(t).outcome = t.outcome
                 /\ Advanced(t).stage = t.stage + 1
BY DEF IsTry, TryFields, NoTry, Advanced

LEMMA ForgottenIs ==
  ASSUME NEW t, IsTry(t)
  PROVE  /\ IsTry(Forgotten(t)) /\ Forgotten(t).at = "retired"
         /\ Forgotten(t).kind = t.kind /\ Forgotten(t).source = t.source
         /\ Forgotten(t).stage = t.stage /\ Forgotten(t).cleanup = t.cleanup
         /\ Forgotten(t).outcome = t.outcome /\ Forgotten(t).observed = t.observed
BY DEF IsTry, TryFields, NoTry, Forgotten

LEMMA NoBundleIs ==
  /\ IsBundle(NoBundle) /\ NoBundle.home = "none" /\ NoBundle.status = "staging"
  /\ NoBundle.payload = 0 /\ NoBundle.hash = Never /\ ~NoBundle.quarantined
BY DEF IsBundle, BundleFields, NoBundle

\* Publication and quarantine keep the payload, the outputs and the hash.
LEMMA PublishedIs ==
  ASSUME NEW b, IsBundle(b), NEW status
  PROVE  /\ IsBundle(Published(b, status)) /\ Published(b, status).home = "bundles"
         /\ Published(b, status).status = status /\ Published(b, status).payload = b.payload
         /\ Published(b, status).outputs = b.outputs /\ ~Published(b, status).quarantined
BY DEF IsBundle, BundleFields, NoBundle, Published

LEMMA QuarantinedIs ==
  ASSUME NEW b, IsBundle(b)
  PROVE  /\ IsBundle(Quarantined(b)) /\ Quarantined(b).home = b.home
         /\ Quarantined(b).status = "failed" /\ Quarantined(b).quarantined
         /\ Quarantined(b).payload = b.payload /\ Quarantined(b).outputs = b.outputs
BY DEF IsBundle, BundleFields, NoBundle, Quarantined

LEMMA ReleasedWriterIs ==
  ASSUME NEW b, IsBundle(b)
  PROVE  /\ IsBundle(ReleasedWriter(b)) /\ ReleasedWriter(b).home = b.home
         /\ ReleasedWriter(b).payload = b.payload /\ ReleasedWriter(b).outputs = b.outputs
         /\ b.home = "staging" => ReleasedWriter(b).quarantined /\ ReleasedWriter(b).status = "failed"
         /\ b.home # "staging" => /\ ReleasedWriter(b).status = b.status
                                  /\ ReleasedWriter(b).hash = b.hash
<1>1. CASE b.home = "staging"
  <2>1. IsBundle(Quarantined(b)) /\ Quarantined(b).home = b.home
        /\ Quarantined(b).status = "failed" /\ Quarantined(b).quarantined
        /\ Quarantined(b).payload = b.payload /\ Quarantined(b).outputs = b.outputs
    BY QuarantinedIs
  <2> QED
    BY <1>1, <2>1 DEF IsBundle, BundleFields, NoBundle, ReleasedWriter
<1>2. CASE b.home # "staging"
  BY <1>2 DEF IsBundle, BundleFields, NoBundle, ReleasedWriter
<1> QED
  BY <1>1, <1>2

-----------------------------------------------------------------------------
(* One attempt moves.                                                      *)

Mine(a) == Confined(a) /\ Housed(a) /\ Collected(a) /\ Evident(a) /\ Doubted(a)

\* The step changes the attempt, the bundle and the tree of a and of nobody
\* else; what is published keeps its place and its hash, the GPU stays with
\* the others, and the faults only grow.
TryMoves(a) ==
  /\ attempt' = [attempt EXCEPT ![a] = attempt'[a]] /\ IsTry(attempt'[a])
  /\ attempt'[a].at \in Places \ {"none"} /\ attempt'[a].stage \in Nat
  /\ attempt'[a].source \in Ids \cup {Nobody} /\ attempt'[a].kind \in AnyKind

BundleMoves(a) ==
  /\ bundle' = [bundle EXCEPT ![a] = bundle'[a]] /\ IsBundle(bundle'[a])
  /\ bundle'[a].home \in {"none", "staging", "bundles", "gone"}
  /\ bundle'[a].payload \in 0..MaxChanges
  /\ bundle[a].home \in {"bundles", "gone"}
       => bundle'[a].home = bundle[a].home /\ bundle'[a].hash = bundle[a].hash

TreeMoves(a) == trees' = [trees EXCEPT ![a] = trees'[a]] /\ trees'[a] \in Nat

RestMoves(a) ==
  /\ gpu' \in Tries \cup {Nobody} /\ \A b \in Tries \ {a} : gpu = b => gpu' = b
  /\ faults' \in Nat /\ faults' >= faults /\ changes' = changes

Moves(a) == TryMoves(a) /\ BundleMoves(a) /\ TreeMoves(a) /\ RestMoves(a)

LEMMA Unmoved ==
  ASSUME Shaped, NEW a \in Tries
  PROVE  /\ UNCHANGED bundle => BundleMoves(a)
         /\ UNCHANGED trees => TreeMoves(a)
         /\ UNCHANGED <<gpu, faults, changes>> => RestMoves(a)
<1>1. a \in Ids
  BY DEF Tries, Ids
<1>2. bundle = [bundle EXCEPT ![a] = bundle[a]] /\ trees = [trees EXCEPT ![a] = trees[a]]
  BY <1>1 DEF Shaped
<1>3. UNCHANGED bundle => BundleMoves(a)
  BY <1>1, <1>2 DEF Shaped, BundleMoves
<1>4. UNCHANGED trees => TreeMoves(a)
  BY <1>2 DEF Shaped, TreeMoves
<1> QED
  BY <1>3, <1>4 DEF Shaped, RestMoves

LEMMA MovesShaped ==
  ASSUME Shaped, NEW a \in Tries, Moves(a)
  PROVE  Shaped'
<1>1. /\ attempt' = [b \in Tries |-> IF b = a THEN attempt'[a] ELSE attempt[b]]
      /\ bundle' = [b \in Ids |-> IF b = a THEN bundle'[a] ELSE bundle[b]]
      /\ a \in Ids
  BY DEF Shaped, Moves, TryMoves, BundleMoves, Tries, Ids
<1>2. attempt' = [b \in Tries |-> attempt'[b]] /\ bundle' = [id \in Ids |-> bundle'[id]]
  BY <1>1
<1>3. trees' \in [Tries -> Nat]
  BY DEF Shaped, Moves, TreeMoves
<1>4. \A b \in Tries \ {a} : attempt'[b] = attempt[b]
  BY <1>1
<1>5. \A id \in Ids \ {a} : bundle'[id] = bundle[id]
  BY <1>1
<1>6. /\ \A b \in Tries : /\ IsTry(attempt'[b]) /\ attempt'[b].at \in Places
                          /\ attempt'[b].stage \in Nat
                          /\ attempt'[b].source \in Ids \cup {Nobody}
                          /\ attempt'[b].at # "none" => attempt'[b].kind \in AnyKind
  BY <1>4 DEF Shaped, Moves, TryMoves
<1>7. \A id \in Ids : /\ IsBundle(bundle'[id]) /\ bundle'[id].payload \in 0..MaxChanges
                      /\ bundle'[id].home \in {"none", "staging", "bundles", "gone"}
  BY <1>5 DEF Shaped, Moves, BundleMoves
<1> QED
  BY <1>2, <1>3, <1>6, <1>7 DEF Shaped, Moves, RestMoves, IsTry, IsBundle, TryFields, BundleFields

\* An attempt that does not move keeps its part of the invariant.
LEMMA OthersKept ==
  ASSUME NEW b \in Tries, Mine(b), attempt'[b] = attempt[b], bundle'[b] = bundle[b],
         trees'[b] = trees[b], gpu = b => gpu' = b,
         faults \in Nat, faults' \in Nat, faults' >= faults
  PROVE  Mine(b)'
<1>1. Confined(b)' /\ Housed(b)' /\ Collected(b)'
  BY DEF Mine, Confined, Housed, Collected, Stage
<1>2. Evident(b)' /\ Doubted(b)'
  BY DEF Mine, Evident, Doubted, Last
<1> QED
  BY <1>1, <1>2 DEF Mine

\* And so does its source, while what is published keeps its place and hash.
LEMMA SourcedKept ==
  ASSUME NEW a \in Tries, Shaped, Sourced(a), attempt[a].at # "none", attempt'[a].at # "none",
         attempt'[a].kind = attempt[a].kind, attempt'[a].source = attempt[a].source,
         attempt'[a].observed = attempt[a].observed,
         attempt'[a].stage > 2 => attempt[a].stage > 2 \/ attempt[a].source = Nobody,
         attempt[a].at = "retired" => attempt'[a].at = "retired",
         \A id \in Ids : bundle[id].home \in {"bundles", "gone"}
           => bundle'[id].home = bundle[id].home /\ bundle'[id].hash = bundle[id].hash
  PROVE  Sourced(a)'
BY DEF Sourced, Shaped

LEMMA OneMoves ==
  ASSUME IInv, NEW a \in Tries, Moves(a), Mine(a)', Sourced(a)'
  PROVE  IInv'
<1>1. Shaped'
  BY MovesShaped DEF IInv
<1>2. /\ \A b \in Tries \ {a} : attempt'[b] = attempt[b] /\ trees'[b] = trees[b]
      /\ \A id \in Ids \ {a} : bundle'[id] = bundle[id]
  BY DEF Moves, TryMoves, BundleMoves, TreeMoves, IInv, Shaped
<1>3. \A b \in Tries \ {a} : Mine(b)'
  <2> SUFFICES ASSUME NEW b \in Tries \ {a} PROVE Mine(b)'
    OBVIOUS
  <2>1. b \in Ids /\ Mine(b)
    BY DEF Tries, Ids, IInv, Mine
  <2> QED
    BY <1>2, <2>1, OthersKept DEF Moves, RestMoves, IInv, Shaped
<1>4. \A b \in Tries \ {a} : Sourced(b)'
  <2> SUFFICES ASSUME NEW b \in Tries \ {a} PROVE Sourced(b)'
    OBVIOUS
  <2>1. \A id \in Ids : bundle[id].home \in {"bundles", "gone"}
           => bundle'[id].home = bundle[id].home /\ bundle'[id].hash = bundle[id].hash
    BY <1>2 DEF Moves, BundleMoves
  <2>2. attempt'[b] = attempt[b] /\ Sourced(b) /\ attempt[b].source \in Ids \cup {Nobody}
    BY <1>2 DEF IInv, Shaped
  <2> QED
    BY <2>1, <2>2 DEF Sourced
<1> QED
  BY <1>1, <1>3, <1>4 DEF IInv, Mine

\* Most steps leave the attempt what it is and the job with the source it has.
LEMMA MoveOn ==
  ASSUME IInv, NEW a \in Tries, Moves(a), Mine(a)', attempt[a].at \notin {"none", "retired"},
         attempt'[a].kind = attempt[a].kind, attempt'[a].source = attempt[a].source,
         attempt'[a].observed = attempt[a].observed,
         attempt'[a].stage > 2 => attempt[a].stage > 2 \/ attempt[a].source = Nobody
  PROVE  IInv'
<1>1. \A id \in Ids \ {a} : bundle'[id] = bundle[id]
  BY DEF Moves, TryMoves, BundleMoves, TreeMoves, IInv, Shaped
<1>2. \A id \in Ids : bundle[id].home \in {"bundles", "gone"}
        => bundle'[id].home = bundle[id].home /\ bundle'[id].hash = bundle[id].hash
  BY <1>1 DEF Moves, BundleMoves
<1>3. attempt'[a].at # "none"
  BY DEF Moves, TryMoves
<1>4. Sourced(a)'
  BY <1>2, <1>3, SourcedKept DEF IInv
<1> QED
  BY <1>4, OneMoves

-----------------------------------------------------------------------------
(* Submission and start.                                                   *)

LEMMA StopKept ==
  ASSUME IInv, NEW a \in Tries, Stop(a)
  PROVE  IInv'
<1>0. /\ Mine(a) /\ Shaped /\ IsTry(attempt[a]) /\ IsBundle(bundle[a]) /\ a \in Ids
      /\ UNCHANGED <<bundle, trees, gpu, faults, changes>>
      /\ attempt[a].at \in {"queued", "ready", "running", "finish"}
      /\ attempt' = [attempt EXCEPT ![a].stop = TRUE]
  BY DEF IInv, Mine, Shaped, Stop, Tries, Ids
<1>1. /\ attempt' = [attempt EXCEPT ![a] = attempt'[a]] /\ IsTry(attempt'[a])
      /\ attempt'[a].kind = attempt[a].kind /\ attempt'[a].source = attempt[a].source
      /\ attempt'[a].observed = attempt[a].observed /\ attempt'[a].stage = attempt[a].stage
      /\ attempt'[a].at = attempt[a].at /\ attempt'[a].cleanup = attempt[a].cleanup
      /\ attempt'[a].outcome = attempt[a].outcome
  BY <1>0 DEF Shaped, IsTry, TryFields, NoTry
<1>2. Moves(a)
  BY <1>0, <1>1, Unmoved DEF Moves, TryMoves, Shaped, Places
<1>3. Confined(a)' /\ Housed(a)'
  BY <1>0, <1>1 DEF Mine, Confined, Housed
<1>4. Collected(a)'
  BY <1>0, <1>1 DEF Mine, Collected, Stage
<1>5. Evident(a)' /\ Doubted(a)'
  BY <1>0, <1>1 DEF Mine, Evident, Doubted, Last
<1>6. Mine(a)'
  BY <1>3, <1>4, <1>5 DEF Mine
<1> QED
  BY <1>0, <1>1, <1>2, <1>6, MoveOn

LEMMA Parts ==
  ASSUME IInv, NEW a \in Tries
  PROVE  /\ Shaped /\ Mine(a) /\ Sourced(a) /\ a \in Ids
         /\ IsTry(attempt[a]) /\ IsBundle(bundle[a])
         /\ attempt[a].at \in Places /\ attempt[a].stage \in Nat
         /\ attempt[a].source \in Ids \cup {Nobody}
         /\ attempt[a].at # "none" => attempt[a].kind \in AnyKind
         /\ bundle[a].home \in {"none", "staging", "bundles", "gone"}
         /\ bundle[a].payload \in 0..MaxChanges
         /\ trees[a] \in Nat /\ faults \in Nat
BY DEF IInv, Mine, Shaped, Tries, Ids

LEMMA TryMoved ==
  ASSUME Shaped, NEW a \in Tries, NEW t, IsTry(t), attempt' = [attempt EXCEPT ![a] = t]
  PROVE  /\ attempt'[a] = t
         /\ t.at \in Places \ {"none"} /\ t.stage \in Nat /\ t.source \in Ids \cup {Nobody}
            /\ t.kind \in AnyKind => TryMoves(a)
BY DEF Shaped, TryMoves

LEMMA BundleMoved ==
  ASSUME Shaped, NEW a \in Tries, NEW b, IsBundle(b), bundle' = [bundle EXCEPT ![a] = b]
  PROVE  /\ bundle'[a] = b
         /\ b.home \in {"none", "staging", "bundles", "gone"} /\ b.payload \in 0..MaxChanges
            /\ (bundle[a].home \in {"bundles", "gone"}
                  => b.home = bundle[a].home /\ b.hash = bundle[a].hash)
            => BundleMoves(a)
<1>1. a \in Ids
  BY DEF Tries, Ids
<1>2. bundle'[a] = b
  BY <1>1 DEF Shaped
<1> QED
  BY <1>2 DEF BundleMoves

LEMMA TreeMoved ==
  ASSUME Shaped, NEW a \in Tries, NEW n \in Nat, trees' = [trees EXCEPT ![a] = n]
  PROVE  trees'[a] = n /\ TreeMoves(a)
BY DEF Shaped, TreeMoves

LEMMA BeginKept ==
  ASSUME IInv, NEW a \in Tries, Begin(a)
  PROVE  IInv'
<1> DEFINE t == [attempt[a] EXCEPT !.at = "ready", !.stage = 1]
<1>0. /\ UNCHANGED <<bundle, trees, faults, changes>> /\ gpu = Nobody /\ gpu' = a
      /\ attempt[a].at = "queued" /\ attempt' = [attempt EXCEPT ![a] = t]
  BY DEF Begin
<1>1. /\ Shaped /\ Confined(a) /\ Housed(a) /\ Collected(a) /\ Evident(a) /\ Doubted(a)
      /\ IsTry(attempt[a]) /\ attempt[a].kind \in AnyKind
      /\ attempt[a].source \in Ids \cup {Nobody}
  BY <1>0, Parts DEF Mine
<1>2. /\ IsTry(t) /\ t.at = "ready" /\ t.stage = 1 /\ t.kind = attempt[a].kind
      /\ t.source = attempt[a].source /\ t.observed = attempt[a].observed
      /\ t.cleanup = attempt[a].cleanup /\ t.outcome = attempt[a].outcome
  BY <1>1 DEF IsTry, TryFields, NoTry
<1> HIDE DEF t
<1>3. attempt'[a] = t /\ TryMoves(a)
  <2>1. t.at \in Places \ {"none"} /\ t.stage \in Nat
    BY <1>2 DEF Places, Started
  <2> QED
    BY <1>0, <1>1, <1>2, <2>1, TryMoved
<1>4. BundleMoves(a) /\ TreeMoves(a)
  BY <1>0, <1>1, Unmoved
<1>5. Moves(a)
  BY <1>0, <1>1, <1>3, <1>4, NobodyIsNone DEF Moves, RestMoves, Shaped
<1>6. Confined(a)' /\ Housed(a)'
  BY <1>0, <1>1, <1>2, <1>3 DEF Confined, Housed, Early, Started, Staging, Rescue
<1>7. Collected(a)'
  <2>1. 1 \in DOMAIN Stages(t.kind) /\ \A k \in DOMAIN Stages(t.kind) : k \in Nat /\ ~(k < 1)
    BY <1>1, <1>2, StagesLong
  <2>2. attempt'[a].outcome = "none"
    BY <1>0, <1>1, <1>2, <1>3 DEF Evident, Early
  <2> QED
    BY <1>0, <1>1, <1>2, <1>3, <2>1, <2>2 DEF Collected
<1>8. Evident(a)' /\ Doubted(a)'
  BY <1>0, <1>1, <1>2, <1>3 DEF Evident, Doubted, Housed, Early, Staging, Rescue
<1>9. Mine(a)'
  BY <1>6, <1>7, <1>8 DEF Mine
<1> QED
  BY <1>0, <1>1, <1>2, <1>3, <1>5, <1>9, MoveOn

Opened(n, kind, source, overrides, request, interval, selection, at) ==
  [n EXCEPT !.kind = kind, !.source = source, !.overrides = overrides, !.request = request,
            !.interval = interval, !.selection = selection, !.at = at]

LEMMA OpenedIs ==
  ASSUME NEW n, IsTry(n), NEW kind, NEW source, NEW overrides, NEW request, NEW interval,
         NEW selection, NEW at, NEW t,
         t = Opened(n, kind, source, overrides, request, interval, selection, at)
  PROVE  /\ IsTry(t) /\ t.at = at /\ t.stage = n.stage /\ t.kind = kind /\ t.source = source
         /\ t.cleanup = n.cleanup /\ t.outcome = n.outcome
BY DEF IsTry, TryFields, NoTry, Opened

LEMMA SubmitKept ==
  ASSUME IInv, NEW a \in Tries, NEW kind \in Kinds[a], NEW request, NEW overrides,
         NEW source \in Ids \cup {Nobody}, NEW interval,
         Submit(a, kind, request, overrides, source, interval)
  PROVE  IInv'
<1> DEFINE b == [NoBundle EXCEPT !.home = "staging", !.writer = TRUE]
<1>1. PICK at \in {"queued", "dropped"} :
        attempt' = [attempt EXCEPT ![a] =
          Opened(NoTry, kind, source, overrides, request, interval, Selection(overrides), at)]
  BY DEF Submit, Opened
<1> DEFINE t == Opened(NoTry, kind, source, overrides, request, interval, Selection(overrides), at)
<1>2. /\ UNCHANGED <<trees, gpu, faults, changes>> /\ bundle' = [bundle EXCEPT ![a] = b]
      /\ attempt[a].at = "none" /\ attempt' = [attempt EXCEPT ![a] = t] /\ kind \in AnyKind
      /\ ValidRequest(kind, request, interval, source)
  BY <1>1, KindsKnown DEF Submit
<1>3. /\ Shaped /\ Confined(a) /\ Housed(a) /\ faults \in Nat /\ a \in Ids
      /\ bundle[a].home = "none" /\ trees[a] = 0
  BY <1>2, Parts DEF Mine, Housed, Confined, Early
<1>4. /\ IsTry(t) /\ t.at = at /\ t.stage = 0 /\ t.kind = kind /\ t.source = source
      /\ t.cleanup = TRUE /\ t.outcome = "none"
  BY OpenedIs, NoTryIs
<1>5. /\ IsBundle(b) /\ b.home = "staging" /\ b.status = "staging" /\ b.payload = 0
      /\ b.quarantined = FALSE
  BY DEF IsBundle, BundleFields, NoBundle
<1> HIDE DEF t, b
<1>6. attempt'[a] = t /\ TryMoves(a)
  <2>1. t.at \in Places \ {"none"} /\ t.stage \in Nat
    BY <1>4 DEF Places, Early
  <2> QED
    BY <1>2, <1>3, <1>4, <2>1, TryMoved
<1>7. bundle'[a] = b /\ BundleMoves(a)
  <2>1. 0 \in 0..MaxChanges
    BY CaptureBounds
  <2> QED
    BY <1>2, <1>3, <1>5, <2>1, BundleMoved
<1>8. Moves(a)
  BY <1>2, <1>3, <1>6, <1>7, Unmoved DEF Moves
<1>9. Confined(a)' /\ Housed(a)'
  BY <1>2, <1>3, <1>4, <1>5, <1>6, <1>7 DEF Confined, Housed, Early, Started, Staging, Rescue
<1>10. Collected(a)'
  <2>1. \A k \in DOMAIN Stages(kind) : k \in Nat /\ ~(k < 0)
    BY <1>2, StagesLong
  <2> QED
    BY <1>4, <1>6, <2>1 DEF Collected
<1>11. Evident(a)' /\ Doubted(a)'
  BY <1>4, <1>5, <1>6, <1>7 DEF Evident, Doubted, Rescue
<1>12. Mine(a)'
  BY <1>9, <1>10, <1>11 DEF Mine
<1>13. Sourced(a)'
  <2>1. source = Nobody <=> kind \in Captures
    BY <1>2, NobodyIsNone DEF ValidRequest, AnyKind, Captures
  <2>2. CASE source # Nobody
    <3>1. kind \in {"replay", "timing"} /\ source \in Ids
      BY <1>2, <2>1, <2>2 DEF AnyKind, Captures
    <3>2. bundle[source].home = "bundles"
      BY <1>2, <2>2, <3>1 DEF ValidRequest, Replayable
    <3>3. bundle'[source] = bundle[source]
      BY <1>2, <1>3, <3>1, <3>2 DEF Shaped
    <3> QED
      BY <1>4, <1>6, <2>1, <2>2, <3>2, <3>3 DEF Sourced
  <2> QED
    BY <1>4, <1>6, <2>1, <2>2 DEF Sourced
<1> QED
  BY <1>8, <1>12, <1>13, OneMoves

-----------------------------------------------------------------------------
(* The stages.                                                             *)

\* How a stage ends: the attempt goes on, or the worker gives it up.
Went(a) ==
  /\ attempt'[a].kind = attempt[a].kind /\ attempt'[a].source = attempt[a].source
  /\ trees' [a] \in Nat /\ UNCHANGED <<gpu, faults>>
  /\ bundle'[a].home = bundle[a].home /\ bundle'[a].status = bundle[a].status
  /\ bundle'[a].quarantined = bundle[a].quarantined
  /\ bundle[a].outputs \subseteq bundle'[a].outputs

WentOn(a) ==
  /\ Went(a) /\ attempt'[a].cleanup /\ trees'[a] = 0
  /\ IF Last(a)
     THEN /\ attempt'[a].at = "finish" /\ attempt'[a].outcome = "succeeded"
          /\ attempt'[a].stage = attempt[a].stage
     ELSE /\ attempt'[a].at = "ready" /\ attempt'[a].outcome = attempt[a].outcome
          /\ attempt'[a].stage = attempt[a].stage + 1
  /\ Stage(a) \in Required(attempt[a].kind) => Stage(a) \in bundle'[a].outputs

GaveUp(a) ==
  /\ Went(a) /\ trees'[a] <= 1 /\ (trees'[a] = 1 => ~attempt'[a].cleanup)
  /\ attempt'[a].at = "finish" /\ attempt'[a].outcome = "failed"
  /\ attempt'[a].stage = attempt[a].stage

LEMMA WentOnKept ==
  ASSUME IInv, NEW a \in Tries, attempt[a].at \in {"ready", "running"}, WentOn(a)
  PROVE  Mine(a)'
<1>1. /\ Confined(a) /\ Housed(a) /\ Collected(a) /\ Evident(a) /\ faults \in Nat
      /\ attempt[a].kind \in AnyKind /\ attempt[a].stage \in Nat
      /\ attempt[a].outcome = "none" /\ bundle[a].home = "staging" /\ gpu = a
      /\ ~bundle[a].quarantined
  BY Parts DEF Mine, Evident, Housed, Confined, Started, Staging
<1>2. /\ attempt'[a].kind = attempt[a].kind /\ attempt'[a].cleanup /\ trees'[a] = 0
      /\ UNCHANGED <<gpu, faults>> /\ bundle'[a].home = "staging"
      /\ bundle'[a].status = bundle[a].status /\ ~bundle'[a].quarantined
      /\ bundle[a].outputs \subseteq bundle'[a].outputs
  BY <1>1 DEF WentOn, Went
<1>3. \/ Last(a)' /\ attempt'[a].at = "finish" /\ attempt'[a].outcome = "succeeded"
           /\ attempt'[a].stage = attempt[a].stage
      \/ ~Last(a) /\ attempt'[a].at = "ready" /\ attempt'[a].outcome = "none"
           /\ attempt'[a].stage = attempt[a].stage + 1
  BY <1>1, <1>2 DEF WentOn, Last
<1>4. Confined(a)' /\ Housed(a)'
  BY <1>1, <1>2, <1>3 DEF Confined, Housed, Early, Started, Staging, Rescue
<1>5. Collected(a)'
  <2>1. /\ DOMAIN Stages(attempt[a].kind) = 1..Len(Stages(attempt[a].kind))
        /\ Len(Stages(attempt[a].kind)) \in Nat
        /\ attempt[a].stage \in DOMAIN Stages(attempt[a].kind)
    BY <1>1, StagesLong DEF Collected
  <2>2. attempt'[a].at = "ready" => attempt'[a].stage \in DOMAIN Stages(attempt[a].kind)
    BY <1>1, <1>3, <2>1 DEF Last
  <2>3. ASSUME NEW k \in DOMAIN Stages(attempt[a].kind),
               \/ k < attempt'[a].stage
               \/ k = attempt'[a].stage /\ attempt'[a].outcome = "succeeded",
               Stages(attempt[a].kind)[k] \in Required(attempt[a].kind)
        PROVE  Stages(attempt[a].kind)[k] \in bundle'[a].outputs
    <3>1. k < attempt[a].stage \/ k = attempt[a].stage
      BY <1>1, <1>3, <2>1, <2>3
    <3>2. CASE k < attempt[a].stage
      <4>1. Stages(attempt[a].kind)[k] \in bundle[a].outputs
        BY <2>3, <3>2 DEF Collected, Staging, Mine, IInv
      <4> QED
        BY <1>2, <4>1
    <3>3. CASE k = attempt[a].stage
      BY <2>3, <3>3 DEF WentOn, Stage
    <3> QED
      BY <3>1, <3>2, <3>3
  <2> QED
    BY <1>2, <1>3, <2>2, <2>3 DEF Collected
<1>6. Evident(a)'
  BY <1>1, <1>2, <1>3 DEF Evident, Early
<1>7. Doubted(a)'
  BY <1>3 DEF Doubted, Rescue
<1> QED
  BY <1>4, <1>5, <1>6, <1>7 DEF Mine

LEMMA GaveUpKept ==
  ASSUME IInv, NEW a \in Tries, attempt[a].at \in {"ready", "running"}, GaveUp(a)
  PROVE  Mine(a)'
<1>1. /\ Confined(a) /\ Housed(a) /\ Collected(a) /\ Evident(a) /\ faults \in Nat
      /\ attempt[a].stage \in Nat /\ bundle[a].home = "staging" /\ gpu = a
      /\ ~bundle[a].quarantined
  BY Parts DEF Mine, Evident, Housed, Confined, Started, Staging
<1>2. /\ attempt'[a].kind = attempt[a].kind /\ trees'[a] \in Nat /\ trees'[a] <= 1
      /\ trees'[a] = 1 => ~attempt'[a].cleanup
      /\ UNCHANGED <<gpu, faults>> /\ bundle'[a].home = "staging"
      /\ bundle'[a].status = bundle[a].status /\ ~bundle'[a].quarantined
      /\ bundle[a].outputs \subseteq bundle'[a].outputs
      /\ attempt'[a].at = "finish" /\ attempt'[a].outcome = "failed"
      /\ attempt'[a].stage = attempt[a].stage
  BY <1>1 DEF GaveUp, Went
<1>4. Confined(a)' /\ Housed(a)'
  BY <1>1, <1>2 DEF Confined, Housed, Early, Started, Staging, Rescue
<1>5. Collected(a)'
  <2>3. ASSUME NEW k \in DOMAIN Stages(attempt[a].kind), k < attempt[a].stage,
               Stages(attempt[a].kind)[k] \in Required(attempt[a].kind)
        PROVE  Stages(attempt[a].kind)[k] \in bundle'[a].outputs
    BY <1>1, <1>2, <2>3 DEF Collected, Staging
  <2> QED
    BY <1>2, <2>3 DEF Collected
<1>6. Evident(a)'
  BY <1>1, <1>2 DEF Evident, Early
<1>7. Doubted(a)'
  BY <1>2 DEF Doubted, Rescue
<1> QED
  BY <1>4, <1>5, <1>6, <1>7 DEF Mine

\* A stage other than the snapshot does not carry a replay past it.
LEMMA NotTheSnapshot ==
  ASSUME IInv, NEW a \in Tries, attempt[a].at \in {"ready", "running"}, Stage(a) # "snapshot",
         attempt'[a].stage \in {attempt[a].stage, attempt[a].stage + 1}
  PROVE  attempt'[a].stage > 2 => attempt[a].stage > 2 \/ attempt[a].source = Nobody
<1>1. /\ Collected(a) /\ Sourced(a) /\ attempt[a].stage \in Nat /\ attempt[a].kind \in AnyKind
  BY Parts DEF Mine
<1>2. attempt[a].stage \in DOMAIN Stages(attempt[a].kind)
  BY <1>1 DEF Collected
<1>3. attempt[a].stage # 2 \/ attempt[a].kind \in Captures
  BY <1>1, <1>2, SnapshotSecond DEF Stage
<1> QED
  BY <1>1, <1>3 DEF Sourced

LEMMA CheckEffectIs ==
  ASSUME NEW a \in Tries, IsTry(attempt[a])
  PROVE  LET t == CheckEffect(a)
         IN /\ IsTry(t) /\ t.at = attempt[a].at /\ t.stage = attempt[a].stage
            /\ t.kind = attempt[a].kind /\ t.source = attempt[a].source
            /\ t.cleanup = attempt[a].cleanup /\ t.outcome = attempt[a].outcome
            /\ t.observed = IF Stage(a) = "snapshot" THEN bundle[attempt[a].source].payload
                            ELSE attempt[a].observed
<1>1. CASE Stage(a) = "before"
  BY <1>1 DEF IsTry, TryFields, NoTry, CheckEffect
<1>2. CASE Stage(a) = "target"
  BY <1>2 DEF IsTry, TryFields, NoTry, CheckEffect
<1>3. CASE Stage(a) = "snapshot"
  BY <1>3 DEF IsTry, TryFields, NoTry, CheckEffect
<1>4. CASE Stage(a) \notin {"before", "target", "snapshot"}
  BY <1>4 DEF CheckEffect
<1> QED
  BY <1>1, <1>2, <1>3, <1>4

\* How a stage is left: with the attempt as the operation returned it, a tree
\* that only an unconfirmed cleanup leaves, and the bundle b.
Operated(a, try) ==
  /\ IsTry(try) /\ try.kind = attempt[a].kind /\ try.source = attempt[a].source
  /\ try.stage = attempt[a].stage /\ try.outcome = attempt[a].outcome
  /\ try.observed = attempt[a].observed

Left(a, b) ==
  /\ IsBundle(b) /\ b.home = bundle[a].home /\ b.status = bundle[a].status
  /\ b.quarantined = bundle[a].quarantined /\ b.payload = bundle[a].payload
  /\ bundle[a].outputs \subseteq b.outputs

Becomes(a, t, b, alive) ==
  /\ attempt' = [attempt EXCEPT ![a] = t] /\ bundle' = [bundle EXCEPT ![a] = b]
  /\ trees' = [trees EXCEPT ![a] = alive] /\ UNCHANGED <<gpu, faults, changes>>

Concluded(a, try, alive, t, b) ==
  /\ Operated(a, try) /\ Left(a, b)
  /\ alive \in {0, 1} /\ (alive = 1 => ~try.cleanup)
  /\ \/ t = Failed(try)
     \/ /\ t = Advanced(try) /\ try.cleanup /\ alive = 0 /\ Stage(a) # "snapshot"
        /\ Stage(a) \in Required(attempt[a].kind) => Stage(a) \in b.outputs
  /\ Becomes(a, t, b, alive)

LEMMA ConcludedKept ==
  ASSUME IInv, NEW a \in Tries, attempt[a].at \in {"ready", "running"},
         NEW try, NEW alive, NEW t, NEW b, Concluded(a, try, alive, t, b)
  PROVE  IInv'
<1>1. /\ Shaped /\ Housed(a) /\ IsTry(attempt[a]) /\ attempt[a].stage \in Nat
      /\ attempt[a].source \in Ids \cup {Nobody} /\ attempt[a].kind \in AnyKind
      /\ bundle[a].payload \in 0..MaxChanges
  BY Parts DEF Mine
<1>2. bundle[a].home = "staging"
  BY <1>1 DEF Housed, Staging
<1>3. /\ IsTry(t) /\ t.kind = attempt[a].kind /\ t.source = attempt[a].source
      /\ t.observed = attempt[a].observed /\ t.cleanup = try.cleanup
      /\ \/ /\ t.at = "finish" /\ t.outcome = "failed" /\ t.stage = attempt[a].stage
         \/ /\ try.cleanup /\ alive = 0 /\ Stage(a) # "snapshot"
            /\ IF Last(a)
               THEN t.at = "finish" /\ t.outcome = "succeeded" /\ t.stage = attempt[a].stage
               ELSE /\ t.at = "ready" /\ t.outcome = attempt[a].outcome
                    /\ t.stage = attempt[a].stage + 1
            /\ Stage(a) \in Required(attempt[a].kind) => Stage(a) \in b.outputs
  BY FailedIs, AdvancedIs DEF Concluded, Operated, Last
<1>4. attempt'[a] = t /\ TryMoves(a)
  <2>1. t.at \in Places \ {"none"} /\ t.stage \in Nat
    BY <1>1, <1>3 DEF Places, Started
  <2> QED
    BY <1>1, <1>3, <2>1, TryMoved DEF Concluded, Becomes
<1>5. bundle'[a] = b /\ BundleMoves(a)
  <2>1. IsBundle(b) /\ b.home = "staging" /\ b.payload \in 0..MaxChanges
    BY <1>1, <1>2 DEF Concluded, Left
  <2>2. bundle' = [bundle EXCEPT ![a] = b]
    BY DEF Concluded, Becomes
  <2> QED
    BY <1>1, <1>2, <2>1, <2>2, BundleMoved
<1>6. trees'[a] = alive /\ TreeMoves(a) /\ alive \in Nat
  <2>1. alive \in Nat /\ trees' = [trees EXCEPT ![a] = alive]
    BY DEF Concluded, Becomes
  <2> QED
    BY <1>1, <2>1, TreeMoved
<1>7. Moves(a)
  BY <1>1, <1>4, <1>5, <1>6, Unmoved DEF Moves, Concluded, Becomes
<1>8. WentOn(a) \/ GaveUp(a)
  BY <1>3, <1>4, <1>5, <1>6 DEF WentOn, GaveUp, Went, Concluded, Becomes, Left
<1>9. Mine(a)'
  BY <1>8, WentOnKept, GaveUpKept
<1>10. attempt'[a].stage > 2 => attempt[a].stage > 2 \/ attempt[a].source = Nobody
  BY <1>1, <1>3, <1>4, NotTheSnapshot
<1> QED
  BY <1>3, <1>4, <1>7, <1>9, <1>10, MoveOn

\* A stage that fails before it does anything.
LEMMA FailedKept ==
  ASSUME IInv, NEW a \in Tries, attempt[a].at = "ready",
         attempt' = [attempt EXCEPT ![a] = Failed(attempt[a])],
         UNCHANGED <<bundle, trees, gpu, faults, changes>>
  PROVE  IInv'
<1>1. /\ Shaped /\ a \in Ids /\ Confined(a) /\ IsTry(attempt[a]) /\ IsBundle(bundle[a])
  BY Parts DEF Mine
<1>2. trees[a] = 0
  <2>1. trees[a] \in Nat
    BY <1>1 DEF Shaped
  <2>2. trees[a] <= 1 /\ trees[a] # 1
    BY <1>1 DEF Confined
  <2> QED
    BY <2>1, <2>2
<1>3. bundle' = [bundle EXCEPT ![a] = bundle[a]] /\ trees' = [trees EXCEPT ![a] = 0]
  BY <1>1, <1>2 DEF Shaped
<1>4. Operated(a, attempt[a]) /\ Left(a, bundle[a])
  BY <1>1 DEF Operated, Left
<1>5. Becomes(a, Failed(attempt[a]), bundle[a], 0)
  BY <1>3 DEF Becomes
<1>6. Concluded(a, attempt[a], 0, Failed(attempt[a]), bundle[a])
  BY <1>4, <1>5 DEF Concluded
<1> QED
  BY <1>6, ConcludedKept

LEMMA CheckKept ==
  ASSUME IInv, NEW a \in Tries, Check(a)
  PROVE  IInv'
<1>1. /\ Shaped /\ Confined(a) /\ Collected(a) /\ Sourced(a) /\ faults \in Nat /\ a \in Ids
      /\ IsTry(attempt[a]) /\ IsBundle(bundle[a]) /\ attempt[a].at \in Places
      /\ attempt[a].stage \in Nat /\ attempt[a].source \in Ids \cup {Nobody}
      /\ bundle[a].home \in {"none", "staging", "bundles", "gone"}
      /\ bundle[a].payload \in 0..MaxChanges /\ trees[a] \in Nat
      /\ attempt[a].at = "ready" /\ attempt[a].kind \in AnyKind /\ Stage(a) \in Checks
      /\ UNCHANGED <<trees, gpu, faults, changes>>
  BY Parts DEF Check, Mine
<1>2. attempt[a].cleanup /\ trees[a] = 0
  BY <1>1 DEF Confined
<1>3. TreeMoves(a) /\ RestMoves(a)
  BY <1>1, Unmoved
<1>4. CASE CheckHolds(a)
  <2> DEFINE e == CheckEffect(a)
             t == Advanced(e)
             b == IF Stage(a) = "snapshot"
                  THEN [bundle[a] EXCEPT !.outputs = @ \cup {"snapshot"}] ELSE bundle[a]
  <2>1. attempt' = [attempt EXCEPT ![a] = t]
    BY <1>4 DEF Check
  <2>2. bundle' = [bundle EXCEPT ![a] = b]
    BY <1>1, <1>4 DEF Check, Shaped
  <2>3. /\ IsTry(e) /\ e.stage = attempt[a].stage /\ e.kind = attempt[a].kind
        /\ e.source = attempt[a].source /\ e.cleanup = attempt[a].cleanup
        /\ e.outcome = attempt[a].outcome
        /\ e.observed = IF Stage(a) = "snapshot" THEN bundle[attempt[a].source].payload
                        ELSE attempt[a].observed
    BY <1>1, CheckEffectIs
  <2> HIDE DEF e
  <2>4. /\ IsTry(t) /\ t.kind = attempt[a].kind /\ t.source = attempt[a].source
        /\ t.cleanup = attempt[a].cleanup /\ t.observed = e.observed
        /\ IF Last(a)
           THEN t.at = "finish" /\ t.outcome = "succeeded" /\ t.stage = attempt[a].stage
           ELSE /\ t.at = "ready" /\ t.outcome = attempt[a].outcome
                /\ t.stage = attempt[a].stage + 1
    BY <2>3, AdvancedIs DEF Last
  <2>5. /\ IsBundle(b) /\ b.home = bundle[a].home /\ b.status = bundle[a].status
        /\ b.quarantined = bundle[a].quarantined /\ b.payload = bundle[a].payload
        /\ b.hash = bundle[a].hash /\ bundle[a].outputs \subseteq b.outputs
        /\ Stage(a) = "snapshot" => "snapshot" \in b.outputs
    BY <1>1 DEF IsBundle, BundleFields, NoBundle
  <2> HIDE DEF t, b
  <2>6. attempt'[a] = t /\ TryMoves(a)
    <3>1. t.at \in Places \ {"none"} /\ t.stage \in Nat
      BY <1>1, <2>4 DEF Places, Started
    <3> QED
      BY <1>1, <2>1, <2>4, <3>1, TryMoved
  <2>7. bundle'[a] = b /\ BundleMoves(a)
    BY <1>1, <2>2, <2>5, BundleMoved
  <2>8. Stage(a) \in Required(attempt[a].kind) => Stage(a) \in bundle'[a].outputs
    BY <1>1, <2>5, <2>7, RequiredMade
  <2>9. WentOn(a)
    BY <1>1, <1>2, <2>4, <2>5, <2>6, <2>7, <2>8 DEF WentOn, Went
  <2>10. Mine(a)'
    BY <1>1, <2>9, WentOnKept
  <2>11. Moves(a)
    BY <1>3, <2>6, <2>7 DEF Moves
  <2>12. CASE Stage(a) # "snapshot"
    <3>1. attempt'[a].stage \in {attempt[a].stage, attempt[a].stage + 1}
      BY <2>4, <2>6
    <3>2. attempt'[a].stage > 2 => attempt[a].stage > 2 \/ attempt[a].source = Nobody
      BY <1>1, <2>12, <3>1, NotTheSnapshot
    <3> QED
      BY <1>1, <2>3, <2>4, <2>6, <2>10, <2>11, <2>12, <3>2, MoveOn
  <2>13. CASE Stage(a) = "snapshot"
    <3>1. attempt[a].source \in Ids /\ attempt[a].source # Nobody
      <4>1. attempt[a].stage \in DOMAIN Stages(attempt[a].kind)
        BY <1>1 DEF Collected
      <4>2. attempt[a].kind \notin Captures
        BY <1>1, <2>13, <4>1, SnapshotSecond DEF Stage
      <4> QED
        BY <1>1, <4>2 DEF Sourced
    <3> DEFINE source == bundle[attempt[a].source]
    <3>2. source.home = "bundles" /\ source.hash \in {Never, source.payload}
          /\ source.payload \in 0..MaxChanges
      BY <1>1, <1>4, <2>13, <3>1 DEF CheckHolds, ReplayHolds, Shaped
    <3>3. bundle'[attempt[a].source].home = source.home
          /\ bundle'[attempt[a].source].hash = source.hash
      BY <1>1, <2>2, <2>5, <2>7, <3>1 DEF Shaped
    <3>4. attempt'[a].observed = source.payload
      BY <2>3, <2>4, <2>6, <2>13
    <3>5. source.payload # Never /\ (source.hash = 0 => source.payload = 0)
      BY <3>2, CaptureBounds DEF Never
    <3>6. attempt'[a].kind = attempt[a].kind /\ attempt'[a].source = attempt[a].source
          /\ attempt'[a].at \notin {"none", "retired"}
      BY <2>4, <2>6
    <3>7. Sourced(a)'
      BY <1>1, <3>1, <3>2, <3>3, <3>4, <3>5, <3>6 DEF Sourced
    <3> QED
      BY <2>10, <2>11, <3>7, OneMoves
  <2> QED
    BY <2>12, <2>13
<1>5. CASE ~CheckHolds(a)
  BY <1>1, <1>5, FailedKept DEF Check
<1> QED
  BY <1>4, <1>5

LEMMA RunKept ==
  ASSUME IInv, NEW a \in Tries, Run(a)
  PROVE  IInv'
<1>1. /\ Shaped /\ Confined(a) /\ Housed(a) /\ Collected(a) /\ Evident(a) /\ faults \in Nat
      /\ IsTry(attempt[a]) /\ attempt[a].stage \in Nat
      /\ attempt[a].source \in Ids \cup {Nobody} /\ trees[a] \in Nat
      /\ attempt[a].at = "ready" /\ attempt[a].kind \in AnyKind
      /\ UNCHANGED <<bundle, gpu, faults, changes>>
  BY Parts DEF Run, Mine
<1>2. attempt[a].cleanup /\ trees[a] = 0 /\ gpu = a
  BY <1>1 DEF Confined, Started
<1>3. BundleMoves(a) /\ RestMoves(a)
  BY <1>1, Unmoved
<1>4. CASE Stage(a) \in StopsBefore /\ Stopped(a)
  BY <1>1, <1>4, FailedKept DEF Run
<1>5. CASE ~(Stage(a) \in StopsBefore /\ Stopped(a))
  <2> DEFINE t == [attempt[a] EXCEPT !.at = "running", !.cleanup = FALSE]
             n == IF Launches(a) THEN trees[a] + 1 ELSE trees[a]
  <2>1. attempt' = [attempt EXCEPT ![a] = t]
    BY <1>5 DEF Run
  <2>2. n \in {0, 1} /\ trees' = [trees EXCEPT ![a] = n]
    BY <1>1, <1>2, <1>5 DEF Run, Shaped
  <2>3. /\ IsTry(t) /\ t.at = "running" /\ t.outcome = attempt[a].outcome
        /\ t.kind = attempt[a].kind /\ t.source = attempt[a].source
        /\ t.stage = attempt[a].stage /\ t.cleanup = FALSE /\ t.observed = attempt[a].observed
    BY <1>1 DEF IsTry, TryFields, NoTry
  <2> HIDE DEF t, n
  <2>4. attempt'[a] = t /\ TryMoves(a)
    <3>1. t.at \in Places \ {"none"} /\ t.stage \in Nat
      BY <1>1, <2>3 DEF Places, Started
    <3> QED
      BY <1>1, <2>1, <2>3, <3>1, TryMoved
  <2>5. trees'[a] = n /\ TreeMoves(a)
    BY <1>1, <2>2, TreeMoved
  <2>6. Moves(a)
    BY <1>3, <2>4, <2>5 DEF Moves
  <2>7. Confined(a)' /\ Housed(a)'
    BY <1>1, <1>2, <2>2, <2>3, <2>4, <2>5 DEF Confined, Housed, Early, Started, Staging, Rescue
  <2>8. Collected(a)'
    <3>1. Stage(a)' = Stage(a) /\ Stage(a) \notin Checks
      BY <2>3, <2>4 DEF Stage, Run
    <3> QED
      BY <1>1, <2>3, <2>4, <3>1 DEF Collected, Staging
  <2>9. Evident(a)' /\ Doubted(a)'
    BY <1>1, <2>3, <2>4 DEF Evident, Doubted, Housed, Staging, Rescue
  <2>10. Mine(a)'
    BY <2>7, <2>8, <2>9 DEF Mine
  <2> QED
    BY <1>1, <2>3, <2>4, <2>6, <2>10, MoveOn
<1> QED
  BY <1>4, <1>5

\* A suite whose interface is ready was cleaned up (inspect_nsight()).
LEMMA ReadyIsCleanedUp ==
  ASSUME NEW ends, InspectNsight(tools, ends).interface_ready
  PROVE  InspectNsight(tools, ends).cleanup_confirmed
BY DEF InspectNsight

LEMMA DiscoverKept ==
  ASSUME IInv, NEW a \in Tries, Discover(a)
  PROVE  IInv'
<1>1. /\ Shaped /\ Confined(a) /\ a \in Ids /\ IsTry(attempt[a]) /\ IsBundle(bundle[a])
      /\ attempt[a].at = "ready" /\ attempt[a].kind \in AnyKind /\ Stage(a) = "discovery"
      /\ UNCHANGED <<bundle, gpu, faults, changes>>
  BY Parts DEF Discover, Mine
<1>2. trees[a] = 0 /\ bundle' = [bundle EXCEPT ![a] = bundle[a]]
  BY <1>1 DEF Confined, Shaped
<1>3. Stage(a) \notin Required(attempt[a].kind) /\ Left(a, bundle[a])
  BY <1>1, RequiredMade DEF Left
<1>4. ASSUME NEW ends \in Probes(a),
             LET found == InspectNsight(tools, ends)
                 try   == [attempt[a] EXCEPT !.cleanup = found.cleanup_confirmed]
             IN /\ \E alive \in (IF found.cleanup_confirmed THEN {0} ELSE {0, 1}) :
                     trees' = [trees EXCEPT ![a] = alive]
                /\ attempt' = [attempt EXCEPT ![a] =
                     IF found.interface_ready /\ ~(attempt[a].kind \in Captures /\ Stopped(a))
                     THEN Advanced([try EXCEPT !.installation = found]) ELSE Failed(try)]
      PROVE  IInv'
  <2> DEFINE found == InspectNsight(tools, ends)
             try   == [attempt[a] EXCEPT !.cleanup = found.cleanup_confirmed]
             held  == [try EXCEPT !.installation = found]
  <2>1. found.interface_ready => found.cleanup_confirmed
    BY ReadyIsCleanedUp
  <2>2. PICK alive \in {0, 1} : /\ found.cleanup_confirmed => alive = 0
                                /\ trees' = [trees EXCEPT ![a] = alive]
    BY <1>4
  <2>3. \/ attempt' = [attempt EXCEPT ![a] = Failed(try)]
        \/ found.interface_ready /\ attempt' = [attempt EXCEPT ![a] = Advanced(held)]
    BY <1>4
  <2> HIDE DEF found
  <2>4. Operated(a, try) /\ try.cleanup = found.cleanup_confirmed
    BY <1>1 DEF Operated, IsTry, TryFields, NoTry
  <2>5. Operated(a, held) /\ held.cleanup = found.cleanup_confirmed
    BY <1>1 DEF Operated, IsTry, TryFields, NoTry
  <2> HIDE DEF try, held
  <2>6. CASE attempt' = [attempt EXCEPT ![a] = Failed(try)]
    <3>1. Becomes(a, Failed(try), bundle[a], alive)
      BY <1>1, <1>2, <2>2, <2>6 DEF Becomes
    <3>2. Concluded(a, try, alive, Failed(try), bundle[a])
      BY <1>3, <2>2, <2>4, <3>1 DEF Concluded
    <3> QED
      BY <1>1, <3>2, ConcludedKept
  <2>7. CASE found.interface_ready /\ attempt' = [attempt EXCEPT ![a] = Advanced(held)]
    <3>1. Becomes(a, Advanced(held), bundle[a], alive)
      BY <1>1, <1>2, <2>2, <2>7 DEF Becomes
    <3>2. Concluded(a, held, alive, Advanced(held), bundle[a])
      BY <1>1, <1>3, <2>1, <2>2, <2>5, <2>7, <3>1 DEF Concluded
    <3> QED
      BY <1>1, <3>2, ConcludedKept
  <2> QED
    BY <2>3, <2>6, <2>7
<1>5. CASE /\ attempt' = [attempt EXCEPT ![a] = [Failed(attempt[a]) EXCEPT !.cleanup = FALSE]]
           /\ UNCHANGED trees
  <2> DEFINE try == [attempt[a] EXCEPT !.cleanup = FALSE]
  <2>1. Operated(a, try) /\ try.cleanup = FALSE
    BY <1>1 DEF Operated, IsTry, TryFields, NoTry
  <2>2. [Failed(attempt[a]) EXCEPT !.cleanup = FALSE] = Failed(try)
    BY <1>1 DEF IsTry, TryFields, NoTry, Failed
  <2>3. trees' = [trees EXCEPT ![a] = 0]
    BY <1>1, <1>2, <1>5 DEF Shaped
  <2> HIDE DEF try
  <2>4. Becomes(a, Failed(try), bundle[a], 0)
    BY <1>1, <1>2, <1>5, <2>2, <2>3 DEF Becomes
  <2>5. Concluded(a, try, 0, Failed(try), bundle[a])
    BY <1>3, <2>1, <2>4 DEF Concluded
  <2> QED
    BY <1>1, <2>5, ConcludedKept
<1> QED
  BY <1>4, <1>5 DEF Discover

LEMMA ReturnKept ==
  ASSUME IInv, NEW a \in Tries, Return(a)
  PROVE  IInv'
<1>1. PICK process \in Ends(a), output \in Outputs(a), interrupted \in Interrupts(a) :
       LET result == Conclusion(a, process, output, OutputValid(a, output), interrupted)
           kept   == Passes(a, result, output) /\ Stage(a) \notin Optional
           unsafe == /\ result.launched /\ output.links
                     /\ ~(Rejects(a) /\ result.cleanup_confirmed)
           try    == [attempt[a] EXCEPT !.cleanup = result.cleanup_confirmed]
       IN /\ attempt' = [attempt EXCEPT
               ![a] = IF Passes(a, result, output) THEN Advanced(try) ELSE Failed(try)]
          /\ \E alive \in (IF result.cleanup_confirmed THEN {0} ELSE {0, 1}) :
               trees' = [trees EXCEPT ![a] = IF @ = 0 THEN 0 ELSE alive]
          /\ bundle' = [bundle EXCEPT
               ![a].outputs = @ \cup (IF kept THEN {Stage(a)} ELSE {})
                                \cup (IF unsafe THEN {"unsafe"} ELSE {}),
               ![a].hash    = IF Stage(a) = "capture" /\ kept THEN 0 ELSE @,
               ![a].frames  = IF Stage(a) = "capture" THEN attempt[a].request.frame_count ELSE @,
               ![a].producer = IF Stage(a) = "capture" /\ kept
                               THEN attempt[a].installation.capture.version ELSE @]
  BY Zenon DEF Return
<1> DEFINE result == Conclusion(a, process, output, OutputValid(a, output), interrupted)
           kept   == Passes(a, result, output) /\ Stage(a) \notin Optional
           unsafe == /\ result.launched /\ output.links
                     /\ ~(Rejects(a) /\ result.cleanup_confirmed)
           try    == [attempt[a] EXCEPT !.cleanup = result.cleanup_confirmed]
           t      == IF Passes(a, result, output) THEN Advanced(try) ELSE Failed(try)
           outputs == bundle[a].outputs \cup (IF kept THEN {Stage(a)} ELSE {})
                                        \cup (IF unsafe THEN {"unsafe"} ELSE {})
           hash    == IF Stage(a) = "capture" /\ kept THEN 0 ELSE bundle[a].hash
           frames  == IF Stage(a) = "capture" THEN attempt[a].request.frame_count
                      ELSE bundle[a].frames
           producer == IF Stage(a) = "capture" /\ kept
                       THEN attempt[a].installation.capture.version ELSE bundle[a].producer
           b == [bundle[a] EXCEPT !.outputs = outputs, !.hash = hash, !.frames = frames,
                                  !.producer = producer]
<1>2. /\ Shaped /\ a \in Ids /\ IsTry(attempt[a]) /\ IsBundle(bundle[a])
      /\ attempt[a].at = "running" /\ attempt[a].kind \in AnyKind
      /\ Collected(a)
      /\ UNCHANGED <<gpu, faults, changes>>
  BY Parts DEF Return, Mine
<1>3. attempt' = [attempt EXCEPT ![a] = t]
  BY <1>1
<1>4. PICK alive \in {0, 1} : /\ result.cleanup_confirmed => alive = 0
                              /\ trees' = [trees EXCEPT ![a] = alive]
  <2>1. PICK left \in {0, 1} : /\ result.cleanup_confirmed => left = 0
                               /\ trees' = [trees EXCEPT ![a] = IF @ = 0 THEN 0 ELSE left]
    BY <1>1
  <2> DEFINE alive == IF trees[a] = 0 THEN 0 ELSE left
  <2>2. alive \in {0, 1} /\ (result.cleanup_confirmed => alive = 0)
    BY <2>1
  <2>3. trees' = [trees EXCEPT ![a] = alive]
    BY <1>2, <2>1 DEF Shaped
  <2> QED
    BY <2>2, <2>3
<1>5. bundle' = [bundle EXCEPT ![a] = b]
  <2> HIDE DEF result, kept, unsafe
  <2>1. bundle' = [bundle EXCEPT
          ![a].outputs = @ \cup (IF kept THEN {Stage(a)} ELSE {})
                           \cup (IF unsafe THEN {"unsafe"} ELSE {}),
          ![a].hash    = IF Stage(a) = "capture" /\ kept THEN 0 ELSE @,
          ![a].frames  = IF Stage(a) = "capture" THEN attempt[a].request.frame_count ELSE @,
          ![a].producer = IF Stage(a) = "capture" /\ kept
                          THEN attempt[a].installation.capture.version ELSE @]
    BY <1>1 DEF result, kept, unsafe
  <2> QED
    BY <1>2, <2>1 DEF Shaped, IsBundle, BundleFields, NoBundle
<1>6. Passes(a, result, output) => result.cleanup_confirmed
  BY DEF Passes
<1>7. Operated(a, try) /\ try.cleanup = result.cleanup_confirmed
  <2> HIDE DEF result
  <2> QED
    BY <1>2 DEF Operated, IsTry, TryFields, NoTry
<1>8. Left(a, b) /\ b.outputs = outputs
  <2> HIDE DEF outputs, hash, frames, producer
  <2>1. bundle[a].outputs \subseteq outputs
    BY DEF outputs
  <2> QED
    BY <1>2, <2>1 DEF Left, IsBundle, BundleFields, NoBundle
<1>9. Stage(a) # "snapshot"
  BY <1>2 DEF Collected, Checks
<1>10. kept => Stage(a) \in outputs
  OBVIOUS
<1>11. Stage(a) \in Required(attempt[a].kind) => Stage(a) \notin Optional
  BY <1>2, RequiredMade
<1> HIDE DEF result, try, b, outputs
<1>12. Becomes(a, t, b, alive)
  <2> HIDE DEF t
  <2> QED
    BY <1>2, <1>3, <1>4, <1>5 DEF Becomes
<1>13. CASE Passes(a, result, output)
  <2>1. t = Advanced(try)
    BY <1>13
  <2>2. Stage(a) \in Required(attempt[a].kind) => Stage(a) \in b.outputs
    BY <1>8, <1>10, <1>11, <1>13
  <2> HIDE DEF t
  <2>3. Concluded(a, try, alive, t, b)
    BY <1>4, <1>6, <1>7, <1>8, <1>9, <1>12, <1>13, <2>1, <2>2 DEF Concluded
  <2> QED
    BY <1>2, <2>3, ConcludedKept
<1>14. CASE ~Passes(a, result, output)
  <2>1. t = Failed(try)
    BY <1>14
  <2> HIDE DEF t
  <2>2. Concluded(a, try, alive, t, b)
    BY <1>4, <1>7, <1>8, <1>12, <2>1 DEF Concluded
  <2> QED
    BY <1>2, <2>2, ConcludedKept
<1> QED
  BY <1>13, <1>14

-----------------------------------------------------------------------------
(* The completion.                                                         *)

\* What a step of the completion keeps of the attempt.
Same(a) ==
  /\ attempt'[a].kind = attempt[a].kind /\ attempt'[a].source = attempt[a].source
  /\ attempt'[a].stage = attempt[a].stage /\ attempt'[a].cleanup = attempt[a].cleanup
  /\ attempt'[a].observed = attempt[a].observed

LEMMA ProceedsIs ==
  ASSUME IInv, NEW a \in Tries, NEW throws, NEW next \in Places \ {"none"},
         attempt[a].at \notin {"none", "retired"}, Proceeds(a, throws, next)
  PROVE  /\ TryMoves(a) /\ Same(a)
         /\ ~throws => attempt'[a].at = next /\ attempt'[a].outcome = attempt[a].outcome
         /\ throws => /\ attempt'[a].outcome = "failed"
                      /\ attempt'[a].at = IF attempt[a].at \in Rescue \/ ~attempt[a].cleanup
                                          THEN "done" ELSE "inspect"
<1>1. /\ Shaped /\ IsTry(attempt[a]) /\ attempt[a].stage \in Nat
      /\ attempt[a].source \in Ids \cup {Nobody} /\ attempt[a].kind \in AnyKind
  BY Parts
<1>2. CASE ~throws
  <2> DEFINE t == [attempt[a] EXCEPT !.at = next]
  <2>1. attempt' = [attempt EXCEPT ![a] = t]
    BY <1>1, <1>2 DEF Proceeds, Shaped
  <2>2. /\ IsTry(t) /\ t.kind = attempt[a].kind /\ t.source = attempt[a].source
        /\ t.stage = attempt[a].stage /\ t.cleanup = attempt[a].cleanup
        /\ t.observed = attempt[a].observed /\ t.outcome = attempt[a].outcome /\ t.at = next
    BY <1>1 DEF IsTry, TryFields, NoTry
  <2> HIDE DEF t
  <2> QED
    BY <1>1, <1>2, <2>1, <2>2, TryMoved DEF Same
<1>3. CASE throws
  <2> DEFINE at == IF attempt[a].at \in Rescue \/ ~attempt[a].cleanup THEN "done" ELSE "inspect"
             t == [attempt[a] EXCEPT !.outcome = "failed",
                     !.at = IF attempt[a].at \in {"re_report", "re_provenance", "re_publish"}
                                 \/ ~attempt[a].cleanup
                            THEN "done" ELSE "inspect"]
  <2>1. attempt' = [attempt EXCEPT ![a] = t]
    BY <1>1, <1>3 DEF Proceeds, Shaped
  <2>2. at \in Places \ {"none"}
    BY DEF Places, Started
  <2>3. /\ IsTry(t) /\ t.kind = attempt[a].kind /\ t.source = attempt[a].source
        /\ t.stage = attempt[a].stage /\ t.cleanup = attempt[a].cleanup
        /\ t.observed = attempt[a].observed /\ t.outcome = "failed" /\ t.at = at
    BY <1>1 DEF IsTry, TryFields, NoTry, Rescue
  <2> HIDE DEF t, at
  <2>4. TryMoves(a) /\ attempt'[a] = t
    BY <1>1, <2>1, <2>2, <2>3, TryMoved
  <2> QED
    BY <1>3, <2>3, <2>4 DEF Same, at
<1> QED
  BY <1>2, <1>3

\* A step of the completion keeps the attempt and its tree, so what is left to
\* show of the invariant is what it did to the place and to the bundle.
LEMMA CompletionKept ==
  ASSUME IInv, NEW a \in Tries, attempt[a].at \in Started, TryMoves(a), Same(a),
         BundleMoves(a), UNCHANGED <<trees, gpu, changes>>, faults' \in Nat, faults' >= faults,
         attempt'[a].at \in Started \ {"ready", "running"},
         bundle[a].home = "staging" => bundle'[a].home = "staging" \/ attempt[a].cleanup,
         bundle[a].home \in {"bundles", "gone"} \/ bundle[a].outputs \subseteq bundle'[a].outputs,
         attempt'[a].at \in Staging =>
           /\ attempt[a].at \in Staging
           /\ attempt'[a].outcome = "succeeded" => attempt[a].outcome = "succeeded",
         attempt'[a].at \in {"provenance", "publish"} => "report" \in bundle'[a].outputs,
         Housed(a)', Evident(a)', Doubted(a)'
  PROVE  IInv'
<1>1. /\ Shaped /\ Confined(a) /\ Housed(a) /\ Collected(a) /\ faults \in Nat
      /\ trees[a] \in Nat
  BY Parts DEF Mine
<1>2. Moves(a)
  BY <1>1, Unmoved DEF Moves, RestMoves, Shaped
<1>3. Confined(a)'
  BY <1>1 DEF Confined, Same, Early, Started, Rescue
<1>4. Collected(a)'
  <2>1. CASE attempt'[a].at \in Staging
    <3>1. bundle[a].home = "staging" /\ bundle[a].outputs \subseteq bundle'[a].outputs
      BY <1>1, <2>1 DEF Housed
    <3> QED
      BY <1>1, <2>1, <3>1 DEF Collected, Same
  <2>2. CASE attempt'[a].at \notin Staging
    BY <2>2 DEF Collected, Staging
  <2> QED
    BY <2>1, <2>2
<1>5. Mine(a)'
  BY <1>3, <1>4 DEF Mine
<1> QED
  BY <1>2, <1>5, MoveOn DEF Same, Started, Rescue

LEMMA FinishKept ==
  ASSUME IInv, NEW a \in Tries, Finish(a)
  PROVE  IInv'
<1> DEFINE t == [attempt[a] EXCEPT !.at = "report", !.outcome = Outcome(a)]
<1>1. /\ Shaped /\ Housed(a) /\ Evident(a) /\ IsTry(attempt[a]) /\ attempt[a].stage \in Nat
      /\ attempt[a].source \in Ids \cup {Nobody} /\ attempt[a].kind \in AnyKind
      /\ attempt[a].at = "finish" /\ UNCHANGED <<bundle, trees, gpu, faults, changes>>
      /\ attempt' = [attempt EXCEPT ![a] = t] /\ faults \in Nat
  BY Parts DEF Finish, Mine
<1>2. /\ IsTry(t) /\ t.kind = attempt[a].kind /\ t.source = attempt[a].source
      /\ t.stage = attempt[a].stage /\ t.cleanup = attempt[a].cleanup
      /\ t.observed = attempt[a].observed /\ t.outcome = Outcome(a) /\ t.at = "report"
  BY <1>1 DEF IsTry, TryFields, NoTry
<1> HIDE DEF t
<1>3. attempt'[a] = t /\ TryMoves(a) /\ Same(a)
  <2>1. t.at \in Places \ {"none"}
    BY <1>2 DEF Places, Started
  <2>2. attempt'[a] = t /\ TryMoves(a)
    BY <1>1, <1>2, <2>1, TryMoved
  <2> QED
    BY <1>2, <2>2 DEF Same
<1>4. Outcome(a) = "succeeded" => attempt[a].outcome = "succeeded"
  BY DEF Outcome
<1>5. Housed(a)' /\ Doubted(a)'
  BY <1>1, <1>2, <1>3 DEF Housed, Doubted, Staging, Rescue
<1>6. Evident(a)'
  BY <1>1, <1>2, <1>3, <1>4 DEF Evident, Last, Same, Housed, Staging, Early
<1>7. BundleMoves(a)
  BY <1>1, Unmoved
<1> QED
  BY <1>1, <1>2, <1>3, <1>4, <1>5, <1>6, <1>7, CompletionKept DEF Started, Staging

LEMMA ResultsCount ==
  ASSUME faults \in Nat, NEW result, CountFault(result)
  PROVE  /\ faults' \in Nat /\ faults' >= faults
         /\ Throws(result) => faults' = faults + 1
         /\ ~Throws(result) => faults' = faults /\ Lands(result)
BY DEF CountFault, Throws, Lands

LEMMA SaveReportKept ==
  ASSUME IInv, NEW a \in Tries, NEW result, SaveReport(a, result)
  PROVE  IInv'
<1> DEFINE b == IF Lands(result) THEN [bundle[a] EXCEPT !.outputs = @ \cup {"report"}]
                ELSE bundle[a]
<1>1. /\ Shaped /\ Confined(a) /\ Housed(a) /\ Evident(a) /\ Doubted(a)
      /\ IsBundle(bundle[a]) /\ a \in Ids /\ bundle[a].payload \in 0..MaxChanges
      /\ attempt[a].at \in {"report", "re_report"} /\ UNCHANGED <<trees, gpu, changes>>
      /\ bundle' = [bundle EXCEPT ![a] = b] /\ faults \in Nat
  BY Parts DEF SaveReport, Mine, Shaped
<1>2. /\ IsBundle(b) /\ b.home = bundle[a].home /\ b.status = bundle[a].status
      /\ b.quarantined = bundle[a].quarantined /\ b.payload = bundle[a].payload
      /\ bundle[a].outputs \subseteq b.outputs
      /\ Lands(result) => "report" \in b.outputs
  BY <1>1 DEF IsBundle, BundleFields, NoBundle
<1> HIDE DEF b
<1>3. /\ bundle[a].home = "staging" /\ ~bundle[a].quarantined
      /\ attempt[a].at = "re_report" => attempt[a].cleanup /\ attempt[a].outcome = "failed"
  BY <1>1 DEF Housed, Staging, Rescue
<1>4. bundle'[a] = b /\ BundleMoves(a)
  BY <1>1, <1>2, <1>3, BundleMoved
<1>5. faults' \in Nat /\ faults' >= faults /\ (Throws(result) => faults' = faults + 1)
      /\ (~Throws(result) => Lands(result))
  BY <1>1, ResultsCount DEF SaveReport
<1>6. /\ TryMoves(a) /\ Same(a)
      /\ \/ /\ attempt[a].at = "report" /\ ~Throws(result) /\ attempt'[a].at = "provenance"
            /\ attempt'[a].outcome = attempt[a].outcome
         \/ /\ attempt[a].at = "report" /\ Throws(result) /\ attempt'[a].outcome = "failed"
            /\ attempt'[a].at = IF ~attempt[a].cleanup THEN "done" ELSE "inspect"
         \/ /\ attempt[a].at = "re_report" /\ attempt'[a].at = "re_provenance"
            /\ attempt'[a].outcome = attempt[a].outcome
  <2>1. {"provenance", "re_provenance"} \subseteq Places \ {"none"}
    BY DEF Places, Started, Rescue
  <2>2. CASE attempt[a].at = "report"
    <3>1. Proceeds(a, Throws(result), "provenance")
      BY <2>2 DEF SaveReport
    <3> QED
      BY <2>1, <2>2, <3>1, ProceedsIs DEF Rescue
  <2>3. CASE attempt[a].at = "re_report"
    <3>1. Proceeds(a, FALSE, "re_provenance")
      BY <2>3 DEF SaveReport
    <3> QED
      BY <2>1, <2>3, <3>1, ProceedsIs
  <2> QED
    BY <1>1, <2>2, <2>3
<1>7. Housed(a)'
  BY <1>2, <1>3, <1>4, <1>6 DEF Housed, Same, Staging, Rescue
<1>8. Doubted(a)'
  BY <1>1, <1>2, <1>3, <1>4, <1>5, <1>6 DEF Doubted, Same, Rescue
<1>9. Evident(a)'
  BY <1>1, <1>2, <1>3, <1>4, <1>6 DEF Evident, Last, Same, Early
<1>10. attempt'[a].at \in Started \ {"ready", "running"}
  BY <1>6 DEF Started, Rescue
<1>11. attempt'[a].at \in Staging =>
         attempt[a].at \in Staging /\ attempt'[a].outcome = attempt[a].outcome
  BY <1>6 DEF Staging
<1>12. attempt'[a].at \in {"provenance", "publish"} => "report" \in bundle'[a].outputs
  BY <1>2, <1>4, <1>5, <1>6
<1> QED
  BY <1>1, <1>2, <1>3, <1>4, <1>5, <1>6, <1>7, <1>8, <1>9, <1>10, <1>11, <1>12,
     CompletionKept DEF Started, Rescue

LEMMA UpdateProvenanceKept ==
  ASSUME IInv, NEW a \in Tries, NEW result, UpdateProvenance(a, result)
  PROVE  IInv'
<1> DEFINE next == IF attempt[a].at = "provenance" THEN "publish" ELSE "re_publish"
           throws == Throws(result) \/ bundle[a].home # "staging"
<1>1. /\ Shaped /\ Confined(a) /\ Housed(a) /\ Evident(a) /\ Doubted(a) /\ Collected(a)
      /\ attempt[a].at \in {"provenance", "re_provenance"}
      /\ UNCHANGED <<bundle, trees, gpu, changes>> /\ faults \in Nat
      /\ Proceeds(a, throws, next)
  BY Parts DEF UpdateProvenance, Mine
<1>2. BundleMoves(a) /\ bundle'[a] = bundle[a]
  BY <1>1, Unmoved
<1>3. /\ bundle[a].home = "staging" /\ ~bundle[a].quarantined
      /\ attempt[a].at = "re_provenance" => attempt[a].cleanup /\ attempt[a].outcome = "failed"
  BY <1>1 DEF Housed, Staging, Rescue
<1>4. faults' \in Nat /\ faults' >= faults /\ (throws => faults' = faults + 1)
  BY <1>1, <1>3, ResultsCount DEF UpdateProvenance
<1>5. next \in Places \ {"none"}
  BY DEF Places, Started, Rescue
<1>6. /\ TryMoves(a) /\ Same(a)
      /\ \/ /\ attempt[a].at = "provenance" /\ attempt'[a].at = "publish"
            /\ attempt'[a].outcome = attempt[a].outcome
         \/ /\ attempt[a].at = "provenance" /\ attempt'[a].outcome = "failed" /\ throws
            /\ attempt'[a].at = IF ~attempt[a].cleanup THEN "done" ELSE "inspect"
         \/ /\ attempt[a].at = "re_provenance" /\ attempt'[a].at = "re_publish"
            /\ attempt'[a].outcome = attempt[a].outcome
         \/ /\ attempt[a].at = "re_provenance" /\ attempt'[a].outcome = "failed" /\ throws
            /\ attempt'[a].at = "done"
  <2> HIDE DEF throws
  <2>1. attempt[a].at \notin {"none", "retired"}
    BY <1>1
  <2>2. /\ TryMoves(a) /\ Same(a)
        /\ ~throws => attempt'[a].at = next /\ attempt'[a].outcome = attempt[a].outcome
        /\ throws => /\ attempt'[a].outcome = "failed"
                     /\ attempt'[a].at = IF attempt[a].at \in Rescue \/ ~attempt[a].cleanup
                                         THEN "done" ELSE "inspect"
    BY <1>1, <1>5, <2>1, ProceedsIs
  <2> QED
    BY <1>1, <2>2 DEF Rescue
<1> HIDE DEF throws, next
<1>7. Housed(a)'
  BY <1>1, <1>2, <1>3, <1>6 DEF Housed, Same, Staging, Rescue
<1>8. Doubted(a)'
  BY <1>1, <1>2, <1>3, <1>4, <1>6 DEF Doubted, Same, Rescue
<1>9. Evident(a)'
  BY <1>1, <1>2, <1>3, <1>6 DEF Evident, Last, Same, Early
<1>10. attempt'[a].at \in Started \ {"ready", "running"}
  BY <1>6 DEF Started, Rescue
<1>11. attempt'[a].at \in Staging =>
         attempt[a].at \in Staging /\ attempt'[a].outcome = attempt[a].outcome
  BY <1>6 DEF Staging
<1>12. attempt'[a].at \in {"provenance", "publish"} => "report" \in bundle'[a].outputs
  BY <1>1, <1>2, <1>6 DEF Collected
<1> QED
  BY <1>1, <1>2, <1>3, <1>4, <1>6, <1>7, <1>8, <1>9, <1>10, <1>11, <1>12,
     CompletionKept DEF Started, Rescue

LEMMA InspectKept ==
  ASSUME IInv, NEW a \in Tries, Inspect(a)
  PROVE  IInv'
<1> DEFINE at == IF bundle[a].home = "staging" THEN "re_report" ELSE "done"
           t == [attempt[a] EXCEPT !.at = at]
<1>1. /\ Shaped /\ Housed(a) /\ Evident(a) /\ Doubted(a) /\ IsTry(attempt[a])
      /\ attempt[a].stage \in Nat
      /\ attempt[a].source \in Ids \cup {Nobody} /\ attempt[a].kind \in AnyKind
      /\ attempt[a].at = "inspect" /\ UNCHANGED <<bundle, trees, gpu, faults, changes>>
      /\ attempt' = [attempt EXCEPT ![a] = t] /\ faults \in Nat
  BY Parts DEF Inspect, Mine
<1>2. /\ at \in Places \ {"none"} /\ at \in Started \ {"ready", "running"} /\ at \notin Staging
      /\ at \notin {"provenance", "publish", "inspect"}
      /\ bundle[a].home = "staging" <=> at = "re_report"
      /\ bundle[a].home # "staging" <=> at = "done"
  BY DEF Places, Started, Rescue, Staging
<1> HIDE DEF at
<1>3. /\ IsTry(t) /\ t.kind = attempt[a].kind /\ t.source = attempt[a].source
      /\ t.stage = attempt[a].stage /\ t.cleanup = attempt[a].cleanup
      /\ t.observed = attempt[a].observed /\ t.outcome = attempt[a].outcome /\ t.at = at
  BY <1>1 DEF IsTry, TryFields, NoTry
<1> HIDE DEF t
<1>4. attempt'[a] = t /\ TryMoves(a) /\ Same(a)
  <2>1. attempt'[a] = t /\ TryMoves(a)
    BY <1>1, <1>2, <1>3, TryMoved
  <2> QED
    BY <1>3, <2>1 DEF Same
<1>5. Housed(a)' /\ Doubted(a)'
  BY <1>1, <1>2, <1>3, <1>4 DEF Housed, Doubted, Staging, Rescue
<1>6. Evident(a)'
  BY <1>1, <1>2, <1>3, <1>4 DEF Evident, Last, Same, Housed, Early
<1>7. BundleMoves(a) /\ bundle'[a] = bundle[a]
  BY <1>1, Unmoved
<1>8. attempt[a].at \in Started
  BY <1>1 DEF Started
<1> QED
  BY <1>1, <1>2, <1>3, <1>4, <1>5, <1>6, <1>7, <1>8, CompletionKept

\* A success that reaches its publication has everything its kind requires.
LEMMA AllCollected ==
  ASSUME IInv, NEW a \in Tries, attempt[a].at = "publish", attempt[a].outcome = "succeeded"
  PROVE  Required(attempt[a].kind) \subseteq bundle[a].outputs
<1>1. /\ Collected(a) /\ Evident(a) /\ attempt[a].kind \in AnyKind
  BY Parts DEF Mine
<1>2. "report" \in bundle[a].outputs /\ attempt[a].stage = Len(Stages(attempt[a].kind))
  BY <1>1 DEF Collected, Evident, Last
<1>3. ASSUME NEW output \in Required(attempt[a].kind), output # "report"
      PROVE  output \in bundle[a].outputs
  <2>1. PICK k \in DOMAIN Stages(attempt[a].kind) : Stages(attempt[a].kind)[k] = output
    BY <1>1, <1>3, RequiredMade
  <2>2. k < attempt[a].stage \/ k = attempt[a].stage
    BY <1>1, <1>2, StagesLong
  <2> QED
    BY <1>1, <1>3, <2>1, <2>2 DEF Collected, Staging
<1> QED
  BY <1>2, <1>3

LEMMA PublishKept ==
  ASSUME IInv, NEW a \in Tries, NEW result, Publish(a, result)
  PROVE  IInv'
<1> DEFINE success == attempt[a].outcome = "succeeded"
           refused == ~Publishable(a, success)
           quits   == IF ~attempt[a].cleanup THEN Throws(result) ELSE Throws(result) \/ refused
           b == IF ~attempt[a].cleanup THEN Quarantined(bundle[a])
                ELSE IF refused \/ ~Lands(result) THEN bundle[a]
                ELSE Published(bundle[a], IF success THEN "complete" ELSE "failed")
<1>1. /\ Shaped /\ Confined(a) /\ Housed(a) /\ Evident(a)
      /\ IsBundle(bundle[a]) /\ a \in Ids /\ bundle[a].payload \in 0..MaxChanges
      /\ attempt[a].at = "publish" /\ UNCHANGED <<trees, gpu, changes>> /\ faults \in Nat
      /\ attempt[a].kind \in AnyKind
  BY Parts DEF Publish, Mine
<1>2. bundle' = [bundle EXCEPT ![a] = b] /\ Proceeds(a, quits, "done")
  <2>1. CASE ~attempt[a].cleanup
    BY <2>1 DEF Publish
  <2>2. CASE attempt[a].cleanup
    BY <1>1, <2>2 DEF Publish, Shaped
  <2> QED
    BY <2>1, <2>2
<1>3. /\ bundle[a].home = "staging" /\ ~bundle[a].quarantined
      /\ bundle[a].status # "complete"
  BY <1>1 DEF Housed, Staging, Evident
<1>4. /\ faults' \in Nat /\ faults' >= faults /\ (Throws(result) => faults' = faults + 1)
      /\ (~Throws(result) => Lands(result))
  BY <1>1, ResultsCount DEF Publish
<1>5. refused => "unsafe" \in bundle[a].outputs
  BY <1>1, <1>3, AllCollected DEF Publishable
<1>6. /\ IsBundle(b) /\ b.payload = bundle[a].payload /\ b.outputs = bundle[a].outputs
      /\ \/ /\ ~attempt[a].cleanup /\ b.home = "staging" /\ b.status = "failed"
         \/ /\ attempt[a].cleanup /\ (refused \/ ~Lands(result)) /\ b = bundle[a]
         \/ /\ attempt[a].cleanup /\ ~refused /\ b.home = "bundles" /\ ~b.quarantined
            /\ b.status = IF success THEN "complete" ELSE "failed"
  <2>1. CASE ~attempt[a].cleanup
    BY <1>1, <1>3, <2>1, QuarantinedIs
  <2>2. CASE attempt[a].cleanup /\ (refused \/ ~Lands(result))
    BY <1>1, <2>2
  <2>3. CASE attempt[a].cleanup /\ ~refused /\ Lands(result)
    BY <1>1, <2>3, PublishedIs
  <2> QED
    BY <2>1, <2>2, <2>3
<1>7. ~refused /\ success => Required(attempt[a].kind) \subseteq bundle[a].outputs
  BY DEF Publishable
<1>8. quits <=> Throws(result) \/ (attempt[a].cleanup /\ refused)
  OBVIOUS
<1> HIDE DEF b, refused, quits
<1>9. bundle'[a] = b /\ BundleMoves(a)
  <2>1. b.home \in {"none", "staging", "bundles", "gone"}
    BY <1>3, <1>6
  <2> QED
    BY <1>1, <1>2, <1>3, <1>6, <2>1, BundleMoved
<1>10. /\ TryMoves(a) /\ Same(a)
       /\ \/ /\ ~quits /\ attempt'[a].at = "done" /\ attempt'[a].outcome = attempt[a].outcome
          \/ /\ quits /\ attempt'[a].outcome = "failed"
             /\ attempt'[a].at = IF ~attempt[a].cleanup THEN "done" ELSE "inspect"
  <2>1. "done" \in Places \ {"none"} /\ attempt[a].at \notin {"none", "retired"}
    BY <1>1 DEF Places, Started
  <2> QED
    BY <1>1, <1>2, <2>1, ProceedsIs DEF Rescue
<1>11. Housed(a)'
  BY <1>3, <1>6, <1>9, <1>10 DEF Housed, Same, Staging, Rescue
<1>12. Doubted(a)'
  BY <1>1, <1>3, <1>4, <1>5, <1>6, <1>8, <1>9, <1>10 DEF Doubted, Same, Rescue
<1>13. Evident(a)'
  <2>1. success => attempt[a].cleanup /\ Last(a)
    BY <1>1 DEF Evident
  <2>2. Last(a)' <=> Last(a)
    BY <1>10 DEF Last, Same
  <2>3. attempt'[a].outcome = "succeeded" => b.status = "complete" /\ b.home = "bundles"
    BY <1>4, <1>6, <1>8, <1>10, <2>1
  <2>4. b.status = "complete" => /\ success /\ b.home = "bundles" /\ ~refused
                                 /\ attempt'[a].outcome = "succeeded" \/ faults' > 0
    BY <1>1, <1>3, <1>4, <1>6, <1>8, <1>10
  <2> QED
    BY <1>6, <1>7, <1>9, <1>10, <2>1, <2>2, <2>3, <2>4 DEF Evident, Same, Early
<1>14. attempt'[a].at \in Started \ {"ready", "running"} /\ attempt'[a].at \notin Staging
       /\ attempt'[a].at \notin {"provenance", "publish"}
  BY <1>10 DEF Started, Rescue, Staging
<1>15. bundle'[a].home = "staging" \/ attempt[a].cleanup
  BY <1>6, <1>9
<1>16. attempt[a].at \in Started
  BY <1>1 DEF Started
<1>17. bundle[a].outputs \subseteq bundle'[a].outputs
  BY <1>6, <1>9
<1> QED
  BY <1>1, <1>4, <1>9, <1>10, <1>11, <1>12, <1>13, <1>14, <1>15, <1>16, <1>17, CompletionKept

LEMMA PublishFailureKept ==
  ASSUME IInv, NEW a \in Tries, NEW result, PublishFailure(a, result)
  PROVE  IInv'
<1> DEFINE refused == ~Publishable(a, FALSE)
           b == IF Publishable(a, FALSE) /\ Lands(result) THEN Published(bundle[a], "failed")
                ELSE bundle[a]
<1>1. /\ Shaped /\ Confined(a) /\ Housed(a) /\ Evident(a) /\ Doubted(a)
      /\ IsBundle(bundle[a]) /\ a \in Ids /\ bundle[a].payload \in 0..MaxChanges
      /\ attempt[a].at = "re_publish" /\ UNCHANGED <<trees, gpu, changes>> /\ faults \in Nat
  BY Parts DEF PublishFailure, Mine
<1>2. bundle' = [bundle EXCEPT ![a] = b] /\ Proceeds(a, Throws(result) \/ refused, "done")
  BY <1>1 DEF PublishFailure, Shaped
<1>3. /\ bundle[a].home = "staging" /\ ~bundle[a].quarantined /\ attempt[a].cleanup
      /\ bundle[a].status # "complete" /\ attempt[a].outcome = "failed"
  BY <1>1 DEF Housed, Rescue, Evident
<1>4. /\ faults' \in Nat /\ faults' >= faults /\ (Throws(result) => faults' = faults + 1)
      /\ (~Throws(result) => Lands(result))
  BY <1>1, ResultsCount DEF PublishFailure
<1>5. refused => "unsafe" \in bundle[a].outputs
  BY <1>3 DEF Publishable
<1>6. /\ IsBundle(b) /\ b.payload = bundle[a].payload /\ b.outputs = bundle[a].outputs
      /\ \/ (refused \/ ~Lands(result)) /\ b = bundle[a]
         \/ ~refused /\ b.home = "bundles" /\ b.status = "failed"
  <2>1. CASE ~refused /\ Lands(result)
    <3>1. b = Published(bundle[a], "failed")
      BY <2>1
    <3> HIDE DEF b, refused
    <3> QED
      BY <1>1, <2>1, <3>1, PublishedIs
  <2>2. CASE refused \/ ~Lands(result)
    BY <1>1, <2>2
  <2> QED
    BY <2>1, <2>2
<1> HIDE DEF b, refused
<1>7. bundle'[a] = b /\ BundleMoves(a)
  <2>1. b.home \in {"none", "staging", "bundles", "gone"}
    BY <1>3, <1>6
  <2> QED
    BY <1>1, <1>2, <1>3, <1>6, <2>1, BundleMoved
<1>8. /\ TryMoves(a) /\ Same(a) /\ attempt'[a].at = "done" /\ attempt'[a].outcome = "failed"
  <2>1. "done" \in Places \ {"none"} /\ attempt[a].at \notin {"none", "retired"}
    BY <1>1 DEF Places, Started
  <2> QED
    BY <1>1, <1>2, <1>3, <2>1, ProceedsIs DEF Rescue
<1>9. Housed(a)'
  BY <1>3, <1>6, <1>7, <1>8 DEF Housed, Staging, Rescue
<1>10. Doubted(a)'
  BY <1>1, <1>3, <1>4, <1>5, <1>6, <1>7, <1>8 DEF Doubted, Rescue
<1>11. Evident(a)'
  BY <1>3, <1>6, <1>7, <1>8 DEF Evident, Early
<1>12. attempt'[a].at \in Started \ {"ready", "running"} /\ attempt'[a].at \notin Staging
  BY <1>8 DEF Started, Staging
<1>13. attempt[a].at \in Started
  BY <1>1 DEF Started, Rescue
<1>14. bundle[a].outputs \subseteq bundle'[a].outputs
  BY <1>6, <1>7
<1> QED
  BY <1>1, <1>3, <1>4, <1>7, <1>8, <1>9, <1>10, <1>11, <1>12, <1>13, <1>14, CompletionKept

-----------------------------------------------------------------------------
(* The end of the callable.                                                *)

LEMMA ForgottenMoves ==
  ASSUME IInv, NEW a \in Tries, attempt[a].at # "none",
         attempt' = [attempt EXCEPT ![a] = Forgotten(attempt[a])]
  PROVE  /\ TryMoves(a) /\ Same(a) /\ attempt'[a].at = "retired"
         /\ attempt'[a].outcome = attempt[a].outcome
<1>1. /\ Shaped /\ IsTry(attempt[a]) /\ attempt[a].stage \in Nat
      /\ attempt[a].source \in Ids \cup {Nobody} /\ attempt[a].kind \in AnyKind
  BY Parts
<1> DEFINE t == Forgotten(attempt[a])
<1>2. /\ IsTry(t) /\ t.at = "retired" /\ t.kind = attempt[a].kind /\ t.source = attempt[a].source
      /\ t.stage = attempt[a].stage /\ t.cleanup = attempt[a].cleanup
      /\ t.outcome = attempt[a].outcome /\ t.observed = attempt[a].observed
  BY <1>1, ForgottenIs
<1>3. t.at \in Places \ {"none"}
  BY <1>2 DEF Places
<1>4. attempt' = [attempt EXCEPT ![a] = t]
  OBVIOUS
<1> HIDE DEF t
<1>5. attempt'[a] = t /\ TryMoves(a)
  BY <1>1, <1>2, <1>3, <1>4, TryMoved
<1> QED
  BY <1>2, <1>5 DEF Same

LEMMA DropKept ==
  ASSUME IInv, NEW a \in Tries, NEW result, Drop(a, result)
  PROVE  IInv'
<1> DEFINE filled == [bundle[a] EXCEPT !.outputs = bundle[a].outputs \cup {"report"}]
           c == IF Lands(result) THEN Published(filled, "failed") ELSE bundle[a]
           b == ReleasedWriter(c)
<1>1. /\ Shaped /\ Confined(a) /\ Housed(a) /\ Evident(a) /\ IsBundle(bundle[a]) /\ a \in Ids
      /\ bundle[a].payload \in 0..MaxChanges /\ UNCHANGED <<trees, gpu, changes>>
      /\ faults \in Nat /\ attempt[a].at \in {"queued", "dropped"}
      /\ bundle' = [bundle EXCEPT ![a] = b]
      /\ attempt' = [attempt EXCEPT ![a] = Forgotten(attempt[a])]
  BY Parts DEF Drop, Mine
<1>2. /\ bundle[a].home = "staging" /\ bundle[a].status # "complete"
      /\ attempt[a].outcome = "none" /\ attempt[a].cleanup /\ trees[a] = 0
      /\ attempt[a].stage = 0
  BY <1>1 DEF Housed, Staging, Evident, Confined, Early
<1>3. /\ IsBundle(c) /\ c.payload = bundle[a].payload
      /\ \/ Lands(result) /\ c.home = "bundles" /\ c.status = "failed"
         \/ ~Lands(result) /\ c.home = "staging"
  <2>1. CASE Lands(result)
    <3>1. IsBundle(filled) /\ filled.payload = bundle[a].payload
      BY <1>1 DEF IsBundle, BundleFields, NoBundle
    <3>2. c = Published(filled, "failed")
      BY <2>1
    <3> HIDE DEF filled, c
    <3> QED
      BY <2>1, <3>1, <3>2, PublishedIs
  <2>2. CASE ~Lands(result)
    BY <1>1, <1>2, <2>2
  <2> QED
    BY <2>1, <2>2
<1> HIDE DEF c
<1>4. /\ IsBundle(b) /\ b.payload = bundle[a].payload /\ b.status = "failed"
      /\ \/ Lands(result) /\ b.home = "bundles"
         \/ ~Lands(result) /\ b.home = "staging" /\ b.quarantined
  BY <1>3, ReleasedWriterIs
<1> HIDE DEF b
<1>5. bundle'[a] = b /\ BundleMoves(a)
  <2>1. b.home \in {"none", "staging", "bundles", "gone"}
    BY <1>4
  <2> QED
    BY <1>1, <1>2, <1>4, <2>1, BundleMoved
<1>6. /\ TryMoves(a) /\ Same(a) /\ attempt'[a].at = "retired"
      /\ attempt'[a].outcome = attempt[a].outcome
  BY <1>1, ForgottenMoves
<1>7. faults' \in Nat /\ faults' >= faults /\ (~Lands(result) => faults' >= 1)
  BY <1>1, ResultsCount DEF Drop
<1>8. Moves(a)
  BY <1>1, <1>5, <1>6, <1>7, Unmoved DEF Moves, RestMoves, Shaped
<1>9. Confined(a)' /\ Housed(a)' /\ Collected(a)'
  BY <1>1, <1>2, <1>4, <1>5, <1>6
     DEF Confined, Housed, Collected, Same, Early, Started, Staging, Rescue
<1>10. Evident(a)' /\ Doubted(a)'
  BY <1>1, <1>2, <1>4, <1>5, <1>6, <1>7 DEF Evident, Doubted, Same, Early, Rescue
<1>11. Mine(a)'
  BY <1>9, <1>10 DEF Mine
<1> QED
  BY <1>1, <1>6, <1>8, <1>11, MoveOn DEF Same

LEMMA RetireKept ==
  ASSUME IInv, NEW a \in Tries, Retire(a)
  PROVE  IInv'
<1> DEFINE b == ReleasedWriter(bundle[a])
<1>1. /\ Shaped /\ Confined(a) /\ Housed(a) /\ Evident(a) /\ Doubted(a)
      /\ IsBundle(bundle[a]) /\ a \in Ids /\ trees[a] \in Nat
      /\ bundle[a].home \in {"none", "staging", "bundles", "gone"}
      /\ bundle[a].payload \in 0..MaxChanges /\ UNCHANGED <<trees, faults, changes>>
      /\ faults \in Nat /\ attempt[a].at = "done"
      /\ bundle' = [bundle EXCEPT ![a] = b]
      /\ attempt' = [attempt EXCEPT ![a] = Forgotten(attempt[a])]
      /\ gpu' = IF attempt[a].cleanup THEN Nobody ELSE gpu
  BY Parts DEF Retire, Mine
<1>2. /\ IsBundle(b) /\ b.payload = bundle[a].payload /\ b.home = bundle[a].home
      /\ b.outputs = bundle[a].outputs
      /\ \/ bundle[a].home = "staging" /\ b.quarantined /\ b.status = "failed"
         \/ /\ bundle[a].home # "staging" /\ b.status = bundle[a].status
            /\ b.hash = bundle[a].hash
  BY <1>1, ReleasedWriterIs
<1> HIDE DEF b
<1>3. bundle'[a] = b /\ BundleMoves(a)
  BY <1>1, <1>2, BundleMoved
<1>4. /\ TryMoves(a) /\ Same(a) /\ attempt'[a].at = "retired"
      /\ attempt'[a].outcome = attempt[a].outcome
  BY <1>1, ForgottenMoves
<1>5. gpu = a
  BY <1>1 DEF Confined, Started
<1>6. Moves(a)
  BY <1>1, <1>3, <1>4, <1>5, Unmoved, NobodyIsNone DEF Moves, RestMoves, Shaped
<1>7. Confined(a)' /\ Housed(a)' /\ Collected(a)'
  BY <1>1, <1>2, <1>3, <1>4
     DEF Confined, Housed, Collected, Same, Early, Started, Staging, Rescue
<1>8. Evident(a)'
  BY <1>1, <1>2, <1>3, <1>4 DEF Evident, Last, Same, Early
<1>9. Doubted(a)'
  BY <1>1, <1>2, <1>3, <1>4 DEF Doubted, Same, Rescue
<1>10. Mine(a)'
  BY <1>7, <1>8, <1>9 DEF Mine
<1> QED
  BY <1>1, <1>4, <1>6, <1>10, MoveOn DEF Same

-----------------------------------------------------------------------------
(* Everybody else.                                                         *)

LEMMA PruneKept ==
  ASSUME IInv, NEW id \in Ids, Prune(id)
  PROVE  IInv'
<1> DEFINE b == [NoBundle EXCEPT !.home = "gone"]
<1>1. /\ Shaped /\ bundle[id].home = "bundles" /\ bundle' = [bundle EXCEPT ![id] = b]
      /\ UNCHANGED <<attempt, trees, gpu, faults, changes>> /\ faults \in Nat
      /\ \A a \in Tries : attempt[a].source = id => attempt[a].at = "retired"
  BY DEF IInv, Shaped, Prune, Leases
<1>2. /\ IsBundle(b) /\ b.home = "gone" /\ b.payload = 0 /\ b.hash = Never
      /\ b.status = "staging" /\ ~b.quarantined
  BY DEF IsBundle, BundleFields, NoBundle
<1> HIDE DEF b
<1>3. /\ bundle' = [i \in Ids |-> bundle'[i]] /\ bundle'[id] = b
      /\ \A i \in Ids \ {id} : bundle'[i] = bundle[i]
  BY <1>1 DEF Shaped
<1>4. Shaped'
  <2>1. 0 \in 0..MaxChanges
    BY CaptureBounds
  <2>3. \A i \in Ids : /\ IsBundle(bundle'[i]) /\ bundle'[i].payload \in 0..MaxChanges
                       /\ bundle'[i].home \in {"none", "staging", "bundles", "gone"}
    BY <1>1, <1>2, <1>3, <2>1 DEF Shaped
  <2> QED
    BY <1>1, <1>3, <2>3 DEF Shaped, IsBundle, BundleFields
<1>5. ASSUME NEW a \in Tries PROVE Mine(a)' /\ Sourced(a)'
  <2>1. /\ Mine(a) /\ Sourced(a) /\ attempt'[a] = attempt[a] /\ trees'[a] = trees[a] /\ a \in Ids
        /\ attempt[a].source \in Ids \cup {Nobody}
    BY <1>1, Parts
  <2>2. Sourced(a)'
    <3>1. CASE attempt[a].source = id
      <4>1. attempt[a].at = "retired" /\ bundle'[attempt[a].source] = b
        BY <1>1, <1>3, <3>1
      <4> QED
        BY <1>2, <2>1, <4>1, NobodyIsNone DEF Sourced
    <3>2. CASE attempt[a].source # id
      BY <1>3, <2>1, <3>2 DEF Sourced
    <3> QED
      BY <3>1, <3>2
  <2>3. CASE a # id
    <3>1. bundle'[a] = bundle[a] /\ gpu' = gpu /\ faults' = faults
      BY <1>1, <1>3, <2>1, <2>3
    <3>2. Mine(a)'
      BY <1>1, <2>1, <3>1, OthersKept
    <3> QED
      BY <2>2, <3>2
  <2>4. CASE a = id
    <3>1. bundle[a].home = "bundles" /\ bundle'[a] = b /\ gpu' = gpu
      BY <1>1, <1>3, <2>4
    <3>2. attempt[a].at \notin Staging \cup Rescue \cup {"none"} /\ trees[a] # 1
      BY <2>1, <3>1 DEF Mine, Housed, Confined
    <3>3. Confined(a)'
      BY <1>2, <2>1, <3>1, <3>2 DEF Mine, Confined
    <3>4. Housed(a)'
      BY <1>2, <2>1, <3>1, <3>2 DEF Mine, Housed
    <3>5. Collected(a)'
      BY <2>1, <3>2 DEF Mine, Collected, Staging
    <3>6. Evident(a)'
      BY <1>2, <2>1, <3>1 DEF Mine, Evident, Last
    <3>7. Doubted(a)'
      BY <1>2, <3>1 DEF Doubted
    <3> QED
      BY <2>2, <3>3, <3>4, <3>5, <3>6, <3>7 DEF Mine
  <2> QED
    BY <2>3, <2>4
<1> QED
  BY <1>4, <1>5 DEF IInv, Mine

\* What the invariant looks at in an attempt, a bundle and a tree.
SeenTry(t)    == <<t.kind, t.source, t.at, t.stage, t.cleanup, t.outcome, t.observed>>
SeenBundle(b) == <<b.home, b.status, b.quarantined, b.outputs, b.hash>>

LEMMA UnseenKept ==
  ASSUME NEW a \in Tries, Mine(a), Sourced(a), a \in Ids,
         attempt[a].source \in Ids \cup {Nobody},
         SeenTry(attempt[a])' = SeenTry(attempt[a]),
         \A id \in Ids : SeenBundle(bundle[id])' = SeenBundle(bundle[id]),
         trees'[a] = trees[a], gpu' = gpu, faults' = faults
  PROVE  Mine(a)' /\ Sourced(a)'
<1>1. /\ attempt'[a].kind = attempt[a].kind /\ attempt'[a].source = attempt[a].source
      /\ attempt'[a].at = attempt[a].at /\ attempt'[a].stage = attempt[a].stage
      /\ attempt'[a].cleanup = attempt[a].cleanup /\ attempt'[a].outcome = attempt[a].outcome
      /\ attempt'[a].observed = attempt[a].observed
  BY DEF SeenTry
<1>2. \A id \in Ids :
        /\ bundle'[id].home = bundle[id].home /\ bundle'[id].status = bundle[id].status
        /\ bundle'[id].quarantined = bundle[id].quarantined
        /\ bundle'[id].outputs = bundle[id].outputs /\ bundle'[id].hash = bundle[id].hash
  BY DEF SeenBundle
<1>3. Confined(a)' /\ Housed(a)'
  BY <1>1, <1>2 DEF Mine, Confined, Housed
<1>4. Collected(a)'
  BY <1>1, <1>2 DEF Mine, Collected, Stage
<1>5. Evident(a)' /\ Doubted(a)'
  BY <1>1, <1>2 DEF Mine, Evident, Doubted, Last
<1>6. Sourced(a)'
  <2>1. CASE attempt[a].source = Nobody
    BY <1>1, <2>1 DEF Sourced
  <2>2. CASE attempt[a].source \in Ids
    BY <1>1, <1>2, <2>2 DEF Sourced
  <2> QED
    BY <2>1, <2>2
<1> QED
  BY <1>3, <1>4, <1>5, <1>6 DEF Mine

LEMMA AllUnseen ==
  ASSUME IInv, Shaped',
         \A a \in Tries : SeenTry(attempt[a])' = SeenTry(attempt[a]),
         \A id \in Ids : SeenBundle(bundle[id])' = SeenBundle(bundle[id]),
         UNCHANGED <<trees, gpu, faults>>
  PROVE  IInv'
<1>1. ASSUME NEW a \in Tries PROVE Mine(a)' /\ Sourced(a)'
  <2>1. Mine(a) /\ Sourced(a) /\ a \in Ids /\ attempt[a].source \in Ids \cup {Nobody}
    BY Parts
  <2> QED
    BY <2>1, UnseenKept
<1> QED
  BY <1>1 DEF IInv, Mine

LEMMA ChangeKept ==
  ASSUME IInv, Change
  PROVE  IInv'
<1>1. /\ Shaped /\ UNCHANGED <<trees, gpu, faults>>
      /\ changes \in 0..MaxChanges /\ changes < MaxChanges /\ changes' = changes + 1
      /\ changes' \in 0..MaxChanges
  BY CaptureBounds DEF IInv, Shaped, Change
<1>2. CASE UNCHANGED <<bundle, attempt>>
  <2>1. Shaped'
    BY <1>1, <1>2 DEF Shaped, IsTry, IsBundle
  <2>2. /\ \A a \in Tries : SeenTry(attempt[a])' = SeenTry(attempt[a])
        /\ \A id \in Ids : SeenBundle(bundle[id])' = SeenBundle(bundle[id])
    BY <1>2 DEF SeenTry, SeenBundle
  <2> QED
    BY <1>1, <2>1, <2>2, AllUnseen
<1>3. ASSUME NEW id \in Ids, UNCHANGED attempt,
             bundle' = [bundle EXCEPT ![id].payload = changes + 1]
      PROVE  IInv'
  <2>1. /\ bundle' = [i \in Ids |-> bundle'[i]]
        /\ \A i \in Ids \ {id} : bundle'[i] = bundle[i]
        /\ bundle'[id] = [bundle[id] EXCEPT !.payload = changes + 1]
    BY <1>1, <1>3 DEF Shaped
  <2>2. IsBundle(bundle[id])
    BY <1>1 DEF Shaped
  <2>3. /\ IsBundle(bundle'[id]) /\ bundle'[id].payload = changes'
        /\ bundle'[id].home = bundle[id].home /\ bundle'[id].status = bundle[id].status
        /\ bundle'[id].quarantined = bundle[id].quarantined
        /\ bundle'[id].outputs = bundle[id].outputs /\ bundle'[id].hash = bundle[id].hash
    BY <1>1, <2>1, <2>2 DEF IsBundle, BundleFields, NoBundle
  <2>4. \A i \in Ids : /\ IsBundle(bundle'[i]) /\ bundle'[i].payload \in 0..MaxChanges
                       /\ bundle'[i].home \in {"none", "staging", "bundles", "gone"}
    BY <1>1, <2>1, <2>3 DEF Shaped
  <2>5. Shaped'
    BY <1>1, <1>3, <2>1, <2>4 DEF Shaped, IsBundle, IsTry
  <2>6. \A i \in Ids : SeenBundle(bundle[i])' = SeenBundle(bundle[i])
    BY <2>1, <2>3 DEF SeenBundle
  <2>7. \A a \in Tries : SeenTry(attempt[a])' = SeenTry(attempt[a])
    BY <1>3 DEF SeenTry
  <2> QED
    BY <1>1, <2>5, <2>6, <2>7, AllUnseen
<1>4. ASSUME NEW a \in Tries, UNCHANGED bundle,
             attempt' = [attempt EXCEPT ![a].input = changes + 1]
      PROVE  IInv'
  <2>1. /\ attempt' = [b \in Tries |-> attempt'[b]]
        /\ \A b \in Tries \ {a} : attempt'[b] = attempt[b]
        /\ attempt'[a] = [attempt[a] EXCEPT !.input = changes + 1]
    BY <1>1, <1>4 DEF Shaped
  <2>2. IsTry(attempt[a])
    BY <1>1 DEF Shaped
  <2>3. /\ IsTry(attempt'[a])
        /\ attempt'[a].kind = attempt[a].kind /\ attempt'[a].source = attempt[a].source
        /\ attempt'[a].at = attempt[a].at /\ attempt'[a].stage = attempt[a].stage
        /\ attempt'[a].cleanup = attempt[a].cleanup /\ attempt'[a].outcome = attempt[a].outcome
        /\ attempt'[a].observed = attempt[a].observed
    BY <2>1, <2>2 DEF IsTry, TryFields, NoTry
  <2>4. \A b \in Tries :
          /\ IsTry(attempt'[b]) /\ attempt'[b].at \in Places /\ attempt'[b].stage \in Nat
          /\ attempt'[b].source \in Ids \cup {Nobody}
          /\ attempt'[b].at # "none" => attempt'[b].kind \in AnyKind
    BY <1>1, <2>1, <2>3 DEF Shaped
  <2>5. Shaped'
    BY <1>1, <1>4, <2>1, <2>4 DEF Shaped, IsBundle, IsTry
  <2>6. \A b \in Tries : SeenTry(attempt[b])' = SeenTry(attempt[b])
    BY <2>1, <2>3 DEF SeenTry
  <2>7. \A i \in Ids : SeenBundle(bundle[i])' = SeenBundle(bundle[i])
    BY <1>4 DEF SeenBundle
  <2> QED
    BY <1>1, <2>5, <2>6, <2>7, AllUnseen
<1> QED
  BY <1>1, <1>2, <1>3, <1>4 DEF Change

-----------------------------------------------------------------------------
(* The specification.                                                      *)

LEMMA Initially == Init => IInv
<1> SUFFICES ASSUME Init PROVE IInv
  OBVIOUS
<1>1. /\ attempt = [a \in Tries |-> NoTry] /\ trees = [a \in Tries |-> 0]
      /\ gpu = Nobody /\ faults = 0 /\ changes = 0
  BY DEF Init
<1>2. /\ \A id \in Ids \ {0} : bundle[id] = NoBundle
      /\ bundle = [id \in Ids |-> bundle[id]]
      /\ bundle[0] = [NoBundle EXCEPT !.home = "bundles", !.status = "complete", !.producer = V3,
                                      !.frames = 3, !.outputs = Required("graphics")]
  BY CaptureBounds DEF Init, Ids, Old
<1>3. IsBundle(bundle[0]) /\ bundle[0].payload = 0 /\ bundle[0].home = "bundles"
  BY <1>2 DEF IsBundle, BundleFields, NoBundle
<1>4. \A a \in Tries : attempt[a] = NoTry /\ trees[a] = 0
  BY <1>1
<1>5. 0 \in 0..MaxChanges
  BY CaptureBounds
<1>6. \A id \in Ids : /\ IsBundle(bundle[id]) /\ bundle[id].payload \in 0..MaxChanges
                      /\ bundle[id].home \in {"none", "staging", "bundles", "gone"}
  BY <1>2, <1>3, <1>5, NoBundleIs
<1>7. Shaped
  <2>1. "none" \in Places
    BY DEF Places, Early
  <2>2. trees \in [Tries -> Nat]
    BY <1>1
  <2>3. \A a \in Tries : /\ IsTry(attempt[a]) /\ attempt[a].at \in Places
                         /\ attempt[a].stage \in Nat
                         /\ attempt[a].source \in Ids \cup {Nobody}
                         /\ attempt[a].at # "none" => attempt[a].kind \in AnyKind
    BY <1>4, <2>1, NoTryIs
  <2> QED
    BY <1>1, <1>2, <1>5, <1>6, <2>2, <2>3 DEF Shaped
<1>8. ASSUME NEW a \in Tries PROVE Mine(a) /\ Sourced(a)
  <2>1. /\ attempt[a] = NoTry /\ bundle[a] = NoBundle /\ trees[a] = 0
    BY <1>2, <1>4 DEF Tries, Ids
  <2>2. Confined(a) /\ Housed(a)
    BY <2>1, NoTryIs, NoBundleIs DEF Confined, Housed, Staging, Rescue, Started, Early
  <2>3. Collected(a) /\ Evident(a)
    BY <2>1, NoTryIs, NoBundleIs DEF Collected, Evident, Staging
  <2>4. Doubted(a) /\ Sourced(a)
    BY <2>1, NoTryIs, NoBundleIs DEF Doubted, Sourced
  <2> QED
    BY <2>2, <2>3, <2>4 DEF Mine
<1> QED
  BY <1>7, <1>8 DEF IInv, Mine

LEMMA WorkerKept ==
  ASSUME IInv, NEW a \in Tries, Worker(a)
  PROVE  IInv'
<1>1. CASE Check(a)
  BY <1>1, CheckKept
<1>2. CASE Run(a) \/ Discover(a) \/ Return(a)
  BY <1>2, RunKept, DiscoverKept, ReturnKept
<1>3. CASE Finish(a) \/ Inspect(a) \/ Retire(a)
  BY <1>3, FinishKept, InspectKept, RetireKept
<1>4. CASE \E result \in Results :
             \/ SaveReport(a, result) \/ UpdateProvenance(a, result) \/ Publish(a, result)
             \/ PublishFailure(a, result) \/ Drop(a, result)
  BY <1>4, SaveReportKept, UpdateProvenanceKept, PublishKept, PublishFailureKept, DropKept
<1> QED
  BY <1>1, <1>2, <1>3, <1>4 DEF Worker

LEMMA Inductive == IInv /\ [Next]_vars => IInv'
<1> SUFFICES ASSUME IInv, [Next]_vars PROVE IInv'
  OBVIOUS
<1>1. CASE UNCHANGED vars
  <2>1. /\ UNCHANGED <<attempt, bundle, trees, gpu, faults, changes>>
    BY <1>1 DEF vars
  <2>2. Shaped'
    BY <2>1 DEF IInv, Shaped, IsTry, IsBundle
  <2>3. /\ \A a \in Tries : SeenTry(attempt[a])' = SeenTry(attempt[a])
        /\ \A id \in Ids : SeenBundle(bundle[id])' = SeenBundle(bundle[id])
    BY <2>1 DEF SeenTry, SeenBundle
  <2> QED
    BY <2>1, <2>2, <2>3, AllUnseen
<1>2. ASSUME NEW a \in Tries, NEW kind \in Kinds[a], NEW request, NEW overrides,
             NEW source \in Ids \cup {Nobody}, NEW interval,
             Submit(a, kind, request, overrides, source, interval)
      PROVE  IInv'
  BY <1>2, KindsKnown, SubmitKept
<1>3. ASSUME NEW a \in Tries, Stop(a) \/ Begin(a) \/ Worker(a) PROVE IInv'
  BY <1>3, StopKept, BeginKept, WorkerKept
<1>4. ASSUME NEW id \in Ids, Prune(id) PROVE IInv'
  BY <1>4, PruneKept
<1>5. CASE Change
  BY <1>5, ChangeKept
<1> QED
  BY <1>1, <1>2, <1>3, <1>4, <1>5 DEF Next

\* The parts of the invariant hold in every reachable state.
THEOREM CaptureInvariant == Spec => []IInv
<1>1. Init => IInv
  BY Initially
<1>2. IInv /\ [Next]_vars => IInv'
  BY Inductive
<1> QED
  BY <1>1, <1>2, PTL DEF Spec

\* A tree of processes belongs to the job the GPU is reserved for, and no
\* tool is launched beside a tree that was not cleaned up (execute_capture(),
\* execute_replay()).
THEOREM AlwaysTreesConfined == Spec => []TreesConfined
<1>1. IInv => TreesConfined
  BY DEF IInv, Confined, TreesConfined
<1> QED
  BY <1>1, CaptureInvariant, PTL

\* Nothing is published, or pruned, whose processes may still write into it
\* (finish_attempt() and ~Attempt).
THEOREM AlwaysPublishedIsQuiet == Spec => []PublishedIsQuiet
<1>1. IInv => PublishedIsQuiet
  <2> SUFFICES ASSUME IInv, NEW a \in Tries, bundle[a].home \in {"bundles", "gone"}
               PROVE  trees[a] = 0
    BY DEF PublishedIsQuiet
  <2>1. trees[a] \in Nat /\ trees[a] <= 1 /\ trees[a] # 1
    BY DEF IInv, Shaped, Confined
  <2> QED
    BY <2>1
<1> QED
  BY <1>1, CaptureInvariant, PTL

\* A success left a complete bundle, and a complete bundle comes from a worker
\* that passed every stage, whatever went wrong after the rename.
THEOREM AlwaysSuccessIsEvidence == Spec => []SuccessIsEvidence
<1>1. IInv => SuccessIsEvidence
  BY DEF IInv, Evident, Last, SuccessIsEvidence
<1> QED
  BY <1>1, CaptureInvariant, PTL

\* An attempt is left quarantined only for one of four reasons (the handler of
\* finish_attempt(), and ~Attempt of a job that never started).
THEOREM AlwaysQuarantineMeansDoubt == Spec => []QuarantineMeansDoubt
<1>1. IInv => QuarantineMeansDoubt
  BY DEF IInv, Doubted, QuarantineMeansDoubt
<1> QED
  BY <1>1, CaptureInvariant, PTL

\* The source outlives its replay, and a complete replay ran on the bytes
\* whose hash the capture retained (source_lease, retain_input_file()).
THEOREM AlwaysReplaysTheCapture == Spec => []ReplaysTheCapture
<1>1. IInv => ReplaysTheCapture
  <2> SUFFICES ASSUME IInv, NEW a \in Tries, attempt[a].source # Nobody
               PROVE  LET source == bundle[attempt[a].source]
                      IN /\ attempt[a].at # "retired" => source.home = "bundles"
                         /\ bundle[a].status = "complete" =>
                              /\ attempt[a].observed # Never
                              /\ source.hash = 0 => attempt[a].observed = 0
    BY DEF ReplaysTheCapture
  <2>1. Sourced(a) /\ Evident(a) /\ attempt[a].at # "none" /\ attempt[a].kind \in AnyKind
    BY DEF IInv, Sourced, Shaped
  <2>2. bundle[a].status = "complete" => attempt[a].stage > 2
    BY <2>1, StagesLong DEF Evident, Last
  <2> QED
    BY <2>1, <2>2 DEF Sourced
<1> QED
  BY <1>1, CaptureInvariant, PTL
=============================================================================
