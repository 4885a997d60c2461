---------------------------- MODULE CaptureService ----------------------------
(***************************************************************************)
(* Capture, replay and timing jobs (src/src/capture/CaptureService.cpp).   *)
(*                                                                         *)
(* A submission opens a bundle and queues a worker; the worker goes        *)
(* through the stages of its kind, some of which run a tool of Nsight, and *)
(* finish_attempt() settles the bundle.  Around it: the coordinator, which *)
(* starts one worker at a time, keeps the GPU of one whose cleanup is not  *)
(* confirmed, and drops one that was stopped in the queue; the store,      *)
(* whose operations may fail before or after they took effect, and which   *)
(* prunes what nothing protects; the supervised processes; and files       *)
(* outside the store, which change whenever they like.  The first two are  *)
(* the contracts that Jobs and ArtifactStore implement.                    *)
(***************************************************************************)
EXTENDS Naturals, Sequences, FiniteSets, FiniteSetsExt, NsightTools

CONSTANTS MaxAttempts,   \* bound on submissions
          MaxFaults,     \* bound on failing store operations
          MaxChanges,    \* bound on changes of files outside the store
          Kinds,         \* the kinds of job each submission may be
          Requests,      \* capture requests, members of Request
          Intervals,     \* intervals whose timing is asked for
          Overlays,      \* launch_environment values submitted
          Defaults,      \* the environment of the service
          Libraries,     \* the library each ICD manifest names
          Installations, \* the tools found, one record of three tools each
          Projects,      \* the outputs of ngfx: C++ projects
          Traces,        \* and GPU traces
          MaxKeys,       \* variables of an overlay
          MaxPaths,      \* entries of a list of paths
          SystemDirectories

ASSUME LaunchBounds == MaxKeys \in Nat /\ MaxPaths \in Nat /\ SystemDirectories \in Seq(STRING)
ASSUME CaptureBounds == MaxAttempts \in Nat /\ MaxFaults \in Nat /\ MaxChanges \in Nat

Launch == INSTANCE LaunchEnvironment

VARIABLES
  files,    \* contents of the files outside the store, by version
  tools,    \* the installation on disk
  bundle,   \* [Ids -> bundle], as the store's memory has it
  attempt,  \* [Ids -> attempt]
  trees,    \* [Ids -> number of live process trees]
  gpu,      \* the attempt the coordinator reserved the GPU for
  faults, changes

vars == <<files, tools, bundle, attempt, trees, gpu, faults, changes>>

Old    == 0                  \* a bundle of an earlier version, without a hash
Ids    == 0..MaxAttempts
Tries  == 1..MaxAttempts
Nobody == MaxAttempts + 1
Never  == MaxChanges + 1     \* a hash not taken

Application == <<"apps", "game">>
Replayer    == <<"nsight", "ngfx-replay.bin">>

-----------------------------------------------------------------------------
(* Kinds, stages and required outputs.                                     *)

Exports  == {"metadata", "functions", "objects", "logs", "screenshot"}
Captures == {"graphics", "cpp", "profile"}
AnyKind  == Captures \cup {"replay", "timing"}

ASSUME KindsKnown == \A a \in Tries : Kinds[a] \subseteq AnyKind

CaptureStages(kind) ==
  IF kind = "graphics"
  THEN <<"environment", "before", "discovery", "capture",
         "metadata", "functions", "objects", "logs", "screenshot", "after">>
  ELSE <<"environment", "before", "discovery", kind, "after">>

ReplayStages(kind) ==
  IF kind = "replay"
  THEN <<"environment", "snapshot", "discovery", "reexport", "replay", "unchanged">>
  ELSE <<"environment", "snapshot", "discovery", "reexport",
         "target", "replay_cpp", "still", "replay_profile", "target_after", "unchanged">>

Stages(kind) == IF kind \in Captures THEN CaptureStages(kind) ELSE ReplayStages(kind)

Checks == {"environment", "before", "after", "snapshot", "target", "still", "target_after",
           "unchanged"}

\* What publish_success() requires of the bundle.
Required(kind) ==
  {"report"} \cup
  CASE kind = "graphics" -> {"capture", "metadata"}
    [] kind = "cpp"      -> {"cpp"}
    [] kind = "profile"  -> {"profile"}
    [] kind = "replay"   -> {"snapshot", "reexport", "replay"}
    [] kind = "timing"   -> {"snapshot", "reexport", "replay_cpp", "replay_profile"}

NoBundle == [home |-> "none", status |-> "staging", quarantined |-> FALSE, writer |-> FALSE,
             outputs |-> {}, frames |-> 1, payload |-> 0, hash |-> Never, producer |-> "none"]
NoTools  == [ready |-> FALSE]
NoTry    == [kind |-> "none", source |-> Nobody, at |-> "none", stage |-> 0, overrides |-> <<>>,
             request |-> Replaying, interval |-> 0,
             selection |-> <<>>, stop |-> FALSE, cleanup |-> TRUE, outcome |-> "none",
             installation |-> NoTools, before |-> Never, target |-> Never, input |-> Never,
             observed |-> Never]

Stage(a)   == Stages(attempt[a].kind)[attempt[a].stage]
Stopped(a) == attempt[a].stop
\* Who holds a lease on a bundle; in the mutant, not while it waits.
LeasesMutant(id) == {a \in Tries : attempt[a].source = id
                                     /\ attempt[a].at \notin {"queued", "retired"}}
Leases(id) == {a \in Tries : attempt[a].source = id /\ attempt[a].at # "retired"}

Results == IF faults < MaxFaults THEN {"ok", "early", "late"} ELSE {"ok"}
Lands(result)  == result # "early"
Throws(result) == result # "ok"
CountFault(result) == faults' = IF Throws(result) THEN faults + 1 ELSE faults

-----------------------------------------------------------------------------
(* Submission.                                                             *)

Accepted(overrides) == Launch!Accepted(overrides, Defaults, files, Libraries)
Selection(overrides) == Launch!Selection(overrides, Defaults, files, Libraries)

\* make_replay_attempt(): a complete capture of the qualified producer.
Replayable(id) ==
  /\ bundle[id].home = "bundles" /\ bundle[id].status = "complete"
  /\ {"capture", "metadata"} \subseteq bundle[id].outputs
  /\ bundle[id].producer = V3

\* capture(): only a graphics capture has frames and a delimiter to choose.
\* make_replay_attempt(): a timing job names one of the frames of its source.
ValidRequest(kind, request, interval, source) ==
  CASE kind = "graphics" -> source = Nobody /\ interval = 0
    [] kind \in {"cpp", "profile"} ->
         /\ source = Nobody /\ interval = 0
         /\ request.frame_count = 1 /\ request.delimiter = "present"
    [] kind = "replay" -> source # Nobody /\ Replayable(source) /\ request = Replaying /\ interval = 0
    [] kind = "timing" -> /\ source # Nobody /\ Replayable(source) /\ request = Replaying
                          /\ bundle[source].frames \in {1, 3} /\ interval < bundle[source].frames

\* The job is queued, or submit() throws and the callable is dropped.
Submit(a, kind, request, overrides, source, interval) ==
  /\ attempt[a].at = "none" /\ \A b \in Tries : b < a => attempt[b].at # "none"
  /\ Accepted(overrides)
  /\ ValidRequest(kind, request, interval, source)
  /\ bundle' = [bundle EXCEPT ![a] = [NoBundle EXCEPT !.home = "staging", !.writer = TRUE]]
  /\ \E at \in {"queued", "dropped"} :
       attempt' = [attempt EXCEPT ![a] =
                     [NoTry EXCEPT !.kind = kind, !.source = source, !.overrides = overrides,
                                   !.request = request, !.interval = interval,
                                   !.selection = Selection(overrides), !.at = at]]
  /\ UNCHANGED <<files, tools, trees, gpu, faults, changes>>

\* Cancellation, shutdown, or the deadline, which always comes.
Stop(a) ==
  /\ attempt[a].at \in {"queued", "ready", "running", "finish"} /\ ~Stopped(a)
  /\ attempt' = [attempt EXCEPT ![a].stop = TRUE]
  /\ UNCHANGED <<files, tools, bundle, trees, gpu, faults, changes>>

\* The coordinator starts the worker: from now on the attempt has started.
Begin(a) ==
  /\ attempt[a].at = "queued" /\ ~Stopped(a) /\ gpu = Nobody
  /\ gpu' = a
  /\ attempt' = [attempt EXCEPT ![a].at = "ready", ![a].stage = 1]
  /\ UNCHANGED <<files, tools, bundle, trees, faults, changes>>

-----------------------------------------------------------------------------
(* The stages.                                                             *)

Outcome(a) == IF Stopped(a) THEN "stopped" ELSE attempt[a].outcome

Advanced(try) ==
  IF try.stage = Len(Stages(try.kind))
  THEN [try EXCEPT !.at = "finish", !.outcome = "succeeded", !.installation = NoTools]
  ELSE [try EXCEPT !.at = "ready", !.stage = try.stage + 1]

Failed(try) == [try EXCEPT !.at = "finish", !.outcome = "failed", !.installation = NoTools]

\* The overlay selects what it selected at the submission, and the executable
\* is the one that was launched.
CaptureHolds(a) ==
  LET try == attempt[a]
  IN CASE Stage(a) = "environment" ->
            Accepted(try.overrides) /\ Selection(try.overrides) = try.selection
       [] Stage(a) = "after" -> files[Application] = try.before
       [] OTHER -> TRUE

\* The snapshot has the hash the source retained, if it retained one; after
\* every launch the snapshot and the replayer are what they were.
ReplayHolds(a) ==
  LET try == attempt[a]
  IN CASE Stage(a) = "snapshot" ->
            /\ bundle[try.source].home = "bundles"
            /\ bundle[try.source].hash \in {Never, bundle[try.source].payload}
       [] Stage(a) = "target" -> ReplayTarget(try.installation)
       [] Stage(a) = "still"  -> try.input = try.observed /\ files[Replayer] = try.target
       [] Stage(a) = "target_after" -> files[Replayer] = try.target
       [] Stage(a) = "unchanged" -> try.input = try.observed
       [] OTHER -> TRUE

\* None is looked at once the job is stopped.
CheckHolds(a) == ~Stopped(a) /\ CaptureHolds(a) /\ ReplayHolds(a)

CheckEffect(a) ==
  LET try == attempt[a]
  IN CASE Stage(a) = "before"   -> [try EXCEPT !.before = files[Application]]
       [] Stage(a) = "target"   -> [try EXCEPT !.target = files[Replayer]]
       [] Stage(a) = "snapshot" -> [try EXCEPT !.input    = bundle[try.source].payload,
                                               !.observed = bundle[try.source].payload]
       [] OTHER -> try

Check(a) ==
  /\ attempt[a].at = "ready" /\ Stage(a) \in Checks
  /\ IF CheckHolds(a)
     THEN /\ attempt' = [attempt EXCEPT ![a] = Advanced(CheckEffect(a))]
          /\ bundle' = IF Stage(a) = "snapshot"
                       THEN [bundle EXCEPT ![a].outputs = @ \cup {"snapshot"}] ELSE bundle
     ELSE /\ attempt' = [attempt EXCEPT ![a] = Failed(attempt[a])]
          /\ UNCHANGED bundle
  /\ UNCHANGED <<files, tools, trees, gpu, faults, changes>>

\* A stopped job launches nothing more; discovery and the new export follow
\* a check that has already looked.
StopsBefore == {"capture", "cpp", "profile", "replay", "replay_cpp", "replay_profile"}
                 \cup Exports

\* What the operation of this stage concludes from the way its process ends.
CaptureConclusion(a, process, output, valid, interrupted) ==
  LET inst  == attempt[a].installation
      stage == Stage(a)
  IN CASE stage = "capture" -> NsightCapture(inst, attempt[a].request, process, output)
       [] stage = "cpp" -> NsightCppCapture(inst, attempt[a].request, process, valid, interrupted)
       [] stage = "profile" ->
            NsightProfile(inst, ReplaySettings, attempt[a].request, {}, process, valid, interrupted)
       [] OTHER -> ExportNsightCapture(inst, stage, inst.capture.version, TRUE, process, output)

\* A replay runs with the producer its source recorded.
ReplayConclusion(a, process, output, valid, interrupted) ==
  LET inst  == attempt[a].installation
      stage == Stage(a)
      from  == bundle[attempt[a].source].producer
  IN CASE stage = "reexport" -> ExportNsightCapture(inst, "metadata", from, TRUE, process, output)
       [] stage = "replay" -> NsightReplay(inst, from, TRUE, process, output)
       [] stage = "replay_cpp" -> NsightCppCapture(inst, Replaying, process, valid, interrupted)
       [] stage = "replay_profile" ->
            NsightReplayProfile(inst, from, attempt[a].interval = 0, process, valid, interrupted)

Conclusion(a, process, output, valid, interrupted) ==
  IF attempt[a].kind \in Captures
  THEN CaptureConclusion(a, process, output, valid, interrupted)
  ELSE ReplayConclusion(a, process, output, valid, interrupted)

Launches(a) == Conclusion(a, "exit_0", [shape |-> "good"], TRUE, "no").launched

\* The operation is called with its cleanup unconfirmed; it launches a tree
\* unless it refuses.
Run(a) ==
  /\ attempt[a].at = "ready" /\ Stage(a) \notin Checks \cup {"discovery"}
  /\ IF Stage(a) \in StopsBefore /\ Stopped(a)
     THEN attempt' = [attempt EXCEPT ![a] = Failed(attempt[a])] /\ UNCHANGED trees
     ELSE /\ attempt' = [attempt EXCEPT ![a].at = "running", ![a].cleanup = FALSE]
          /\ trees' = IF Launches(a) THEN [trees EXCEPT ![a] = @ + 1] ELSE trees
  /\ UNCHANGED <<files, tools, bundle, gpu, faults, changes>>

\* The ends a process can have had: only a stopped one is cancelled or late.
Ends(a) ==
  IF Stopped(a) THEN ProcessEnds ELSE ProcessEnds \ {"cancelled", "timed_out"}
Interrupts(a) == IF Stopped(a) THEN {"no", "cancelled"} ELSE {"no"}

\* One probe may misbehave; an exception leaves the cleanup unconfirmed.
\* Probes of the other tools run whatever became of the first.
Probes(a) ==
  {[n \in {"cli", "capture", "replay"} |->
      [version |-> IF n = tool /\ which = "version" THEN end ELSE "exit_0",
       help    |-> IF n = tool /\ which = "help"    THEN end ELSE "exit_0"]] :
     tool \in {"cli", "capture", "replay"}, which \in {"version", "help"}, end \in Ends(a)}

Discover(a) ==
  /\ attempt[a].at = "ready" /\ Stage(a) = "discovery"
  /\ \/ \E ends \in Probes(a) :
          LET found == InspectNsight(tools, ends)
              try   == [attempt[a] EXCEPT !.cleanup = found.cleanup_confirmed]
          IN /\ \E alive \in (IF found.cleanup_confirmed THEN {0} ELSE {0, 1}) :
                  trees' = [trees EXCEPT ![a] = alive]
             /\ attempt' = [attempt EXCEPT ![a] =
                  IF found.interface_ready /\ ~(attempt[a].kind \in Captures /\ Stopped(a))
                  THEN Advanced([try EXCEPT !.installation = found]) ELSE Failed(try)]
     \/ /\ attempt' = [attempt EXCEPT ![a] = [Failed(attempt[a]) EXCEPT !.cleanup = FALSE]]
        /\ UNCHANGED trees
  /\ UNCHANGED <<files, tools, bundle, gpu, faults, changes>>

\* Optional exports keep their own outcome.
Optional == {"functions", "objects", "logs", "screenshot"}

OutputValid(a, output) ==
  LET inst == attempt[a].installation
  IN CASE Stage(a) \in {"cpp", "replay_cpp"} -> ProjectValid(output, {"Resources"}, inst.cli.version)
       [] Stage(a) \in {"profile", "replay_profile"} -> TraceValid(output, inst, ReplaySettings, "input")
       [] OTHER -> TRUE

Outputs(a) ==
  CASE Stage(a) \in {"cpp", "replay_cpp"} -> Projects
    [] Stage(a) \in {"profile", "replay_profile"} -> Traces
    [] OTHER -> [shape : Shapes, links : BOOLEAN]

\* retain_safe_cpp_failure_output(): what the store's inventory would refuse
\* is removed from rejected ngfx output, once its processes are gone.
Rejects(a) == Stage(a) \in {"cpp", "profile", "replay_cpp", "replay_profile"}

\* The mutant goes on after an optional export whose cleanup is unconfirmed.
\* The replay compares what the new export says with what the source kept; the
\* outputs that are indexed are hashed, which a stopped job does not do.
PassesMutant(a, result, output) ==
  /\ result.outcome = "success" \/ Stage(a) \in Optional
  /\ Stage(a) = "reexport" => output.shape = "good"
  /\ Rejects(a) \/ Stage(a) = "capture" => ~Stopped(a)

Passes(a, result, output) ==
  /\ result.cleanup_confirmed
  /\ result.outcome = "success" \/ Stage(a) \in Optional
  /\ Stage(a) = "reexport" => output.shape = "good"
  /\ Rejects(a) \/ Stage(a) = "capture" => ~Stopped(a)

\* The call returns.  Regular output stays in the bundle, and so does an entry
\* the inventory refuses, unless the handler removed it.
Return(a) ==
  /\ attempt[a].at = "running"
  /\ \E process \in Ends(a), output \in Outputs(a), interrupted \in Interrupts(a) :
       LET result == Conclusion(a, process, output, OutputValid(a, output), interrupted)
           kept   == Passes(a, result, output) /\ Stage(a) \notin Optional
           unsafe == /\ result.launched /\ output.links
                     /\ ~(Rejects(a) /\ result.cleanup_confirmed)
           try    == [attempt[a] EXCEPT !.cleanup = result.cleanup_confirmed]
       IN /\ attempt' = [attempt EXCEPT
               ![a] = IF Passes(a, result, output) THEN Advanced(try) ELSE Failed(try)]
          /\ \E alive \in (IF result.cleanup_confirmed THEN {0} ELSE {0, 1}) :
               trees' = [trees EXCEPT ![a] = IF @ = 0 THEN 0 ELSE alive]
          /\ bundle' = [bundle EXCEPT
               ![a].outputs = @ \cup (IF kept THEN {Stage(a)} ELSE {})
                                \cup (IF unsafe THEN {"unsafe"} ELSE {}),
               ![a].hash    = IF Stage(a) = "capture" /\ kept THEN 0 ELSE @,
               ![a].frames  = IF Stage(a) = "capture" THEN attempt[a].request.frame_count ELSE @,
               ![a].producer = IF Stage(a) = "capture" /\ kept
                               THEN attempt[a].installation.capture.version ELSE @]
  /\ UNCHANGED <<files, tools, gpu, faults, changes>>

-----------------------------------------------------------------------------
(* finish_attempt().                                                       *)

Finish(a) ==
  /\ attempt[a].at = "finish"
  /\ attempt' = [attempt EXCEPT ![a].at = "report", ![a].outcome = Outcome(a)]
  /\ UNCHANGED <<files, tools, bundle, trees, gpu, faults, changes>>

\* Mutant: the completion keeps the outcome it had before the error.
ProceedsMutant(a, throws, next) ==
  attempt' = [attempt EXCEPT ![a] =
    IF ~throws THEN [@ EXCEPT !.at = next]
    ELSE [@ EXCEPT !.at = IF attempt[a].at \in {"re_report", "re_provenance", "re_publish"}
                               \/ ~attempt[a].cleanup
                          THEN "done" ELSE "inspect"]]

\* The next step, or the handler, which only a confirmed cleanup enters.
Proceeds(a, throws, next) ==
  attempt' = [attempt EXCEPT ![a] =
    IF ~throws THEN [@ EXCEPT !.at = next]
    ELSE [@ EXCEPT !.outcome = "failed",
                   !.at = IF attempt[a].at \in {"re_report", "re_provenance", "re_publish"}
                               \/ ~attempt[a].cleanup
                          THEN "done" ELSE "inspect"]]

\* save(): the second one may fail and the handler goes on without it.
SaveReport(a, result) ==
  /\ attempt[a].at \in {"report", "re_report"}
  /\ bundle' = IF Lands(result) THEN [bundle EXCEPT ![a].outputs = @ \cup {"report"}] ELSE bundle
  /\ IF attempt[a].at = "report" THEN Proceeds(a, Throws(result), "provenance")
                                 ELSE Proceeds(a, FALSE, "re_provenance")
  /\ CountFault(result)
  /\ UNCHANGED <<files, tools, trees, gpu, changes>>

\* update_provenance() rewrites the manifest of a staged attempt.
UpdateProvenance(a, result) ==
  /\ attempt[a].at \in {"provenance", "re_provenance"}
  /\ Proceeds(a, Throws(result) \/ bundle[a].home # "staging",
              IF attempt[a].at = "provenance" THEN "publish" ELSE "re_publish")
  /\ CountFault(result)
  /\ UNCHANGED <<files, tools, bundle, trees, gpu, changes>>

Quarantined(b) == [b EXCEPT !.status = "failed", !.quarantined = TRUE]
Published(b, status) == [b EXCEPT !.home = "bundles", !.status = status, !.quarantined = FALSE]

\* The store's preconditions: an inventory without irregular entries and, for
\* a success, no quarantine and every required output.
Publishable(a, success) ==
  /\ bundle[a].home = "staging" /\ "unsafe" \notin bundle[a].outputs
  /\ success => ~bundle[a].quarantined /\ Required(attempt[a].kind) \subseteq bundle[a].outputs

\* Mutant: an outcome, not the cleanup, decides on the quarantine.
PublishMutant(a, result) ==
  LET success == attempt[a].outcome = "succeeded"
  IN /\ attempt[a].at = "publish"
     /\ bundle' = IF Publishable(a, success) /\ Lands(result)
                  THEN [bundle EXCEPT ![a] = Published(@, IF success THEN "complete" ELSE "failed")]
                  ELSE bundle
     /\ Proceeds(a, Throws(result) \/ ~Publishable(a, success), "done")
     /\ CountFault(result)
     /\ UNCHANGED <<files, tools, trees, gpu, changes>>

\* Quarantine, success or failure; any of them may throw, and a success may be
\* refused for the budget.
Publish(a, result) ==
  LET success == attempt[a].outcome = "succeeded"
      refused == ~Publishable(a, success)
  IN /\ attempt[a].at = "publish"
     /\ IF ~attempt[a].cleanup
        THEN /\ bundle' = [bundle EXCEPT ![a] = Quarantined(@)]
             /\ Proceeds(a, Throws(result), "done")
        ELSE /\ bundle' = IF refused \/ ~Lands(result) THEN bundle
                          ELSE [bundle EXCEPT ![a] =
                                  Published(@, IF success THEN "complete" ELSE "failed")]
             /\ Proceeds(a, Throws(result) \/ refused, "done")
     /\ CountFault(result)
     /\ UNCHANGED <<files, tools, trees, gpu, changes>>

\* Whether the bundle was published although the call threw.
Inspect(a) ==
  /\ attempt[a].at = "inspect"
  /\ attempt' = [attempt EXCEPT ![a].at =
                   IF bundle[a].home = "staging" THEN "re_report" ELSE "done"]
  /\ UNCHANGED <<files, tools, bundle, trees, gpu, faults, changes>>

PublishFailure(a, result) ==
  /\ attempt[a].at = "re_publish"
  /\ bundle' = IF Publishable(a, FALSE) /\ Lands(result)
               THEN [bundle EXCEPT ![a] = Published(@, "failed")] ELSE bundle
  /\ Proceeds(a, Throws(result) \/ ~Publishable(a, FALSE), "done")
  /\ CountFault(result)
  /\ UNCHANGED <<files, tools, trees, gpu, changes>>

-----------------------------------------------------------------------------
(* The end of the callable, and with it of the attempt.                    *)

\* ~ArtifactWriter: what nobody published is quarantined.
ReleasedWriter(b) ==
  [IF b.home = "staging" THEN Quarantined(b) ELSE b EXCEPT !.writer = FALSE]

\* What the callable held goes with it; the completion and the bundle remain.
Forgotten(try) ==
  [try EXCEPT !.at = "retired", !.stop = FALSE, !.overrides = <<>>, !.selection = <<>>,
              !.request = Replaying, !.interval = 0,
              !.before = Never, !.target = Never, !.input = Never]

\* Mutants: an attempt that never started is left to its writer; one stopped
\* in the queue keeps its place.
DropMutant(a, result) ==
  /\ attempt[a].at = "dropped" \/ (attempt[a].at = "queued" /\ Stopped(a))
  /\ bundle' = [bundle EXCEPT ![a] = ReleasedWriter(@)]
  /\ attempt' = [attempt EXCEPT ![a] = Forgotten(@)]
  /\ CountFault(result)
  /\ UNCHANGED <<files, tools, trees, gpu, changes>>

DropNever(a, result) ==
  /\ attempt[a].at = "dropped" /\ result = "ok"
  /\ bundle' = [bundle EXCEPT ![a] = ReleasedWriter(Published(@, "failed"))]
  /\ attempt' = [attempt EXCEPT ![a] = Forgotten(@)]
  /\ UNCHANGED <<files, tools, trees, gpu, faults, changes>>

\* ~Attempt of a job that never started, on whichever thread drops it: three
\* calls, of which any may fail and leave the rest to the writer.
Drop(a, result) ==
  /\ attempt[a].at = "dropped" \/ (attempt[a].at = "queued" /\ Stopped(a))
  /\ bundle' = [bundle EXCEPT ![a] =
                  ReleasedWriter(IF Lands(result)
                                 THEN Published([@ EXCEPT !.outputs = bundle[a].outputs \cup {"report"}],
                                                "failed")
                                 ELSE @)]
  /\ attempt' = [attempt EXCEPT ![a] = Forgotten(@)]
  /\ CountFault(result)
  /\ UNCHANGED <<files, tools, trees, gpu, changes>>

\* The worker returned: its callable dies with the source lease, and the
\* coordinator gives the GPU back when the cleanup was confirmed.
Retire(a) ==
  /\ attempt[a].at = "done"
  /\ bundle' = [bundle EXCEPT ![a] = ReleasedWriter(@)]
  /\ attempt' = [attempt EXCEPT ![a] = Forgotten(@)]
  /\ gpu' = IF attempt[a].cleanup THEN Nobody ELSE gpu
  /\ UNCHANGED <<files, tools, trees, faults, changes>>

-----------------------------------------------------------------------------
(* Everybody else.                                                         *)

\* prune() of any caller takes what nothing protects.
Prune(id) ==
  /\ bundle[id].home = "bundles" /\ ~bundle[id].writer /\ Leases(id) = {}
  /\ bundle' = [bundle EXCEPT ![id] = [NoBundle EXCEPT !.home = "gone"]]
  /\ UNCHANGED <<files, tools, attempt, trees, gpu, faults, changes>>

\* A file changes: one outside the store, the capture in a published bundle,
\* or the snapshot of a running job.  Contents never come back.
Change ==
  /\ changes < MaxChanges /\ changes' = changes + 1
  /\ \/ \E file \in DOMAIN files : files' = [files EXCEPT ![file] = changes + 1]
        /\ UNCHANGED <<tools, bundle, attempt>>
     \/ \E id \in Ids : /\ bundle[id].home = "bundles"
                        /\ bundle' = [bundle EXCEPT ![id].payload = changes + 1]
                        /\ UNCHANGED <<files, tools, attempt>>
     \/ \E a \in Tries : /\ attempt[a].at \in {"ready", "running"} /\ attempt[a].input # Never
                         /\ attempt' = [attempt EXCEPT ![a].input = changes + 1]
                         /\ UNCHANGED <<files, tools, bundle>>
     \/ tools' \in Installations \ {tools} /\ UNCHANGED <<files, bundle, attempt>>
  /\ UNCHANGED <<trees, gpu, faults>>

-----------------------------------------------------------------------------
Init ==
  /\ tools \in Installations
  /\ files = [f \in {Application, Replayer} \cup {Libraries[m] : m \in DOMAIN Libraries}
                      \cup DOMAIN Libraries |-> 0]
  /\ bundle = [id \in Ids |->
       IF id # Old THEN NoBundle
       ELSE [NoBundle EXCEPT !.home = "bundles", !.status = "complete", !.producer = V3,
                             !.frames = 3, !.outputs = Required("graphics")]]
  /\ attempt = [a \in Tries |-> NoTry]
  /\ trees = [a \in Tries |-> 0]
  /\ gpu = Nobody /\ faults = 0 /\ changes = 0

\* What the worker and the coordinator do of themselves.
Worker(a) ==
  \/ Check(a) \/ Run(a) \/ Discover(a) \/ Return(a) \/ Finish(a) \/ Inspect(a) \/ Retire(a)
  \/ \E result \in Results :
       \/ SaveReport(a, result) \/ UpdateProvenance(a, result) \/ Publish(a, result)
       \/ PublishFailure(a, result) \/ Drop(a, result)

Next ==
  \/ \E a \in Tries :
       \/ \E kind \in Kinds[a], request \in Requests, overrides \in Overlays,
             source \in Ids \cup {Nobody}, interval \in Intervals :
            Submit(a, kind, request, overrides, source, interval)
       \/ Stop(a) \/ Begin(a) \/ Worker(a)
  \/ \E id \in Ids : Prune(id)
  \/ Change

Spec == Init /\ [][Next]_vars

\* A worker goes on, since run_process() returns (Supervisor) and no store
\* operation blocks; and a deadline passes.  Nothing forces a start.
FairSpec == Spec /\ \A a \in Tries : WF_vars(Worker(a)) /\ WF_vars(Stop(a))

-----------------------------------------------------------------------------
(* Properties.                                                             *)

\* The cleanup flags that the operations report and the worker carries over
\* keep the GPU apart: at most one tree of processes lives, it belongs to the
\* job the GPU is reserved for, and no tool is launched beside a tree that
\* was not cleaned up (execute_capture, execute_replay).
TreesConfined ==
  \A a \in Tries : trees[a] <= 1 /\ (trees[a] = 1 => gpu = a)

\* Nothing is published, as a success or as a failure, while a process that
\* may still write into it lives (finish_attempt and ~Attempt).
PublishedIsQuiet ==
  \A a \in Tries : bundle[a].home \in {"bundles", "gone"} => trees[a] = 0

\* A job that reports success left a complete bundle with everything its kind
\* requires; and a complete bundle comes from a worker that passed every stage
\* with its cleanup confirmed, whatever went wrong after the rename.
SuccessIsEvidence ==
  \A a \in Tries :
    /\ attempt[a].outcome = "succeeded" /\ attempt[a].at \in {"done", "retired"}
         => \/ bundle[a].status = "complete" /\ bundle[a].home = "bundles"
            \/ bundle[a].home = "gone"
    /\ bundle[a].status = "complete"
         => /\ attempt[a].stage = Len(Stages(attempt[a].kind)) /\ attempt[a].cleanup
            /\ attempt[a].outcome = "succeeded" \/ faults > 0
            /\ Required(attempt[a].kind) \subseteq bundle[a].outputs

\* The source of a replay outlives the job, queued or running (source_lease);
\* and a replay that is published complete ran on the bytes whose hash the
\* capture retained, although the bundle and the snapshot may change.
ReplaysTheCapture ==
  \A a \in Tries :
    attempt[a].source # Nobody =>
      LET source == bundle[attempt[a].source]
      IN /\ attempt[a].at # "retired" => source.home = "bundles"
         /\ bundle[a].status = "complete" =>
              /\ attempt[a].observed # Never
              /\ source.hash = 0 => attempt[a].observed = 0

\* When everything is over, an attempt is left quarantined only for a reason:
\* its processes may live, its files cannot be inventoried, its store failed
\* twice, or once when it had never started.  One failing operation ends in a
\* published failure (the handler of finish_attempt).
QuarantineMeansDoubt ==
  \A a \in Tries :
    attempt[a].at = "retired" /\ bundle[a].home = "staging" =>
      /\ bundle[a].quarantined
      /\ \/ ~attempt[a].cleanup
         \/ "unsafe" \in bundle[a].outputs
         \/ faults >= 2
         \/ faults = 1 /\ attempt[a].stage = 0

\* Every submission ends, whatever fails and whether or not it ever started.
Settles == \A a \in Tries : attempt[a].at # "none" ~> attempt[a].at = "retired"
=============================================================================
