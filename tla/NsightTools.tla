---------------------------- MODULE NsightTools ----------------------------
(***************************************************************************)
(* What the Nsight adapter (src/src/nsight/Nsight.cpp) concludes from the  *)
(* tools it finds, the options it is given, the way run_process() ended    *)
(* and the output the tool left.  Nothing here has state: CaptureService   *)
(* takes each conclusion in a step of its own.                             *)
(*                                                                         *)
(* A version stands for the pair version/build; a set of options stands    *)
(* for the flags a help text declares, one name per group of flags an      *)
(* operation requires together.                                            *)
(***************************************************************************)
EXTENDS Naturals, FiniteSets

V3 == "2026.3.1.0/38722833"
V2 == "2026.2.0.0/37991608"

\* How run_process() ends.  "failed" is any error, signal or exit code but 0
\* and 1; "thrown" is an exception, from run_process() or just before it.
ProcessEnds ==
  {"exit_0", "exit_1", "failed", "cancelled", "timed_out", "unconfirmed", "thrown"}

CleanExit(process, allow_one) == process = "exit_0" \/ (allow_one /\ process = "exit_1")
CleanupConfirmed(process)     == process # "unconfirmed"

-----------------------------------------------------------------------------
(* Discovery.                                                              *)

\* An executable: the directory it is in ("none" when it is missing), what
\* --version and --help print ("none", {} when they are not recognised).
Missing == [directory |-> "none", version |-> "none", help |-> FALSE, options |-> {}]

\* The help of a tool whose --version was not cleaned up is never asked for.
\* Only ngfx may exit with 1.
InspectTool(tool, is_cli, version_process, help_process) ==
  LET found  == tool.directory # "none"
      banner == CleanExit(version_process, is_cli) /\ tool.version # "none"
      asked  == found /\ CleanupConfirmed(version_process)
      help   == asked /\ CleanExit(help_process, is_cli) /\ tool.help
  IN [directory |-> tool.directory,
      version   |-> IF found /\ banner THEN tool.version ELSE "none",
      help      |-> help,
      options   |-> IF help THEN tool.options ELSE {},
      confirmed |-> /\ found => CleanupConfirmed(version_process)
                    /\ asked => CleanupConfirmed(help_process)]

MatchingTools(first, second) ==
  /\ first.directory # "none" /\ first.directory = second.directory
  /\ first.version # "none"   /\ first.version = second.version

\* tools and ends give the executable and the two process ends of each of
\* ngfx, ngfx-capture and ngfx-replay.
InspectNsight(tools, ends) ==
  LET seen == [n \in {"cli", "capture", "replay"} |->
                 InspectTool(tools[n], n = "cli", ends[n].version, ends[n].help)]
      confirmed == \A n \in DOMAIN seen : seen[n].confirmed
  IN [cli |-> seen.cli, capture |-> seen.capture, replay |-> seen.replay,
      cleanup_confirmed |-> confirmed,
      interface_ready |->
        /\ confirmed
        /\ MatchingTools(seen.capture, seen.replay)
        /\ seen.capture.help /\ seen.replay.help
        /\ seen.cli.directory # "none" => MatchingTools(seen.capture, seen.cli)
        /\ "capture" \in seen.capture.options /\ "metadata" \in seen.replay.options]

UsableInstallation(installation) ==
  installation.interface_ready /\ MatchingTools(installation.capture, installation.replay)

-----------------------------------------------------------------------------
(* One operation.                                                          *)

\* run_operation(), and the handler around it for what it throws.
RunOutcome(process) ==
  CASE process = "unconfirmed" -> "cleanup_failed"
    [] process = "cancelled"   -> "cancelled"
    [] process = "timed_out"   -> "timed_out"
    [] process = "thrown"      -> "invalid_input"
    [] process = "exit_0"      -> "ran"
    [] OTHER                   -> "failed"

Refused(outcome) == [launched |-> FALSE, outcome |-> outcome, cleanup_confirmed |-> TRUE]

\* refusal is what the checks before the launch concluded, "none" when they
\* all passed; valid says whether the output passes the checks after it.
Operation(refusal, process, valid) ==
  IF refusal # "none" THEN Refused(refusal)
  ELSE [launched          |-> TRUE,
        cleanup_confirmed |-> CleanupConfirmed(process),
        outcome |-> IF RunOutcome(process) # "ran" THEN RunOutcome(process)
                    ELSE IF valid THEN "success" ELSE "invalid_output"]

\* The outcome of the first check that fails.
FirstOf(checks) ==
  LET failed == {k \in DOMAIN checks : ~checks[k].holds}
  IN IF failed = {} THEN "none"
     ELSE checks[CHOOSE k \in failed : \A j \in failed : k <= j].refusal

Need(condition, refusal) == [holds |-> condition, refusal |-> refusal]

\* A request: how many frames, which delimiter, and whether an argument needs
\* quoting, which target_arguments() cannot preserve.
Request == [frame_count : {1, 3}, quoted : BOOLEAN,
            delimiter : {"present", "vk_frame_boundary", "graphics_capture_api"}]

\* An output: what it holds, and the version of the tool that says it made it.
Shapes == {"none", "empty", "malformed", "good"}
Readable(output) == output.shape \in {"malformed", "good"}

NsightCapture(installation, request, process, output) ==
  Operation(FirstOf(<<Need(UsableInstallation(installation), "unavailable"),
                      Need(request.frame_count > 1 => installation.capture.version = V3,
                           "unavailable"),
                      Need(~request.quoted, "invalid_input"),
                      Need(request.delimiter \in installation.capture.options, "invalid_input")>>),
            process, Readable(output))

\* The exports name what they read after the kind; logs may be empty, and
\* only the objects are parsed here.
ExportValid(kind, output) ==
  CASE kind = "logs"    -> output.shape # "none"
    [] kind = "objects" -> output.shape = "good"
    [] OTHER            -> Readable(output)

ExportNsightCapture(installation, kind, producer, input, process, output) ==
  Operation(FirstOf(<<Need(UsableInstallation(installation), "unavailable"),
                      Need(producer = installation.replay.version, "unavailable"),
                      Need(input, "invalid_input"),
                      Need(kind \in installation.replay.options, "unavailable")>>),
            process, ExportValid(kind, output))

\* Success needs the three lines of a replay that initialised and completed.
NsightReplay(installation, producer, input, process, output) ==
  Operation(FirstOf(<<Need(UsableInstallation(installation), "unavailable"),
                      Need(installation.replay.version = V3, "unavailable"),
                      Need(producer = installation.replay.version, "unavailable"),
                      Need("loop" \in installation.replay.options, "unavailable"),
                      Need(input, "invalid_input")>>),
            process, output.shape = "good")

-----------------------------------------------------------------------------
(* Operations of ngfx, whose output is validated file by file while the    *)
(* stop request and the deadline are looked at.                            *)

QualifiedCli(installation) ==
  LET cli == installation.cli
  IN cli.help /\ MatchingTools(cli, installation.capture) /\ cli.version \in {V2, V3}

\* interrupted is "no", "cancelled" or "timed_out".
Validated(result, interrupted) ==
  IF result.launched /\ result.outcome \in {"success", "invalid_output"} /\ interrupted # "no"
  THEN [result EXCEPT !.outcome = interrupted] ELSE result

\* The literal file lists of the generated CMakeLists.txt.
GeneratedCmakeInputs(cmake, required) ==
  /\ cmake.blocks = 1 /\ ~cmake.truncated
  /\ cmake.listed # {} /\ ~cmake.repeated
  /\ required \subseteq cmake.listed

\* A generated project: one metadata.json of the producer, and every file its
\* CMakeLists.txt declares.
ProjectValid(project, required, producer) ==
  /\ project.metadata = 1 /\ project.producer = producer /\ ~project.links
  /\ GeneratedCmakeInputs(project.cmake, required)
  /\ project.cmake.listed \subseteq project.files

NsightCppCapture(installation, request, process, valid, interrupted) ==
  Validated(Operation(FirstOf(<<Need(UsableInstallation(installation), "unavailable"),
                                Need(QualifiedCli(installation), "unavailable"),
                                Need("cpp" \in installation.cli.options, "unavailable"),
                                Need(~request.quoted, "invalid_input")>>),
                      process, valid),
            interrupted)

ValidProfileSettings(settings) ==
  /\ settings.delimiter \in {"frames", "submits"}
  /\ settings.limit \in 1..1000
  /\ settings.hes => settings.architecture = "GB20x"

\* What a GPU Trace must say of itself: who made it, the settings it was asked
\* for and, for a replay, the file that was replayed.
TraceValid(trace, installation, settings, input) ==
  /\ trace.files = "one of each" /\ trace.producer = installation.cli.version
  /\ trace.settings = settings /\ trace.input = input
  /\ trace.tables = "finite"
       \/ (trace.tables = "regime NaN" /\ installation.cli.version = V3)

NsightProfile(installation, settings, request, controls, process, valid, interrupted) ==
  Validated(Operation(FirstOf(<<Need(UsableInstallation(installation), "unavailable"),
                                Need(QualifiedCli(installation), "unavailable"),
                                Need("profile" \in installation.cli.options, "unavailable"),
                                Need(ValidProfileSettings(settings), "invalid_input"),
                                Need(controls \subseteq installation.cli.options, "unavailable"),
                                Need(~request.quoted, "invalid_input")>>),
                      process, valid),
            interrupted)

\* The replayer itself is the target, which only one version is qualified for.
ReplayTarget(installation) ==
  installation.interface_ready /\ installation.replay.version = V3

\* The replayer and the saved file are the target and its argument; the first
\* interval is started by the SDK trigger.
ReplaySettings == [delimiter |-> "frames", limit |-> 1, hes |-> FALSE, architecture |-> "GB20x"]
Replaying == [frame_count |-> 1, quoted |-> FALSE, delimiter |-> "present"]

NsightReplayProfile(installation, producer, first, process, valid, interrupted) ==
  IF producer = installation.replay.version /\ ReplayTarget(installation)
  THEN NsightProfile(installation, ReplaySettings, Replaying,
                     {"time_every_action", "hes"} \cup (IF first THEN {"sdk_trigger"} ELSE {}),
                     process, valid, interrupted)
  ELSE Refused("invalid_input")
=============================================================================
