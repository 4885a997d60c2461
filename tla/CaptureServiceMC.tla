--------------------------- MODULE CaptureServiceMC ---------------------------
(* Small values for CaptureService.                                        *)
EXTENDS CaptureService

AllKinds  == [a \in Tries |-> Captures \cup {"replay", "timing"}]
PairKinds == <<{"graphics"}, {"replay"}>>

AllRequests == {Replaying, [Replaying EXCEPT !.quoted = TRUE],
                [Replaying EXCEPT !.frame_count = 3, !.delimiter = "vk_frame_boundary"]}
OneRequest  == {Replaying}

CaptureOptions == {"capture", "present", "vk_frame_boundary"}
ReplayOptions  == {"metadata", "functions", "objects", "screenshot", "loop"}
CliOptions     == {"cpp", "profile", "time_every_action", "hes", "sdk_trigger"}

Tool(version, options) ==
  [directory |-> "nsight", version |-> version, help |-> TRUE, options |-> options]
Suite(version) == [cli     |-> Tool(version, CliOptions), capture |-> Tool(version, CaptureOptions),
                   replay  |-> Tool(version, ReplayOptions)]

MCInstallations == {Suite(V3), Suite(V2)}
OneInstallation == {Suite(V3)}

Manifest == <<"icd", "driver.json">>
MCLibraries == [m \in {Manifest} |-> <<"bare", "driver.so">>]
MCOverlays == {[k \in {"VK_DRIVER_FILES"} |-> <<Manifest>>]}
MCDefaults == [k \in {"VK_LOADER_DEBUG"} |-> "layer"]
MCSystem == <<"bare">>

Cmake(listed) == [blocks |-> 1, truncated |-> FALSE, repeated |-> FALSE, listed |-> listed]
Project(producer) ==
  [shape |-> "good", metadata |-> 1, producer |-> producer, links |-> FALSE,
   cmake |-> Cmake({"Resources"}), files |-> {"Resources"}]
MCProjects ==
  {Project(V3), Project(V2), [Project(V3) EXCEPT !.links = TRUE],
   [Project(V3) EXCEPT !.files = {}], [Project(V3) EXCEPT !.cmake.listed = {}]}

PairProjects == {Project(V3), [Project(V3) EXCEPT !.links = TRUE]}

Trace(producer) ==
  [shape |-> "good", files |-> "one of each", producer |-> producer, settings |-> ReplaySettings,
   input |-> "input", tables |-> "finite", links |-> FALSE]
MCTraces ==
  {Trace(V3), Trace(V2), [Trace(V3) EXCEPT !.tables = "regime NaN"],
   [Trace(V3) EXCEPT !.settings.limit = 2, !.links = TRUE]}
PairTraces == {Trace(V3), [Trace(V3) EXCEPT !.settings.limit = 2, !.links = TRUE]}
=============================================================================
