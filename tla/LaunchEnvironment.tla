-------------------------- MODULE LaunchEnvironment --------------------------
(***************************************************************************)
(* The per-job environment overlay (src/src/capture/LaunchEnvironment.cpp):*)
(* which overlays are accepted, and the identity of what they select.  The *)
(* identity is computed when a job is submitted and again when its worker  *)
(* starts; CaptureService compares the two.                                *)
(*                                                                         *)
(* overrides and defaults map variable names to values; the value of a     *)
(* path variable is a sequence of paths.  files maps every path that exists*)
(* to a version of its contents, and library maps an ICD manifest to the   *)
(* library it names: a path (directory and name) or <<"bare", name>> to be *)
(* searched for.                                                           *)
(***************************************************************************)
EXTENDS Naturals, Sequences, FiniteSets

CONSTANTS MaxKeys,      \* 8 in the code
          MaxPaths,     \* 16 list entries
          SystemDirectories

Selectors == {"VK_DRIVER_FILES", "VK_ICD_FILENAMES"}
PathKeys  == Selectors \cup {"LD_LIBRARY_PATH"}

\* The values each key of the policy admits.
Admitted(key, value) ==
  \/ key \in PathKeys /\ Len(value) \in 1..MaxPaths
  \/ key = "SDL_VIDEODRIVER" /\ value \in {"wayland", "x11"}
  \/ key = "QT_QPA_PLATFORM" /\ value \in {"wayland", "xcb"}
  \/ key = "DISABLE_VK_LAYER_LUNARG_override" /\ value \in {"0", "1"}
  \/ key = "VK_LOADER_DEBUG" /\ value = "layer"
  \/ key = "VK_LOADER_LAYERS_DISABLE" /\ Cardinality(value) \in 1..2
       /\ value \subseteq {"VK_LAYER_LUNARG_override", "VK_LAYER_KHRONOS_validation"}

\* The overlay wins over the service's own environment.
Effective(overrides, defaults) ==
  [key \in DOMAIN overrides \cup DOMAIN defaults |->
     IF key \in DOMAIN overrides THEN overrides[key] ELSE defaults[key]]

\* Two driver selectors, of the job or of the job and the service, conflict.
Conflict(overrides, defaults) ==
  /\ DOMAIN overrides \cap Selectors # {}
  /\ Selectors \subseteq DOMAIN Effective(overrides, defaults)

\* The directories a bare library name is searched in.
SearchPath(effective) ==
  (IF "LD_LIBRARY_PATH" \in DOMAIN effective THEN effective["LD_LIBRARY_PATH"] ELSE <<>>)
    \o SystemDirectories

\* The first directory that has the library; no path at all when none has.
Candidate(name, effective, files) ==
  LET path == SearchPath(effective)
      hits == {k \in DOMAIN path : <<path[k], name>> \in DOMAIN files}
  IN IF hits = {} THEN <<"none">>
     ELSE <<path[CHOOSE k \in hits : \A j \in hits : k <= j], name>>

Resolved(manifest, effective, files, library) ==
  IF Head(library[manifest]) = "bare"
  THEN Candidate(library[manifest][2], effective, files)
  ELSE library[manifest]

\* The manifests an overlay names, under the selector that names them.
Manifests(overrides) ==
  UNION {{<<key, overrides[key][k]>> : k \in DOMAIN overrides[key]} :
           key \in DOMAIN overrides \cap Selectors}

Directories(overrides) ==
  IF "LD_LIBRARY_PATH" \in DOMAIN overrides THEN overrides["LD_LIBRARY_PATH"] ELSE <<>>

Accepted(overrides, defaults, files, library) ==
  /\ Cardinality(DOMAIN overrides) <= MaxKeys
  /\ \A key \in DOMAIN overrides : Admitted(key, overrides[key])
  /\ ~Conflict(overrides, defaults)
  /\ \A k \in DOMAIN Directories(overrides) :
       \E file \in DOMAIN files : Head(file) = Directories(overrides)[k]
  /\ \A m \in Manifests(overrides) :
       /\ m[2] \in DOMAIN files
       /\ Resolved(m[2], Effective(overrides, defaults), files, library) \in DOMAIN files

\* What is retained of an accepted overlay: the directories, and the contents
\* of every manifest and of the library it resolves to.
Selection(overrides, defaults, files, library) ==
  LET chosen(m) == Resolved(m, Effective(overrides, defaults), files, library)
  IN [directories   |-> Directories(overrides),
      icd_manifests |-> {[selector |-> m[1], path |-> m[2], contents |-> files[m[2]],
                          library |-> chosen(m[2]), candidate |-> files[chosen(m[2])]] :
                           m \in Manifests(overrides)}]
=============================================================================
