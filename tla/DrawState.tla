------------------------------ MODULE DrawState ------------------------------
(***************************************************************************)
(* The fixed-function state a recorded draw reports (src/src/inspection/   *)
(* DrawState.cpp): which values are literal enough to be reported, what a  *)
(* pipeline fixes and what it leaves to setters, and how the two combine   *)
(* at a draw.  Operators only; DrawExecutions holds the state.             *)
(*                                                                         *)
(* A value is a sequence: one literal for a setting, one entry per element *)
(* for the two arrays.  A literal the code's readers refuse is "unknown".  *)
(***************************************************************************)
EXTENDS DescriptorState

CONSTANTS
  Pipelines,   \* pipeline name -> its creation
  RenderPasses,\* render pass name -> its creation
  Layouts,     \* pipeline layout name -> its push ranges and set layouts
  Allocations, \* descriptor set name -> the allocation that outputs it
  MaxArray,    \* viewports and scissors (16 in the code)
  MaxInt       \* largest scissor coordinate (2147483647)

Listed(s) == Len(s) \in Nat /\ DOMAIN s = 1 .. Len(s)

\* Numbers are parsed as unsigned before anything is made of them.
ASSUME DrawStateAssumption ==
  /\ {MaxArray, MaxInt} \subseteq Nat \ {0}
  /\ \A name \in DOMAIN Layouts :
       /\ Listed(Layouts[name].push) /\ Listed(Layouts[name].sets)
       /\ \A i \in DOMAIN Layouts[name].push :
            {Layouts[name].push[i].offset, Layouts[name].push[i].size} \subseteq Nat

DepthSettings == {"depth_test", "depth_write", "depth_compare"}
ArraySettings == {"viewports", "scissors"}
Settings      == DepthSettings \cup ArraySettings \cup {"cull_mode", "front_face"}

Missing(status)        == [status |-> status, value |-> <<>>, evidence |-> {}]
Available(value, from) == [status |-> "qualified_recorded_state", value |-> value, evidence |-> from]

-----------------------------------------------------------------------------
(* Literals                                                                 *)

LiteralOk(literal) == literal # "unknown"

\* Depth bounds in [0, 1], a width, and a height of either sign.
ViewportOk(v) ==
  v.width > 0 /\ v.height # 0 /\ {v.near, v.far} \subseteq 0 .. 1

\* The far edge is checked too, in 64 bits.
ScissorOk(s) ==
  /\ {s.x, s.y, s.width, s.height} \subseteq 0 .. MaxInt
  /\ s.x + s.width <= MaxInt /\ s.y + s.height <= MaxInt

ElementOk(key, element) == IF key = "viewports" THEN ViewportOk(element) ELSE ScissorOk(element)
ElementsOk(key, elements) == \A n \in DOMAIN elements : ElementOk(key, elements[n])

-----------------------------------------------------------------------------
(* What is drawn into: a render pass by name, or formats given at the begin. *)

DepthFormats      == {"d16", "x8_d24", "d32", "d16_s8", "d24_s8", "d32_s8"}
AttachmentFormats == {"undefined", "d16", "d32", "b8g8r8a8", "b8g8r8a8_srgb", "r8g8b8a8",
                      "r8g8b8a8_srgb", "r16g16b16a16f", "r32f", "r16f"}
MaxColors == 8

Formats(colors, depth, stencil) == [colors |-> colors, depth |-> depth, stencil |-> stencil]
NoFormats  == Formats(<<>>, "none", "none") \* no dynamic rendering
BadFormats == Formats(<<>>, "unqualified", "unqualified")

Qualified(f, view_mask) ==
  IF /\ view_mask = 0 /\ Len(f.colors) <= MaxColors
     /\ {f.depth, f.stencil} \cup {f.colors[i] : i \in DOMAIN f.colors} \subseteq AttachmentFormats
  THEN f ELSE BadFormats

PipelineFormats(p) ==
  IF p.pass = "dynamic" THEN Qualified(p.formats, p.view_mask) ELSE NoFormats

\* A plain two-dimensional view, resolved into nothing.
ViewFormat(view) ==
  CASE view.kind = "null"                      -> "undefined"
    [] view.kind = "2D" /\ ~view.resolves      -> view.format
    [] OTHER                                   -> "unqualified"

ActiveFormats(info) ==
  IF info.layers = 1 /\ ScissorOk(info.area)
  THEN Qualified(Formats([i \in DOMAIN info.colors |-> ViewFormat(info.colors[i])],
                         ViewFormat(info.depth), ViewFormat(info.stencil)), info.view_mask)
  ELSE BadFormats

\* One subpass whose depth reference, if used, names a depth attachment.
HasDepth(pass) ==
  IF pass.subpasses = 1 /\ pass.depth = 0 THEN "none"
  ELSE IF /\ pass.subpasses = 1
          /\ pass.depth \in DOMAIN pass.attachments /\ Len(pass.attachments) <= 2 * MaxColors
          /\ pass.attachments[pass.depth] \in DepthFormats
  THEN "attached" ELSE "unqualified"

DepthAttachment(p) ==
  IF p.pass = "dynamic"
  THEN IF p.formats.depth = "undefined" THEN "none" ELSE "attached"
  ELSE IF p.pass \in DOMAIN RenderPasses THEN HasDepth(RenderPasses[p.pass]) ELSE "unqualified"

-----------------------------------------------------------------------------
(* A pipeline creation: what it fixes (static), the settings it leaves to   *)
(* setters (dynamic) and those whose count is set with them (counted).      *)

PipelineOk(p) ==
  /\ p.created
  /\ PipelineFormats(p) # BadFormats
  /\ ~p.discard
  /\ p.dynamic \cap p.counted = {}
  /\ LiteralOk(p.static["cull_mode"][1]) /\ LiteralOk(p.static["front_face"][1])

DepthValue(p, key) ==
  IF DepthAttachment(p) = "none" THEN Missing("not_applicable")
  ELSE IF DepthAttachment(p) = "unqualified" \/ \E k \in DepthSettings : ~LiteralOk(p.static[k][1])
  THEN Missing("unsupported") ELSE Available(p.static[key], {})

\* Both arrays are refused when either is.
ArrayFixed(p, key) ==
  /\ p.count[key] <= MaxArray
  /\ IF key \in p.counted THEN p.count[key] = 0
     ELSE /\ p.count[key] > 0
          /\ key \in p.dynamic \/ (Len(p.static[key]) = p.count[key] /\ ElementsOk(key, p.static[key]))

ArrayValue(p, key) ==
  IF \A k \in ArraySettings : ArrayFixed(p, k) THEN Available(p.static[key], {})
  ELSE Missing("unsupported")

PipelineValue(p, key) ==
  IF key \in DepthSettings THEN DepthValue(p, key)
  ELSE IF key \in ArraySettings THEN ArrayValue(p, key) ELSE Available(p.static[key], {})

LeftToSetters(p, key) == key \in p.dynamic \cup p.counted

-----------------------------------------------------------------------------
(* Setters.  settings[key] is the last literal set and the call that set    *)
(* it; arrays[key] the elements set since the array was last started.       *)

NotSet  == [set |-> FALSE, value |-> <<>>, at |-> 0]
NoArray == [set |-> FALSE, counted |-> FALSE, count |-> 0, elements |-> <<>>]

ArrayIndices == 0 .. MaxArray - 1
NoElement    == [set |-> FALSE, value |-> <<>>, at |-> 0]

\* A mutant: an array set by the other form is carried on.
SetArrayMutant(arrays, c, at) ==
  [arrays EXCEPT ![c.key] =
     [set |-> TRUE, counted |-> c.counted, count |-> IF c.counted THEN Len(c.elements) ELSE 0,
      elements |-> [n \in ArrayIndices |->
        IF n \in c.first .. c.first + Len(c.elements) - 1
        THEN [set |-> TRUE, value |-> <<c.elements[n - c.first + 1]>>, at |-> at]
        ELSE IF arrays[c.key].set THEN arrays[c.key].elements[n] ELSE NoElement]]]

\* A call of the other form, or one that brings its count, starts afresh.
SetArray(arrays, c, at) ==
  LET old   == arrays[c.key]
      fresh == c.counted \/ ~old.set \/ old.counted # c.counted
      was   == IF fresh THEN [n \in ArrayIndices |-> NoElement] ELSE old.elements
  IN  [arrays EXCEPT ![c.key] =
         [set |-> TRUE, counted |-> c.counted,
          count |-> IF c.counted THEN Len(c.elements) ELSE 0,
          elements |-> [n \in ArrayIndices |->
            IF n \in c.first .. c.first + Len(c.elements) - 1
            THEN [set |-> TRUE, value |-> <<c.elements[n - c.first + 1]>>, at |-> at]
            ELSE was[n]]]]

ArrayRangeOk(c) ==
  /\ Len(c.elements) \in 1 .. MaxArray
  /\ c.first + Len(c.elements) <= MaxArray
  /\ ElementsOk(c.key, c.elements)

\* Binding a pipeline forgets what it fixes, and a counted array when it takes
\* its count from the pipeline.
KeptSettings(p, settings) ==
  [key \in Settings |-> IF LeftToSetters(p, key) THEN settings[key] ELSE NotSet]
KeptArrays(p, arrays) ==
  [key \in ArraySettings |->
     IF ~LeftToSetters(p, key) \/ (key \in p.dynamic /\ arrays[key].set /\ arrays[key].counted)
     THEN NoArray ELSE arrays[key]]

-----------------------------------------------------------------------------
(* At a draw                                                                *)

DynamicArray(p, array, key) ==
  LET counted == key \in p.counted
      count   == IF counted THEN array.count ELSE p.count[key]
      whole   == /\ array.set /\ array.counted = counted /\ count \in 1 .. MaxArray
                 /\ \A n \in 0 .. count - 1 : array.elements[n].set
  IN  IF whole
      THEN Available([i \in 1 .. count |-> array.elements[i - 1].value[1]],
                     {array.elements[n].at : n \in 0 .. count - 1})
      ELSE Missing("unavailable")

SettingAtDraw(p, settings, arrays, key) ==
  LET fixed == PipelineValue(p, key)
      touched == settings[key].set \/ (key \in ArraySettings /\ arrays[key].set)
  IN  IF fixed.status # "qualified_recorded_state" THEN fixed
      ELSE IF ~LeftToSetters(p, key) THEN IF touched THEN Missing("unsupported") ELSE fixed
      ELSE IF key \in ArraySettings THEN DynamicArray(p, arrays[key], key)
      ELSE IF settings[key].set THEN Available(settings[key].value, {settings[key].at})
      ELSE Missing("unavailable")
=============================================================================
