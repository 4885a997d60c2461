------------------------------ MODULE ValueMemory ------------------------------
(***************************************************************************)
(* The captured memory graph of a generated replay                         *)
(* (inspect_value_memory_bindings() of src/src/inspection/ValueMemory.cpp):*)
(* which buffer lies where in which allocation, of which memory type.      *)
(* Operators only.  A graph is read from the resource calls in order; any  *)
(* call that is not qualified leaves no graph at all, and a buffer whose   *)
(* bytes may be reached another way is kept as not sound.                  *)
(***************************************************************************)
EXTENDS Integers, Sequences, FiniteSets

CONSTANTS
  MaxTypes,    \* memory types of a physical device (32 in the code)
  MaxHeaps,    \* its heaps (16)
  MaxBound,    \* buffers bound by one allocation (64)
  MaxExtensions\* structures chained to an allocation (2)

ASSUME MemoryBounds == {MaxTypes, MaxHeaps, MaxBound, MaxExtensions} \subseteq Nat \ {0}

Calls(calls, op) == {i \in DOMAIN calls : calls[i].op = op}

MemoryFlags == {"device_local", "host_visible", "host_coherent", "host_cached", "lazily_allocated",
                "protected", "device_coherent", "device_uncached", "rdma_capable"}
BufferUsages == {"transfer_src", "transfer_dst", "uniform_texel", "storage_texel", "uniform",
                 "storage", "index", "vertex", "indirect", "device_address"}

PhysicalTypesOk(c) ==
  /\ Len(c.types) \in 1 .. MaxTypes
  /\ c.heaps \in 1 .. MaxHeaps
  /\ \A i \in DOMAIN c.types : c.types[i].flags \subseteq MemoryFlags /\ c.types[i].heap < c.heaps

\* The structures chained to an allocation, and what they ask for.
ExtensionsOk(chain) ==
  LET flags  == UNION {chain[i].flags : i \in DOMAIN chain}
      opaque == \E i \in DOMAIN chain : chain[i].opaque
  IN  /\ Len(chain) <= MaxExtensions
      /\ \A i, j \in DOMAIN chain : chain[i].type = chain[j].type => i = j
      /\ \A i \in DOMAIN chain : chain[i].type \in {"flags", "opaque"}
      /\ flags \subseteq {"device_address", "capture_replay"}
      /\ "capture_replay" \in flags => "device_address" \in flags
      /\ opaque => "capture_replay" \in flags

BufferOk(c) ==
  /\ c.usage \subseteq BufferUsages
  /\ c.bytes > 0 /\ c.requirement >= c.bytes
  /\ \E k \in 0 .. c.alignment : c.alignment = 2 ^ k

AllocationCallOk(c) ==
  /\ ExtensionsOk(c.extensions)
  /\ c.bytes > 0
  /\ Len(c.bindings) <= MaxBound

\* No identity is created twice.
Unambiguous(calls) ==
  \A i, j \in DOMAIN calls :
    calls[i].op = calls[j].op /\ calls[i].op # "RegisterObject" /\ calls[i].name = calls[j].name => i = j

ResourceCallOk(c) ==
  CASE c.op = "GetCompatiblePhysicalDevice" -> PhysicalTypesOk(c)
    [] c.op = "CreateDevice"                -> TRUE
    [] c.op = "CreateBuffer"                -> BufferOk(c)
    [] c.op = "AllocateMemory"              -> AllocationCallOk(c)
    [] OTHER                                -> c.op = "RegisterObject"

Named(calls, op, name) == calls[CHOOSE i \in Calls(calls, op) : calls[i].name = name]
Names(calls, op)       == {calls[i].name : i \in Calls(calls, op)}

\* Every binding of every allocation, as <<call, position>>.
Bindings(calls) ==
  UNION {{<<i, n>> : n \in DOMAIN calls[i].bindings} : i \in Calls(calls, "AllocateMemory")}

TypesOf(calls, allocation) ==
  Named(calls, "GetCompatiblePhysicalDevice", Named(calls, "CreateDevice", allocation.device).physical).types

AllocationResolved(calls, allocation) ==
  /\ allocation.device \in Names(calls, "CreateDevice")
  /\ Named(calls, "CreateDevice", allocation.device).physical \in Names(calls, "GetCompatiblePhysicalDevice")
  /\ allocation.type < Len(TypesOf(calls, allocation))

BindingOk(calls, p) ==
  LET allocation == calls[p[1]]
      binding    == allocation.bindings[p[2]]
  IN  /\ binding.memory = allocation.name
      /\ binding.buffer \in Names(calls, "CreateBuffer")
      /\ \A q \in Bindings(calls) : calls[q[1]].bindings[q[2]].buffer = binding.buffer => q = p
      /\ LET source == Named(calls, "CreateBuffer", binding.buffer) IN
         /\ source.device = allocation.device
         /\ binding.offset <= allocation.bytes
         /\ source.requirement <= allocation.bytes - binding.offset
         /\ binding.offset % source.alignment = 0
         /\ allocation.type \in source.types

GraphQualified(calls) ==
  /\ Unambiguous(calls)
  /\ \A i \in DOMAIN calls : ResourceCallOk(calls[i])
  /\ \A i \in Calls(calls, "AllocateMemory") : AllocationResolved(calls, calls[i])
  /\ \A p \in Bindings(calls) : BindingOk(calls, p)

\* Two buffers of one allocation that share a byte.
Aliased(calls, p) ==
  LET first(q) == calls[q[1]].bindings[q[2]].offset
      last(q)  == first(q) + Named(calls, "CreateBuffer", calls[q[1]].bindings[q[2]].buffer).bytes
  IN  \E q \in Bindings(calls) : q # p /\ q[1] = p[1] /\ first(p) < last(q) /\ first(q) < last(p)

Binding(calls, p) ==
  LET allocation == calls[p[1]]
      binding    == allocation.bindings[p[2]]
      source     == Named(calls, "CreateBuffer", binding.buffer)
  IN  [sound |-> source.plain /\ allocation.plain /\ ~allocation.mixed /\ ~Aliased(calls, p),
       device |-> source.device, bytes |-> source.bytes, usage |-> source.usage,
       memory |-> allocation.name, offset |-> binding.offset, allocation |-> allocation.bytes,
       flags |-> TypesOf(calls, allocation)[allocation.type + 1].flags]

\* A buffer that was never bound.
NoBinding == [sound |-> FALSE, device |-> "none", bytes |-> 0, usage |-> {}, memory |-> "none",
              offset |-> 0, allocation |-> 0, flags |-> {}]

MemoryGraph(calls) ==
  LET place(b) == {p \in Bindings(calls) : calls[p[1]].bindings[p[2]].buffer = b}
  IN  IF ~GraphQualified(calls) THEN [qualified |-> FALSE, buffers |-> <<>>]
      ELSE [qualified |-> TRUE,
            buffers   |-> [b \in Names(calls, "CreateBuffer") |->
                             IF place(b) = {} THEN NoBinding
                             ELSE Binding(calls, CHOOSE p \in place(b) : TRUE)]]
=============================================================================
