--------------------------- MODULE DescriptorState ---------------------------
(***************************************************************************)
(* The graphics descriptor-set bank of one recording and the allocations   *)
(* it rests on (src/src/inspection/DescriptorState.cpp).  Operators only.  *)
(* Layouts and sets are resolved by the caller; a signature, which the     *)
(* code hashes, is the value hashed.                                       *)
(***************************************************************************)
EXTENDS PushState

CONSTANTS
  MaxSets,       \* slots of a pipeline layout (8 in the code)
  MaxBindings,   \* bindings of a set layout (64), and elements of one binding
  MaxElements,   \* elements of a set layout (256)
  MaxOffsets,    \* dynamic offsets of one bind (64)
  MaxAllocations,\* sets of one pool and of the replay (4096)
  MaxCount       \* largest capacity (UINT32_MAX)

ASSUME DescriptorBounds ==
  {MaxSets, MaxBindings, MaxElements, MaxOffsets, MaxAllocations, MaxCount} \subseteq Nat \ {0}

Slots        == 0 .. MaxSets - 1
DynamicTypes == {"uniform_dynamic", "storage_dynamic"}
DescriptorTypes ==
  DynamicTypes \cup {"sampler", "combined", "sampled_image", "storage_image", "uniform_texel",
                     "storage_texel", "uniform", "storage", "input_attachment"}

\* Unlike a push mask, a descriptor mask may be zero and may name a stage twice;
\* "all" stands for bits of further stages too.
DescriptorStages(flags) ==
  UNION {IF flags[i] = "all" THEN ShaderStages \cup {"other"} ELSE FlagStages(flags[i]) :
           i \in DOMAIN flags}
DescriptorFlagsOk(flags) ==
  \A i \in DOMAIN flags : flags[i] = "all" \/ FlagStages(flags[i]) # {}

SetLayoutOk(bindings) ==
  /\ Len(bindings) <= MaxBindings
  /\ \A i \in DOMAIN bindings :
       /\ \A j \in 1 .. i - 1 : bindings[j].binding # bindings[i].binding
       /\ bindings[i].count \in 1 .. MaxBindings
       /\ bindings[i].type \in DescriptorTypes
       /\ ~bindings[i].immutable_samplers
       /\ DescriptorFlagsOk(bindings[i].flags)
  /\ MapThenSumSet(LAMBDA i : bindings[i].count, DOMAIN bindings) <= MaxElements

\* The bindings in the order of their numbers.
SetSignature(bindings) ==
  SetToSortSeq({[binding |-> bindings[i].binding, type |-> bindings[i].type,
                 count |-> bindings[i].count, stages |-> DescriptorStages(bindings[i].flags)] :
                  i \in DOMAIN bindings},
               LAMBDA a, b : a.binding < b.binding)

\* A set is one output of an allocation, which names a layout per output.
AllocationOk(allocation, name) ==
  /\ Len(allocation.outputs) \in 1 .. MaxSets
  /\ Len(allocation.layouts) = Len(allocation.outputs)
  /\ IsInjective(allocation.outputs)
  /\ \E i \in DOMAIN allocation.outputs :
       allocation.outputs[i] = name /\ SetLayoutOk(allocation.layouts[i])

AllocatedBindings(allocation, name) ==
  allocation.layouts[CHOOSE i \in DOMAIN allocation.outputs : allocation.outputs[i] = name]

\* set: a name and the allocation that produced it.
BoundSignature(set) == SetSignature(AllocatedBindings(set.allocation, set.name))

\* layout.sets lists the bindings of each set.
PipelineLayoutOk(layout) ==
  /\ PushLayoutOk(layout)
  /\ Len(layout.sets) <= MaxSets
  /\ \A n \in DOMAIN layout.sets : SetLayoutOk(layout.sets[n])

PipelineSignature(layout) ==
  [push |-> PushSignature(layout),
   sets |-> [n \in DOMAIN layout.sets |-> SetSignature(layout.sets[n])]]

-----------------------------------------------------------------------------
(* value_descriptor_allocations(): every allocation fits its pool.          *)

PoolOk(pool) ==
  /\ pool.maximum \in 1 .. MaxAllocations
  /\ Len(pool.sizes) \in 1 .. MaxBindings
  /\ \A i \in DOMAIN pool.sizes : pool.sizes[i].amount \in 1 .. MaxCount
  /\ \A i \in DOMAIN pool.sizes :
       MapThenSumSet(LAMBDA j : pool.sizes[j].amount,
                     {j \in DOMAIN pool.sizes : pool.sizes[j].type = pool.sizes[i].type}) <= MaxCount

Capacity(pool, type) ==
  MapThenSumSet(LAMBDA j : pool.sizes[j].amount, {j \in DOMAIN pool.sizes : pool.sizes[j].type = type})

PoolStart(pool) == [used |-> 0, consumed |-> [t \in DescriptorTypes |-> 0], fits |-> PoolOk(pool)]

\* One binding of a newly allocated set; nothing is given back.
ConsumeBinding(pool, usage, binding) ==
  LET fits == /\ usage.consumed[binding.type] <= Capacity(pool, binding.type)
              /\ binding.count <= Capacity(pool, binding.type) - usage.consumed[binding.type]
  IN  IF usage.fits /\ fits
      THEN [usage EXCEPT !.consumed[binding.type] = @ + binding.count]
      ELSE [usage EXCEPT !.fits = FALSE]

AllocateSet(pool, usage, set) ==
  IF ~usage.fits \/ usage.used >= pool.maximum \/ set.device # pool.device
     \/ ~AllocationOk(set.allocation, set.name)
  THEN [usage EXCEPT !.fits = FALSE]
  ELSE FoldLeft(LAMBDA u, b : ConsumeBinding(pool, u, b), [usage EXCEPT !.used = @ + 1],
                BoundSignature(set))

\* sets: the allocations of the replay in the order of their names.
AllocationsFit(pools, sets) ==
  /\ Len(sets) <= MaxAllocations
  /\ \A i \in DOMAIN sets : sets[i].pool \in DOMAIN pools
  /\ \A p \in DOMAIN pools :
       FoldLeft(LAMBDA u, s : AllocateSet(pools[p], u, s), PoolStart(pools[p]),
                SelectSeq(sets, LAMBDA s : s.pool = p)).fits

-----------------------------------------------------------------------------
(* record(): a bind is validated as a whole, then applied slot by slot.     *)

Unbound == [layout |-> [push |-> {}, sets |-> <<>>], set |-> "none", offsets |-> <<>>]
Disturbed(layout) == [layout |-> layout, set |-> "disturbed", offsets |-> <<>>]

EmptyDescriptors == [slots |-> [n \in Slots |-> Unbound], unsupported |-> FALSE]

Compatible(a, b, slot) ==
  /\ a.push = b.push
  /\ Len(a.sets) > slot /\ Len(b.sets) > slot
  /\ \A k \in 1 .. slot + 1 : a.sets[k] = b.sets[k]

DynamicElements(signature) ==
  MapThenSumSet(LAMBDA i : IF signature[i].type \in DynamicTypes THEN signature[i].count ELSE 0,
                DOMAIN signature)

BindQualified(layout, bound, c) ==
  LET count == Len(bound) IN
  /\ PipelineLayoutOk(layout)
  /\ count > 0 /\ count <= MaxSets /\ c.first < MaxSets /\ count <= MaxSets - c.first
  /\ c.first + count <= Len(layout.sets)
  /\ Len(c.offsets) <= MaxOffsets
  /\ \A n \in 1 .. count :
       /\ AllocationOk(bound[n].allocation, bound[n].name)
       /\ BoundSignature(bound[n]) = SetSignature(layout.sets[c.first + n])
  /\ \A i \in DOMAIN c.offsets : c.offsets[i] <= MaxCount
  /\ Len(c.offsets) = MapThenSumSet(LAMBDA n : DynamicElements(BoundSignature(bound[n])),
                                    1 .. count)

\* The offsets of the n-th bound set: the sets take theirs in order.
OffsetsOf(bound, offsets, n) ==
  LET taken(k) == DynamicElements(BoundSignature(bound[k]))
      before   == MapThenSumSet(taken, 1 .. n - 1)
  IN  SubSeq(offsets, before + 1, before + taken(n))

\* A mutant: replacing a set never disturbs the sets above it.
BindSlotMutant(slots, layout, target, set, offsets) ==
  [i \in Slots |->
     CASE i = target -> [layout |-> layout, set |-> set, offsets |-> offsets]
       [] i < target /\ slots[i] # Unbound /\ ~Compatible(slots[i].layout, layout, i) -> Disturbed(layout)
       [] OTHER -> slots[i]]

\* A disturbed slot keeps the layout that disturbed it.
BindSlot(slots, layout, target, set, offsets) ==
  LET lowered == [i \in Slots |->
        IF i < target /\ slots[i] # Unbound /\ ~Compatible(slots[i].layout, layout, i)
        THEN Disturbed(layout) ELSE slots[i]]
      breaks  == slots[target] # Unbound /\ ~Compatible(slots[target].layout, layout, target)
      raised  == [i \in Slots |->
        IF breaks /\ i > target /\ lowered[i] # Unbound THEN Disturbed(layout) ELSE lowered[i]]
  IN  [raised EXCEPT ![target] = [layout |-> layout, set |-> set, offsets |-> offsets]]

RecordBind(descriptors, layout, bound, c) ==
  IF descriptors.unsupported \/ c.point = "compute" THEN descriptors
  ELSE IF c.point # "graphics" \/ ~BindQualified(layout, bound, c)
  THEN [descriptors EXCEPT !.unsupported = TRUE]
  ELSE LET slots[n \in 0 .. Len(bound)] ==
             IF n = 0 THEN descriptors.slots
             ELSE BindSlot(slots[n - 1], PipelineSignature(layout), c.first + n - 1,
                           bound[n].name, OffsetsOf(bound, c.offsets, n))
       IN  [descriptors EXCEPT !.slots = slots[Len(bound)]]

-----------------------------------------------------------------------------
(* at_draw()                                                                *)

SlotStatus(slot, signature, n) ==
  IF slot = Unbound /\ signature.sets[n + 1] = <<>> THEN "not_applicable"
  ELSE IF slot = Unbound \/ slot.set = "disturbed" \/ ~Compatible(slot.layout, signature, n)
  THEN "unavailable" ELSE "qualified_recorded_state"

DescriptorsAtDraw(descriptors, layout) ==
  LET signature == PipelineSignature(layout)
      sets      == 0 .. Len(layout.sets) - 1
      row(n)    == SlotStatus(descriptors.slots[n], signature, n)
      complete  == \A n \in sets : row(n) # "unavailable"
      status    == IF descriptors.unsupported \/ ~PipelineLayoutOk(layout) THEN "unsupported"
                   ELSE IF sets = {} THEN "not_applicable"
                   ELSE IF complete THEN "qualified_recorded_state" ELSE "unavailable"
  IN  [status |-> status,
       value  |-> IF status # "qualified_recorded_state" THEN {}
                  ELSE {[slot |-> n, set |-> descriptors.slots[n].set,
                         offsets |-> descriptors.slots[n].offsets] :
                           n \in {m \in sets : row(m) = "qualified_recorded_state"}}]
=============================================================================
