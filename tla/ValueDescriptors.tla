--------------------------- MODULE ValueDescriptors ---------------------------
(***************************************************************************)
(* The descriptor ledger of src/src/inspection/ValueDescriptors.cpp: what  *)
(* each element of each allocated set was last given, and which recordings *)
(* rest on which sets.  Operators on one ledger d; a refused operation     *)
(* leaves d.ok FALSE and nothing is read from such a ledger.               *)
(***************************************************************************)
EXTENDS DescriptorState

CONSTANTS
  MaxUpdates,        \* updates of a replay (1024 in the code)
  MaxUpdateElements, \* elements of one write or copy, and writes of one update (128)
  MaxCopies,         \* copies of one update (64)
  MaxHistory,        \* copies behind one element (64)
  MaxRecordings,     \* recordings (4096)
  MaxRecordedSets,   \* sets bound by one recording (64)
  MaxUses            \* submissions of one recording in flight (10000)

ASSUME DescriptorLedgerBounds ==
  {MaxUpdates, MaxUpdateElements, MaxCopies, MaxHistory, MaxRecordings, MaxRecordedSets,
   MaxUses} \subseteq Nat \ {0}

\* The types whose writes are read: the others refuse the replay.
WritableTypes == {"combined", "uniform", "storage", "uniform_dynamic", "storage_dynamic"}

Undefined == [buffer |-> "none", offset |-> 0, range |-> 0]
Nothing   == [value |-> Undefined, history |-> <<>>]

\* allocations: the sets, already found to fit their pools.
DescriptorLedger(pools, allocations) ==
  [ok         |-> AllocationsFit(pools, allocations),
   sets       |-> [s \in {allocations[i].name : i \in DOMAIN allocations} |->
                     [allocation |-> allocations[CHOOSE i \in DOMAIN allocations : allocations[i].name = s],
                      entries |-> <<>>, alive |-> TRUE]],
   recordings |-> <<>>,
   updates    |-> 0]

Checked(d, required, next) == IF d.ok /\ required THEN next ELSE [d EXCEPT !.ok = FALSE]

LiveSet(d, s) == s \in DOMAIN d.sets /\ d.sets[s].alive

SetBindings(d, s) ==
  LET bound == d.sets[s].allocation
      bindings == BoundSignature(bound)
  IN  {bindings[i] : i \in DOMAIN bindings}

\* The elements first, first + 1, ... of a binding exist.
InBinding(d, s, index, first, count) ==
  /\ LiveSet(d, s)
  /\ count \in 1 .. MaxUpdateElements
  /\ \E b \in SetBindings(d, s) : b.binding = index /\ first + count <= b.count

BindingOf(d, s, index) == CHOOSE b \in SetBindings(d, s) : b.binding = index

Users(d, changed) == {r \in DOMAIN d.recordings : d.recordings[r].sets \cap changed # {}}

\* Sets may change only where no submission that bound one is in flight; every
\* recording that bound one is stale from then on.
Changed(d, changed) ==
  Checked(d, \A r \in Users(d, changed) : d.recordings[r].pending = 0,
    [d EXCEPT !.recordings =
       [r \in DOMAIN @ |-> IF r \in Users(d, changed) THEN [@[r] EXCEPT !.valid = FALSE] ELSE @[r]]])

\* The elements of a binding from first on take new contents.
Fill(d, s, index, first, contents) ==
  LET slots == {<<index, first + n - 1>> : n \in DOMAIN contents}
  IN  [d EXCEPT !.sets[s].entries =
         [k \in DOMAIN @ \cup slots |-> IF k \in slots THEN contents[k[2] - first + 1] ELSE @[k]]]

WriteSet(d, c, w, step) ==
  Checked(d,
    /\ InBinding(d, w.set, w.binding, w.first, Len(w.values))
    /\ w.type \in WritableTypes /\ BindingOf(d, w.set, w.binding).type = w.type
    /\ d.sets[w.set].allocation.device = c.device,
    Checked(Changed(d, {w.set}), TRUE,
      Fill(Changed(d, {w.set}), w.set, w.binding, w.first,
           [n \in DOMAIN w.values |-> [value |-> w.values[n], history |-> <<step>>]])))

\* What a copy finds in an element, one step longer in its history.
Copied(d, k, n, step) ==
  LET slot  == <<k.from.binding, k.from.first + n - 1>>
      entry == IF slot \in DOMAIN d.sets[k.from.set].entries THEN d.sets[k.from.set].entries[slot] ELSE Nothing
  IN  [entry EXCEPT !.history = Append(@, step)]

\* A mutant: a copy does not count as a change of its destination.
CopySetMutant(d, c, k, step) ==
  Checked(d,
    /\ InBinding(d, k.from.set, k.from.binding, k.from.first, k.count)
    /\ InBinding(d, k.to.set, k.to.binding, k.to.first, k.count)
    /\ BindingOf(d, k.from.set, k.from.binding).type = BindingOf(d, k.to.set, k.to.binding).type,
    Fill(d, k.to.set, k.to.binding, k.to.first, [n \in 1 .. k.count |-> Copied(d, k, n, step)]))

CopySet(d, c, k, step) ==
  LET next == Changed(d, {k.to.set})
  IN  Checked(d,
        /\ InBinding(d, k.from.set, k.from.binding, k.from.first, k.count)
        /\ InBinding(d, k.to.set, k.to.binding, k.to.first, k.count)
        /\ BindingOf(d, k.from.set, k.from.binding).type = BindingOf(d, k.to.set, k.to.binding).type
        /\ d.sets[k.from.set].allocation.device = c.device
        /\ d.sets[k.to.set].allocation.device = c.device
        /\ \/ k.from.set # k.to.set \/ k.from.binding # k.to.binding
           \/ k.from.first + k.count <= k.to.first \/ k.to.first + k.count <= k.from.first
        /\ \A n \in 1 .. k.count : Len(Copied(d, k, n, step).history) <= MaxHistory,
        Checked(next, TRUE,
          Fill(next, k.to.set, k.to.binding, k.to.first, [n \in 1 .. k.count |-> Copied(d, k, n, step)])))

\* The serialized writes of an update, then its literal copies.
UpdateSets(d, c, step) ==
  LET counted == Checked(d, d.updates < MaxUpdates /\ Len(c.writes) <= MaxUpdateElements
                            /\ Len(c.copies) <= MaxCopies,
                         [d EXCEPT !.updates = @ + 1])
      written[n \in 0 .. Len(c.writes)] ==
        IF n = 0 THEN counted ELSE WriteSet(written[n - 1], c, c.writes[n], step)
      copied[n \in 0 .. Len(c.copies)] ==
        IF n = 0 THEN written[Len(c.writes)] ELSE CopySet(copied[n - 1], c, c.copies[n], step)
  IN  copied[Len(c.copies)]

-----------------------------------------------------------------------------
(* The recordings that rest on the sets.                                    *)

Recorded(d, r, sets) ==
  Checked(d,
    /\ Cardinality(DOMAIN d.recordings) < MaxRecordings /\ Cardinality(sets) <= MaxRecordedSets
    /\ r \in DOMAIN d.recordings => d.recordings[r].pending = 0
    /\ \A s \in sets : LiveSet(d, s),
    [d EXCEPT !.recordings = [x \in DOMAIN @ \cup {r} |->
       IF x = r THEN [sets |-> sets, pending |-> 0, valid |-> TRUE] ELSE @[x]]])

Forget(d, r) ==
  Checked(d, r \in DOMAIN d.recordings => d.recordings[r].pending = 0,
    [d EXCEPT !.recordings = [x \in DOMAIN @ \ {r} |-> @[x]]])

RecordingValid(d, r) == r \in DOMAIN d.recordings /\ d.recordings[r].valid

Submitted(d, r) ==
  Checked(d, RecordingValid(d, r) /\ d.recordings[r].pending < MaxUses,
    [d EXCEPT !.recordings[r].pending = @ + 1])

\* The submissions over are no longer in flight.
Completed(d, over) ==
  LET uses(r) == {p \in over : p.recording = r} IN
  Checked(d, \A p \in over : /\ p.recording \in DOMAIN d.recordings
                             /\ Cardinality(uses(p.recording)) <= d.recordings[p.recording].pending,
    [d EXCEPT !.recordings =
       [r \in DOMAIN @ |-> [d.recordings[r] EXCEPT !.pending = @ - Cardinality(uses(r))]]])

-----------------------------------------------------------------------------
(* host(): the end of sets, by name or with their pool.                     *)

EndSets(d, ended) ==
  LET next == Changed(d, ended) IN
  Checked(next, TRUE,
    [next EXCEPT !.sets = [s \in DOMAIN @ |-> IF s \in ended THEN [@[s] EXCEPT !.alive = FALSE, !.entries = <<>>]
                                                              ELSE @[s]]])

FreeDescriptorSets(d, c) ==
  Checked(d,
    /\ c.sets # <<>> /\ IsInjective(c.sets)
    /\ \A n \in DOMAIN c.sets : /\ LiveSet(d, c.sets[n])
                                /\ d.sets[c.sets[n]].allocation.device = c.device
                                /\ d.sets[c.sets[n]].allocation.pool = c.pool
                                /\ d.sets[c.sets[n]].allocation.frees,
    EndSets(d, {c.sets[n] : n \in DOMAIN c.sets}))

\* A reset and a destruction of a pool are one to the ledger: its sets are gone.
EndDescriptorPool(d, c) ==
  LET of == {s \in DOMAIN d.sets : d.sets[s].allocation.pool = c.pool} IN
  Checked(d, of # {} /\ \A s \in of : d.sets[s].allocation.device = c.device, EndSets(d, of))

\* element(): the first element of a binding, where it was written and still is.
Element(d, s, index, n) ==
  IF InBinding(d, s, index, n, 1) /\ <<index, n>> \in DOMAIN d.sets[s].entries
  THEN d.sets[s].entries[<<index, n>>] ELSE Nothing
=============================================================================
