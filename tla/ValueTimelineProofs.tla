-------------------------- MODULE ValueTimelineProofs --------------------------
(***************************************************************************)
(* The sets that an accepted plan reads are untouched from the recording   *)
(* of its command buffer to the end of its submission, the bytes it reads  *)
(* while its submission is in flight, and the cheap listing of the draws   *)
(* is the full one: for any replays (any resources, pools, sets, reads,    *)
(* recordings and calls, in any order and number) and any bounds.          *)
(*                                                                         *)
(* The ledger alone cannot tell: it counts the submissions in flight of a  *)
(* recording and remembers whether its sets moved.  So SetsInvariant ties  *)
(* it to the calls h: the counts are the submissions in flight (Counted),  *)
(* a valid recording has seen no call reach its sets since it was made     *)
(* (ActiveHolds), and every execution is over, spared up to the call that  *)
(* proved it, or in flight (RowsHold).  A ledger d that a call takes to e  *)
(* Moves the sets it reaches, which only refuses what is in flight.        *)
(* PlansInvariant says that the listing of the calls so far has found the  *)
(* active recordings and the selections of the executions.                 *)
(* BytesInvariant says of the bytes a plan reads what SetsInvariant says   *)
(* of its sets: they lie in a coherent buffer that the GPU only reads, in  *)
(* use in the upload ledger until its submission is proved over.           *)
(*                                                                         *)
(* The recursive functions of the model are what their steps make them:    *)
(* each has an existence lemma, and Counting is induction up to a number.  *)
(***************************************************************************)
EXTENDS ValueTimeline, TLAPS, WellFoundedInduction, SequenceTheorems, FiniteSetTheorems

-----------------------------------------------------------------------------
(* Counting.                                                               *)

\* The order of the naturals, which is well founded.
Less == {ss \in Nat \X Nat : ss[1] < ss[2]}

\* Numbers have a least one.
LEMMA LeastOf == ASSUME NEW S \in SUBSET Nat, S # {} PROVE \E x \in S : \A y \in S : x <= y
PROOF
<1>1. IsWellFoundedOn(Less, Nat) BY NatLessThanWellFounded DEF Less, OpToRel
<1>2. PICK x \in S : \A y \in S : ~(<<y, x>> \in Less) BY <1>1, WFMin
<1>3. ASSUME NEW y \in S PROVE x <= y
  <2>1. ~(y < x) BY <1>2 DEF Less
  <2> QED BY <2>1
<1> QED BY <1>3

\* A set of numbers that holds 0 and with each number the next one.
LEMMA Counting ==
  ASSUME NEW N \in Nat, NEW S, 0 \in S, \A n \in 1 .. N : n - 1 \in S => n \in S
  PROVE  0 .. N \subseteq S
PROOF
<1> DEFINE Out == {n \in 0 .. N : n \notin S}
<1>1. SUFFICES ASSUME Out # {} PROVE FALSE OBVIOUS
<1>2. Out \in SUBSET Nat OBVIOUS
<1>3. PICK x \in Out : \A y \in Out : x <= y BY <1>1, <1>2, LeastOf
<1>4. x # 0 /\ x \in 1 .. N BY <1>3
<1>5. x - 1 \in 0 .. N /\ ~(x <= x - 1) BY <1>4
<1>6. x - 1 \in S BY <1>3, <1>5
<1> QED BY <1>3, <1>4, <1>6

\* A list has a length, and the positions up to it.
LEMMA ListedIs == ASSUME NEW s, Listed(s) PROVE Len(s) \in Nat /\ DOMAIN s = 1 .. Len(s)
BY DEF Listed

-----------------------------------------------------------------------------
(* The descriptor ledger.                                                  *)

\* What the ledger keeps of an element, of a set and of a recording.
EntryOk(e)     == e = [value |-> e.value, history |-> e.history] /\ e.value.offset \in Nat
SetOk(e)       == /\ e = [allocation |-> e.allocation, entries |-> e.entries, alive |-> e.alive]
                  /\ \A k \in DOMAIN e.entries : EntryOk(e.entries[k])
RecordingOk(e) == e = [sets |-> e.sets, pending |-> e.pending, valid |-> e.valid] /\ e.pending \in Nat

IsLedger(d) ==
  /\ d = [ok |-> d.ok, sets |-> d.sets, recordings |-> d.recordings, updates |-> d.updates]
  /\ d.ok \in BOOLEAN
  /\ \A s \in DOMAIN d.sets : SetOk(d.sets[s])
  /\ \A r \in DOMAIN d.recordings : RecordingOk(d.recordings[r])

\* Changes of the sets T took the ledger d to e: no recording that binds one of
\* them was in flight, and none of those is valid any more.
Moves(d, e, T) ==
  /\ IsLedger(e) /\ d.ok /\ e.ok
  /\ DOMAIN e.sets = DOMAIN d.sets
  /\ \A s \in DOMAIN d.sets : e.sets[s].allocation = d.sets[s].allocation
  /\ DOMAIN e.recordings = DOMAIN d.recordings
  /\ \A r \in DOMAIN d.recordings :
       /\ e.recordings[r].sets = d.recordings[r].sets
       /\ e.recordings[r].pending = d.recordings[r].pending
       /\ e.recordings[r].valid <=> d.recordings[r].valid /\ d.recordings[r].sets \cap T = {}
       /\ d.recordings[r].sets \cap T # {} => d.recordings[r].pending = 0

\* Nothing changed.
LEMMA MovesNothing == ASSUME NEW d, IsLedger(d), d.ok PROVE Moves(d, d, {})
BY DEF Moves

\* Changes one after the other.
LEMMA MovesOn ==
  ASSUME NEW d, NEW e, NEW f, NEW T, NEW U, Moves(d, e, T), Moves(e, f, U)
  PROVE  Moves(d, f, T \cup U)
PROOF
<1>1. ASSUME NEW r \in DOMAIN d.recordings
      PROVE  /\ f.recordings[r].sets = d.recordings[r].sets
             /\ f.recordings[r].pending = d.recordings[r].pending
             /\ f.recordings[r].valid <=> d.recordings[r].valid /\ d.recordings[r].sets \cap (T \cup U) = {}
             /\ d.recordings[r].sets \cap (T \cup U) # {} => d.recordings[r].pending = 0
  <2>1. /\ e.recordings[r].sets = d.recordings[r].sets
        /\ e.recordings[r].pending = d.recordings[r].pending
        /\ e.recordings[r].valid <=> d.recordings[r].valid /\ d.recordings[r].sets \cap T = {}
        /\ d.recordings[r].sets \cap T # {} => d.recordings[r].pending = 0
        /\ r \in DOMAIN e.recordings
    BY DEF Moves
  <2>2. /\ f.recordings[r].sets = e.recordings[r].sets
        /\ f.recordings[r].pending = e.recordings[r].pending
        /\ f.recordings[r].valid <=> e.recordings[r].valid /\ e.recordings[r].sets \cap U = {}
        /\ e.recordings[r].sets \cap U # {} => e.recordings[r].pending = 0
    BY <2>1 DEF Moves
  <2> QED BY <2>1, <2>2
<1>2. \A s \in DOMAIN d.sets : f.sets[s].allocation = d.sets[s].allocation
  <2>1. ASSUME NEW s \in DOMAIN d.sets PROVE f.sets[s].allocation = d.sets[s].allocation
    <3>1. s \in DOMAIN e.sets /\ e.sets[s].allocation = d.sets[s].allocation BY DEF Moves
    <3>2. f.sets[s].allocation = e.sets[s].allocation BY <3>1 DEF Moves
    <3> QED BY <3>1, <3>2
  <2> QED BY <2>1
<1>3. /\ IsLedger(f) /\ d.ok /\ f.ok /\ DOMAIN f.sets = DOMAIN d.sets /\ DOMAIN f.recordings = DOMAIN d.recordings
  BY DEF Moves
<1> QED BY <1>1, <1>2, <1>3 DEF Moves

\* A refused requirement leaves a ledger that is not ok.
LEMMA CheckedOk ==
  ASSUME NEW d, IsLedger(d), NEW required \in BOOLEAN, NEW next, Checked(d, required, next).ok
  PROVE  d.ok /\ required /\ Checked(d, required, next) = next
PROOF
<1>1. SUFFICES ASSUME ~(d.ok /\ required) PROVE FALSE BY DEF Checked, IsLedger
<1>2. Checked(d, required, next) = [d EXCEPT !.ok = FALSE] BY <1>1 DEF Checked
<1>3. [d EXCEPT !.ok = FALSE].ok = FALSE BY DEF IsLedger
<1> QED BY <1>2, <1>3

\* Changed() changes the sets that it is given.
LEMMA ChangedMoves ==
  ASSUME NEW d, IsLedger(d), NEW T, Changed(d, T).ok
  PROVE  Moves(d, Changed(d, T), T)
PROOF
<1> DEFINE free == \A r \in Users(d, T) : d.recordings[r].pending = 0
           rs   == [r \in DOMAIN d.recordings |-> IF r \in Users(d, T) THEN [d.recordings[r] EXCEPT !.valid = FALSE]
                                                                       ELSE d.recordings[r]]
           e    == [d EXCEPT !.recordings = rs]
<1>1. Changed(d, T) = Checked(d, free, e) BY DEF Changed
<1>2. d.ok /\ free /\ Changed(d, T) = e
  <2>1. free \in BOOLEAN OBVIOUS
  <2> HIDE DEF free, e
  <2> QED BY <1>1, <2>1, CheckedOk
<1>3. e = [ok |-> d.ok, sets |-> d.sets, recordings |-> rs, updates |-> d.updates]
  <2> HIDE DEF rs
  <2> QED BY DEF IsLedger
<1>4. DOMAIN rs = DOMAIN d.recordings OBVIOUS
<1>5. ASSUME NEW r \in DOMAIN d.recordings
      PROVE  /\ rs[r].sets = d.recordings[r].sets
             /\ rs[r].pending = d.recordings[r].pending
             /\ rs[r].valid <=> d.recordings[r].valid /\ d.recordings[r].sets \cap T = {}
             /\ d.recordings[r].sets \cap T # {} => d.recordings[r].pending = 0
             /\ RecordingOk(rs[r])
  <2>1. RecordingOk(d.recordings[r]) BY DEF IsLedger
  <2>2. CASE r \in Users(d, T)
    <3>1. rs[r] = [d.recordings[r] EXCEPT !.valid = FALSE] BY <2>2
    <3>2. rs[r] = [sets |-> d.recordings[r].sets, pending |-> d.recordings[r].pending, valid |-> FALSE]
      BY <2>1, <3>1 DEF RecordingOk
    <3>3. d.recordings[r].pending = 0 BY <1>2, <2>2
    <3>4. d.recordings[r].sets \cap T # {} BY <2>2 DEF Users
    <3> HIDE DEF rs
    <3> QED BY <2>1, <3>2, <3>3, <3>4 DEF RecordingOk
  <2>3. CASE r \notin Users(d, T)
    <3>1. rs[r] = d.recordings[r] BY <2>3
    <3>2. d.recordings[r].sets \cap T = {} BY <2>3 DEF Users
    <3> HIDE DEF rs
    <3> QED BY <2>1, <3>1, <3>2
  <2> QED BY <2>2, <2>3
<1>6. PICK g : g = Changed(d, T) OBVIOUS
<1>7. g.ok = d.ok /\ g.sets = d.sets /\ g.recordings = rs /\ g.updates = d.updates
      /\ g = [ok |-> g.ok, sets |-> g.sets, recordings |-> g.recordings, updates |-> g.updates]
  <2> HIDE DEF rs
  <2> QED BY <1>2, <1>3, <1>6
<1>8. Moves(d, g, T)
  <2> HIDE DEF rs, e, free
  <2>1. IsLedger(g) BY <1>2, <1>4, <1>5, <1>7 DEF IsLedger
  <2> QED BY <1>2, <1>4, <1>5, <1>7, <2>1 DEF Moves
<1> QED BY <1>6, <1>8

\* Contents that elements may take, from the element first on.
FillOk(first, contents) == first \in Nat /\ \A n \in DOMAIN contents : n \in Nat /\ EntryOk(contents[n])

\* The contents of the sets do not matter to the recordings.
LEMMA FillMoves ==
  ASSUME NEW d, IsLedger(d), d.ok, NEW s, NEW index, NEW first, NEW contents, FillOk(first, contents)
  PROVE  Moves(d, Fill(d, s, index, first, contents), {})
PROOF
<1> DEFINE slots == {<<index, first + n - 1>> : n \in DOMAIN contents}
           new == [k \in DOMAIN d.sets[s].entries \cup slots |->
                     IF k \in slots THEN contents[k[2] - first + 1] ELSE d.sets[s].entries[k]]
<1>1. PICK x : x = new OBVIOUS
<1>2. Fill(d, s, index, first, contents) = [d EXCEPT !.sets[s].entries = x] BY <1>1 DEF Fill
<1>3. PICK ss : ss = [d.sets EXCEPT ![s].entries = x] OBVIOUS
<1>4. PICK e : e = [d EXCEPT !.sets = ss] OBVIOUS
<1>5. Fill(d, s, index, first, contents) = e BY <1>2, <1>3, <1>4
<1>6. e = [ok |-> d.ok, sets |-> ss, recordings |-> d.recordings, updates |-> d.updates]
  BY <1>4 DEF IsLedger
<1>7. DOMAIN ss = DOMAIN d.sets BY <1>3
<1>8. ASSUME NEW t \in DOMAIN d.sets PROVE ss[t].allocation = d.sets[t].allocation /\ SetOk(ss[t])
  <2>1. SetOk(d.sets[t]) BY DEF IsLedger
  <2>2. CASE t = s
    <3>1. ss[t] = [d.sets[t] EXCEPT !.entries = x] BY <1>3, <2>2
    <3>2. ss[t] = [allocation |-> d.sets[t].allocation, entries |-> x, alive |-> d.sets[t].alive]
      BY <2>1, <3>1 DEF SetOk
    <3>3. ASSUME NEW k \in DOMAIN x PROVE EntryOk(x[k])
      <4>1. CASE k \in slots
        <5>1. PICK n \in DOMAIN contents : k = <<index, first + n - 1>> BY <4>1
        <5>2. k[2] - first + 1 = n
          <6>1. first \in Nat /\ n \in Nat BY <5>1 DEF FillOk
          <6> QED BY <5>1, <6>1
        <5>3. x[k] = contents[n] BY <1>1, <4>1, <5>2
        <5> QED BY <5>1, <5>3 DEF FillOk
      <4>2. CASE k \notin slots
        <5>1. k \in DOMAIN d.sets[t].entries /\ x[k] = d.sets[t].entries[k] BY <1>1, <2>2, <3>3, <4>2
        <5> QED BY <2>1, <5>1 DEF SetOk
      <4> QED BY <4>1, <4>2
    <3> HIDE DEF slots, new
    <3> QED BY <3>2, <3>3 DEF SetOk
  <2>3. CASE t # s
    <3>1. ss[t] = d.sets[t] BY <1>3, <2>3
    <3> QED BY <2>1, <3>1
  <2> QED BY <2>2, <2>3
<1>9. e.ok = d.ok /\ e.sets = ss /\ e.recordings = d.recordings /\ e.updates = d.updates
      /\ e = [ok |-> e.ok, sets |-> e.sets, recordings |-> e.recordings, updates |-> e.updates]
  BY <1>6
<1>10. IsLedger(e) BY <1>7, <1>8, <1>9 DEF IsLedger
<1> QED BY <1>5, <1>7, <1>8, <1>9, <1>10 DEF Moves

\* A refused change is still a ledger.
LEMMA RefusedLedger == ASSUME NEW d, IsLedger(d) PROVE IsLedger([d EXCEPT !.ok = FALSE])
PROOF
<1>1. PICK e : e = [d EXCEPT !.ok = FALSE] OBVIOUS
<1>2. /\ e.ok = FALSE /\ e.sets = d.sets /\ e.recordings = d.recordings
      /\ e = [ok |-> e.ok, sets |-> e.sets, recordings |-> e.recordings, updates |-> e.updates]
  BY <1>1 DEF IsLedger
<1>3. IsLedger(e) BY <1>2 DEF IsLedger
<1> QED BY <1>1, <1>3

\* A checked ledger is a ledger.
LEMMA CheckedLedger ==
  ASSUME NEW d, IsLedger(d), NEW required \in BOOLEAN, NEW next, d.ok /\ required => IsLedger(next)
  PROVE  IsLedger(Checked(d, required, next))
PROOF
<1>1. CASE d.ok /\ required BY <1>1 DEF Checked
<1>2. CASE ~(d.ok /\ required) BY <1>2, RefusedLedger DEF Checked
<1> QED BY <1>1, <1>2

\* What a step of the ledger promises: a ledger, and if it is ok the changes of T.
StepMoves(d, e, T) == IsLedger(e) /\ (e.ok => Moves(d, e, T))

\* The same, of a change that may be refused.
LEMMA ChangedStep == ASSUME NEW d, IsLedger(d), NEW T PROVE StepMoves(d, Changed(d, T), T)
PROOF
<1>1. PICK e : e = Changed(d, T) OBVIOUS
<1>2. e.ok => Moves(d, e, T) BY <1>1, ChangedMoves
<1>3. e.ok => IsLedger(e) BY <1>2 DEF Moves
<1>4. ~e.ok => IsLedger(e)
  <2> DEFINE free == \A r \in Users(d, T) : d.recordings[r].pending = 0
             next == [d EXCEPT !.recordings = [r \in DOMAIN d.recordings |->
                        IF r \in Users(d, T) THEN [d.recordings[r] EXCEPT !.valid = FALSE] ELSE d.recordings[r]]]
  <2>1. e = Checked(d, free, next) BY <1>1 DEF Changed
  <2>2. CASE d.ok /\ free
    <3>1. e = next BY <2>1, <2>2 DEF Checked
    <3>2. next.ok = d.ok BY DEF IsLedger
    <3> QED BY <2>2, <3>1, <3>2
  <2>3. CASE ~(d.ok /\ free)
    <3>1. e = [d EXCEPT !.ok = FALSE] BY <2>1, <2>3 DEF Checked
    <3> QED BY <3>1, RefusedLedger
  <2> QED BY <2>2, <2>3
<1> QED BY <1>1, <1>2, <1>3, <1>4 DEF StepMoves

\* The contents of changed sets are filled in.
LEMMA FilledStep ==
  ASSUME NEW d, IsLedger(d), NEW required \in BOOLEAN, NEW T, NEW s, NEW index, NEW first, NEW contents,
         required => FillOk(first, contents)
  PROVE  StepMoves(d, Checked(d, required, Checked(Changed(d, T), TRUE, Fill(Changed(d, T), s, index, first, contents))), T)
PROOF
<1>1. PICK e : e = Changed(d, T) OBVIOUS
<1>2. PICK f : f = Fill(e, s, index, first, contents) OBVIOUS
<1>3. PICK g : g = Checked(e, TRUE, f) OBVIOUS
<1>4. IsLedger(e) /\ (e.ok => Moves(d, e, T)) BY <1>1, ChangedStep DEF StepMoves
<1>5. required /\ e.ok => Moves(e, f, {}) BY <1>2, <1>4, FillMoves
<1>6. required => IsLedger(g)
  <2>1. required /\ e.ok => IsLedger(f) BY <1>5 DEF Moves
  <2> QED BY <1>3, <1>4, <2>1, CheckedLedger
<1>7. required /\ g.ok => Moves(d, g, T)
  <2>1. g.ok => e.ok /\ g = f BY <1>3, <1>4, CheckedOk
  <2>2. T \cup {} = T OBVIOUS
  <2> QED BY <1>4, <1>5, <2>1, <2>2, MovesOn
<1>8. PICK h : h = Checked(d, required, g) OBVIOUS
<1>9. IsLedger(h) BY <1>6, <1>8, CheckedLedger
<1>10. h.ok => required /\ h = g BY <1>8, CheckedOk
<1>11. StepMoves(d, h, T) BY <1>7, <1>9, <1>10 DEF StepMoves
<1> QED BY <1>1, <1>2, <1>3, <1>8, <1>11

\* A write changes its set.
LEMMA WriteStep ==
  ASSUME NEW d, IsLedger(d), NEW c, NEW w, NEW step, WriteOk(w)
  PROVE  StepMoves(d, WriteSet(d, c, w, step), {w.set})
PROOF
<1> DEFINE required == /\ InBinding(d, w.set, w.binding, w.first, Len(w.values))
                       /\ w.type \in WritableTypes /\ BindingOf(d, w.set, w.binding).type = w.type
                       /\ d.sets[w.set].allocation.device = c.device
           contents == [n \in DOMAIN w.values |-> [value |-> w.values[n], history |-> <<step>>]]
<1>1. required \in BOOLEAN OBVIOUS
<1>2. WriteSet(d, c, w, step)
        = Checked(d, required, Checked(Changed(d, {w.set}), TRUE,
                                       Fill(Changed(d, {w.set}), w.set, w.binding, w.first, contents)))
  BY DEF WriteSet
<1>3. FillOk(w.first, contents)
  <2>1. w.first \in Nat /\ DOMAIN w.values = 1 .. Len(w.values) /\ Len(w.values) \in Nat BY ListedIs DEF WriteOk
  <2>2. ASSUME NEW n \in DOMAIN contents PROVE n \in Nat /\ EntryOk(contents[n])
    <3>1. n \in DOMAIN w.values /\ w.values[n].offset \in Nat BY <2>2 DEF WriteOk
    <3>2. contents[n] = [value |-> w.values[n], history |-> <<step>>] BY <3>1
    <3>3. PICK e : e = contents[n] OBVIOUS
    <3>4. e.value = w.values[n] /\ e.history = <<step>> /\ e = [value |-> e.value, history |-> e.history]
      BY <3>2, <3>3
    <3>5. EntryOk(e) BY <3>1, <3>4 DEF EntryOk
    <3> QED BY <2>1, <3>1, <3>3, <3>5
  <2> HIDE DEF contents
  <2> QED BY <2>1, <2>2 DEF FillOk
<1> HIDE DEF required, contents
<1> QED BY <1>1, <1>2, <1>3, FilledStep

\* A copy changes its destination.
LEMMA CopyStep ==
  ASSUME NEW d, IsLedger(d), NEW c, NEW k, NEW step, k.to.first \in Nat
  PROVE  StepMoves(d, CopySet(d, c, k, step), {k.to.set})
PROOF
<1> DEFINE required ==
        /\ InBinding(d, k.from.set, k.from.binding, k.from.first, k.count)
        /\ InBinding(d, k.to.set, k.to.binding, k.to.first, k.count)
        /\ BindingOf(d, k.from.set, k.from.binding).type = BindingOf(d, k.to.set, k.to.binding).type
        /\ d.sets[k.from.set].allocation.device = c.device
        /\ d.sets[k.to.set].allocation.device = c.device
        /\ \/ k.from.set # k.to.set \/ k.from.binding # k.to.binding
           \/ k.from.first + k.count <= k.to.first \/ k.to.first + k.count <= k.from.first
        /\ \A n \in 1 .. k.count : Len(Copied(d, k, n, step).history) <= MaxHistory
           contents == [n \in 1 .. k.count |-> Copied(d, k, n, step)]
<1>1. required \in BOOLEAN OBVIOUS
<1>2. CopySet(d, c, k, step)
        = Checked(d, required, Checked(Changed(d, {k.to.set}), TRUE,
                                       Fill(Changed(d, {k.to.set}), k.to.set, k.to.binding, k.to.first, contents)))
  BY DEF CopySet
<1>3. ASSUME required PROVE FillOk(k.to.first, contents)
  <2>1. k.from.set \in DOMAIN d.sets BY <1>3 DEF InBinding, LiveSet
  <2>2. PICK source : source = d.sets[k.from.set].entries OBVIOUS
  <2>3. \A x \in DOMAIN source : EntryOk(source[x]) BY <2>1, <2>2 DEF IsLedger, SetOk
  <2>4. ASSUME NEW n \in DOMAIN contents PROVE n \in Nat /\ EntryOk(contents[n])
    <3>1. n \in 1 .. k.count BY <2>4
    <3>2. PICK slot : slot = <<k.from.binding, k.from.first + n - 1>> OBVIOUS
    <3>3. PICK entry : entry = IF slot \in DOMAIN source THEN source[slot] ELSE Nothing OBVIOUS
    <3>4. EntryOk(entry)
      <4>1. EntryOk(Nothing)
        <5>1. Nothing.value = Undefined /\ Nothing = [value |-> Nothing.value, history |-> Nothing.history]
          BY DEF Nothing
        <5>2. Undefined.offset = 0 BY DEF Undefined
        <5> QED BY <5>1, <5>2 DEF EntryOk
      <4> QED BY <2>3, <3>3, <4>1
    <3>5. contents[n] = [entry EXCEPT !.history = Append(entry.history, step)]
      <4>1. contents[n] = Copied(d, k, n, step) BY <3>1
      <4> QED BY <2>2, <3>2, <3>3, <4>1 DEF Copied
    <3>6. PICK longer : longer = Append(entry.history, step) OBVIOUS
    <3>7. PICK e : e = [entry EXCEPT !.history = longer] OBVIOUS
    <3>8. e = [value |-> entry.value, history |-> longer] BY <3>4, <3>7 DEF EntryOk
    <3>9. EntryOk(e) BY <3>4, <3>8 DEF EntryOk
    <3> QED BY <3>1, <3>5, <3>6, <3>7, <3>9
  <2> HIDE DEF contents
  <2> QED BY <2>4 DEF FillOk
<1> HIDE DEF required, contents
<1> QED BY <1>1, <1>2, <1>3, FilledStep

\* The recursive functions of an update: what they solve has a solution.
WritesTo(f, base, c, step, n) ==
  f = [k \in 0 .. n |-> IF k = 0 THEN base ELSE WriteSet(f[k - 1], c, c.writes[k], step)]
CopiesTo(f, base, c, step, n) ==
  f = [k \in 0 .. n |-> IF k = 0 THEN base ELSE CopySet(f[k - 1], c, c.copies[k], step)]

\* There is a function of the writes.
LEMMA WritesExist ==
  ASSUME NEW N \in Nat, NEW base, NEW c, NEW step
  PROVE  \E f : WritesTo(f, base, c, step, N)
PROOF
<1> DEFINE S == {n \in 0 .. N : \E f : WritesTo(f, base, c, step, n)}
<1>1. 0 \in S
  <2> DEFINE f == [k \in 0 .. 0 |-> base]
  <2>1. WritesTo(f, base, c, step, 0) BY DEF WritesTo
  <2> QED BY <2>1
<1>2. ASSUME NEW n \in 1 .. N, n - 1 \in S PROVE n \in S
  <2>1. PICK f : WritesTo(f, base, c, step, n - 1) BY <1>2
  <2> DEFINE g == [k \in 0 .. n |-> IF k = n THEN WriteSet(f[n - 1], c, c.writes[n], step) ELSE f[k]]
  <2>2. ASSUME NEW k \in 0 .. n
        PROVE  g[k] = IF k = 0 THEN base ELSE WriteSet(g[k - 1], c, c.writes[k], step)
    <3>1. CASE k = n
      <4>1. k # 0 /\ k - 1 \in 0 .. n /\ k - 1 # n BY <3>1
      <4>2. g[k] = WriteSet(f[k - 1], c, c.writes[k], step) /\ g[k - 1] = f[k - 1] BY <3>1, <4>1
      <4> HIDE DEF g
      <4> QED BY <4>1, <4>2
    <3>2. CASE k # n
      <4>1. k \in 0 .. n - 1 /\ (k # 0 => k - 1 \in 0 .. n /\ k - 1 # n) BY <3>2
      <4>2. g[k] = f[k] /\ (k # 0 => g[k - 1] = f[k - 1]) BY <3>2, <4>1
      <4>3. f[k] = IF k = 0 THEN base ELSE WriteSet(f[k - 1], c, c.writes[k], step)
        BY <2>1, <4>1 DEF WritesTo
      <4> HIDE DEF g
      <4> QED BY <4>2, <4>3
    <3> QED BY <3>1, <3>2
  <2>3. g = [k \in 0 .. n |-> g[k]] OBVIOUS
  <2>4. WritesTo(g, base, c, step, n)
    <3> HIDE DEF g
    <3> QED BY <2>2, <2>3 DEF WritesTo
  <2> HIDE DEF g
  <2> QED BY <2>4
<1> HIDE DEF S
<1>3. 0 .. N \subseteq S BY <1>1, <1>2, Counting
<1>4. N \in S BY <1>3
<1> QED BY <1>4 DEF S

\* And one of the copies.
LEMMA CopiesExist ==
  ASSUME NEW N \in Nat, NEW base, NEW c, NEW step
  PROVE  \E f : CopiesTo(f, base, c, step, N)
PROOF
<1> DEFINE S == {n \in 0 .. N : \E f : CopiesTo(f, base, c, step, n)}
<1>1. 0 \in S
  <2> DEFINE f == [k \in 0 .. 0 |-> base]
  <2>1. CopiesTo(f, base, c, step, 0) BY DEF CopiesTo
  <2> QED BY <2>1
<1>2. ASSUME NEW n \in 1 .. N, n - 1 \in S PROVE n \in S
  <2>1. PICK f : CopiesTo(f, base, c, step, n - 1) BY <1>2
  <2> DEFINE g == [k \in 0 .. n |-> IF k = n THEN CopySet(f[n - 1], c, c.copies[n], step) ELSE f[k]]
  <2>2. ASSUME NEW k \in 0 .. n
        PROVE  g[k] = IF k = 0 THEN base ELSE CopySet(g[k - 1], c, c.copies[k], step)
    <3>1. CASE k = n
      <4>1. k # 0 /\ k - 1 \in 0 .. n /\ k - 1 # n BY <3>1
      <4>2. g[k] = CopySet(f[k - 1], c, c.copies[k], step) /\ g[k - 1] = f[k - 1] BY <3>1, <4>1
      <4> HIDE DEF g
      <4> QED BY <4>1, <4>2
    <3>2. CASE k # n
      <4>1. k \in 0 .. n - 1 /\ (k # 0 => k - 1 \in 0 .. n /\ k - 1 # n) BY <3>2
      <4>2. g[k] = f[k] /\ (k # 0 => g[k - 1] = f[k - 1]) BY <3>2, <4>1
      <4>3. f[k] = IF k = 0 THEN base ELSE CopySet(f[k - 1], c, c.copies[k], step)
        BY <2>1, <4>1 DEF CopiesTo
      <4> HIDE DEF g
      <4> QED BY <4>2, <4>3
    <3> QED BY <3>1, <3>2
  <2>3. g = [k \in 0 .. n |-> g[k]] OBVIOUS
  <2>4. CopiesTo(g, base, c, step, n)
    <3> HIDE DEF g
    <3> QED BY <2>2, <2>3 DEF CopiesTo
  <2> HIDE DEF g
  <2> QED BY <2>4
<1> HIDE DEF S
<1>3. 0 .. N \subseteq S BY <1>1, <1>2, Counting
<1>4. N \in S BY <1>3
<1> QED BY <1>4 DEF S

\* The sets that the first n writes or copies of an update name.
WrittenBy(c, n) == {c.writes[i].set : i \in 1 .. n}
CopiedBy(c, n)  == {c.copies[i].to.set : i \in 1 .. n}

\* The writes of an update change the sets that they name.
LEMMA WritesStep ==
  ASSUME NEW d, IsLedger(d), NEW e, StepMoves(d, e, {}), NEW c, NEW step, NEW N \in Nat, NEW f,
         WritesTo(f, e, c, step, N), \A i \in 1 .. N : WriteOk(c.writes[i])
  PROVE  StepMoves(d, f[N], WrittenBy(c, N))
PROOF
<1> DEFINE S == {n \in 0 .. N : StepMoves(d, f[n], WrittenBy(c, n))}
<1>1. 0 \in S
  <2>1. f[0] = e BY DEF WritesTo
  <2>2. WrittenBy(c, 0) = {} BY DEF WrittenBy
  <2> QED BY <2>1, <2>2
<1>2. ASSUME NEW n \in 1 .. N, n - 1 \in S PROVE n \in S
  <2>1. StepMoves(d, f[n - 1], WrittenBy(c, n - 1)) BY <1>2
  <2>2. f[n] = WriteSet(f[n - 1], c, c.writes[n], step)
    <3>1. n \in 0 .. N /\ n # 0 OBVIOUS
    <3> QED BY <3>1 DEF WritesTo
  <2>3. PICK g : g = f[n - 1] OBVIOUS
  <2>4. PICK h : h = f[n] OBVIOUS
  <2>5. IsLedger(g) /\ (g.ok => Moves(d, g, WrittenBy(c, n - 1))) BY <2>1, <2>3 DEF StepMoves
  <2>6. IsLedger(h) /\ (h.ok => Moves(g, h, {c.writes[n].set})) BY <2>2, <2>3, <2>4, <2>5, WriteStep DEF StepMoves
  <2>7. WrittenBy(c, n) = WrittenBy(c, n - 1) \cup {c.writes[n].set}
    <3>1. \A i : i \in 1 .. n <=> i \in 1 .. n - 1 \/ i = n OBVIOUS
    <3> QED BY <3>1 DEF WrittenBy
  <2>8. h.ok => g.ok BY <2>6 DEF Moves
  <2>9. h.ok => Moves(d, h, WrittenBy(c, n)) BY <2>5, <2>6, <2>7, <2>8, MovesOn
  <2>10. n \in 0 .. N OBVIOUS
  <2> QED BY <2>4, <2>6, <2>9, <2>10 DEF StepMoves
<1> HIDE DEF S
<1>3. 0 .. N \subseteq S BY <1>1, <1>2, Counting
<1>4. N \in S BY <1>3
<1> QED BY <1>4 DEF S

\* The copies of an update change their destinations.
LEMMA CopiesStep ==
  ASSUME NEW d, IsLedger(d), NEW e, NEW T, StepMoves(d, e, T), NEW c, NEW step, NEW N \in Nat, NEW f,
         CopiesTo(f, e, c, step, N), \A i \in 1 .. N : c.copies[i].to.first \in Nat
  PROVE  StepMoves(d, f[N], T \cup CopiedBy(c, N))
PROOF
<1> DEFINE S == {n \in 0 .. N : StepMoves(d, f[n], T \cup CopiedBy(c, n))}
<1>1. 0 \in S
  <2>1. f[0] = e BY DEF CopiesTo
  <2>2. T \cup CopiedBy(c, 0) = T BY DEF CopiedBy
  <2> QED BY <2>1, <2>2
<1>2. ASSUME NEW n \in 1 .. N, n - 1 \in S PROVE n \in S
  <2>1. StepMoves(d, f[n - 1], T \cup CopiedBy(c, n - 1)) BY <1>2
  <2>2. f[n] = CopySet(f[n - 1], c, c.copies[n], step)
    <3>1. n \in 0 .. N /\ n # 0 OBVIOUS
    <3> QED BY <3>1 DEF CopiesTo
  <2>3. PICK g : g = f[n - 1] OBVIOUS
  <2>4. PICK h : h = f[n] OBVIOUS
  <2>5. IsLedger(g) /\ (g.ok => Moves(d, g, T \cup CopiedBy(c, n - 1))) BY <2>1, <2>3 DEF StepMoves
  <2>6. IsLedger(h) /\ (h.ok => Moves(g, h, {c.copies[n].to.set}))
    <3>1. PICK k : k = c.copies[n] OBVIOUS
    <3>2. k.to.first \in Nat BY <3>1
    <3>3. h = CopySet(g, c, k, step) BY <2>2, <2>3, <2>4, <3>1
    <3>4. StepMoves(g, h, {k.to.set}) BY <2>5, <3>2, <3>3, CopyStep
    <3> QED BY <3>1, <3>4 DEF StepMoves
  <2>7. T \cup CopiedBy(c, n) = (T \cup CopiedBy(c, n - 1)) \cup {c.copies[n].to.set}
    <3>1. \A i : i \in 1 .. n <=> i \in 1 .. n - 1 \/ i = n OBVIOUS
    <3> QED BY <3>1 DEF CopiedBy
  <2>8. h.ok => g.ok BY <2>6 DEF Moves
  <2>9. h.ok => Moves(d, h, T \cup CopiedBy(c, n)) BY <2>5, <2>6, <2>7, <2>8, MovesOn
  <2>10. n \in 0 .. N OBVIOUS
  <2> QED BY <2>4, <2>6, <2>9, <2>10 DEF StepMoves
<1> HIDE DEF S
<1>3. 0 .. N \subseteq S BY <1>1, <1>2, Counting
<1>4. N \in S BY <1>3
<1> QED BY <1>4 DEF S

\* A counted update is a step that changes no set.
LEMMA CountedStep ==
  ASSUME NEW d, IsLedger(d), NEW required \in BOOLEAN
  PROVE  StepMoves(d, Checked(d, required, [d EXCEPT !.updates = d.updates + 1]), {})
PROOF
<1>1. PICK e : e = [d EXCEPT !.updates = d.updates + 1] OBVIOUS
<1>2. /\ e.ok = d.ok /\ e.sets = d.sets /\ e.recordings = d.recordings
      /\ e = [ok |-> e.ok, sets |-> e.sets, recordings |-> e.recordings, updates |-> e.updates]
  <2>1. PICK v : v = d.updates + 1 OBVIOUS
  <2>2. e = [d EXCEPT !.updates = v] BY <1>1, <2>1
  <2> QED BY <2>2 DEF IsLedger
<1>3. IsLedger(e) BY <1>2 DEF IsLedger
<1>4. d.ok => Moves(d, e, {}) BY <1>2, <1>3 DEF Moves
<1>5. PICK g : g = Checked(d, required, e) OBVIOUS
<1>6. IsLedger(g) BY <1>3, <1>5, CheckedLedger
<1>7. g.ok => d.ok /\ g = e BY <1>5, CheckedOk
<1> QED BY <1>1, <1>4, <1>5, <1>6, <1>7 DEF StepMoves

\* An update changes the sets that its writes and its copies name.
LEMMA UpdateStep ==
  ASSUME NEW d, IsLedger(d), NEW c, NEW step, Len(c.writes) \in Nat, Len(c.copies) \in Nat,
         \A i \in 1 .. Len(c.writes) : WriteOk(c.writes[i]),
         \A i \in 1 .. Len(c.copies) : c.copies[i].to.first \in Nat
  PROVE  StepMoves(d, UpdateSets(d, c, step), WrittenBy(c, Len(c.writes)) \cup CopiedBy(c, Len(c.copies)))
PROOF
<1> DEFINE required == d.updates < MaxUpdates /\ Len(c.writes) <= MaxUpdateElements /\ Len(c.copies) <= MaxCopies
<1>1. PICK e : e = Checked(d, required, [d EXCEPT !.updates = d.updates + 1]) OBVIOUS
<1>2. StepMoves(d, e, {}) BY <1>1, CountedStep
<1>3. PICK f : f = CHOOSE x : x = [n \in 0 .. Len(c.writes) |->
                 IF n = 0 THEN e ELSE WriteSet(x[n - 1], c, c.writes[n], step)]
  OBVIOUS
<1>4. WritesTo(f, e, c, step, Len(c.writes))
  <2>1. \E x : WritesTo(x, e, c, step, Len(c.writes)) BY WritesExist
  <2> QED BY <1>3, <2>1 DEF WritesTo
<1>5. StepMoves(d, f[Len(c.writes)], WrittenBy(c, Len(c.writes))) BY <1>2, <1>4, WritesStep
<1>6. PICK b : b = f[Len(c.writes)] OBVIOUS
<1>7. PICK g : g = CHOOSE x : x = [n \in 0 .. Len(c.copies) |->
                 IF n = 0 THEN b ELSE CopySet(x[n - 1], c, c.copies[n], step)]
  OBVIOUS
<1>8. CopiesTo(g, b, c, step, Len(c.copies))
  <2>1. \E x : CopiesTo(x, b, c, step, Len(c.copies)) BY CopiesExist
  <2> QED BY <1>7, <2>1 DEF CopiesTo
<1>9. StepMoves(d, g[Len(c.copies)], WrittenBy(c, Len(c.writes)) \cup CopiedBy(c, Len(c.copies)))
  BY <1>5, <1>6, <1>8, CopiesStep
<1>10. UpdateSets(d, c, step) = g[Len(c.copies)]
  BY <1>1, <1>3, <1>6, <1>7 DEF UpdateSets
<1> QED BY <1>9, <1>10

\* A requirement before a step.
LEMMA GuardedStep ==
  ASSUME NEW d, IsLedger(d), NEW required \in BOOLEAN, NEW e, NEW T, StepMoves(d, e, T)
  PROVE  StepMoves(d, Checked(d, required, e), T)
PROOF
<1>1. PICK g : g = Checked(d, required, e) OBVIOUS
<1>2. IsLedger(g) BY <1>1, CheckedLedger DEF StepMoves
<1>3. g.ok => g = e BY <1>1, CheckedOk
<1> QED BY <1>1, <1>2, <1>3 DEF StepMoves

\* Sets that end are changed.
LEMMA EndStep == ASSUME NEW d, IsLedger(d), NEW T PROVE StepMoves(d, EndSets(d, T), T)
PROOF
<1>1. PICK e : e = Changed(d, T) OBVIOUS
<1>2. IsLedger(e) /\ (e.ok => Moves(d, e, T)) BY <1>1, ChangedStep DEF StepMoves
<1>3. PICK ss : ss = [s \in DOMAIN e.sets |-> IF s \in T THEN [e.sets[s] EXCEPT !.alive = FALSE, !.entries = <<>>]
                                                         ELSE e.sets[s]]
  OBVIOUS
<1>4. PICK f : f = [e EXCEPT !.sets = ss] OBVIOUS
<1>5. /\ f.ok = e.ok /\ f.sets = ss /\ f.recordings = e.recordings
      /\ f = [ok |-> f.ok, sets |-> f.sets, recordings |-> f.recordings, updates |-> f.updates]
  BY <1>2, <1>4 DEF IsLedger
<1>6. DOMAIN ss = DOMAIN e.sets BY <1>3
<1>7. ASSUME NEW t \in DOMAIN e.sets PROVE ss[t].allocation = e.sets[t].allocation /\ SetOk(ss[t])
  <2>1. SetOk(e.sets[t]) BY <1>2 DEF IsLedger
  <2>2. CASE t \in T
    <3>1. ss[t] = [e.sets[t] EXCEPT !.alive = FALSE, !.entries = <<>>] BY <1>3, <2>2
    <3>2. ss[t] = [allocation |-> e.sets[t].allocation, entries |-> <<>>, alive |-> FALSE]
      BY <2>1, <3>1 DEF SetOk
    <3>3. DOMAIN <<>> = {} OBVIOUS
    <3> QED BY <3>2, <3>3 DEF SetOk
  <2>3. CASE t \notin T
    <3>1. ss[t] = e.sets[t] BY <1>3, <2>3
    <3> QED BY <2>1, <3>1
  <2> QED BY <2>2, <2>3
<1>8. IsLedger(f) BY <1>2, <1>5, <1>6, <1>7 DEF IsLedger
<1>9. e.ok => Moves(e, f, {}) BY <1>5, <1>6, <1>7, <1>8 DEF Moves
<1>10. PICK g : g = Checked(e, TRUE, f) OBVIOUS
<1>11. IsLedger(g) BY <1>2, <1>8, <1>10, CheckedLedger
<1>12. g.ok => e.ok /\ g = f BY <1>2, <1>10, CheckedOk
<1>13. T \cup {} = T OBVIOUS
<1>14. g.ok => Moves(d, g, T) BY <1>2, <1>9, <1>12, <1>13, MovesOn
<1>15. EndSets(d, T) = g BY <1>1, <1>3, <1>4, <1>10 DEF EndSets
<1> QED BY <1>11, <1>14, <1>15 DEF StepMoves

\* The sets that a call ends.
FreedBy(c)    == {c.sets[n] : n \in DOMAIN c.sets}
PoolSets(d, c) == {s \in DOMAIN d.sets : d.sets[s].allocation.pool = c.pool}

\* The sets that a free names.
LEMMA FreeStep == ASSUME NEW d, IsLedger(d), NEW c PROVE StepMoves(d, FreeDescriptorSets(d, c), FreedBy(c))
PROOF
<1> DEFINE required ==
        /\ c.sets # <<>> /\ IsInjective(c.sets)
        /\ \A n \in DOMAIN c.sets : /\ LiveSet(d, c.sets[n])
                                    /\ d.sets[c.sets[n]].allocation.device = c.device
                                    /\ d.sets[c.sets[n]].allocation.pool = c.pool
                                    /\ d.sets[c.sets[n]].allocation.frees
<1>1. required \in BOOLEAN OBVIOUS
<1>2. FreeDescriptorSets(d, c) = Checked(d, required, EndSets(d, FreedBy(c))) BY DEF FreeDescriptorSets, FreedBy
<1> HIDE DEF required
<1> QED BY <1>1, <1>2, EndStep, GuardedStep

\* The sets of a pool that is reset or destroyed.
LEMMA PoolStep == ASSUME NEW d, IsLedger(d), NEW c PROVE StepMoves(d, EndDescriptorPool(d, c), PoolSets(d, c))
PROOF
<1> DEFINE required == PoolSets(d, c) # {} /\ \A s \in PoolSets(d, c) : d.sets[s].allocation.device = c.device
<1>1. required \in BOOLEAN OBVIOUS
<1>2. EndDescriptorPool(d, c) = Checked(d, required, EndSets(d, PoolSets(d, c)))
  BY DEF EndDescriptorPool, PoolSets
<1> HIDE DEF required
<1> QED BY <1>1, <1>2, EndStep, GuardedStep

-----------------------------------------------------------------------------
(* What recording, forgetting, submitting and completing make of it.       *)

\* Only the recordings differ.
LedgerWith(d, e, recordings) == e.sets = d.sets /\ e.recordings = recordings

\* A ledger whose recordings are given anew.
LEMMA WithRecordings ==
  ASSUME NEW d, IsLedger(d), NEW recordings, \A r \in DOMAIN recordings : RecordingOk(recordings[r])
  PROVE  /\ IsLedger([d EXCEPT !.recordings = recordings])
         /\ LedgerWith(d, [d EXCEPT !.recordings = recordings], recordings)
PROOF
<1>1. PICK e : e = [d EXCEPT !.recordings = recordings] OBVIOUS
<1>2. /\ e.ok = d.ok /\ e.sets = d.sets /\ e.recordings = recordings
      /\ e = [ok |-> e.ok, sets |-> e.sets, recordings |-> e.recordings, updates |-> e.updates]
  BY <1>1 DEF IsLedger
<1>3. IsLedger(e) BY <1>2 DEF IsLedger
<1> QED BY <1>1, <1>2, <1>3 DEF LedgerWith

\* The recordings after a new one, and without one.
NewRecordings(d, r, sets) ==
  [x \in DOMAIN d.recordings \cup {r} |->
     IF x = r THEN [sets |-> sets, pending |-> 0, valid |-> TRUE] ELSE d.recordings[x]]
LeftRecordings(d, r) == [x \in DOMAIN d.recordings \ {r} |-> d.recordings[x]]

\* Recorded() adds a recording whose sets are alive; an old one was not in flight.
LEMMA RecordedIs ==
  ASSUME NEW d, IsLedger(d), NEW r, NEW sets, NEW e, e = Recorded(d, r, sets)
  PROVE  /\ IsLedger(e)
         /\ e.ok => /\ d.ok /\ LedgerWith(d, e, NewRecordings(d, r, sets))
                    /\ r \in DOMAIN d.recordings => d.recordings[r].pending = 0
                    /\ sets \subseteq DOMAIN d.sets
PROOF
<1> DEFINE required ==
        /\ Cardinality(DOMAIN d.recordings) < MaxRecordings /\ Cardinality(sets) <= MaxRecordedSets
        /\ r \in DOMAIN d.recordings => d.recordings[r].pending = 0
        /\ \A s \in sets : LiveSet(d, s)
           new == NewRecordings(d, r, sets)
<1>1. required \in BOOLEAN OBVIOUS
<1>2. e = Checked(d, required, [d EXCEPT !.recordings = new]) BY DEF Recorded, NewRecordings
<1>3. \A x \in DOMAIN new : RecordingOk(new[x])
  <2>1. ASSUME NEW x \in DOMAIN new PROVE RecordingOk(new[x])
    <3>1. CASE x = r
      <4>1. new[x] = [sets |-> sets, pending |-> 0, valid |-> TRUE] BY <3>1 DEF NewRecordings
      <4> HIDE DEF new
      <4> QED BY <4>1 DEF RecordingOk
    <3>2. CASE x # r
      <4>1. x \in DOMAIN d.recordings /\ new[x] = d.recordings[x] BY <3>2 DEF NewRecordings
      <4> HIDE DEF new
      <4> QED BY <4>1 DEF IsLedger
    <3> QED BY <3>1, <3>2
  <2> HIDE DEF new
  <2> QED BY <2>1
<1>4. PICK g : g = [d EXCEPT !.recordings = new] OBVIOUS
<1>5. IsLedger(g) /\ LedgerWith(d, g, new)
  <2> HIDE DEF new
  <2> QED BY <1>3, <1>4, WithRecordings
<1>6. e = Checked(d, required, g) BY <1>2, <1>4
<1>7. IsLedger(e)
  <2> HIDE DEF required
  <2> QED BY <1>1, <1>5, <1>6, CheckedLedger
<1>8. e.ok => d.ok /\ required /\ e = g
  <2> HIDE DEF required
  <2> QED BY <1>1, <1>6, CheckedOk
<1>9. required => sets \subseteq DOMAIN d.sets BY DEF LiveSet
<1> QED BY <1>5, <1>7, <1>8, <1>9

\* Forget() leaves a recording out that was not in flight.
LEMMA ForgetIs ==
  ASSUME NEW d, IsLedger(d), NEW r, NEW e, e = Forget(d, r)
  PROVE  /\ IsLedger(e)
         /\ e.ok => /\ d.ok /\ LedgerWith(d, e, LeftRecordings(d, r))
                    /\ r \in DOMAIN d.recordings => d.recordings[r].pending = 0
PROOF
<1> DEFINE required == r \in DOMAIN d.recordings => d.recordings[r].pending = 0
<1>1. PICK new : new = LeftRecordings(d, r) OBVIOUS
<1>2. PICK g : g = [d EXCEPT !.recordings = new] OBVIOUS
<1>3. e = Checked(d, required, g) BY <1>1, <1>2 DEF Forget, LeftRecordings
<1>4. \A x \in DOMAIN new : RecordingOk(new[x]) BY <1>1 DEF LeftRecordings, IsLedger
<1>5. IsLedger(g) /\ LedgerWith(d, g, new) BY <1>2, <1>4, WithRecordings
<1>6. IsLedger(e) BY <1>3, <1>5, CheckedLedger
<1>7. e.ok => d.ok /\ required /\ e = g
  <2>1. required \in BOOLEAN OBVIOUS
  <2> HIDE DEF required
  <2> QED BY <1>3, <2>1, CheckedOk
<1> QED BY <1>1, <1>5, <1>6, <1>7

\* One more use of the recording r is pending.
OneMore(d, e, r) ==
  /\ r \in DOMAIN d.recordings /\ d.recordings[r].valid
  /\ e.sets = d.sets /\ DOMAIN e.recordings = DOMAIN d.recordings
  /\ \A x \in DOMAIN d.recordings :
       e.recordings[x] = [sets |-> d.recordings[x].sets,
                          pending |-> d.recordings[x].pending + (IF x = r THEN 1 ELSE 0),
                          valid |-> d.recordings[x].valid]

\* Submitted() counts one more use of a valid recording.
LEMMA SubmittedIs ==
  ASSUME NEW d, NEW r, NEW e, IsLedger(d), e = Submitted(d, r)
  PROVE  IsLedger(e) /\ (e.ok => d.ok /\ OneMore(d, e, r))
PROOF
<1> DEFINE required == RecordingValid(d, r) /\ d.recordings[r].pending < MaxUses
<1>1. PICK g : g = [d EXCEPT !.recordings[r].pending = d.recordings[r].pending + 1] OBVIOUS
<1>2. e = Checked(d, required, g) BY <1>1 DEF Submitted
<1>3. PICK new : new = [d.recordings EXCEPT ![r].pending = d.recordings[r].pending + 1] OBVIOUS
<1>4. g = [d EXCEPT !.recordings = new] BY <1>1, <1>3
<1>5. DOMAIN new = DOMAIN d.recordings BY <1>3
<1>6. ASSUME NEW x \in DOMAIN d.recordings
      PROVE  /\ new[x] = [sets |-> d.recordings[x].sets,
                          pending |-> d.recordings[x].pending + (IF x = r THEN 1 ELSE 0),
                          valid |-> d.recordings[x].valid]
             /\ RecordingOk(new[x])
  <2>1. RecordingOk(d.recordings[x]) BY DEF IsLedger
  <2>2. PICK old : old = d.recordings[x] OBVIOUS
  <2>3. CASE x = r
    <3>1. PICK n : n = old.pending + 1 OBVIOUS
    <3>2. new[x] = [old EXCEPT !.pending = n] BY <1>3, <2>2, <2>3, <3>1
    <3>3. new[x] = [sets |-> old.sets, pending |-> n, valid |-> old.valid] BY <2>1, <2>2, <3>2 DEF RecordingOk
    <3>4. n \in Nat BY <2>1, <2>2, <3>1 DEF RecordingOk
    <3>5. RecordingOk(new[x]) BY <3>3, <3>4 DEF RecordingOk
    <3> QED BY <2>2, <2>3, <3>1, <3>3, <3>5
  <2>4. CASE x # r
    <3>1. new[x] = old BY <1>3, <2>2, <2>4
    <3>2. old.pending + 0 = old.pending BY <2>1, <2>2 DEF RecordingOk
    <3> QED BY <2>1, <2>2, <2>4, <3>1, <3>2 DEF RecordingOk
  <2> QED BY <2>3, <2>4
<1>7. IsLedger(g) /\ LedgerWith(d, g, new) BY <1>4, <1>5, <1>6, WithRecordings
<1>8. required \in BOOLEAN OBVIOUS
<1>9. IsLedger(e)
  <2> HIDE DEF required
  <2> QED BY <1>2, <1>7, <1>8, CheckedLedger
<1>10. e.ok => d.ok /\ required /\ e = g
  <2> HIDE DEF required
  <2> QED BY <1>2, <1>8, CheckedOk
<1> QED BY <1>5, <1>6, <1>7, <1>9, <1>10 DEF LedgerWith, RecordingValid, OneMore

\* The uses of a recording among those that are over.
UsesOf(over, r) == {p \in over : p.recording = r}

\* Completed() counts off the uses that are over, of each recording.
LEMMA CompletedIs ==
  ASSUME NEW d, IsLedger(d), NEW over, IsFiniteSet(over), NEW e, e = Completed(d, over)
  PROVE  e.ok => /\ d.ok /\ IsLedger(e) /\ e.sets = d.sets /\ DOMAIN e.recordings = DOMAIN d.recordings
                 /\ \A x \in DOMAIN d.recordings :
                      e.recordings[x] = [sets |-> d.recordings[x].sets,
                                         pending |-> d.recordings[x].pending - Cardinality(UsesOf(over, x)),
                                         valid |-> d.recordings[x].valid]
PROOF
<1> DEFINE required == \A p \in over : /\ p.recording \in DOMAIN d.recordings
                                       /\ Cardinality(UsesOf(over, p.recording)) <= d.recordings[p.recording].pending
<1>1. SUFFICES ASSUME e.ok PROVE /\ d.ok /\ IsLedger(e) /\ e.sets = d.sets /\ DOMAIN e.recordings = DOMAIN d.recordings
                 /\ \A x \in DOMAIN d.recordings :
                      e.recordings[x] = [sets |-> d.recordings[x].sets,
                                         pending |-> d.recordings[x].pending - Cardinality(UsesOf(over, x)),
                                         valid |-> d.recordings[x].valid]
  OBVIOUS
<1>0. e = Checked(d, required,
              [d EXCEPT !.recordings = [x \in DOMAIN d.recordings |->
                 [d.recordings[x] EXCEPT !.pending = d.recordings[x].pending - Cardinality(UsesOf(over, x))]]])
  BY DEF Completed, UsesOf
<1>2. PICK new : new = [x \in DOMAIN d.recordings |->
                          [d.recordings[x] EXCEPT !.pending = d.recordings[x].pending - Cardinality(UsesOf(over, x))]]
  OBVIOUS
<1>3. PICK g : g = [d EXCEPT !.recordings = new] OBVIOUS
<1>4. e = Checked(d, required, g) BY <1>0, <1>2, <1>3
<1>5. d.ok /\ required /\ e = g
  <2>1. required \in BOOLEAN OBVIOUS
  <2> HIDE DEF required
  <2> QED BY <1>1, <1>4, <2>1, CheckedOk
<1>6. DOMAIN new = DOMAIN d.recordings BY <1>2
<1>7. ASSUME NEW x \in DOMAIN d.recordings
      PROVE  /\ new[x] = [sets |-> d.recordings[x].sets,
                          pending |-> d.recordings[x].pending - Cardinality(UsesOf(over, x)),
                          valid |-> d.recordings[x].valid]
             /\ RecordingOk(new[x])
  <2>1. RecordingOk(d.recordings[x]) BY DEF IsLedger
  <2>2. PICK old : old = d.recordings[x] OBVIOUS
  <2>3. PICK uses : uses = UsesOf(over, x) OBVIOUS
  <2>4. uses \subseteq over BY <2>3 DEF UsesOf
  <2>5. IsFiniteSet(uses) BY <2>4, FS_Subset
  <2>6. Cardinality(uses) \in Nat BY <2>5, FS_CardinalityType
  <2>7. Cardinality(uses) <= old.pending
    <3>1. CASE uses = {}
      <4>1. Cardinality(uses) = 0 BY <3>1, FS_EmptySet
      <4> QED BY <2>1, <2>2, <4>1 DEF RecordingOk
    <3>2. CASE uses # {}
      <4>1. PICK p \in uses : TRUE BY <3>2
      <4>2. p \in over /\ p.recording = x BY <2>3, <4>1 DEF UsesOf
      <4> QED BY <1>5, <2>2, <2>3, <4>2
    <3> QED BY <3>1, <3>2
  <2>8. PICK n : n = old.pending - Cardinality(uses) OBVIOUS
  <2>9. n \in Nat BY <2>1, <2>2, <2>6, <2>7, <2>8 DEF RecordingOk
  <2>10. new[x] = [old EXCEPT !.pending = n] BY <1>2, <2>2, <2>3, <2>8
  <2>11. new[x] = [sets |-> old.sets, pending |-> n, valid |-> old.valid] BY <2>1, <2>2, <2>10 DEF RecordingOk
  <2>12. RecordingOk(new[x]) BY <2>9, <2>11 DEF RecordingOk
  <2> QED BY <2>2, <2>3, <2>8, <2>11, <2>12
<1>8. IsLedger(g) /\ LedgerWith(d, g, new) BY <1>3, <1>6, <1>7, WithRecordings
<1> QED BY <1>5, <1>6, <1>7, <1>8 DEF LedgerWith

-----------------------------------------------------------------------------
(* What the descriptor ledger has to do with the calls.                    *)

\* The allocations that a replay starts from.
SetsOf(t) == DescriptorLedger(t.pools, t.sets).sets

\* Call c of the replay t changes the set s.
Reaches(t, c, s) ==
  CASE c.op = "UpdateDescriptorSets" ->
         \/ c.count > 0 /\ \E i \in DOMAIN t.reads :
              t.reads[i].source = c.source /\ \E n \in DOMAIN t.reads[i].writes : t.reads[i].writes[n].set = s
         \/ \E n \in DOMAIN c.copies : c.copies[n].to.set = s
    [] c.op = "FreeDescriptorSets" -> \E n \in DOMAIN c.sets : c.sets[n] = s
    [] c.op \in {"ResetDescriptorPool", "DestroyDescriptorPool"} -> c.pool = SetsOf(t)[s].allocation.pool
    [] OTHER -> FALSE

\* No call of h from the j-th to the n-th changes one of the sets.
Spared(t, h, j, n, sets) == \A i \in j .. n : \A s \in sets : ~Reaches(t, h[i], s)

\* Call j of h is the last of the first n that records the buffer b.
Records(c, b) == c.op = "RecordCommandBuffer" /\ c.buffer = b
IsLast(h, n, b, j) ==
  /\ j \in 1 .. n /\ Records(h[j], b)
  /\ \A i \in 1 .. n : Records(h[i], b) => i <= j

\* Call c proves that a submission to the queue, with the fence, is over.
Ended(t, c, queue, fence) ==
  \/ c.op = "QueueWaitIdle" /\ c.queue = queue
  \/ c.op = "DeviceWaitIdle" /\ c.device = t.queues[queue].device
  \/ c.op = "WaitForFences" /\ c.all /\ c.timeout = Whole /\ c.device = t.queues[queue].device /\ fence \in c.fences

\* The ledger knows the sets of the replay, and counts what is in flight.
Counted(t, d, inflight) ==
  /\ IsLedger(d) /\ d.ok
  /\ DOMAIN d.sets = DOMAIN SetsOf(t)
  /\ \A s \in DOMAIN d.sets : d.sets[s].allocation = SetsOf(t)[s].allocation
  /\ \A r \in DOMAIN d.recordings :
       /\ r \in DOMAIN t.recordings
       /\ d.recordings[r].sets = t.recordings[r].bound /\ t.recordings[r].bound \subseteq DOMAIN d.sets
       /\ d.recordings[r].pending = Cardinality(UsesOf(inflight, r))
  /\ IsFiniteSet(inflight)
  /\ \A p \in inflight : p.recording \in DOMAIN d.recordings

\* What is active is the last recording, whose sets hold while it is valid.
ActiveHolds(t, d, active, h) ==
  \A b \in DOMAIN active :
    /\ active[b] \in DOMAIN d.recordings
    /\ t.recordings[active[b]].buffer = b /\ t.recordings[active[b]].read
    /\ \E j : /\ IsLast(h, Len(h), b, j) /\ h[j].recording = active[b]
              /\ d.recordings[active[b]].valid => Spared(t, h, j, Len(h), t.recordings[active[b]].bound)

\* The places of what is in flight are of earlier calls.
Earlier(inflight, h) == \A p \in inflight : p.place[1] \in 1 .. Len(h)

\* A row of an execution, and what became of it.
RowOk(t, row, h) ==
  /\ row.step \in 1 .. Len(h)
  /\ t.recordings[row.selection.recording].bound \subseteq DOMAIN SetsOf(t)
  /\ \A plan \in row.plans : plan.set \in t.recordings[row.selection.recording].bound
Over(t, row, h) ==
  \E j : /\ IsLast(h, row.step - 1, row.selection.buffer, j)
         /\ \E k \in row.step + 1 .. Len(h) :
              /\ Ended(t, h[k], row.selection.queue, h[row.step].fence)
              /\ Spared(t, h, j, k, t.recordings[row.selection.recording].bound)
InFlight(t, d, active, inflight, row, h) ==
  /\ \E p \in inflight : /\ p.recording = row.selection.recording /\ p.queue = row.selection.queue
                         /\ p.device = t.queues[row.selection.queue].device /\ p.fence = h[row.step].fence
  /\ row.selection.buffer \in DOMAIN active
  /\ active[row.selection.buffer] = row.selection.recording
  /\ d.recordings[row.selection.recording].valid
  /\ \E j : IsLast(h, row.step - 1, row.selection.buffer, j) /\ IsLast(h, Len(h), row.selection.buffer, j)
RowHolds(t, d, active, inflight, row, h) ==
  RowOk(t, row, h) /\ (Over(t, row, h) \/ InFlight(t, d, active, inflight, row, h))
RowsHold(t, d, active, inflight, rows, h) ==
  \A n \in DOMAIN rows : RowHolds(t, d, active, inflight, rows[n], h)

\* A call is one of the replay.
CallsOf(t) == ToSet(t.initial) \cup t.frame

Holds(t, d, active, inflight, rows, h) ==
  /\ Counted(t, d, inflight) /\ ActiveHolds(t, d, active, h)
  /\ Earlier(inflight, h) /\ RowsHold(t, d, active, inflight, rows, h)

\* g is h with one more call c.
Longer(h, c, g) ==
  /\ Len(h) \in Nat /\ Len(g) = Len(h) + 1
  /\ \A i \in 1 .. Len(h) : g[i] = h[i]
  /\ g[Len(h) + 1] = c

\* A call that is appended.
LEMMA AppendedLonger ==
  ASSUME NEW S, NEW h \in Seq(S), NEW c \in S
  PROVE  Longer(h, c, Append(h, c)) /\ Append(h, c) \in Seq(S)
PROOF
<1>1. /\ Append(h, c) \in Seq(S) /\ Len(Append(h, c)) = Len(h) + 1 /\ Len(h) \in Nat
      /\ DOMAIN h = 1 .. Len(h) /\ Append(h, c)[Len(h) + 1] = c
      /\ \A i \in DOMAIN h : Append(h, c)[i] = h[i]
  OBVIOUS
<1> QED BY <1>1 DEF Longer

\* The last recording is one.
LEMMA OnlyLast ==
  ASSUME NEW h, NEW n \in Nat, NEW b, NEW i, NEW j, IsLast(h, n, b, i), IsLast(h, n, b, j)
  PROVE  i = j
PROOF
<1>1. i \in 1 .. n /\ j \in 1 .. n /\ i <= j /\ j <= i BY DEF IsLast
<1> QED BY <1>1

\* Calls that follow do not change what came before.
LEMMA LastKept ==
  ASSUME NEW h, NEW c, NEW g, Longer(h, c, g), NEW n \in 0 .. Len(h), NEW b, NEW j, IsLast(h, n, b, j)
  PROVE  IsLast(g, n, b, j)
PROOF
<1>1. \A i \in 1 .. n : i \in 1 .. Len(h) /\ g[i] = h[i] BY DEF Longer
<1> QED BY <1>1 DEF IsLast

\* A call that does not record the buffer leaves its last recording.
LEMMA LastNext ==
  ASSUME NEW h, NEW c, NEW g, Longer(h, c, g), NEW b, ~Records(c, b), NEW j, IsLast(h, Len(h), b, j)
  PROVE  IsLast(g, Len(g), b, j)
PROOF
<1>1. \A i \in 1 .. Len(g) : i \in 1 .. Len(h) \/ i = Len(h) + 1 BY DEF Longer
<1>2. j \in 1 .. Len(h) /\ j \in 1 .. Len(g) /\ Records(g[j], b) BY DEF IsLast, Longer
<1>3. ASSUME NEW i \in 1 .. Len(g), Records(g[i], b) PROVE i <= j
  <2>1. CASE i \in 1 .. Len(h) BY <1>3, <2>1 DEF IsLast, Longer
  <2>2. CASE i = Len(h) + 1 BY <1>3, <2>2 DEF Longer
  <2> QED BY <1>1, <2>1, <2>2
<1> QED BY <1>2, <1>3 DEF IsLast

\* A call that records the buffer is its last recording.
LEMMA LastNew ==
  ASSUME NEW h, NEW c, NEW g, Longer(h, c, g), NEW b, Records(c, b)
  PROVE  IsLast(g, Len(g), b, Len(g))
PROOF
<1>1. Len(g) \in Nat /\ Len(g) \in 1 .. Len(g) /\ g[Len(g)] = c BY DEF Longer
<1>2. \A i \in 1 .. Len(g) : i <= Len(g) BY <1>1
<1> QED BY <1>1, <1>2 DEF IsLast

\* What was spared.
LEMMA SparedKept ==
  ASSUME NEW t, NEW h, NEW c, NEW g, Longer(h, c, g), NEW j \in Nat \ {0}, NEW n \in 0 .. Len(h), NEW sets,
         Spared(t, h, j, n, sets)
  PROVE  Spared(t, g, j, n, sets)
PROOF
<1>1. \A i \in j .. n : i \in 1 .. Len(h) /\ g[i] = h[i] BY DEF Longer
<1> QED BY <1>1 DEF Spared

\* And is spared by one more call.
LEMMA SparedNext ==
  ASSUME NEW t, NEW h, NEW c, NEW g, Longer(h, c, g), NEW j \in Nat \ {0}, NEW sets,
         Spared(t, h, j, Len(h), sets), \A s \in sets : ~Reaches(t, c, s)
  PROVE  Spared(t, g, j, Len(g), sets)
PROOF
<1>1. \A i \in j .. Len(g) : (i \in j .. Len(h) /\ i \in 1 .. Len(h)) \/ i = Len(h) + 1 BY DEF Longer
<1>2. ASSUME NEW i \in j .. Len(g), NEW s \in sets PROVE ~Reaches(t, g[i], s)
  <2>1. CASE i \in j .. Len(h) /\ i \in 1 .. Len(h) BY <2>1 DEF Spared, Longer
  <2>2. CASE i = Len(h) + 1 BY <2>2 DEF Longer
  <2> QED BY <1>1, <2>1, <2>2
<1> QED BY <1>2 DEF Spared

\* What is over stays over.
LEMMA OverKept ==
  ASSUME NEW t, NEW h, NEW c, NEW g, Longer(h, c, g), NEW row, RowOk(t, row, h)
  PROVE  RowOk(t, row, g) /\ g[row.step] = h[row.step] /\ (Over(t, row, h) => Over(t, row, g))
PROOF
<1>1. row.step \in 1 .. Len(h) /\ row.step \in 1 .. Len(g) /\ row.step - 1 \in 0 .. Len(h)
  BY DEF RowOk, Longer
<1>2. g[row.step] = h[row.step] BY <1>1 DEF Longer
<1>3. RowOk(t, row, g) BY <1>1 DEF RowOk
<1>4. ASSUME Over(t, row, h) PROVE Over(t, row, g)
  <2>1. PICK j : /\ IsLast(h, row.step - 1, row.selection.buffer, j)
                 /\ \E k \in row.step + 1 .. Len(h) :
                      /\ Ended(t, h[k], row.selection.queue, h[row.step].fence)
                      /\ Spared(t, h, j, k, t.recordings[row.selection.recording].bound)
    BY <1>4 DEF Over
  <2>2. PICK k \in row.step + 1 .. Len(h) :
                      /\ Ended(t, h[k], row.selection.queue, h[row.step].fence)
                      /\ Spared(t, h, j, k, t.recordings[row.selection.recording].bound)
    BY <2>1
  <2>3. j \in Nat \ {0} BY <2>1 DEF IsLast
  <2>4. k \in 0 .. Len(h) /\ k \in 1 .. Len(h) /\ k \in row.step + 1 .. Len(g)
    <3>1. Len(h) \in Nat /\ Len(g) = Len(h) + 1 BY DEF Longer
    <3> QED BY <1>1, <3>1
  <2>5. g[k] = h[k] BY <2>4 DEF Longer
  <2>6. IsLast(g, row.step - 1, row.selection.buffer, j) BY <1>1, <2>1, LastKept
  <2>7. Spared(t, g, j, k, t.recordings[row.selection.recording].bound) BY <2>2, <2>3, <2>4, SparedKept
  <2> QED BY <1>2, <2>2, <2>4, <2>5, <2>6, <2>7 DEF Over
<1> QED BY <1>2, <1>3, <1>4

\* What goes on in flight past a call.
LEMMA InFlightKept ==
  ASSUME NEW t, NEW d, NEW e, NEW active, NEW now, NEW inflight, NEW left, NEW h, NEW c, NEW g,
         Longer(h, c, g), NEW row, RowOk(t, row, h), InFlight(t, d, active, inflight, row, h),
         ~Records(c, row.selection.buffer),
         row.selection.buffer \in DOMAIN now, now[row.selection.buffer] = active[row.selection.buffer],
         e.recordings[row.selection.recording].valid,
         \E p \in left : /\ p.recording = row.selection.recording /\ p.queue = row.selection.queue
                         /\ p.device = t.queues[row.selection.queue].device /\ p.fence = h[row.step].fence
  PROVE  InFlight(t, e, now, left, row, g)
PROOF
<1>1. g[row.step] = h[row.step] /\ row.step - 1 \in 0 .. Len(h)
  BY OverKept DEF RowOk, Longer
<1>2. PICK j : IsLast(h, row.step - 1, row.selection.buffer, j) /\ IsLast(h, Len(h), row.selection.buffer, j)
  BY DEF InFlight
<1>3. IsLast(g, row.step - 1, row.selection.buffer, j) BY <1>1, <1>2, LastKept
<1>4. IsLast(g, Len(g), row.selection.buffer, j) BY <1>2, LastNext
<1>5. active[row.selection.buffer] = row.selection.recording BY DEF InFlight
<1> QED BY <1>1, <1>3, <1>4, <1>5 DEF InFlight

\* And what is over as of the call.
LEMMA OverNow ==
  ASSUME NEW t, NEW d, NEW active, NEW inflight, NEW h, NEW c, NEW g, Longer(h, c, g),
         ActiveHolds(t, d, active, h),
         NEW row, RowOk(t, row, h), InFlight(t, d, active, inflight, row, h),
         \A s : ~Reaches(t, c, s), ~Records(c, row.selection.buffer),
         Ended(t, c, row.selection.queue, h[row.step].fence)
  PROVE  Over(t, row, g)
PROOF
<1> DEFINE b == row.selection.buffer  r == row.selection.recording
<1>1. g[row.step] = h[row.step] /\ row.step - 1 \in 0 .. Len(h) /\ row.step \in 1 .. Len(h)
  BY OverKept DEF RowOk, Longer
<1>2. PICK j : IsLast(h, row.step - 1, b, j) /\ IsLast(h, Len(h), b, j) BY DEF InFlight
<1>3. b \in DOMAIN active /\ active[b] = r /\ d.recordings[r].valid BY DEF InFlight
<1>4. PICK i : IsLast(h, Len(h), b, i) /\ Spared(t, h, i, Len(h), t.recordings[r].bound)
  BY <1>3 DEF ActiveHolds
<1>5. Len(h) \in Nat BY DEF Longer
<1>6. i = j BY <1>2, <1>4, <1>5, OnlyLast
<1>7. j \in Nat \ {0} BY <1>2 DEF IsLast
<1>8. Spared(t, g, j, Len(g), t.recordings[r].bound) BY <1>4, <1>6, <1>7, SparedNext
<1>9. IsLast(g, row.step - 1, b, j) BY <1>1, <1>2, LastKept
<1>10. Len(g) \in row.step + 1 .. Len(g) /\ g[Len(g)] = c BY <1>1, <1>5 DEF Longer
<1> QED BY <1>1, <1>8, <1>9, <1>10 DEF Over

\* What is in flight counts.
LEMMA FlightCounts ==
  ASSUME NEW t, NEW d, NEW inflight, Counted(t, d, inflight), NEW p \in inflight
  PROVE  p.recording \in DOMAIN d.recordings /\ d.recordings[p.recording].pending # 0
PROOF
<1> DEFINE uses == UsesOf(inflight, p.recording)
<1>1. p.recording \in DOMAIN d.recordings BY DEF Counted
<1>2. d.recordings[p.recording].pending = Cardinality(uses) BY <1>1 DEF Counted
<1>3. p \in uses /\ uses \subseteq inflight BY DEF UsesOf
<1>4. IsFiniteSet(uses) BY <1>3, FS_Subset DEF Counted
<1>5. Cardinality(uses) # 0 BY <1>3, <1>4, FS_EmptySet
<1> QED BY <1>1, <1>2, <1>5

\* A call that records nothing and reaches no set but those that moved.
LEMMA QuietHolds ==
  ASSUME NEW t, NEW d, NEW active, NEW inflight, NEW rows, NEW h, Holds(t, d, active, inflight, rows, h),
         NEW c, NEW g, Longer(h, c, g), c.op # "RecordCommandBuffer",
         NEW e, NEW T, Moves(d, e, T), \A s \in DOMAIN d.sets : Reaches(t, c, s) => s \in T
  PROVE  Holds(t, e, active, inflight, rows, g)
PROOF
<1>1. ASSUME NEW r \in DOMAIN d.recordings
      PROVE  /\ r \in DOMAIN e.recordings /\ r \in DOMAIN t.recordings
             /\ e.recordings[r].sets = t.recordings[r].bound
             /\ t.recordings[r].bound \subseteq DOMAIN d.sets
             /\ e.recordings[r].pending = d.recordings[r].pending
             /\ e.recordings[r].valid => d.recordings[r].valid /\ \A s \in t.recordings[r].bound : ~Reaches(t, c, s)
             /\ d.recordings[r].valid /\ d.recordings[r].pending # 0 => e.recordings[r].valid
  <2>1. /\ d.recordings[r].sets = t.recordings[r].bound /\ t.recordings[r].bound \subseteq DOMAIN d.sets
        /\ r \in DOMAIN t.recordings
    BY DEF Holds, Counted
  <2>2. /\ r \in DOMAIN e.recordings
        /\ e.recordings[r].sets = d.recordings[r].sets
        /\ e.recordings[r].pending = d.recordings[r].pending
        /\ e.recordings[r].valid <=> d.recordings[r].valid /\ d.recordings[r].sets \cap T = {}
        /\ d.recordings[r].sets \cap T # {} => d.recordings[r].pending = 0
    BY DEF Moves
  <2> QED BY <2>1, <2>2
<1>2. DOMAIN e.recordings = DOMAIN d.recordings /\ DOMAIN e.sets = DOMAIN d.sets /\ IsLedger(e)
      /\ \A s \in DOMAIN d.sets : e.sets[s].allocation = d.sets[s].allocation
  BY DEF Moves
<1>3. \A b : ~Records(c, b) BY DEF Records
<1>4. Len(h) \in Nat /\ Len(g) = Len(h) + 1 BY DEF Longer
<1>5. Counted(t, e, inflight)
  <2>1. \A r \in DOMAIN d.recordings : d.recordings[r].pending = Cardinality(UsesOf(inflight, r))
    BY DEF Holds, Counted
  <2>2. /\ DOMAIN d.sets = DOMAIN SetsOf(t)
        /\ \A s \in DOMAIN d.sets : d.sets[s].allocation = SetsOf(t)[s].allocation
        /\ IsFiniteSet(inflight) /\ \A p \in inflight : p.recording \in DOMAIN d.recordings
    BY DEF Holds, Counted
  <2>3. e.ok BY DEF Moves
  <2> QED BY <1>1, <1>2, <2>1, <2>2, <2>3 DEF Counted
<1>6. ActiveHolds(t, e, active, g)
  <2> SUFFICES ASSUME NEW b \in DOMAIN active
               PROVE  /\ active[b] \in DOMAIN e.recordings
                      /\ t.recordings[active[b]].buffer = b /\ t.recordings[active[b]].read
                      /\ \E j : /\ IsLast(g, Len(g), b, j) /\ g[j].recording = active[b]
                                /\ e.recordings[active[b]].valid => Spared(t, g, j, Len(g), t.recordings[active[b]].bound)
    BY DEF ActiveHolds
  <2>1. /\ active[b] \in DOMAIN d.recordings
        /\ t.recordings[active[b]].buffer = b /\ t.recordings[active[b]].read
    BY DEF Holds, ActiveHolds
  <2>2. PICK j : /\ IsLast(h, Len(h), b, j) /\ h[j].recording = active[b]
                 /\ d.recordings[active[b]].valid => Spared(t, h, j, Len(h), t.recordings[active[b]].bound)
    BY DEF Holds, ActiveHolds
  <2>3. j \in 1 .. Len(h) /\ j \in Nat \ {0} /\ g[j] = h[j] BY <2>2 DEF IsLast, Longer
  <2>4. IsLast(g, Len(g), b, j) BY <1>3, <2>2, LastNext
  <2>5. e.recordings[active[b]].valid => Spared(t, g, j, Len(g), t.recordings[active[b]].bound)
    BY <1>1, <2>1, <2>2, <2>3, SparedNext
  <2> QED BY <1>2, <2>1, <2>2, <2>3, <2>4, <2>5
<1>7. Earlier(inflight, g) BY <1>4 DEF Holds, Earlier
<1>8. RowsHold(t, e, active, inflight, rows, g)
  <2> SUFFICES ASSUME NEW n \in DOMAIN rows PROVE RowHolds(t, e, active, inflight, rows[n], g)
    BY DEF RowsHold
  <2>1. PICK row : row = rows[n] OBVIOUS
  <2>2. RowOk(t, row, h) /\ (Over(t, row, h) \/ InFlight(t, d, active, inflight, row, h))
    BY <2>1 DEF Holds, RowsHold, RowHolds
  <2>3. RowOk(t, row, g) /\ (Over(t, row, h) => Over(t, row, g)) BY <2>2, OverKept
  <2>4. ASSUME InFlight(t, d, active, inflight, row, h) PROVE InFlight(t, e, active, inflight, row, g)
    <3>1. PICK p \in inflight : /\ p.recording = row.selection.recording /\ p.queue = row.selection.queue
                                /\ p.device = t.queues[row.selection.queue].device /\ p.fence = h[row.step].fence
      BY <2>4 DEF InFlight
    <3>2. p.recording \in DOMAIN d.recordings /\ d.recordings[p.recording].pending # 0
      BY <3>1, FlightCounts DEF Holds
    <3>3. row.selection.buffer \in DOMAIN active /\ d.recordings[row.selection.recording].valid
      BY <2>4 DEF InFlight
    <3>4. e.recordings[row.selection.recording].valid BY <1>1, <3>1, <3>2, <3>3
    <3> QED BY <1>3, <2>2, <2>4, <3>1, <3>3, <3>4, InFlightKept
  <2> QED BY <2>1, <2>2, <2>3, <2>4 DEF RowHolds
<1> QED BY <1>5, <1>6, <1>7, <1>8 DEF Holds

\* Calls that change no set and record nothing.
LEMMA UploadQuiet ==
  ASSUME NEW c, c.op \in UploadCalls, NEW t
  PROVE  (\A s : ~Reaches(t, c, s)) /\ (\A b : ~Records(c, b)) /\ c.op # "RecordCommandBuffer"
BY DEF UploadCalls, Reaches, Records

\* Submissions that are over are taken out of the ledger.
Rests(t, d, e, left) ==
  /\ Counted(t, e, left)
  /\ DOMAIN e.recordings = DOMAIN d.recordings
  /\ \A r \in DOMAIN d.recordings : e.recordings[r].valid = d.recordings[r].valid

\* The ledger counts what is left in flight.
LEMMA RestCounted ==
  ASSUME NEW t, NEW d, NEW inflight, NEW over, NEW e, Counted(t, d, inflight),
         over \subseteq inflight, e = Completed(d, over), e.ok
  PROVE  Rests(t, d, e, inflight \ over)
PROOF
<1>1. IsFiniteSet(inflight) /\ IsLedger(d) /\ d.ok BY DEF Counted
<1>2. IsFiniteSet(over) BY <1>1, FS_Subset
<1>3. /\ IsLedger(e) /\ e.sets = d.sets /\ DOMAIN e.recordings = DOMAIN d.recordings
      /\ \A x \in DOMAIN d.recordings :
           e.recordings[x] = [sets |-> d.recordings[x].sets,
                              pending |-> d.recordings[x].pending - Cardinality(UsesOf(over, x)),
                              valid |-> d.recordings[x].valid]
  BY <1>1, <1>2, CompletedIs
<1>4. ASSUME NEW r \in DOMAIN d.recordings
      PROVE  /\ e.recordings[r].sets = d.recordings[r].sets
             /\ e.recordings[r].valid = d.recordings[r].valid
             /\ e.recordings[r].pending = Cardinality(UsesOf(inflight \ over, r))
  <2>1. PICK all : all = UsesOf(inflight, r) OBVIOUS
  <2>2. PICK gone : gone = UsesOf(over, r) OBVIOUS
  <2>3. UsesOf(inflight \ over, r) = all \ gone /\ gone \subseteq all /\ all \cap gone = gone
        /\ all \subseteq inflight
    BY <2>1, <2>2 DEF UsesOf
  <2>4. IsFiniteSet(all) BY <1>1, <2>3, FS_Subset
  <2>5. Cardinality(all \ gone) = Cardinality(all) - Cardinality(gone) BY <2>3, <2>4, FS_Difference
  <2>6. d.recordings[r].pending = Cardinality(all) BY <2>1 DEF Counted
  <2>7. PICK n : n = d.recordings[r].pending - Cardinality(gone) OBVIOUS
  <2>8. e.recordings[r] = [sets |-> d.recordings[r].sets, pending |-> n, valid |-> d.recordings[r].valid]
    BY <1>3, <2>2, <2>7
  <2>9. n = Cardinality(UsesOf(inflight \ over, r)) BY <2>3, <2>5, <2>6, <2>7
  <2> QED BY <2>8, <2>9
<1>5. IsFiniteSet(inflight \ over) BY <1>1, FS_Subset
<1>6. \A p \in inflight \ over : p.recording \in DOMAIN e.recordings BY <1>3 DEF Counted
<1>7. Counted(t, e, inflight \ over)
  <2>1. /\ DOMAIN d.sets = DOMAIN SetsOf(t)
        /\ \A s \in DOMAIN d.sets : d.sets[s].allocation = SetsOf(t)[s].allocation
        /\ \A r \in DOMAIN d.recordings :
             /\ r \in DOMAIN t.recordings
             /\ d.recordings[r].sets = t.recordings[r].bound /\ t.recordings[r].bound \subseteq DOMAIN d.sets
    BY DEF Counted
  <2> QED BY <1>3, <1>4, <1>5, <1>6, <2>1 DEF Counted
<1> QED BY <1>3, <1>4, <1>7 DEF Rests

\* A call of the uploads that proves submissions over.
LEMMA CompletedHolds ==
  ASSUME NEW t, NEW d, NEW active, NEW inflight, NEW rows, NEW h, Holds(t, d, active, inflight, rows, h),
         NEW c, NEW g, Longer(h, c, g), c.op \in UploadCalls,
         NEW over, over = {p \in inflight : Done(c, p)}, NEW e, e = Completed(d, over), e.ok
  PROVE  Holds(t, e, active, inflight \ over, rows, g)
PROOF
<1>1. /\ Counted(t, e, inflight \ over)
      /\ DOMAIN e.recordings = DOMAIN d.recordings
      /\ \A r \in DOMAIN d.recordings : e.recordings[r].valid = d.recordings[r].valid
  <2>1. over \subseteq inflight OBVIOUS
  <2>2. Counted(t, d, inflight) BY DEF Holds
  <2>3. Rests(t, d, e, inflight \ over) BY <2>1, <2>2, RestCounted
  <2> QED BY <2>3 DEF Rests
<1>2. (\A s : ~Reaches(t, c, s)) /\ (\A b : ~Records(c, b)) BY UploadQuiet
<1>3. Len(h) \in Nat /\ Len(g) = Len(h) + 1 BY DEF Longer
<1>4. ActiveHolds(t, e, active, g)
  <2> SUFFICES ASSUME NEW b \in DOMAIN active
               PROVE  /\ active[b] \in DOMAIN e.recordings
                      /\ t.recordings[active[b]].buffer = b /\ t.recordings[active[b]].read
                      /\ \E j : /\ IsLast(g, Len(g), b, j) /\ g[j].recording = active[b]
                                /\ e.recordings[active[b]].valid => Spared(t, g, j, Len(g), t.recordings[active[b]].bound)
    BY DEF ActiveHolds
  <2>1. /\ active[b] \in DOMAIN d.recordings
        /\ t.recordings[active[b]].buffer = b /\ t.recordings[active[b]].read
    BY DEF Holds, ActiveHolds
  <2>2. PICK j : /\ IsLast(h, Len(h), b, j) /\ h[j].recording = active[b]
                 /\ d.recordings[active[b]].valid => Spared(t, h, j, Len(h), t.recordings[active[b]].bound)
    BY DEF Holds, ActiveHolds
  <2>3. j \in 1 .. Len(h) /\ j \in Nat \ {0} /\ g[j] = h[j] BY <2>2 DEF IsLast, Longer
  <2>4. IsLast(g, Len(g), b, j) BY <1>2, <2>2, LastNext
  <2>5. e.recordings[active[b]].valid => Spared(t, g, j, Len(g), t.recordings[active[b]].bound)
    BY <1>1, <1>2, <2>1, <2>2, <2>3, SparedNext
  <2> QED BY <1>1, <2>1, <2>2, <2>3, <2>4, <2>5
<1>5. Earlier(inflight \ over, g) BY <1>3 DEF Holds, Earlier
<1>6. RowsHold(t, e, active, inflight \ over, rows, g)
  <2> SUFFICES ASSUME NEW n \in DOMAIN rows PROVE RowHolds(t, e, active, inflight \ over, rows[n], g)
    BY DEF RowsHold
  <2>1. PICK row : row = rows[n] OBVIOUS
  <2>2. RowOk(t, row, h) /\ (Over(t, row, h) \/ InFlight(t, d, active, inflight, row, h))
    BY <2>1 DEF Holds, RowsHold, RowHolds
  <2>3. RowOk(t, row, g) /\ (Over(t, row, h) => Over(t, row, g)) BY <2>2, OverKept
  <2>4. ASSUME InFlight(t, d, active, inflight, row, h)
        PROVE  InFlight(t, e, active, inflight \ over, row, g) \/ Over(t, row, g)
    <3>1. PICK p \in inflight : /\ p.recording = row.selection.recording /\ p.queue = row.selection.queue
                                /\ p.device = t.queues[row.selection.queue].device /\ p.fence = h[row.step].fence
      BY <2>4 DEF InFlight
    <3>2. p.recording \in DOMAIN d.recordings BY <3>1, FlightCounts DEF Holds
    <3>3. row.selection.buffer \in DOMAIN active /\ d.recordings[row.selection.recording].valid
      BY <2>4 DEF InFlight
    <3>4. e.recordings[row.selection.recording].valid BY <1>1, <3>1, <3>2, <3>3
    <3>5. CASE p \notin over BY <1>2, <2>2, <2>4, <3>1, <3>3, <3>4, <3>5, InFlightKept
    <3>6. CASE p \in over
      <4>1. Done(c, p) BY <3>6
      <4>2. Ended(t, c, row.selection.queue, h[row.step].fence) BY <3>1, <4>1 DEF Done, Ended
      <4>3. ActiveHolds(t, d, active, h) BY DEF Holds
      <4> QED BY <1>2, <2>2, <2>4, <4>2, <4>3, OverNow
    <3> QED BY <3>5, <3>6
  <2> QED BY <2>1, <2>2, <2>3, <2>4 DEF RowHolds
<1> QED BY <1>1, <1>4, <1>5, <1>6 DEF Holds

\* The replay before its first call.
LEMMA InitHolds ==
  ASSUME NEW t, NEW d, d = DescriptorLedger(t.pools, t.sets), d.ok
  PROVE  Holds(t, d, <<>>, {}, <<>>, <<>>)
PROOF
<1> DEFINE names == {t.sets[i].name : i \in DOMAIN t.sets}
<1>1. PICK ss : ss = [s \in names |->
                        [allocation |-> t.sets[CHOOSE i \in DOMAIN t.sets : t.sets[i].name = s],
                         entries |-> <<>>, alive |-> TRUE]]
  OBVIOUS
<1>2. PICK fit : fit = AllocationsFit(t.pools, t.sets) OBVIOUS
<1>3. d = [ok |-> fit, sets |-> ss, recordings |-> <<>>, updates |-> 0] BY <1>1, <1>2 DEF DescriptorLedger
<1>4. d.ok \in BOOLEAN
  <2>1. fit \in BOOLEAN BY <1>2, Zenon DEF AllocationsFit
  <2> QED BY <1>3, <2>1
<1>5. \A s \in DOMAIN ss : SetOk(ss[s])
  <2>1. ASSUME NEW s \in DOMAIN ss PROVE SetOk(ss[s])
    <3>1. PICK a : a = t.sets[CHOOSE i \in DOMAIN t.sets : t.sets[i].name = s] OBVIOUS
    <3>2. ss[s] = [allocation |-> a, entries |-> <<>>, alive |-> TRUE] BY <1>1, <3>1
    <3>3. DOMAIN <<>> = {} OBVIOUS
    <3> QED BY <3>2, <3>3 DEF SetOk
  <2> QED BY <2>1
<1>6. d.recordings = <<>> /\ d.sets = ss BY <1>3
<1>7. DOMAIN d.recordings = {}
  <2>1. DOMAIN <<>> = {} OBVIOUS
  <2> QED BY <1>6, <2>1
<1>8. IsLedger(d)
  <2>1. d = [ok |-> d.ok, sets |-> d.sets, recordings |-> d.recordings, updates |-> d.updates] BY <1>3
  <2> QED BY <1>4, <1>5, <1>6, <1>7, <2>1 DEF IsLedger
<1>9. Counted(t, d, {})
  <2>1. d.sets = SetsOf(t) BY DEF SetsOf
  <2>2. IsFiniteSet({}) BY FS_EmptySet
  <2> QED BY <1>7, <1>8, <2>1, <2>2 DEF Counted
<1>10. DOMAIN <<>> = {} OBVIOUS
<1>11. ActiveHolds(t, d, <<>>, <<>>) /\ RowsHold(t, d, <<>>, {}, <<>>, <<>>)
  BY <1>10 DEF ActiveHolds, RowsHold
<1>12. Earlier({}, <<>>) BY DEF Earlier
<1> QED BY <1>9, <1>11, <1>12 DEF Holds

\* The sets that a call reaches are among those that it moved.
CoversCall(t, c, d, e) == \E T : Moves(d, e, T) /\ \A s \in DOMAIN d.sets : Reaches(t, c, s) => s \in T

\* A call that moves every set that it reaches.
LEMMA CoveredHolds ==
  ASSUME NEW t, NEW d, NEW active, NEW inflight, NEW rows, NEW h, NEW c, NEW g, NEW e,
         Holds(t, d, active, inflight, rows, h), Longer(h, c, g), c.op # "RecordCommandBuffer", CoversCall(t, c, d, e)
  PROVE  Holds(t, e, active, inflight, rows, g)
PROOF
<1>1. PICK T : Moves(d, e, T) /\ \A s \in DOMAIN d.sets : Reaches(t, c, s) => s \in T BY DEF CoversCall
<1> QED BY <1>1, QuietHolds

\* Calls that reach no set.
LEMMA QuietCovers ==
  ASSUME NEW t, NEW c, NEW d, IsLedger(d), d.ok,
         c.op \notin {"UpdateDescriptorSets", "FreeDescriptorSets", "ResetDescriptorPool", "DestroyDescriptorPool"}
  PROVE  CoversCall(t, c, d, d)
PROOF
<1>1. \A s : ~Reaches(t, c, s) BY DEF Reaches
<1>2. Moves(d, d, {}) BY MovesNothing
<1> QED BY <1>1, <1>2 DEF CoversCall

\* An update reaches the sets that it writes and copies to, from the one read
\* that its call names.
LEMMA UpdatedCovers ==
  ASSUME theme \in Themes, NEW c, CallOk(c), c.op = "UpdateDescriptorSets", IsLedger(descriptors),
         UpdateQualified(c), NEW e, e = Updated(c), e.ok
  PROVE  CoversCall(theme, c, descriptors, e)
PROOF
<1> DEFINE writes == IF c.count = 0 THEN <<>> ELSE theme.reads[CHOOSE i \in ReadsOf(c) : TRUE].writes
           required == c.handle = NoDatabase => c.count = 0 /\ c.copies # <<>>
<1>1. c.count \in Nat /\ Len(c.copies) \in Nat /\ DOMAIN c.copies = 1 .. Len(c.copies)
  BY ListedIs DEF CallOk
<1>2. PICK w : w = writes
  <2> HIDE DEF writes
  <2> QED OBVIOUS
<1>3. PICK u : u = [device |-> c.device, writes |-> w, copies |-> c.copies] OBVIOUS
<1>4. u.writes = w /\ u.copies = c.copies BY <1>3
<1>5. PICK f : f = UpdateSets(descriptors, u, Step) OBVIOUS
<1>6. e = Checked(descriptors, required, f) BY <1>2, <1>3, <1>5 DEF Updated
<1>7. descriptors.ok /\ e = f
  <2>1. required \in BOOLEAN OBVIOUS
  <2> HIDE DEF required
  <2> QED BY <1>6, <2>1, CheckedOk
<1>8. /\ Len(w) \in Nat /\ \A i \in 1 .. Len(w) : WriteOk(w[i])
      /\ \A s : (c.count > 0 /\ \E i \in DOMAIN theme.reads :
                   theme.reads[i].source = c.source
                   /\ \E n \in DOMAIN theme.reads[i].writes : theme.reads[i].writes[n].set = s)
                => s \in WrittenBy(u, Len(w))
  <2>1. CASE c.count = 0
    <3>1. w = <<>> BY <1>2, <2>1
    <3>2. Len(w) = 0 BY <3>1
    <3> QED BY <2>1, <3>2
  <2>2. CASE c.count # 0
    <3>1. c.count > 0 BY <1>1, <2>2
    <3>2. Cardinality(ReadsOf(c)) = 1 BY <3>1 DEF UpdateQualified
    <3>3. Len(theme.reads) \in Nat /\ DOMAIN theme.reads = 1 .. Len(theme.reads)
      BY ThemesAssumption, ListedIs
    <3>4. ReadsOf(c) \subseteq DOMAIN theme.reads BY DEF ReadsOf
    <3>5. IsFiniteSet(ReadsOf(c))
      <4>1. IsFiniteSet(1 .. Len(theme.reads)) BY <3>3, FS_Interval
      <4> QED BY <3>3, <3>4, <4>1, FS_Subset
    <3>6. PICK x : ReadsOf(c) = {x} BY <3>2, <3>5, FS_Singleton
    <3>7. (CHOOSE i \in ReadsOf(c) : TRUE) = x BY <3>6
    <3>8. w = theme.reads[x].writes BY <1>2, <2>2, <3>7
    <3>9. x \in DOMAIN theme.reads BY <3>4, <3>6
    <3>10. Listed(w) BY <3>8, <3>9, ThemesAssumption
    <3>11. Len(w) \in Nat /\ DOMAIN w = 1 .. Len(w) BY <3>10, ListedIs
    <3>13. \A i \in 1 .. Len(w) : WriteOk(w[i]) BY <3>8, <3>9, <3>11, ThemesAssumption
    <3>12. ASSUME NEW s, NEW i \in DOMAIN theme.reads, theme.reads[i].source = c.source,
                  NEW n \in DOMAIN theme.reads[i].writes, theme.reads[i].writes[n].set = s
           PROVE  s \in WrittenBy(u, Len(w))
      <4>1. i \in ReadsOf(c) BY <3>12 DEF ReadsOf
      <4>2. i = x BY <3>6, <4>1
      <4>3. n \in 1 .. Len(w) /\ u.writes[n].set = s BY <1>4, <3>8, <3>11, <3>12, <4>2
      <4> QED BY <4>3 DEF WrittenBy
    <3> QED BY <3>11, <3>12, <3>13
  <2> QED BY <2>1, <2>2
<1>9. /\ Len(u.writes) \in Nat /\ Len(u.copies) \in Nat
      /\ \A i \in 1 .. Len(u.writes) : WriteOk(u.writes[i])
      /\ \A i \in 1 .. Len(u.copies) : u.copies[i].to.first \in Nat
  <2>1. \A i \in DOMAIN c.copies : c.copies[i].to.first \in Nat BY DEF CallOk
  <2> QED BY <1>1, <1>4, <1>8, <2>1
<1>10. StepMoves(descriptors, f, WrittenBy(u, Len(u.writes)) \cup CopiedBy(u, Len(u.copies)))
  BY <1>5, <1>9, UpdateStep
<1>11. PICK T : T = WrittenBy(u, Len(u.writes)) \cup CopiedBy(u, Len(u.copies)) OBVIOUS
<1>12. Moves(descriptors, e, T) BY <1>7, <1>10, <1>11 DEF StepMoves
<1>13. ASSUME NEW s, Reaches(theme, c, s) PROVE s \in T
  <2>1. \/ c.count > 0 /\ \E i \in DOMAIN theme.reads :
             theme.reads[i].source = c.source
             /\ \E n \in DOMAIN theme.reads[i].writes : theme.reads[i].writes[n].set = s
        \/ \E n \in DOMAIN c.copies : c.copies[n].to.set = s
    BY <1>13 DEF Reaches
  <2>2. CASE \E n \in DOMAIN c.copies : c.copies[n].to.set = s
    <3>1. s \in CopiedBy(u, Len(u.copies)) BY <1>1, <1>4, <2>2 DEF CopiedBy
    <3> QED BY <1>11, <3>1
  <2> QED BY <1>4, <1>8, <1>11, <2>1, <2>2
<1> QED BY <1>12, <1>13 DEF CoversCall

\* A free reaches the sets that it names, the end of a pool those of the pool.
LEMMA FreedCovers ==
  ASSUME NEW t, NEW d, NEW c, IsLedger(d), c.op = "FreeDescriptorSets", NEW e, e = FreeDescriptorSets(d, c), e.ok
  PROVE  CoversCall(t, c, d, e)
PROOF
<1>1. Moves(d, e, FreedBy(c)) BY FreeStep DEF StepMoves
<1>2. \A s : Reaches(t, c, s) => s \in FreedBy(c) BY DEF Reaches, FreedBy
<1> QED BY <1>1, <1>2 DEF CoversCall

\* A pool's sets are those that its end moves.
LEMMA PoolCovers ==
  ASSUME NEW t, NEW d, NEW c, NEW inflight, Counted(t, d, inflight),
         c.op \in {"ResetDescriptorPool", "DestroyDescriptorPool"}, NEW e, e = EndDescriptorPool(d, c), e.ok
  PROVE  CoversCall(t, c, d, e)
PROOF
<1>1. IsLedger(d) BY DEF Counted
<1>2. Moves(d, e, PoolSets(d, c)) BY <1>1, PoolStep DEF StepMoves
<1>3. ASSUME NEW s \in DOMAIN d.sets, Reaches(t, c, s) PROVE s \in PoolSets(d, c)
  <2>1. c.pool = SetsOf(t)[s].allocation.pool BY <1>3 DEF Reaches
  <2>2. d.sets[s].allocation = SetsOf(t)[s].allocation BY DEF Counted
  <2> QED BY <2>1, <2>2 DEF PoolSets
<1> QED BY <1>2, <1>3 DEF CoversCall

\* A recording that is forgotten is not in flight.
LEMMA ForgottenHolds ==
  ASSUME NEW t, NEW d, NEW active, NEW inflight, NEW rows, NEW h, Holds(t, d, active, inflight, rows, h),
         NEW b \in DOMAIN active, NEW e, e = Forget(d, active[b]), e.ok,
         NEW now, now = [x \in DOMAIN active \ {b} |-> active[x]]
  PROVE  Holds(t, e, now, inflight, rows, h)
PROOF
<1> DEFINE q == active[b]
<1>1. Counted(t, d, inflight) /\ ActiveHolds(t, d, active, h) /\ IsLedger(d)
  BY DEF Holds, Counted
<1>2. q \in DOMAIN d.recordings /\ t.recordings[q].buffer = b BY <1>1 DEF ActiveHolds
<1>3. IsLedger(e) /\ e.sets = d.sets /\ e.recordings = LeftRecordings(d, q) /\ d.recordings[q].pending = 0
  BY <1>1, <1>2, ForgetIs DEF LedgerWith
<1>4. DOMAIN e.recordings = DOMAIN d.recordings \ {q}
      /\ \A x \in DOMAIN d.recordings \ {q} : e.recordings[x] = d.recordings[x]
  BY <1>3 DEF LeftRecordings
<1>5. \A p \in inflight : p.recording \in DOMAIN d.recordings \ {q}
  BY <1>1, <1>3, FlightCounts
<1>6. Counted(t, e, inflight)
  <2>1. /\ DOMAIN d.sets = DOMAIN SetsOf(t)
        /\ \A s \in DOMAIN d.sets : d.sets[s].allocation = SetsOf(t)[s].allocation
        /\ IsFiniteSet(inflight)
        /\ \A r \in DOMAIN d.recordings :
             /\ r \in DOMAIN t.recordings
             /\ d.recordings[r].sets = t.recordings[r].bound /\ t.recordings[r].bound \subseteq DOMAIN d.sets
             /\ d.recordings[r].pending = Cardinality(UsesOf(inflight, r))
    BY <1>1 DEF Counted
  <2> HIDE DEF q
  <2> QED BY <1>3, <1>4, <1>5, <2>1 DEF Counted
<1>7. ASSUME NEW x \in DOMAIN active, x # b
      PROVE  /\ active[x] \in DOMAIN e.recordings /\ e.recordings[active[x]] = d.recordings[active[x]]
             /\ x \in DOMAIN now /\ now[x] = active[x]
  <2>1. active[x] \in DOMAIN d.recordings /\ t.recordings[active[x]].buffer = x BY <1>1 DEF ActiveHolds
  <2>2. active[x] # q BY <1>2, <1>7, <2>1
  <2> QED BY <1>4, <1>7, <2>1, <2>2
<1>8. ActiveHolds(t, e, now, h)
  <2> SUFFICES ASSUME NEW x \in DOMAIN now
               PROVE  /\ now[x] \in DOMAIN e.recordings
                      /\ t.recordings[now[x]].buffer = x /\ t.recordings[now[x]].read
                      /\ \E j : /\ IsLast(h, Len(h), x, j) /\ h[j].recording = now[x]
                                /\ e.recordings[now[x]].valid => Spared(t, h, j, Len(h), t.recordings[now[x]].bound)
    BY DEF ActiveHolds
  <2>1. x \in DOMAIN active /\ x # b OBVIOUS
  <2>2. /\ t.recordings[active[x]].buffer = x /\ t.recordings[active[x]].read
        /\ \E j : /\ IsLast(h, Len(h), x, j) /\ h[j].recording = active[x]
                  /\ d.recordings[active[x]].valid => Spared(t, h, j, Len(h), t.recordings[active[x]].bound)
    BY <1>1, <2>1 DEF ActiveHolds
  <2>3. /\ active[x] \in DOMAIN e.recordings /\ e.recordings[active[x]] = d.recordings[active[x]]
        /\ now[x] = active[x]
    BY <1>7, <2>1
  <2> QED BY <2>2, <2>3
<1>9. RowsHold(t, e, now, inflight, rows, h)
  <2> SUFFICES ASSUME NEW n \in DOMAIN rows PROVE RowHolds(t, e, now, inflight, rows[n], h)
    BY DEF RowsHold
  <2>1. PICK row : row = rows[n] OBVIOUS
  <2>2. RowHolds(t, d, active, inflight, row, h) BY <2>1 DEF Holds, RowsHold
  <2>3. ASSUME InFlight(t, d, active, inflight, row, h) PROVE InFlight(t, e, now, inflight, row, h)
    <3>1. /\ row.selection.buffer \in DOMAIN active
          /\ active[row.selection.buffer] = row.selection.recording
          /\ d.recordings[row.selection.recording].valid
          /\ \E p \in inflight : p.recording = row.selection.recording
      BY <2>3 DEF InFlight
    <3>2. row.selection.recording # q BY <1>5, <3>1
    <3>3. row.selection.buffer # b BY <3>1, <3>2
    <3>4. /\ row.selection.buffer \in DOMAIN now /\ now[row.selection.buffer] = row.selection.recording
          /\ e.recordings[row.selection.recording].valid
      BY <1>7, <3>1, <3>3
    <3> HIDE DEF q
    <3> QED BY <2>3, <3>4 DEF InFlight
  <2> QED BY <2>1, <2>2, <2>3 DEF RowHolds
<1> QED BY <1>6, <1>8, <1>9 DEF Holds

\* A recording that is made now; its buffer had none.
LEMMA RecordedHolds ==
  ASSUME NEW t, NEW d, NEW active, NEW inflight, NEW rows, NEW h, Holds(t, d, active, inflight, rows, h),
         NEW c, NEW g, Longer(h, c, g), c.op = "RecordCommandBuffer", c.buffer \notin DOMAIN active,
         NEW r, r = c.recording, r \in DOMAIN t.recordings, t.recordings[r].read, t.recordings[r].buffer = c.buffer,
         NEW e, e = Recorded(d, r, t.recordings[r].bound), e.ok,
         NEW now, now = Put(active, c.buffer, r)
  PROVE  Holds(t, e, now, inflight, rows, g)
PROOF
<1>1. Counted(t, d, inflight) /\ ActiveHolds(t, d, active, h) /\ IsLedger(d)
  BY DEF Holds, Counted
<1>2. PICK b : b = c.buffer OBVIOUS
<1>3. /\ IsLedger(e) /\ e.sets = d.sets /\ e.recordings = NewRecordings(d, r, t.recordings[r].bound)
      /\ r \in DOMAIN d.recordings => d.recordings[r].pending = 0
      /\ t.recordings[r].bound \subseteq DOMAIN d.sets
  BY <1>1, RecordedIs DEF LedgerWith
<1>4. /\ DOMAIN e.recordings = DOMAIN d.recordings \cup {r}
      /\ e.recordings[r] = [sets |-> t.recordings[r].bound, pending |-> 0, valid |-> TRUE]
      /\ \A x \in DOMAIN d.recordings \ {r} : e.recordings[x] = d.recordings[x]
  BY <1>3 DEF NewRecordings
<1>5. \A p \in inflight : p.recording \in DOMAIN d.recordings \ {r}
  BY <1>1, <1>3, FlightCounts
<1>6. DOMAIN now = DOMAIN active \cup {b} /\ now[b] = r /\ \A x \in DOMAIN active : now[x] = active[x]
  BY <1>2 DEF Put
<1>7. Counted(t, e, inflight)
  <2>1. /\ DOMAIN d.sets = DOMAIN SetsOf(t)
        /\ \A s \in DOMAIN d.sets : d.sets[s].allocation = SetsOf(t)[s].allocation
        /\ IsFiniteSet(inflight)
        /\ \A x \in DOMAIN d.recordings :
             /\ x \in DOMAIN t.recordings
             /\ d.recordings[x].sets = t.recordings[x].bound /\ t.recordings[x].bound \subseteq DOMAIN d.sets
             /\ d.recordings[x].pending = Cardinality(UsesOf(inflight, x))
    BY <1>1 DEF Counted
  <2>2. Cardinality(UsesOf(inflight, r)) = 0
    <3>1. UsesOf(inflight, r) = {} BY <1>5 DEF UsesOf
    <3> QED BY <3>1, FS_EmptySet
  <2>3. ASSUME NEW x \in DOMAIN e.recordings
        PROVE  /\ x \in DOMAIN t.recordings
               /\ e.recordings[x].sets = t.recordings[x].bound /\ t.recordings[x].bound \subseteq DOMAIN d.sets
               /\ e.recordings[x].pending = Cardinality(UsesOf(inflight, x))
    <3>1. CASE x = r BY <1>3, <1>4, <2>2, <3>1
    <3>2. CASE x # r BY <1>4, <2>1, <3>2
    <3> QED BY <3>1, <3>2
  <2>4. IsLedger(e) /\ e.sets = d.sets BY <1>3
  <2>5. \A p \in inflight : p.recording \in DOMAIN e.recordings BY <1>4, <1>5
  <2>6. DOMAIN e.sets = DOMAIN SetsOf(t) /\ \A s \in DOMAIN e.sets : e.sets[s].allocation = SetsOf(t)[s].allocation
    BY <2>1, <2>4
  <2> QED BY <2>1, <2>3, <2>4, <2>5, <2>6 DEF Counted
<1>8. ASSUME NEW x \in DOMAIN active
      PROVE  /\ active[x] \in DOMAIN e.recordings /\ e.recordings[active[x]] = d.recordings[active[x]]
             /\ x # b
  <2>1. active[x] \in DOMAIN d.recordings /\ t.recordings[active[x]].buffer = x BY <1>1 DEF ActiveHolds
  <2>2. x # b BY <1>2
  <2>3. active[x] # r BY <1>2, <2>1, <2>2
  <2> QED BY <1>4, <2>1, <2>2, <2>3
<1>9. \A s : ~Reaches(t, c, s) BY DEF Reaches
<1>10. \A x : x # b => ~Records(c, x) BY <1>2 DEF Records
<1>11. ActiveHolds(t, e, now, g)
  <2> SUFFICES ASSUME NEW x \in DOMAIN now
               PROVE  /\ now[x] \in DOMAIN e.recordings
                      /\ t.recordings[now[x]].buffer = x /\ t.recordings[now[x]].read
                      /\ \E j : /\ IsLast(g, Len(g), x, j) /\ g[j].recording = now[x]
                                /\ e.recordings[now[x]].valid => Spared(t, g, j, Len(g), t.recordings[now[x]].bound)
    BY DEF ActiveHolds
  <2>1. CASE x = b
    <3>1. now[x] = r BY <1>6, <2>1
    <3>2. Records(c, b) BY <1>2 DEF Records
    <3>3. IsLast(g, Len(g), x, Len(g)) BY <2>1, <3>2, LastNew
    <3>4. Len(g) \in Nat /\ g[Len(g)] = c BY DEF Longer
    <3>5. Spared(t, g, Len(g), Len(g), t.recordings[now[x]].bound)
      <4>1. \A i \in Len(g) .. Len(g) : i = Len(g) BY <3>4
      <4> QED BY <1>9, <3>4, <4>1 DEF Spared
    <3> QED BY <1>2, <1>4, <2>1, <3>1, <3>3, <3>4, <3>5
  <2>2. CASE x # b
    <3>1. x \in DOMAIN active /\ now[x] = active[x] BY <1>6, <2>2
    <3>2. /\ t.recordings[active[x]].buffer = x /\ t.recordings[active[x]].read BY <1>1, <3>1 DEF ActiveHolds
    <3>3. PICK j : /\ IsLast(h, Len(h), x, j) /\ h[j].recording = active[x]
                   /\ d.recordings[active[x]].valid => Spared(t, h, j, Len(h), t.recordings[active[x]].bound)
      BY <1>1, <3>1 DEF ActiveHolds
    <3>4. j \in 1 .. Len(h) /\ j \in Nat \ {0} /\ g[j] = h[j] BY <3>3 DEF IsLast, Longer
    <3>5. IsLast(g, Len(g), x, j) BY <1>10, <2>2, <3>3, LastNext
    <3>6. e.recordings[active[x]].valid => Spared(t, g, j, Len(g), t.recordings[active[x]].bound)
      BY <1>8, <1>9, <3>1, <3>3, <3>4, SparedNext
    <3> QED BY <1>8, <3>1, <3>2, <3>3, <3>4, <3>5, <3>6
  <2> QED BY <2>1, <2>2
<1>12. Earlier(inflight, g)
  <2>1. Len(h) \in Nat /\ Len(g) = Len(h) + 1 BY DEF Longer
  <2> QED BY <2>1 DEF Holds, Earlier
<1>13. RowsHold(t, e, now, inflight, rows, g)
  <2> SUFFICES ASSUME NEW n \in DOMAIN rows PROVE RowHolds(t, e, now, inflight, rows[n], g)
    BY DEF RowsHold
  <2>1. PICK row : row = rows[n] OBVIOUS
  <2>2. RowOk(t, row, h) /\ (Over(t, row, h) \/ InFlight(t, d, active, inflight, row, h))
    BY <2>1 DEF Holds, RowsHold, RowHolds
  <2>3. RowOk(t, row, g) /\ (Over(t, row, h) => Over(t, row, g)) BY <2>2, OverKept
  <2>4. ASSUME InFlight(t, d, active, inflight, row, h) PROVE InFlight(t, e, now, inflight, row, g)
    <3>1. /\ row.selection.buffer \in DOMAIN active
          /\ active[row.selection.buffer] = row.selection.recording
          /\ d.recordings[row.selection.recording].valid
          /\ \E p \in inflight : /\ p.recording = row.selection.recording /\ p.queue = row.selection.queue
                         /\ p.device = t.queues[row.selection.queue].device /\ p.fence = h[row.step].fence
      BY <2>4 DEF InFlight
    <3>2. /\ row.selection.buffer # b /\ now[row.selection.buffer] = active[row.selection.buffer]
          /\ row.selection.buffer \in DOMAIN now /\ e.recordings[row.selection.recording].valid
      BY <1>6, <1>8, <3>1
    <3>3. ~Records(c, row.selection.buffer) BY <1>10, <3>2
    <3> QED BY <2>2, <2>4, <3>1, <3>2, <3>3, InFlightKept
  <2> QED BY <2>1, <2>2, <2>3, <2>4 DEF RowHolds
<1> QED BY <1>7, <1>11, <1>12, <1>13 DEF Holds

-----------------------------------------------------------------------------
(* The buffers of a submission.                                            *)

\* A function that is defined step by step exists.
Unfolds(h, N, V, base, step) ==
  h \in [0..N -> V] /\ h[0] = base /\ \A n \in 1..N : h[n] = step[n][h[n - 1]]

\* Each of its values follows from the one before it, whatever the steps are.
LEMMA Stepwise ==
  ASSUME NEW N \in Nat, NEW V, NEW base \in V, NEW step \in [1..N -> [V -> V]]
  PROVE  \E h : Unfolds(h, N, V, base, step)
PROOF
<1> DEFINE Steps(h, n) == h[0] = base /\ \A k \in 1..n : h[k] = step[k][h[k - 1]]
           S == {n \in 0..N : \E h \in [0..N -> V] : Steps(h, n)}
<1>1. 0 \in S
  <2> DEFINE h == [k \in 0..N |-> base]
  <2>1. h \in [0..N -> V] /\ Steps(h, 0) OBVIOUS
  <2> HIDE DEF h, Steps
  <2> QED BY <2>1
<1>2. ASSUME NEW n \in 1..N, n - 1 \in S PROVE n \in S
  <2>1. PICK h \in [0..N -> V] : Steps(h, n - 1) BY <1>2
  <2>2. n - 1 \in 0..N /\ h[n - 1] \in V BY <2>1
  <2> DEFINE g == [h EXCEPT ![n] = step[n][h[n - 1]]]
  <2>3. g \in [0..N -> V] BY <2>2
  <2>4. g[0] = base /\ g[n] = step[n][h[n - 1]] /\ \A k \in 0..N : k # n => g[k] = h[k]
    BY <2>1
  <2>5. ASSUME NEW k \in 1..n PROVE g[k] = step[k][g[k - 1]]
    <3>1. k - 1 \in 0..N /\ k - 1 # n /\ k \in 0..N OBVIOUS
    <3>2. g[k - 1] = h[k - 1] BY <2>4, <3>1
    <3>3. CASE k = n BY <2>4, <3>2, <3>3
    <3>4. CASE k # n
      <4>1. k \in 1..(n - 1) BY <3>4
      <4>2. h[k] = step[k][h[k - 1]] BY <2>1, <4>1
      <4>3. g[k] = h[k] BY <2>4, <3>1, <3>4
      <4> HIDE DEF g
      <4> QED BY <3>2, <4>2, <4>3
    <3> QED BY <3>3, <3>4
  <2> HIDE DEF g
  <2>6. Steps(g, n) BY <2>4, <2>5
  <2> QED BY <2>3, <2>6
<1> HIDE DEF S
<1>3. 0..N \subseteq S BY <1>1, <1>2, Counting
<1>4. N \in S BY <1>3
<1> QED BY <1>4 DEF S, Unfolds

\* A joined sequence holds what its parts hold.
LEMMA JoinedHolds ==
  ASSUME NEW T, NEW a \in Seq(T), NEW b \in Seq(T)
  PROVE  a \o b \in Seq(T) /\ ToSet(a \o b) = ToSet(a) \cup ToSet(b)
PROOF
<1> DEFINE j == a \o b
<1>1. /\ j \in Seq(T) /\ Len(a) \in Nat /\ Len(b) \in Nat
      /\ DOMAIN a = 1 .. Len(a) /\ DOMAIN b = 1 .. Len(b) /\ DOMAIN j = 1 .. Len(a) + Len(b)
      /\ \A i \in 1 .. Len(a) + Len(b) : j[i] = IF i <= Len(a) THEN a[i] ELSE b[i - Len(a)]
  OBVIOUS
<1> HIDE DEF j
<1>2. \A x : x \in ToSet(j) => x \in ToSet(a) \cup ToSet(b)
  <2>1. ASSUME NEW i \in 1 .. Len(a) + Len(b) PROVE j[i] \in ToSet(a) \cup ToSet(b)
    <3>1. CASE i <= Len(a)
      <4>1. i \in DOMAIN a /\ j[i] = a[i] BY <1>1, <3>1
      <4> QED BY <4>1 DEF ToSet
    <3>2. CASE ~(i <= Len(a))
      <4>1. i - Len(a) \in DOMAIN b /\ j[i] = b[i - Len(a)] BY <1>1, <3>2
      <4> QED BY <4>1 DEF ToSet
    <3> QED BY <3>1, <3>2
  <2> QED BY <1>1, <2>1 DEF ToSet
<1>3. \A i \in DOMAIN a : a[i] \in ToSet(j)
  <2>1. \A i \in DOMAIN a : i \in DOMAIN j /\ j[i] = a[i] BY <1>1
  <2> QED BY <2>1 DEF ToSet
<1>4. \A i \in DOMAIN b : b[i] \in ToSet(j)
  <2>1. \A i \in DOMAIN b : i + Len(a) \in DOMAIN j /\ j[i + Len(a)] = b[i] BY <1>1
  <2> QED BY <2>1 DEF ToSet
<1>5. ToSet(j) = ToSet(a) \cup ToSet(b) BY <1>2, <1>3, <1>4 DEF ToSet
<1> QED BY <1>1, <1>5 DEF j

\* What the first n of some sequences hold.
HeldBy(parts, n) == UNION {ToSet(parts[i]) : i \in 1 .. n}

\* Those of the first n, from those of the first n - 1.
LEMMA HeldNext ==
  ASSUME NEW parts, NEW n \in Nat, n # 0
  PROVE  HeldBy(parts, n) = (IF n = 1 THEN {} ELSE HeldBy(parts, n - 1)) \cup ToSet(parts[n])
PROOF
<1>1. CASE n = 1
  <2>1. 1 .. n = {1} BY <1>1
  <2> QED BY <1>1, <2>1 DEF HeldBy
<1>2. CASE n # 1
  <2>1. 1 .. n = (1 .. n - 1) \cup {n} BY <1>2
  <2> QED BY <1>2, <2>1 DEF HeldBy
<1> QED BY <1>1, <1>2

\* A flattened sequence holds what its parts hold.
LEMMA FlattenedHolds ==
  ASSUME NEW T, NEW N \in Nat, NEW parts \in [1 .. N -> Seq(T)]
  PROVE  FlattenSeq(parts) \in Seq(T) /\ ToSet(FlattenSeq(parts)) = HeldBy(parts, N)
PROOF
<1> DEFINE V == Seq(T)
           flat == CHOOSE c : c = [i \in 1 .. N |-> IF i = 1 THEN parts[i] ELSE c[i - 1] \o parts[i]]
           step == [n \in 1 .. N |-> [c \in V |-> IF n = 1 THEN parts[n] ELSE c \o parts[n]]]
<1>1. Len(parts) = N /\ DOMAIN parts = 1 .. N /\ \A i \in 1 .. N : parts[i] \in V OBVIOUS
<1>2. CASE N = 0
  <2>1. FlattenSeq(parts) = parts BY <1>1, <1>2 DEF FlattenSeq
  <2>2. parts = <<>> BY <1>1, <1>2
  <2>3. 1 .. N = {} BY <1>2
  <2>4. <<>> \in Seq(T) OBVIOUS
  <2>5. ToSet(parts) = {} /\ HeldBy(parts, N) = {} BY <1>1, <2>3 DEF ToSet, HeldBy
  <2> QED BY <2>1, <2>2, <2>4, <2>5
<1>3. CASE N # 0
  <2>1. <<>> \in V /\ step \in [1 .. N -> [V -> V]] BY <1>1
  <2>2. PICK h : Unfolds(h, N, V, <<>>, step)
    <3> HIDE DEF V, step
    <3> QED BY <2>1, Stepwise
  <2>3. \A n \in 1 .. N : h[n - 1] \in V /\ h[n] = IF n = 1 THEN parts[n] ELSE h[n - 1] \o parts[n]
    <3> SUFFICES ASSUME NEW n \in 1 .. N
                 PROVE h[n - 1] \in V /\ h[n] = IF n = 1 THEN parts[n] ELSE h[n - 1] \o parts[n]
      OBVIOUS
    <3>1. h[n - 1] \in V BY <2>2, <1>1 DEF Unfolds
    <3> HIDE DEF V
    <3> QED BY <3>1, <2>2 DEF Unfolds
  <2> DEFINE g == [i \in 1 .. N |-> h[i]]
  <2>4. g = [i \in 1 .. N |-> IF i = 1 THEN parts[i] ELSE g[i - 1] \o parts[i]]
    <3> HIDE DEF V, step
    <3>1. \A i \in 1 .. N : i # 1 => i - 1 \in 1 .. N BY <1>1
    <3> QED BY <2>3, <3>1
  <2> HIDE DEF g
  <2>5. flat = [i \in 1 .. N |-> IF i = 1 THEN parts[i] ELSE flat[i - 1] \o parts[i]] BY <2>4
  <2> HIDE DEF flat
  <2> DEFINE S == {n \in 0 .. N : n = 0 \/ (flat[n] \in V /\ ToSet(flat[n]) = HeldBy(parts, n))}
  <2>6. ASSUME NEW n \in 1 .. N, n - 1 \in S PROVE n \in S
    <3>1. flat[n] = IF n = 1 THEN parts[n] ELSE flat[n - 1] \o parts[n] BY <2>5
    <3>2. n # 1 => flat[n - 1] \in V /\ ToSet(flat[n - 1]) = HeldBy(parts, n - 1) BY <2>6
    <3>3. HeldBy(parts, n) = (IF n = 1 THEN {} ELSE HeldBy(parts, n - 1)) \cup ToSet(parts[n])
      <4>1. n \in Nat /\ n # 0 BY <1>1
      <4> QED BY <4>1, HeldNext
    <3>6. n \in 0 .. N /\ (flat[n] \in V /\ ToSet(flat[n]) = HeldBy(parts, n) => n \in S) OBVIOUS
    <3>4. CASE n = 1 BY <1>1, <3>1, <3>3, <3>4, <3>6
    <3>5. CASE n # 1
      <4>1. parts[n] \in Seq(T) /\ flat[n - 1] \in Seq(T) BY <1>1, <3>2, <3>5
      <4>2. flat[n] \in Seq(T) /\ ToSet(flat[n]) = ToSet(flat[n - 1]) \cup ToSet(parts[n])
        BY <3>1, <3>5, <4>1, JoinedHolds
      <4> HIDE DEF S
      <4> QED BY <3>2, <3>3, <3>5, <3>6, <4>2
    <3> QED BY <3>4, <3>5
  <2>7. 0 .. N \subseteq S
    <3>1. 0 \in S BY <1>1
    <3> HIDE DEF S
    <3> QED BY <2>6, <3>1, Counting
  <2>8. flat[N] \in V /\ ToSet(flat[N]) = HeldBy(parts, N) BY <2>7, <1>3
  <2>9. FlattenSeq(parts) = flat[N] BY <1>1, <1>3 DEF FlattenSeq, flat
  <2> QED BY <2>8, <2>9
<1> QED BY <1>2, <1>3

\* They are listed in an order, each one, and nothing else.
LEMMA InOrderIs ==
  ASSUME NEW c, CallOk(c), c.op = "QueueSubmit"
  PROVE  /\ Len(InOrder(c)) \in Nat /\ DOMAIN InOrder(c) = 1 .. Len(InOrder(c))
         /\ ToSet(InOrder(c)) = SubmittedBuffers(c)
PROOF
<1> DEFINE parts == [i \in DOMAIN c.submits |-> [j \in DOMAIN c.submits[i] |-> <<i, j>>]]
           N == Len(c.submits)
<1>1. /\ N \in Nat /\ DOMAIN c.submits = 1 .. N
      /\ \A i \in 1 .. N : Len(c.submits[i]) \in Nat /\ DOMAIN c.submits[i] = 1 .. Len(c.submits[i])
  BY ListedIs DEF CallOk
<1>2. ASSUME NEW i \in 1 .. N
      PROVE  parts[i] \in Seq(Nat \X Nat) /\ ToSet(parts[i]) = {<<i, j>> : j \in DOMAIN c.submits[i]}
  <2>1. PICK M \in Nat : M = Len(c.submits[i]) /\ DOMAIN c.submits[i] = 1 .. M BY <1>1
  <2>2. PICK part : part = [j \in 1 .. M |-> <<i, j>>] OBVIOUS
  <2>3. parts[i] = part BY <1>1, <2>1, <2>2
  <2>4. part \in [1 .. M -> Nat \X Nat] BY <2>2
  <2>5. part \in Seq(Nat \X Nat) BY <2>4
  <2>6. ToSet(part) = {<<i, j>> : j \in 1 .. M} BY <2>2 DEF ToSet
  <2> QED BY <2>1, <2>3, <2>5, <2>6
<1>3. parts \in [1 .. N -> Seq(Nat \X Nat)]
  <2>1. DOMAIN parts = 1 .. N /\ parts = [i \in 1 .. N |-> parts[i]] BY <1>1
  <2> HIDE DEF parts
  <2> QED BY <1>2, <2>1
<1>4. InOrder(c) = FlattenSeq(parts) BY DEF InOrder
<1>5. InOrder(c) \in Seq(Nat \X Nat) /\ ToSet(InOrder(c)) = HeldBy(parts, N)
  <2> HIDE DEF parts, N
  <2> QED BY <1>1, <1>3, <1>4, FlattenedHolds
<1>6. HeldBy(parts, N) = SubmittedBuffers(c)
  <2> HIDE DEF parts
  <2> QED BY <1>1, <1>2 DEF HeldBy, SubmittedBuffers
<1> QED BY <1>5, <1>6

\* A row that a submission adds: of its buffer and recording, to its queue.
NewRow(t, row, b, r, queue, n) ==
  /\ row.selection.recording = r /\ row.selection.buffer = b /\ row.selection.queue = queue
  /\ row.step = n
  /\ \A plan \in row.plans : plan.set \in t.recordings[r].bound

\* The use that a submission leaves in flight.
UseOf(t, p, r, c, n) ==
  /\ p.recording = r /\ p.queue = c.queue /\ p.device = t.queues[c.queue].device /\ p.fence = c.fence
  /\ p.place[1] = n

\* One more buffer that is submitted counts as in flight.
LEMMA SubmittedCounted ==
  ASSUME NEW t, NEW d, NEW inflight, NEW r, NEW p, NEW e, Counted(t, d, inflight),
         e = Submitted(d, r), e.ok, p \notin inflight, p.recording = r
  PROVE  /\ Rests(t, d, e, inflight \cup {p})
         /\ r \in DOMAIN d.recordings /\ d.recordings[r].valid
PROOF
<1>1. IsFiniteSet(inflight) /\ IsLedger(d) /\ d.ok BY DEF Counted
<1>2. /\ IsLedger(e) /\ r \in DOMAIN d.recordings /\ d.recordings[r].valid
      /\ e.sets = d.sets /\ DOMAIN e.recordings = DOMAIN d.recordings
      /\ \A x \in DOMAIN d.recordings :
           e.recordings[x] = [sets |-> d.recordings[x].sets,
                              pending |-> d.recordings[x].pending + (IF x = r THEN 1 ELSE 0),
                              valid |-> d.recordings[x].valid]
  <2>1. IsLedger(e) /\ OneMore(d, e, r) BY <1>1, SubmittedIs
  <2> QED BY <2>1 DEF OneMore
<1>3. /\ DOMAIN d.sets = DOMAIN SetsOf(t)
      /\ \A s \in DOMAIN d.sets : d.sets[s].allocation = SetsOf(t)[s].allocation
      /\ \A x \in DOMAIN d.recordings :
           /\ x \in DOMAIN t.recordings
           /\ d.recordings[x].sets = t.recordings[x].bound /\ t.recordings[x].bound \subseteq DOMAIN d.sets
           /\ d.recordings[x].pending = Cardinality(UsesOf(inflight, x))
      /\ \A q \in inflight : q.recording \in DOMAIN d.recordings
  BY DEF Counted
<1>4. PICK both : both = inflight \cup {p} OBVIOUS
<1>5. IsFiniteSet(both) BY <1>1, <1>4, FS_AddElement
<1>6. ASSUME NEW x \in DOMAIN d.recordings
      PROVE  /\ e.recordings[x].sets = d.recordings[x].sets
             /\ e.recordings[x].valid = d.recordings[x].valid
             /\ e.recordings[x].pending = Cardinality(UsesOf(both, x))
  <2>1. PICK uses : uses = UsesOf(inflight, x) OBVIOUS
  <2>2. uses \subseteq inflight /\ p \notin uses BY <2>1 DEF UsesOf
  <2>3. IsFiniteSet(uses) BY <1>1, <2>2, FS_Subset
  <2>4. Cardinality(uses) \in Nat /\ d.recordings[x].pending = Cardinality(uses)
    BY <1>3, <2>1, <2>3, FS_CardinalityType
  <2>5. PICK n : n = d.recordings[x].pending + (IF x = r THEN 1 ELSE 0) OBVIOUS
  <2>6. e.recordings[x] = [sets |-> d.recordings[x].sets, pending |-> n, valid |-> d.recordings[x].valid]
    BY <1>2, <2>5
  <2>7. n = Cardinality(UsesOf(both, x))
    <3>1. CASE x = r
      <4>1. UsesOf(both, x) = uses \cup {p} BY <1>4, <2>1, <3>1 DEF UsesOf
      <4>2. Cardinality(uses \cup {p}) = Cardinality(uses) + 1 BY <2>2, <2>3, FS_AddElement
      <4> QED BY <2>4, <2>5, <3>1, <4>1, <4>2
    <3>2. CASE x # r
      <4>1. UsesOf(both, x) = uses BY <1>4, <2>1, <3>2 DEF UsesOf
      <4> QED BY <2>4, <2>5, <3>2, <4>1
    <3> QED BY <3>1, <3>2
  <2> QED BY <2>6, <2>7
<1>7. \A q \in both : q.recording \in DOMAIN e.recordings BY <1>2, <1>3, <1>4
<1>8. IsLedger(e) /\ e.sets = d.sets /\ DOMAIN e.recordings = DOMAIN d.recordings BY <1>2
<1>9. Counted(t, e, both) BY <1>3, <1>5, <1>6, <1>7, <1>8 DEF Counted
<1>10. Rests(t, d, e, both) BY <1>6, <1>8, <1>9 DEF Rests
<1> QED BY <1>2, <1>4, <1>10

\* The last call of g submits the buffer b: it leaves the use p and the rows new.
Adds(t, active, inflight, rows, g, c, b, p, new, all) ==
  /\ Len(g) \in Nat \ {0} /\ c = g[Len(g)] /\ c.op = "QueueSubmit"
  /\ b \in DOMAIN active
  /\ p \notin inflight /\ UseOf(t, p, active[b], c, Len(g))
  /\ \A i \in DOMAIN new : NewRow(t, new[i], b, active[b], c.queue, Len(g))
  /\ \A n \in DOMAIN all : (\E i \in DOMAIN rows : all[n] = rows[i]) \/ (\E i \in DOMAIN new : all[n] = new[i])

\* One more buffer that is submitted.
LEMMA SubmittedHolds ==
  ASSUME NEW t, NEW d, NEW active, NEW inflight, NEW rows, NEW g, NEW c, NEW b, NEW p, NEW e, NEW new, NEW all,
         Holds(t, d, active, inflight, rows, g), e = Submitted(d, active[b]), e.ok,
         Adds(t, active, inflight, rows, g, c, b, p, new, all)
  PROVE  Holds(t, e, active, inflight \cup {p}, all, g)
PROOF
<1>0. /\ Len(g) \in Nat \ {0} /\ c = g[Len(g)] /\ c.op = "QueueSubmit"
      /\ b \in DOMAIN active
      /\ p \notin inflight /\ UseOf(t, p, active[b], c, Len(g))
      /\ \A i \in DOMAIN new : NewRow(t, new[i], b, active[b], c.queue, Len(g))
      /\ \A n \in DOMAIN all : (\E i \in DOMAIN rows : all[n] = rows[i]) \/ (\E i \in DOMAIN new : all[n] = new[i])
  BY DEF Adds
<1>1. PICK r : r = active[b] OBVIOUS
<1>2. PICK both : both = inflight \cup {p} OBVIOUS
<1>3. Counted(t, d, inflight) /\ ActiveHolds(t, d, active, g) BY DEF Holds
<1>4. p.recording = r BY <1>0, <1>1 DEF UseOf
<1>5. Rests(t, d, e, both) /\ r \in DOMAIN d.recordings /\ d.recordings[r].valid
  BY <1>0, <1>1, <1>2, <1>3, <1>4, SubmittedCounted
<1>6. /\ Counted(t, e, both) /\ DOMAIN e.recordings = DOMAIN d.recordings
      /\ \A x \in DOMAIN d.recordings : e.recordings[x].valid = d.recordings[x].valid
  BY <1>5 DEF Rests
<1>7. ActiveHolds(t, e, active, g)
  <2>1. \A x \in DOMAIN active : active[x] \in DOMAIN d.recordings BY <1>3 DEF ActiveHolds
  <2> QED BY <1>3, <1>6, <2>1 DEF ActiveHolds
<1>8. Earlier(both, g)
  <2>1. p.place[1] \in 1 .. Len(g) BY <1>0 DEF UseOf
  <2> QED BY <1>2, <2>1 DEF Holds, Earlier
<1>9. ASSUME NEW row, RowHolds(t, d, active, inflight, row, g) PROVE RowHolds(t, e, active, both, row, g)
  <2>1. ASSUME InFlight(t, d, active, inflight, row, g) PROVE InFlight(t, e, active, both, row, g)
    <3>1. PICK q \in inflight : /\ q.recording = row.selection.recording /\ q.queue = row.selection.queue
                                /\ q.device = t.queues[row.selection.queue].device /\ q.fence = g[row.step].fence
      BY <2>1 DEF InFlight
    <3>2. q \in both BY <1>2
    <3>3. row.selection.recording \in DOMAIN d.recordings
      BY <1>3, <3>1 DEF Counted
    <3>4. d.recordings[row.selection.recording].valid BY <2>1 DEF InFlight
    <3>5. e.recordings[row.selection.recording].valid BY <1>6, <3>3, <3>4
    <3> QED BY <2>1, <3>1, <3>2, <3>5 DEF InFlight
  <2> QED BY <1>9, <2>1 DEF RowHolds
<1>10. ASSUME NEW row, NewRow(t, row, b, r, c.queue, Len(g)) PROVE RowHolds(t, e, active, both, row, g)
  <2>1. /\ row.selection.recording = r /\ row.selection.buffer = b /\ row.selection.queue = c.queue
        /\ row.step = Len(g) /\ \A plan \in row.plans : plan.set \in t.recordings[r].bound
    BY <1>10 DEF NewRow
  <2>2. t.recordings[r].bound \subseteq DOMAIN SetsOf(t) BY <1>3, <1>5 DEF Counted
  <2>3. RowOk(t, row, g) BY <1>0, <2>1, <2>2 DEF RowOk
  <2>4. PICK j : IsLast(g, Len(g), b, j) BY <1>0, <1>3 DEF ActiveHolds
  <2>5. j \in 1 .. Len(g) - 1
    <3>1. j \in 1 .. Len(g) /\ Records(g[j], b) BY <2>4 DEF IsLast
    <3>2. j # Len(g) BY <1>0, <3>1 DEF Records
    <3> QED BY <1>0, <3>1, <3>2
  <2>6. IsLast(g, Len(g) - 1, b, j)
    <3>1. \A i \in 1 .. Len(g) - 1 : i \in 1 .. Len(g) BY <1>0
    <3> QED BY <2>4, <2>5, <3>1 DEF IsLast
  <2>7. /\ p \in both /\ p.recording = r /\ p.queue = c.queue /\ p.device = t.queues[c.queue].device
        /\ p.fence = g[row.step].fence
    BY <1>0, <1>1, <1>2, <2>1 DEF UseOf
  <2>8. e.recordings[r].valid BY <1>5, <1>6
  <2>9. InFlight(t, e, active, both, row, g) BY <1>0, <1>1, <2>1, <2>4, <2>6, <2>7, <2>8 DEF InFlight
  <2> QED BY <2>3, <2>9 DEF RowHolds
<1>11. RowsHold(t, e, active, both, all, g)
  <2> SUFFICES ASSUME NEW n \in DOMAIN all PROVE RowHolds(t, e, active, both, all[n], g) BY DEF RowsHold
  <2>1. CASE \E i \in DOMAIN rows : all[n] = rows[i] BY <1>9, <2>1 DEF Holds, RowsHold
  <2>2. CASE \E i \in DOMAIN new : all[n] = new[i] BY <1>0, <1>1, <1>10, <2>2
  <2> QED BY <1>0, <2>1, <2>2
<1> QED BY <1>2, <1>6, <1>7, <1>8, <1>11 DEF Holds

\* What a submission carries from one buffer to the next.
IsCarried(s) ==
  s = [ok |-> s.ok, uploads |-> s.uploads, descriptors |-> s.descriptors, pending |-> s.pending,
       once |-> s.once, executions |-> s.executions]

\* The n-th buffer b of a submission takes s to out: it leaves the use p and the rows new.
Submits(s, out, c, n, b, p, new) ==
  /\ s.ok /\ IsCarried(out)
  /\ b = c.submits[InOrder(c)[n][1]][InOrder(c)[n][2]] /\ b \in DOMAIN commands.active
  /\ out.descriptors = Submitted(s.descriptors, commands.active[b]) /\ out.descriptors.ok
  /\ UseOf(theme, p, commands.active[b], c, Step) /\ p.place[2] = n
  /\ out.pending = s.pending \cup {p}
  /\ Listed(new) /\ DOMAIN new = DOMAIN theme.recordings[commands.active[b]].draws
  /\ \A m \in DOMAIN new :
       /\ NewRow(theme, new[m], b, commands.active[b], c.queue, Step)
       /\ new[m].selection = Selection(c, InOrder(c)[n], commands.active[b], m, submission)
  /\ out.executions = s.executions \o new /\ Len(out.executions) <= MaxExecutions

\* SubmitBuffer() as Submits says it.
LEMMA SubmitBufferIs ==
  ASSUME theme \in Themes, \A b \in DOMAIN commands.active : commands.active[b] \in DOMAIN theme.recordings,
         NEW s, NEW c, NEW n, IsCarried(s), NEW out, out = SubmitBuffer(s, c, n)
  PROVE  /\ IsCarried(out)
         /\ out.ok => \E b, p, new : Submits(s, out, c, n, b, p, new)
PROOF
<1> DEFINE at     == InOrder(c)[n]
           buffer == c.submits[at[1]][at[2]]
           name   == commands.active[buffer]
           r      == theme.recordings[name]
           device == theme.queues[c.queue].device
           spoilt == [s EXCEPT !.uploads = Invalidate(s.uploads, r.copies)]
           plans(m) == {Plan(spoilt, r.draws[m], want) : want \in ReadsOfDraw(r.draws[m])}
           used   == r.copies \cup {plan.buffer : plan \in UNION {plans(m) : m \in DOMAIN r.draws}}
           rows   == [m \in DOMAIN r.draws |->
                   [selection |-> Selection(c, at, name, m, submission), plans |-> plans(m),
                    labels |-> At(labels, c.queue, <<>>), step |-> Step]]
           use    == [queue |-> c.queue, device |-> device, fence |-> c.fence,
                      recording |-> name, place |-> <<Step, n>>]
           next   == [once        |-> s.once \cup (IF r.one_time THEN {<<buffer, commands.generation[buffer]>>} ELSE {}),
                 descriptors |-> Submitted(s.descriptors, name),
                 uploads     |-> SubmitUses(spoilt.uploads, c.queue, device, c.fence, used, <<Step, n>>),
                 pending     |-> s.pending \cup {use},
                 executions  |-> s.executions \o rows,
                 ok          |-> TRUE]
           required ==
             /\ s.ok
             /\ BufferQualified(s, c, buffer)
             /\ spoilt.uploads.ok
             /\ \A m \in DOMAIN r.draws :
                  /\ DrawQualified(r.draws[m])
                  /\ Cardinality(ReadsOfDraw(r.draws[m])) <= MaxPlans
                  /\ \A want \in ReadsOfDraw(r.draws[m]) : PlanQualified(spoilt, device, r.draws[m], want)
             /\ next.descriptors.ok /\ next.uploads.ok
             /\ Cardinality(next.pending) <= MaxInFlight /\ Len(next.executions) <= MaxExecutions
<1>1. out = IF required THEN next ELSE [s EXCEPT !.ok = FALSE] BY DEF SubmitBuffer
<1>2. IsCarried([s EXCEPT !.ok = FALSE]) /\ [s EXCEPT !.ok = FALSE].ok = FALSE
  <2>1. PICK x : x = [s EXCEPT !.ok = FALSE] OBVIOUS
  <2>2. x = [ok |-> FALSE, uploads |-> s.uploads, descriptors |-> s.descriptors, pending |-> s.pending,
             once |-> s.once, executions |-> s.executions]
    BY <2>1 DEF IsCarried
  <2>3. IsCarried(x) /\ x.ok = FALSE BY <2>2 DEF IsCarried
  <2> QED BY <2>1, <2>3
<1>3. PICK once : once = s.once \cup (IF r.one_time THEN {<<buffer, commands.generation[buffer]>>} ELSE {}) OBVIOUS
<1>4. PICK up : up = SubmitUses(spoilt.uploads, c.queue, device, c.fence, used, <<Step, n>>)
  <2> HIDE DEF spoilt, device, used
  <2> QED OBVIOUS
<1>5. PICK new : new = rows
  <2> HIDE DEF rows
  <2> QED OBVIOUS
<1>6. PICK p : p = use
  <2> HIDE DEF use
  <2> QED OBVIOUS
<1>7. next = [once |-> once, descriptors |-> Submitted(s.descriptors, name), uploads |-> up,
              pending |-> s.pending \cup {p}, executions |-> s.executions \o new, ok |-> TRUE]
  BY <1>3, <1>4, <1>5, <1>6, Zenon
<1>8. required => /\ s.ok /\ buffer \in DOMAIN commands.active
                  /\ \A m \in DOMAIN r.draws : \A want \in ReadsOfDraw(r.draws[m]) :
                       want.read.set \in DOMAIN r.draws[m].bank
                  /\ next.descriptors.ok /\ Len(next.executions) <= MaxExecutions
  <2> HIDE DEF at, next, r, spoilt, device
  <2> QED BY DEF BufferQualified, PlanQualified
<1> HIDE DEF required, next
<1>9. IsCarried(out)
  <2>1. IsCarried(next)
    <3> HIDE DEF name
    <3> QED BY <1>7 DEF IsCarried
  <2> QED BY <1>1, <1>2, <2>1
<1>10. ASSUME out.ok PROVE Submits(s, out, c, n, buffer, p, new)
  <2>1. required /\ out = next BY <1>1, <1>2, <1>10
  <2>2. /\ s.ok /\ buffer \in DOMAIN commands.active
        /\ \A m \in DOMAIN r.draws : \A want \in ReadsOfDraw(r.draws[m]) : want.read.set \in DOMAIN r.draws[m].bank
        /\ out.descriptors.ok /\ Len(out.executions) <= MaxExecutions
    BY <1>8, <2>1
  <2>3. /\ out.descriptors = Submitted(s.descriptors, name) /\ out.pending = s.pending \cup {p}
        /\ out.executions = s.executions \o new
    <3> HIDE DEF name
    <3> QED BY <1>7, <2>1
  <2>4. UseOf(theme, p, name, c, Step) /\ p.place[2] = n
    <3> HIDE DEF name
    <3> QED BY <1>6 DEF UseOf
  <2>5. name \in DOMAIN theme.recordings BY <2>2
  <2>6. /\ Listed(r.draws)
        /\ \A m \in DOMAIN r.draws : \A set \in DOMAIN r.draws[m].bank : r.draws[m].bank[set].set \in r.bound
    BY <2>5, ThemesAssumption DEF RecordingOfDraws
  <2>7. DOMAIN new = DOMAIN r.draws BY <1>5
  <2>8. ASSUME NEW m \in DOMAIN new
        PROVE  /\ new[m].selection = Selection(c, at, name, m, submission)
               /\ NewRow(theme, new[m], buffer, name, c.queue, Step)
    <3>1. PICK some : some = plans(m)
      <4> HIDE DEF plans
      <4> QED OBVIOUS
    <3>2. PICK sel : sel = Selection(c, at, name, m, submission) OBVIOUS
    <3>3. new[m].selection = sel /\ new[m].plans = some /\ new[m].step = Step
      <4>1. new[m] = [selection |-> sel, plans |-> some, labels |-> At(labels, c.queue, <<>>), step |-> Step]
        <5> HIDE DEF plans
        <5> QED BY <1>5, <2>7, <3>1, <3>2
      <4> QED BY <4>1
    <3>4. ASSUME NEW plan \in some PROVE plan.set \in r.bound
      <4>1. PICK want \in ReadsOfDraw(r.draws[m]) : plan = Plan(spoilt, r.draws[m], want) BY <3>1
      <4>2. plan.set = r.draws[m].bank[want.read.set].set BY <4>1 DEF Plan
      <4> QED BY <2>2, <2>6, <2>7, <4>2
    <3>5. sel.recording = name /\ sel.buffer = buffer /\ sel.queue = c.queue BY <3>2 DEF Selection
    <3>6. NewRow(theme, new[m], buffer, name, c.queue, Step)
      <4> HIDE DEF at, buffer, name
      <4> QED BY <3>3, <3>4, <3>5 DEF NewRow
    <3> QED BY <3>2, <3>3, <3>6
  <2>9. Listed(new)
    <3>1. Len(r.draws) \in Nat /\ DOMAIN r.draws = 1 .. Len(r.draws) BY <2>6, ListedIs
    <3>2. PICK N \in Nat : DOMAIN new = 1 .. N BY <2>7, <3>1
    <3>3. new = [m \in 1 .. N |-> new[m]] BY <1>5, <3>2
    <3>4. new \in [1 .. N -> ToSet(new)] BY <3>2, <3>3 DEF ToSet
    <3> HIDE DEF rows
    <3> QED BY <3>4 DEF Listed
  <2> QED BY <1>9, <2>2, <2>3, <2>4, <2>7, <2>8, <2>9 DEF Submits
<1> QED BY <1>9, <1>10

\* One list after the other.
Joins(a, b, j) ==
  /\ Listed(j) /\ Len(j) = Len(a) + Len(b)
  /\ \A i \in 1 .. Len(a) : j[i] = a[i]
  /\ \A i \in 1 .. Len(b) : j[Len(a) + i] = b[i]
  /\ \A i \in DOMAIN j : (\E k \in DOMAIN a : j[i] = a[k]) \/ (\E k \in DOMAIN b : j[i] = b[k])

\* Lists join to a list.
LEMMA JoinedList ==
  ASSUME NEW a, NEW b, Listed(a), Listed(b)
  PROVE  Joins(a, b, a \o b)
PROOF
<1>1. PICK T : T = ToSet(a) \cup ToSet(b) OBVIOUS
<1>2. /\ Len(a) \in Nat /\ DOMAIN a = 1 .. Len(a) /\ \A i \in DOMAIN a : a[i] \in T
      /\ Len(b) \in Nat /\ DOMAIN b = 1 .. Len(b) /\ \A i \in DOMAIN b : b[i] \in T
  BY <1>1, ListedIs DEF ToSet
<1>3. a = [i \in 1 .. Len(a) |-> a[i]] /\ b = [i \in 1 .. Len(b) |-> b[i]]
  <2>1. a \in Seq(ToSet(a)) /\ b \in Seq(ToSet(b)) BY DEF Listed
  <2> QED BY <2>1
<1>4. a \in Seq(T) /\ b \in Seq(T)
  <2>1. a \in [1 .. Len(a) -> T] BY <1>2, <1>3
  <2>2. b \in [1 .. Len(b) -> T] BY <1>2, <1>3
  <2> QED BY <1>2, <2>1, <2>2
<1>5. PICK j : j = a \o b OBVIOUS
<1>6. /\ j \in Seq(T) /\ Len(j) = Len(a) + Len(b) /\ DOMAIN j = 1 .. Len(a) + Len(b)
      /\ \A i \in 1 .. Len(a) + Len(b) : j[i] = IF i <= Len(a) THEN a[i] ELSE b[i - Len(a)]
  BY <1>4, <1>5
<1>7. Listed(j)
  <2>1. j \in [1 .. Len(j) -> ToSet(j)] BY <1>2, <1>6 DEF ToSet
  <2> QED BY <1>2, <1>6, <2>1 DEF Listed
<1>8. \A i \in 1 .. Len(a) : j[i] = a[i] BY <1>2, <1>6
<1>9. ASSUME NEW i \in 1 .. Len(b) PROVE j[Len(a) + i] = b[i]
  <2>1. Len(a) + i \in 1 .. Len(a) + Len(b) /\ ~(Len(a) + i <= Len(a)) /\ (Len(a) + i) - Len(a) = i BY <1>2
  <2> QED BY <1>6, <2>1
<1>10. ASSUME NEW i \in DOMAIN j PROVE \/ \E k \in DOMAIN a : j[i] = a[k]
                                       \/ \E k \in DOMAIN b : j[i] = b[k]
  <2>1. CASE i <= Len(a) BY <1>2, <1>6, <2>1
  <2>2. CASE ~(i <= Len(a))
    <3>1. i - Len(a) \in DOMAIN b /\ j[i] = b[i - Len(a)] BY <1>2, <1>6, <2>2
    <3> QED BY <3>1
  <2> QED BY <2>1, <2>2
<1>11. Joins(a, b, j) BY <1>6, <1>7, <1>8, <1>9, <1>10 DEF Joins
<1> QED BY <1>5, <1>11

\* The recursive function of a submission.
SubmitsTo(f, base, c, n) ==
  f = [k \in 0 .. n |-> IF k = 0 THEN base ELSE SubmitBuffer(f[k - 1], c, k)]

\* There is such a function.
LEMMA SubmitsExist ==
  ASSUME NEW N \in Nat, NEW base, NEW c
  PROVE  \E f : SubmitsTo(f, base, c, N)
PROOF
<1> DEFINE S == {n \in 0 .. N : \E f : SubmitsTo(f, base, c, n)}
<1>1. 0 \in S
  <2> DEFINE f == [k \in 0 .. 0 |-> base]
  <2>1. SubmitsTo(f, base, c, 0) BY DEF SubmitsTo
  <2> QED BY <2>1
<1>2. ASSUME NEW n \in 1 .. N, n - 1 \in S PROVE n \in S
  <2>1. PICK f : SubmitsTo(f, base, c, n - 1) BY <1>2
  <2> DEFINE g == [k \in 0 .. n |-> IF k = n THEN SubmitBuffer(f[n - 1], c, n) ELSE f[k]]
  <2>2. ASSUME NEW k \in 0 .. n
        PROVE  g[k] = IF k = 0 THEN base ELSE SubmitBuffer(g[k - 1], c, k)
    <3>1. CASE k = n
      <4>1. k # 0 /\ k - 1 \in 0 .. n /\ k - 1 # n BY <3>1
      <4>2. g[k] = SubmitBuffer(f[k - 1], c, k) /\ g[k - 1] = f[k - 1] BY <3>1, <4>1
      <4> HIDE DEF g
      <4> QED BY <4>1, <4>2
    <3>2. CASE k # n
      <4>1. k \in 0 .. n - 1 /\ (k # 0 => k - 1 \in 0 .. n /\ k - 1 # n) BY <3>2
      <4>2. g[k] = f[k] /\ (k # 0 => g[k - 1] = f[k - 1]) BY <3>2, <4>1
      <4>3. f[k] = IF k = 0 THEN base ELSE SubmitBuffer(f[k - 1], c, k) BY <2>1, <4>1 DEF SubmitsTo
      <4> HIDE DEF g
      <4> QED BY <4>2, <4>3
    <3> QED BY <3>1, <3>2
  <2>3. g = [k \in 0 .. n |-> g[k]] OBVIOUS
  <2>4. SubmitsTo(g, base, c, n)
    <3> HIDE DEF g
    <3> QED BY <2>2, <2>3 DEF SubmitsTo
  <2> HIDE DEF g
  <2> QED BY <2>4
<1> HIDE DEF S
<1>3. 0 .. N \subseteq S BY <1>1, <1>2, Counting
<1>4. N \in S BY <1>3
<1> QED BY <1>4 DEF S

\* What holds of a submission after its first n buffers; its call is the last of g.
Carries(s, g, n) ==
  /\ Holds(theme, s.descriptors, commands.active, s.pending, s.executions, g)
  /\ Listed(s.executions)
  /\ \A p \in s.pending : p.place[1] = Len(g) => p.place[2] \in 1 .. n

\* From one buffer of a submission to the next.
LEMMA CarriedOn ==
  ASSUME NEW s, NEW out, NEW c, NEW n, NEW b, NEW p, NEW new, NEW g,
         n \in Nat \ {0}, Carries(s, g, n - 1), Submits(s, out, c, n, b, p, new),
         Len(g) \in Nat \ {0}, Len(g) = Step, c = g[Len(g)], c.op = "QueueSubmit"
  PROVE  Carries(out, g, n)
PROOF
<1>1. /\ Holds(theme, s.descriptors, commands.active, s.pending, s.executions, g) /\ Listed(s.executions)
      /\ \A q \in s.pending : q.place[1] = Len(g) => q.place[2] \in 1 .. n - 1
  BY DEF Carries
<1>2. /\ b \in DOMAIN commands.active
      /\ out.descriptors = Submitted(s.descriptors, commands.active[b]) /\ out.descriptors.ok
      /\ UseOf(theme, p, commands.active[b], c, Len(g)) /\ p.place[2] = n
      /\ out.pending = s.pending \cup {p}
      /\ Listed(new)
      /\ \A m \in DOMAIN new : NewRow(theme, new[m], b, commands.active[b], c.queue, Len(g))
      /\ out.executions = s.executions \o new
  BY DEF Submits
<1>3. p.place[1] = Len(g) BY <1>2 DEF UseOf
<1>4. p \notin s.pending
  <2>1. n \notin 1 .. n - 1 OBVIOUS
  <2> QED BY <1>1, <1>2, <1>3, <2>1
<1>5. /\ Listed(out.executions)
      /\ \A i \in DOMAIN out.executions : \/ \E j \in DOMAIN s.executions : out.executions[i] = s.executions[j]
                                          \/ \E j \in DOMAIN new : out.executions[i] = new[j]
  <2>1. Joins(s.executions, new, out.executions) BY <1>1, <1>2, JoinedList
  <2> QED BY <2>1 DEF Joins
<1>6. PICK e : e = out.descriptors OBVIOUS
<1>7. Holds(theme, e, commands.active, s.pending \cup {p}, out.executions, g)
  <2>1. PICK d : d = s.descriptors OBVIOUS
  <2>2. PICK active : active = commands.active OBVIOUS
  <2>3. PICK inflight : inflight = s.pending OBVIOUS
  <2>4. PICK rows : rows = s.executions OBVIOUS
  <2>5. PICK all : all = out.executions OBVIOUS
  <2>6. Holds(theme, d, active, inflight, rows, g) /\ e = Submitted(d, active[b]) /\ e.ok
    BY <1>1, <1>2, <1>6, <2>1, <2>2, <2>3, <2>4
  <2>8. b \in DOMAIN active /\ p \notin inflight /\ UseOf(theme, p, active[b], c, Len(g))
    BY <1>2, <1>4, <2>2, <2>3
  <2>9. \A i \in DOMAIN new : NewRow(theme, new[i], b, active[b], c.queue, Len(g)) BY <1>2, <2>2
  <2>10. \A i \in DOMAIN all : (\E j \in DOMAIN rows : all[i] = rows[j]) \/ (\E j \in DOMAIN new : all[i] = new[j])
    BY <1>5, <2>4, <2>5
  <2>11. Adds(theme, active, inflight, rows, g, c, b, p, new, all) BY <2>8, <2>9, <2>10 DEF Adds
  <2>7. Holds(theme, e, active, inflight \cup {p}, all, g) BY <2>6, <2>11, SubmittedHolds
  <2> QED BY <2>2, <2>3, <2>5, <2>7
<1>8. \A q \in out.pending : q.place[1] = Len(g) => q.place[2] \in 1 .. n
  <2>1. n \in 1 .. n /\ \A x \in 1 .. n - 1 : x \in 1 .. n OBVIOUS
  <2> QED BY <1>1, <1>2, <2>1
<1> QED BY <1>2, <1>5, <1>6, <1>7, <1>8 DEF Carries

\* A submission that is not refused, as a whole.
LEMMA SubmissionHolds ==
  ASSUME theme \in Themes, \A b \in DOMAIN commands.active : commands.active[b] \in DOMAIN theme.recordings,
         NEW c, NEW g, NEW N \in Nat, NEW base, NEW f, IsCarried(base), Carries(base, g, 0),
         Len(g) \in Nat \ {0}, Len(g) = Step, c = g[Len(g)], c.op = "QueueSubmit",
         SubmitsTo(f, base, c, N), f[N].ok
  PROVE  Carries(f[N], g, N)
PROOF
<1> DEFINE S == {n \in 0 .. N : IsCarried(f[n]) /\ (f[n].ok => Carries(f[n], g, n))}
<1>1. 0 \in S
  <2>1. f[0] = base BY DEF SubmitsTo
  <2> QED BY <2>1
<1>2. ASSUME NEW n \in 1 .. N, n - 1 \in S PROVE n \in S
  <2>1. f[n] = SubmitBuffer(f[n - 1], c, n)
    <3>1. n \in 0 .. N /\ n # 0 OBVIOUS
    <3> QED BY <3>1 DEF SubmitsTo
  <2>2. PICK s : s = f[n - 1] OBVIOUS
  <2>3. PICK out : out = f[n] OBVIOUS
  <2>4. IsCarried(s) /\ (s.ok => Carries(s, g, n - 1)) BY <1>2, <2>2
  <2>5. IsCarried(out) /\ (out.ok => \E b, p, new : Submits(s, out, c, n, b, p, new))
    BY <2>1, <2>2, <2>3, <2>4, SubmitBufferIs
  <2>6. ASSUME out.ok PROVE Carries(out, g, n)
    <3>1. PICK b, p, new : Submits(s, out, c, n, b, p, new) BY <2>5, <2>6
    <3>2. s.ok BY <3>1 DEF Submits
    <3>3. n \in Nat \ {0} OBVIOUS
    <3> QED BY <2>4, <3>1, <3>2, <3>3, CarriedOn
  <2>7. n \in 0 .. N OBVIOUS
  <2> QED BY <2>3, <2>5, <2>6, <2>7
<1> HIDE DEF S
<1>3. 0 .. N \subseteq S BY <1>1, <1>2, Counting
<1>4. N \in S BY <1>3
<1> QED BY <1>4 DEF S

-----------------------------------------------------------------------------
(* The timeline.                                                           *)

IsFcn(f)      == f = [x \in DOMAIN f |-> f[x]]
IsCommands(c) == /\ c = [active |-> c.active, generation |-> c.generation, once |-> c.once]
                 /\ IsFcn(c.active)

SetsInvariant ==
  phase # "refused" =>
    /\ theme \in Themes /\ steps \in Seq(CallsOf(theme)) /\ Listed(executions) /\ IsCommands(commands)
    /\ phase = "initial" => commands = NoCommands /\ pending = {} /\ executions = <<>>
    /\ phase = "accepted" => pending = {}
    /\ Holds(theme, descriptors, commands.active, pending, executions, steps)

\* What the replay starts from.
LEMMA InitSets == ASSUME Init PROVE SetsInvariant
PROOF
<1>1. SUFFICES ASSUME phase # "refused" PROVE SetsInvariant BY DEF SetsInvariant
<1>2. phase = "initial" /\ SourceQualified(theme) BY <1>1 DEF Init
<1>3. /\ theme \in Themes /\ steps = <<>> /\ descriptors = DescriptorLedger(theme.pools, theme.sets)
      /\ pending = {} /\ commands = NoCommands /\ executions = <<>>
  BY DEF Init
<1>4. descriptors.ok
  <2>1. AllocationsFit(theme.pools, theme.sets) BY <1>2 DEF SourceQualified
  <2>2. descriptors.ok = AllocationsFit(theme.pools, theme.sets) BY <1>3 DEF DescriptorLedger
  <2> QED BY <2>1, <2>2
<1>5. commands.active = <<>> /\ IsCommands(commands)
  <2>1. commands.active = <<>> BY <1>3 DEF NoCommands
  <2>2. DOMAIN <<>> = {} OBVIOUS
  <2>3. <<>> = [x \in {} |-> <<>>[x]] OBVIOUS
  <2>4. IsFcn(<<>>) BY <2>2, <2>3 DEF IsFcn
  <2> QED BY <1>3, <2>1, <2>4 DEF NoCommands, IsCommands
<1>6. Holds(theme, descriptors, <<>>, {}, <<>>, <<>>) BY <1>3, <1>4, InitHolds
<1>7. Listed(executions) /\ steps \in Seq(CallsOf(theme)) BY <1>3 DEF Listed
<1> QED BY <1>2, <1>3, <1>5, <1>6, <1>7 DEF SetsInvariant

\* The calls that are followed are calls of the replay, and well formed.
LEMMA InitialCallOk ==
  ASSUME SetsInvariant, InInitialState
  PROVE  theme.initial[Step] \in CallsOf(theme) /\ CallOk(theme.initial[Step])
PROOF
<1>1. theme \in Themes /\ steps \in Seq(CallsOf(theme)) BY DEF SetsInvariant, InInitialState
<1>2. Listed(theme.initial) BY <1>1, ThemesAssumption
<1>3. Len(theme.initial) \in Nat /\ DOMAIN theme.initial = 1 .. Len(theme.initial) BY <1>2, ListedIs
<1>4. Step \in DOMAIN theme.initial
  <2>1. Len(steps) \in Nat BY <1>1
  <2> QED BY <1>3, <2>1 DEF InInitialState, Step
<1> QED BY <1>1, <1>4, ThemesAssumption DEF CallsOf, ToSet

\* And those of the frame.
LEMMA FrameCallOk ==
  ASSUME SetsInvariant, NEW ops, NEW c \in FrameCalls(ops)
  PROVE  /\ c \in CallsOf(theme) /\ CallOk(c) /\ c.op \in ops /\ phase = "frame" /\ theme \in Themes
PROOF
<1>1. c \in theme.frame /\ c.op \in ops /\ phase = "frame" BY DEF FrameCalls
<1>2. theme \in Themes BY <1>1 DEF SetsInvariant
<1> QED BY <1>1, <1>2, ThemesAssumption DEF CallsOf

\* A call that is followed.
LEMMA FollowedSets ==
  ASSUME SetsInvariant, phase \in {"initial", "frame"}, NEW c \in CallsOf(theme), Follow(c),
         Holds(theme, descriptors', commands'.active, pending', executions', steps'),
         Listed(executions'), IsCommands(commands'),
         phase = "initial" => commands' = commands /\ pending' = pending /\ executions' = executions
  PROVE  SetsInvariant'
PROOF
<1>1. theme' = theme /\ phase' = phase /\ steps' = Append(steps, c) BY DEF Follow
<1>2. theme \in Themes /\ steps \in Seq(CallsOf(theme))
      /\ (phase = "initial" => commands = NoCommands /\ pending = {} /\ executions = <<>>)
  BY DEF SetsInvariant
<1>3. steps' \in Seq(CallsOf(theme)) BY <1>1, <1>2
<1> QED BY <1>1, <1>2, <1>3 DEF SetsInvariant

\* A call that is followed makes the calls one longer.
LEMMA FollowedLonger ==
  ASSUME SetsInvariant, phase \in {"initial", "frame"}, NEW c \in CallsOf(theme), Follow(c)
  PROVE  /\ Longer(steps, c, steps') /\ Step \in Nat \ {0} /\ Len(steps') = Step /\ steps'[Step] = c
         /\ Holds(theme, descriptors, commands.active, pending, executions, steps)
         /\ IsLedger(descriptors) /\ descriptors.ok
PROOF
<1>1. steps \in Seq(CallsOf(theme)) /\ Holds(theme, descriptors, commands.active, pending, executions, steps)
  BY DEF SetsInvariant
<1>2. steps' = Append(steps, c) BY DEF Follow
<1>3. Longer(steps, c, steps') BY <1>1, <1>2, AppendedLonger
<1>4. Len(steps) \in Nat BY <1>1
<1> QED BY <1>1, <1>3, <1>4 DEF Longer, Step, Holds, Counted

\* A call that leaves the descriptors as they are, or moves the sets that it reaches.
LEMMA CoveredSets ==
  ASSUME SetsInvariant, phase \in {"initial", "frame"}, NEW c \in CallsOf(theme), Follow(c),
         c.op # "RecordCommandBuffer", CoversCall(theme, c, descriptors, descriptors'),
         UNCHANGED <<pending, commands, executions>>
  PROVE  SetsInvariant'
PROOF
<1>1. /\ Longer(steps, c, steps')
      /\ Holds(theme, descriptors, commands.active, pending, executions, steps)
  BY FollowedLonger
<1>2. PICK g : g = steps' OBVIOUS
<1>3. PICK e : e = descriptors' OBVIOUS
<1>4. Holds(theme, e, commands.active, pending, executions, g) BY <1>1, <1>2, <1>3, CoveredHolds
<1>5. Listed(executions) /\ IsCommands(commands) BY DEF SetsInvariant
<1> QED BY <1>2, <1>3, <1>4, <1>5, FollowedSets

\* A refusal keeps nothing.
LEMMA RefusedSets == ASSUME Refuse PROVE SetsInvariant'
BY DEF Refuse, SetsInvariant

\* The calls that reach sets, and the one that records.
DescriptorCalls == {"UpdateDescriptorSets", "FreeDescriptorSets", "ResetDescriptorPool", "DestroyDescriptorPool"}

\* The other calls do neither.
LEMMA HelperQuiet ==
  ASSUME NEW c, InitialHelperOk(c) \/ c.op = "PopulateBuffer" \/ c.op \in UploadCalls \/ PassiveOk(c)
  PROVE  c.op \notin DescriptorCalls /\ c.op # "RecordCommandBuffer"
BY DEF InitialHelperOk, UploadCalls, PassiveOk, DescriptorCalls

\* Each step keeps SetsInvariant.  A call of the initial state.
LEMMA InitialSets == ASSUME SetsInvariant, InitialCall PROVE SetsInvariant'
PROOF
<1>1. CASE Refuse BY <1>1, RefusedSets
<1>2. CASE ~Refuse
  <2>1. PICK c : c = theme.initial[Step] OBVIOUS
  <2>2. InInitialState /\ UNCHANGED <<pending, commands>> /\ phase = "initial"
    BY DEF InitialCall, InInitialState
  <2>3. c \in CallsOf(theme) /\ CallOk(c) /\ theme \in Themes
    BY <2>1, <2>2, InitialCallOk DEF SetsInvariant
  <2>4. CASE c.op = "UpdateDescriptorSets"
    <3>1. /\ UpdateQualified(c) /\ Updated(c).ok /\ Follow(c) /\ descriptors' = Updated(c)
          /\ executions' = executions
      <4> DEFINE inside == /\ ended => c.op = "FreeCachedMemory"
                           /\ c.op = "InitEnd" => c.instance = theme.initial[1].instance
                 follow == /\ Follow(c) /\ descriptors' = Updated(c)
                           /\ UNCHANGED <<ended, uploads, executions>>
      <4>1. IF inside /\ UpdateQualified(c) /\ Updated(c).ok THEN follow ELSE Refuse
        BY <2>1, <2>4 DEF InitialCall, UploadCalls
      <4>2. inside /\ UpdateQualified(c) /\ Updated(c).ok /\ follow
        <5> HIDE DEF inside, follow
        <5> QED BY <1>2, <4>1
      <4> QED BY <4>2
    <3>2. CoversCall(theme, c, descriptors, descriptors')
      <4>1. PICK e : e = Updated(c) OBVIOUS
      <4>2. IsLedger(descriptors) BY <2>2, <2>3, <3>1, FollowedLonger
      <4>3. CoversCall(theme, c, descriptors, e) BY <2>3, <2>4, <3>1, <4>1, <4>2, UpdatedCovers
      <4> QED BY <3>1, <4>1, <4>3
    <3> QED BY <2>2, <2>3, <2>4, <3>1, <3>2, CoveredSets
  <2>5. CASE c.op # "UpdateDescriptorSets"
    <3>1. /\ Follow(c) /\ descriptors' = descriptors /\ executions' = executions
          /\ InitialHelperOk(c) \/ c.op = "PopulateBuffer" \/ c.op \in UploadCalls
      <4>1. CASE c.op = "PopulateBuffer" \/ c.op \in UploadCalls
        BY <1>2, <2>1, <2>5, <4>1 DEF InitialCall
      <4>2. CASE ~(c.op = "PopulateBuffer" \/ c.op \in UploadCalls)
        BY <1>2, <2>1, <2>5, <4>2 DEF InitialCall
      <4> QED BY <4>1, <4>2
    <3>2. c.op \notin DescriptorCalls /\ c.op # "RecordCommandBuffer" BY <3>1, HelperQuiet
    <3>3. IsLedger(descriptors) /\ descriptors.ok BY <2>2, <2>3, <3>1, FollowedLonger
    <3>4. CoversCall(theme, c, descriptors, descriptors) BY <3>2, <3>3, QuietCovers DEF DescriptorCalls
    <3> QED BY <2>2, <2>3, <3>1, <3>2, <3>4, CoveredSets
  <2> QED BY <2>4, <2>5
<1> QED BY <1>1, <1>2

\* The frame begins.
LEMMA BeginSets == ASSUME SetsInvariant, BeginFrame PROVE SetsInvariant'
BY DEF SetsInvariant, BeginFrame, ledgers

\* A call that the uploads follow.
LEMMA UploadSets == ASSUME SetsInvariant, FollowUpload PROVE SetsInvariant'
PROOF
<1>1. CASE Refuse BY <1>1, RefusedSets
<1>2. CASE ~Refuse
  <2>1. PICK c \in FrameCalls(UploadCalls) :
          LET over    == {p \in pending : Done(c, p)}
              retired == Completed(descriptors, over)
          IN  /\ retired.ok /\ Follow(c) /\ descriptors' = retired /\ pending' = pending \ over
              /\ UNCHANGED <<commands, executions>>
    BY <1>2 DEF FollowUpload
  <2>2. PICK over : over = {p \in pending : Done(c, p)} OBVIOUS
  <2>3. PICK e : e = Completed(descriptors, over) OBVIOUS
  <2>4. /\ e.ok /\ Follow(c) /\ descriptors' = e /\ pending' = pending \ over
        /\ commands' = commands /\ executions' = executions
    BY <2>1, <2>2, <2>3
  <2>5. c \in CallsOf(theme) /\ c.op \in UploadCalls /\ phase = "frame" BY FrameCallOk
  <2>6. /\ Longer(steps, c, steps')
        /\ Holds(theme, descriptors, commands.active, pending, executions, steps)
    BY <2>4, <2>5, FollowedLonger
  <2>7. PICK g : g = steps' OBVIOUS
  <2>8. Holds(theme, e, commands.active, pending \ over, executions, g)
    BY <2>2, <2>3, <2>4, <2>5, <2>6, <2>7, CompletedHolds
  <2>9. Listed(executions) /\ IsCommands(commands) BY <2>5 DEF SetsInvariant
  <2> QED BY <2>4, <2>5, <2>7, <2>8, <2>9, FollowedSets
<1> QED BY <1>1, <1>2

\* A call that the descriptors follow.
LEMMA DescriptorSets == ASSUME SetsInvariant, FollowDescriptors PROVE SetsInvariant'
PROOF
<1>1. CASE Refuse BY <1>1, RefusedSets
<1>2. CASE ~Refuse
  <2> DEFINE next(c) == CASE c.op = "UpdateDescriptorSets" -> Checked(descriptors, UpdateQualified(c), Updated(c))
                          [] c.op = "FreeDescriptorSets"   -> FreeDescriptorSets(descriptors, c)
                          [] OTHER                         -> EndDescriptorPool(descriptors, c)
  <2>1. PICK c \in FrameCalls(DescriptorCalls) :
          /\ next(c).ok /\ Follow(c) /\ descriptors' = next(c)
          /\ UNCHANGED <<pending, commands, executions>>
    BY <1>2 DEF FollowDescriptors, DescriptorCalls
  <2>2. PICK e : e = next(c)
    <3> HIDE DEF next
    <3> QED OBVIOUS
  <2>3. /\ e.ok /\ Follow(c) /\ descriptors' = e /\ UNCHANGED <<pending, commands, executions>>
    <3> HIDE DEF next
    <3> QED BY <2>1, <2>2
  <2>4. c \in CallsOf(theme) /\ CallOk(c) /\ c.op \in DescriptorCalls /\ phase = "frame" /\ theme \in Themes
    BY FrameCallOk
  <2>5. /\ Holds(theme, descriptors, commands.active, pending, executions, steps) /\ IsLedger(descriptors)
    BY <2>3, <2>4, FollowedLonger
  <2>6. CoversCall(theme, c, descriptors, e)
    <3>1. CASE c.op = "UpdateDescriptorSets"
      <4>1. e = Checked(descriptors, UpdateQualified(c), Updated(c)) BY <2>2, <3>1
      <4>2. UpdateQualified(c) \in BOOLEAN BY DEF UpdateQualified
      <4>3. UpdateQualified(c) /\ e = Updated(c) BY <2>3, <2>5, <4>1, <4>2, CheckedOk
      <4> QED BY <2>3, <2>4, <2>5, <3>1, <4>3, UpdatedCovers
    <3>2. CASE c.op = "FreeDescriptorSets"
      <4>1. e = FreeDescriptorSets(descriptors, c) BY <2>2, <3>2
      <4> QED BY <2>3, <2>5, <3>2, <4>1, FreedCovers
    <3>3. CASE c.op \in {"ResetDescriptorPool", "DestroyDescriptorPool"}
      <4>1. e = EndDescriptorPool(descriptors, c) BY <2>2, <3>3
      <4>2. Counted(theme, descriptors, pending) BY <2>5 DEF Holds
      <4> QED BY <2>3, <3>3, <4>1, <4>2, PoolCovers
    <3> QED BY <2>4, <3>1, <3>2, <3>3 DEF DescriptorCalls
  <2>7. c.op # "RecordCommandBuffer" BY <2>4 DEF DescriptorCalls
  <2> QED BY <2>3, <2>4, <2>6, <2>7, CoveredSets
<1> QED BY <1>1, <1>2

\* A call that neither follows.
LEMMA QuietSets == ASSUME SetsInvariant, QueueLabel \/ PassiveCall PROVE SetsInvariant'
PROOF
<1>1. CASE Refuse BY <1>1, RefusedSets
<1>2. CASE ~Refuse
  <2>1. PICK c : /\ \E ops : c \in FrameCalls(ops)
                 /\ c.op \notin DescriptorCalls /\ c.op # "RecordCommandBuffer"
                 /\ Follow(c) /\ descriptors' = descriptors /\ UNCHANGED <<pending, commands, executions>>
    <3>1. CASE QueueLabel
      <4>1. PICK c \in FrameCalls({"QueueBeginDebugUtilsLabel", "QueueEndDebugUtilsLabel"}) :
              Follow(c) /\ descriptors' = descriptors /\ UNCHANGED <<pending, commands, executions>>
        BY <1>2, <3>1 DEF QueueLabel, ledgers
      <4>2. c.op \in {"QueueBeginDebugUtilsLabel", "QueueEndDebugUtilsLabel"} BY DEF FrameCalls
      <4> QED BY <4>1, <4>2 DEF DescriptorCalls
    <3>2. CASE PassiveCall
      <4>1. PICK c \in FrameCalls({x.op : x \in theme.frame} \ Followed) :
              /\ PassiveOk(c)
              /\ Follow(c) /\ descriptors' = descriptors /\ UNCHANGED <<pending, commands, executions>>
        BY <1>2, <3>2 DEF PassiveCall, ledgers
      <4>2. c.op \notin DescriptorCalls /\ c.op # "RecordCommandBuffer" BY <4>1, HelperQuiet
      <4> QED BY <4>1, <4>2
    <3> QED BY <3>1, <3>2
  <2>2. c \in CallsOf(theme) /\ phase = "frame" BY <2>1, FrameCallOk
  <2>3. IsLedger(descriptors) /\ descriptors.ok BY <2>1, <2>2, FollowedLonger
  <2>4. CoversCall(theme, c, descriptors, descriptors) BY <2>1, <2>3, QuietCovers DEF DescriptorCalls
  <2> QED BY <2>1, <2>2, <2>4, CoveredSets
<1> QED BY <1>1, <1>2

\* A buffer is recorded, and what it held is forgotten.
LEMMA RecordSets == ASSUME SetsInvariant, RecordCommandBuffer PROVE SetsInvariant'
PROOF
<1>1. CASE Refuse BY <1>1, RefusedSets
<1>2. CASE ~Refuse
  <2> DEFINE released(c) == IF c.buffer \in DOMAIN commands.active
                            THEN Forget(descriptors, commands.active[c.buffer]) ELSE descriptors
             made(c) == Put(commands.active, c.buffer, c.recording)
             times(c) == Put(commands.generation, c.buffer, At(commands.generation, c.buffer, 0) + 1)
             next(c) == Recorded(released(c), c.recording, theme.recordings[c.recording].bound)
  <2>1. PICK c \in FrameCalls({"RecordCommandBuffer"}) :
          /\ RecordingQualified(c.recording) /\ theme.recordings[c.recording].buffer = c.buffer
          /\ next(c).ok /\ Follow(c) /\ descriptors' = next(c)
          /\ commands' = [commands EXCEPT !.active = made(c), !.generation = times(c)]
          /\ UNCHANGED <<pending, executions>>
    BY <1>2 DEF RecordCommandBuffer
  <2>2. c \in CallsOf(theme) /\ c.op = "RecordCommandBuffer" /\ phase = "frame" /\ theme \in Themes
    BY FrameCallOk
  <2>3. PICK d : d = released(c)
    <3> HIDE DEF released
    <3> QED OBVIOUS
  <2>4. PICK r : r = c.recording OBVIOUS
  <2>5. PICK e : e = Recorded(d, r, theme.recordings[r].bound) OBVIOUS
  <2>6. PICK now : now = Put(commands.active, c.buffer, r) OBVIOUS
  <2>7. PICK later : later = times(c)
    <3> HIDE DEF times
    <3> QED OBVIOUS
  <2>8. /\ RecordingQualified(r) /\ theme.recordings[r].buffer = c.buffer
        /\ e.ok /\ Follow(c) /\ descriptors' = e
        /\ commands' = [commands EXCEPT !.active = now, !.generation = later]
        /\ pending' = pending /\ executions' = executions
    <3> HIDE DEF released, times
    <3> QED BY <2>1, <2>3, <2>4, <2>5, <2>6, <2>7
  <2>9. /\ Longer(steps, c, steps')
        /\ Holds(theme, descriptors, commands.active, pending, executions, steps) /\ IsLedger(descriptors)
    BY <2>2, <2>8, FollowedLonger
  <2>10. PICK g : g = steps' OBVIOUS
  <2>11. r \in DOMAIN theme.recordings /\ theme.recordings[r].read BY <2>8 DEF RecordingQualified
  <2>12. Holds(theme, e, now, pending, executions, g)
    <3>1. CASE c.buffer \notin DOMAIN commands.active
      <4>1. d = descriptors BY <2>3, <3>1
      <4>2. PICK active : active = commands.active OBVIOUS
      <4>3. Holds(theme, d, active, pending, executions, steps) /\ c.buffer \notin DOMAIN active
            /\ now = Put(active, c.buffer, r)
        BY <2>6, <2>9, <3>1, <4>1, <4>2
      <4> QED BY <2>2, <2>4, <2>5, <2>8, <2>9, <2>10, <2>11, <4>3, RecordedHolds
    <3>2. CASE c.buffer \in DOMAIN commands.active
      <4>1. PICK b : b = c.buffer OBVIOUS
      <4>2. PICK active : active = commands.active OBVIOUS
      <4>3. PICK left : left = [x \in DOMAIN active \ {b} |-> active[x]] OBVIOUS
      <4>4. d = Forget(descriptors, active[b]) /\ b \in DOMAIN active BY <2>3, <3>2, <4>1, <4>2
      <4>5. IsLedger(d)
        <5>1. PICK q : q = active[b] OBVIOUS
        <5> QED BY <2>9, <4>4, <5>1, ForgetIs
      <4>6. d.ok BY <2>5, <2>8, <4>5, RecordedIs
      <4>7. Holds(theme, d, left, pending, executions, steps)
        BY <2>9, <4>2, <4>3, <4>4, <4>6, ForgottenHolds
      <4>8. now = Put(left, b, r)
        <5>1. DOMAIN left = DOMAIN active \ {b} /\ \A x \in DOMAIN active \ {b} : left[x] = active[x] BY <4>3
        <5>2. DOMAIN active \cup {b} = DOMAIN left \cup {b} BY <5>1
        <5>3. now = [y \in DOMAIN active \cup {b} |-> IF y = b THEN r ELSE active[y]]
          BY <2>6, <4>1, <4>2 DEF Put
        <5>4. Put(left, b, r) = [y \in DOMAIN left \cup {b} |-> IF y = b THEN r ELSE left[y]] BY DEF Put
        <5> QED BY <5>1, <5>2, <5>3, <5>4
      <4>9. b \notin DOMAIN left BY <4>3
      <4> QED BY <2>2, <2>4, <2>5, <2>8, <2>9, <2>10, <2>11, <4>1, <4>7, <4>8, <4>9, RecordedHolds
    <3> QED BY <3>1, <3>2
  <2>13. Listed(executions) /\ IsCommands(commands) BY <2>2 DEF SetsInvariant
  <2>14. commands'.active = now /\ IsCommands(commands')
    <3>1. IsFcn(now) BY <2>6 DEF Put, IsFcn
    <3> QED BY <2>8, <2>13, <3>1 DEF IsCommands
  <2> QED BY <2>2, <2>8, <2>10, <2>12, <2>13, <2>14, FollowedSets
<1> QED BY <1>1, <1>2

\* A buffer is reset, and what it held is forgotten.
LEMMA ResetSets == ASSUME SetsInvariant, ResetCommandBuffer PROVE SetsInvariant'
PROOF
<1>1. CASE Refuse BY <1>1, RefusedSets
<1>2. CASE ~Refuse
  <2> DEFINE next(c) == IF c.buffer \in DOMAIN commands.active
                        THEN Forget(descriptors, commands.active[c.buffer]) ELSE descriptors
             rest(c) == [b \in DOMAIN commands.active \ {c.buffer} |-> commands.active[b]]
  <2>1. PICK c \in FrameCalls({"ResetCommandBuffer"}) :
          /\ next(c).ok /\ Follow(c) /\ descriptors' = next(c)
          /\ commands' = [commands EXCEPT !.active = rest(c)]
          /\ UNCHANGED <<pending, executions>>
    BY <1>2 DEF ResetCommandBuffer
  <2>2. c \in CallsOf(theme) /\ c.op = "ResetCommandBuffer" /\ phase = "frame" /\ theme \in Themes
    BY FrameCallOk
  <2>3. PICK e : e = next(c)
    <3> HIDE DEF next
    <3> QED OBVIOUS
  <2>4. PICK active : active = commands.active OBVIOUS
  <2>5. PICK b : b = c.buffer OBVIOUS
  <2>6. PICK now : now = [x \in DOMAIN active \ {b} |-> active[x]] OBVIOUS
  <2>7. rest(c) = now BY <2>4, <2>5, <2>6
  <2>8. /\ e.ok /\ Follow(c) /\ descriptors' = e /\ commands' = [commands EXCEPT !.active = now]
        /\ pending' = pending /\ executions' = executions
    <3> HIDE DEF next, rest
    <3> QED BY <2>1, <2>3, <2>7
  <2>9. /\ Longer(steps, c, steps')
        /\ Holds(theme, descriptors, active, pending, executions, steps)
        /\ IsLedger(descriptors) /\ descriptors.ok
    BY <2>2, <2>4, <2>8, FollowedLonger
  <2>10. PICK g : g = steps' OBVIOUS
  <2>11. Holds(theme, e, now, pending, executions, steps) /\ IsLedger(e)
    <3>1. CASE b \notin DOMAIN active
      <4>1. e = descriptors BY <2>3, <2>4, <2>5, <3>1
      <4>2. now = active
        <5>1. DOMAIN active \ {b} = DOMAIN active BY <3>1
        <5>2. now = [x \in DOMAIN active |-> active[x]] BY <2>6, <5>1
        <5>3. IsFcn(active) BY <2>2, <2>4 DEF SetsInvariant, IsCommands
        <5> QED BY <5>2, <5>3 DEF IsFcn
      <4> QED BY <2>9, <4>1, <4>2
    <3>2. CASE b \in DOMAIN active
      <4>1. e = Forget(descriptors, active[b]) BY <2>3, <2>4, <2>5, <3>2
      <4> QED BY <2>6, <2>8, <2>9, <3>2, <4>1, ForgottenHolds DEF Holds, Counted
    <3> QED BY <3>1, <3>2
  <2>12. c.op \notin DescriptorCalls /\ c.op # "RecordCommandBuffer" BY <2>2 DEF DescriptorCalls
  <2>13. CoversCall(theme, c, e, e) BY <2>8, <2>11, <2>12, QuietCovers DEF DescriptorCalls
  <2>14. Holds(theme, e, now, pending, executions, g) BY <2>9, <2>10, <2>11, <2>12, <2>13, CoveredHolds
  <2>15. Listed(executions) /\ IsCommands(commands) BY <2>2 DEF SetsInvariant
  <2>16. commands'.active = now /\ IsCommands(commands')
    <3>1. IsFcn(now) BY <2>6 DEF IsFcn
    <3> QED BY <2>8, <2>15, <3>1 DEF IsCommands
  <2> QED BY <2>2, <2>8, <2>10, <2>14, <2>15, <2>16, FollowedSets
<1> QED BY <1>1, <1>2

\* A submission that is not refused, and the function that it follows.
SubmitsCall(c, base, f) ==
  /\ c \in FrameCalls({"QueueSubmit"}) /\ SubmitQualified(c) /\ Follow(c)
  /\ base = [ok |-> TRUE, uploads |-> uploads, descriptors |-> descriptors, pending |-> pending,
             once |-> commands.once, executions |-> executions]
  /\ SubmitsTo(f, base, c, Len(InOrder(c))) /\ f[Len(InOrder(c))].ok
  /\ uploads' = f[Len(InOrder(c))].uploads
  /\ descriptors' = f[Len(InOrder(c))].descriptors /\ pending' = f[Len(InOrder(c))].pending
  /\ executions' = f[Len(InOrder(c))].executions
  /\ commands' = [commands EXCEPT !.once = f[Len(InOrder(c))].once]
  /\ submission' = submission + 1

\* A submission that is followed is such a one.
LEMMA SubmissionIs ==
  ASSUME SetsInvariant, QueueSubmit, ~Refuse
  PROVE  \E c, base, f : SubmitsCall(c, base, f)
PROOF
<1> DEFINE before == [ok |-> TRUE, uploads |-> uploads, descriptors |-> descriptors, pending |-> pending,
                      once |-> commands.once, executions |-> executions]
           chain(c) == CHOOSE x : x = [n \in 0 .. Len(InOrder(c)) |->
                         IF n = 0 THEN before ELSE SubmitBuffer(x[n - 1], c, n)]
           taken(c, after) ==
             /\ Follow(c)
             /\ uploads' = after.uploads /\ descriptors' = after.descriptors
             /\ pending' = after.pending /\ executions' = after.executions
             /\ commands' = [commands EXCEPT !.once = after.once]
             /\ fences' = [f \in DOMAIN fences |->
                  IF f = c.fence THEN [fences[f] EXCEPT !.pending = TRUE] ELSE fences[f]]
             /\ submission' = submission + 1
             /\ UNCHANGED <<ended, labels>>
           after(c) == chain(c)[Len(InOrder(c))]
<1>1. PICK base : base = before OBVIOUS
<1>2. PICK c \in FrameCalls({"QueueSubmit"}) :
        IF SubmitQualified(c) /\ after(c).ok THEN taken(c, after(c)) ELSE Refuse
  BY DEF QueueSubmit
<1>9. SubmitQualified(c) /\ after(c).ok /\ taken(c, after(c))
  <2> HIDE DEF taken, after
  <2> QED BY <1>2
<1>3. CallOk(c) /\ c.op = "QueueSubmit" BY FrameCallOk
<1>4. Len(InOrder(c)) \in Nat BY <1>3, InOrderIs
<1>5. PICK f : f = chain(c) OBVIOUS
<1>6. SubmitsTo(f, base, c, Len(InOrder(c)))
  <2>1. \E x : SubmitsTo(x, base, c, Len(InOrder(c))) BY <1>4, SubmitsExist
  <2> QED BY <1>1, <1>5, <2>1 DEF SubmitsTo
<1>7. after(c) = f[Len(InOrder(c))] BY <1>5
<1>8. SubmitsCall(c, base, f)
  <2> HIDE DEF after
  <2> QED BY <1>1, <1>6, <1>7, <1>9 DEF SubmitsCall
<1> QED BY <1>8

\* What the active buffers hold are recordings of the replay.
LEMMA ActiveRecordings ==
  ASSUME SetsInvariant, phase \in {"initial", "frame"}
  PROVE  \A b \in DOMAIN commands.active : /\ commands.active[b] \in DOMAIN theme.recordings
                                           /\ theme.recordings[commands.active[b]].read
BY DEF SetsInvariant, Holds, Counted, ActiveHolds

\* A submission.
LEMMA SubmitSets == ASSUME SetsInvariant, QueueSubmit PROVE SetsInvariant'
PROOF
<1>1. CASE Refuse BY <1>1, RefusedSets
<1>2. CASE ~Refuse
  <2>1. PICK c, base, f : SubmitsCall(c, base, f) BY <1>2, SubmissionIs
  <2>2. PICK N : N = Len(InOrder(c)) OBVIOUS
  <2>3. PICK out : out = f[N] OBVIOUS
  <2>4. /\ c \in FrameCalls({"QueueSubmit"}) /\ Follow(c)
        /\ base = [ok |-> TRUE, uploads |-> uploads, descriptors |-> descriptors, pending |-> pending,
                   once |-> commands.once, executions |-> executions]
        /\ SubmitsTo(f, base, c, N) /\ out.ok
        /\ descriptors' = out.descriptors /\ pending' = out.pending /\ executions' = out.executions
        /\ commands' = [commands EXCEPT !.once = out.once]
    BY <2>1, <2>2, <2>3 DEF SubmitsCall
  <2>5. c \in CallsOf(theme) /\ CallOk(c) /\ c.op = "QueueSubmit" /\ phase = "frame" /\ theme \in Themes
    BY <2>4, FrameCallOk
  <2>6. N \in Nat BY <2>2, <2>5, InOrderIs
  <2>7. /\ Longer(steps, c, steps') /\ Step \in Nat \ {0} /\ Len(steps') = Step /\ steps'[Step] = c
        /\ Holds(theme, descriptors, commands.active, pending, executions, steps)
        /\ IsLedger(descriptors) /\ descriptors.ok
    BY <2>4, <2>5, FollowedLonger
  <2>8. PICK g : g = steps' OBVIOUS
  <2>9. Len(g) \in Nat \ {0} /\ Len(g) = Step /\ c = g[Len(g)] BY <2>7, <2>8
  <2>10. Listed(executions) /\ IsCommands(commands) BY <2>5 DEF SetsInvariant
  <2>11. Holds(theme, descriptors, commands.active, pending, executions, g)
    <3>1. CoversCall(theme, c, descriptors, descriptors) BY <2>5, <2>7, QuietCovers
    <3> QED BY <2>5, <2>7, <2>8, <3>1, CoveredHolds
  <2>12. \A p \in pending : p.place[1] # Len(g)
    <3>1. Earlier(pending, steps) /\ Len(steps) \in Nat /\ Len(g) = Len(steps) + 1
      BY <2>7, <2>8 DEF Holds, Longer
    <3> QED BY <3>1 DEF Earlier
  <2>13. IsCarried(base) /\ Carries(base, g, 0)
    <3>1. IsCarried(base) BY <2>4 DEF IsCarried
    <3>2. base.descriptors = descriptors /\ base.pending = pending /\ base.executions = executions BY <2>4
    <3> QED BY <2>10, <2>11, <2>12, <3>1, <3>2 DEF Carries
  <2>14. \A b \in DOMAIN commands.active : commands.active[b] \in DOMAIN theme.recordings
    BY <2>5, ActiveRecordings
  <2>15. Carries(out, g, N)
    BY <2>3, <2>4, <2>5, <2>6, <2>9, <2>13, <2>14, SubmissionHolds
  <2>16. /\ Holds(theme, out.descriptors, commands.active, out.pending, out.executions, g)
         /\ Listed(out.executions)
    BY <2>15 DEF Carries
  <2>17. commands'.active = commands.active /\ IsCommands(commands')
    BY <2>4, <2>10 DEF IsCommands
  <2> QED BY <2>4, <2>5, <2>8, <2>16, <2>17, FollowedSets
<1> QED BY <1>1, <1>2

\* The frame ends.
LEMMA EndSetsFrame == ASSUME SetsInvariant, EndFrame PROVE SetsInvariant'
PROOF
<1>1. CASE Refuse BY <1>1, RefusedSets
<1>2. CASE ~Refuse
  <2>1. /\ phase = "frame" /\ pending = {} /\ phase' = "accepted"
        /\ theme' = theme /\ steps' = steps /\ descriptors' = descriptors /\ pending' = pending
        /\ commands' = commands /\ executions' = executions
    BY <1>2 DEF EndFrame, ledgers
  <2> QED BY <2>1 DEF SetsInvariant
<1> QED BY <1>1, <1>2

\* Nothing happens.
LEMMA StutteringSets == ASSUME SetsInvariant, UNCHANGED vars PROVE SetsInvariant'
BY DEF SetsInvariant, vars, ledgers

\* So every step keeps it.
LEMMA NextSets == ASSUME SetsInvariant, [Next]_vars PROVE SetsInvariant'
PROOF
<1>1. CASE InitialCall BY <1>1, InitialSets
<1>2. CASE BeginFrame BY <1>2, BeginSets
<1>3. CASE FollowUpload BY <1>3, UploadSets
<1>4. CASE FollowDescriptors BY <1>4, DescriptorSets
<1>5. CASE RecordCommandBuffer BY <1>5, RecordSets
<1>6. CASE ResetCommandBuffer BY <1>6, ResetSets
<1>7. CASE QueueLabel \/ PassiveCall BY <1>7, QuietSets
<1>8. CASE QueueSubmit BY <1>8, SubmitSets
<1>9. CASE EndFrame BY <1>9, EndSetsFrame
<1>10. CASE DeadlinePasses BY <1>10, RefusedSets DEF DeadlinePasses
<1>11. CASE UNCHANGED vars BY <1>11, StutteringSets
<1> QED BY <1>1, <1>2, <1>3, <1>4, <1>5, <1>6, <1>7, <1>8, <1>9, <1>10, <1>11 DEF Next

\* At every moment the ledger counts exactly the submissions in flight of each
\* recording, and a recording that is still valid has had no call reach a set that
\* it binds: every execution is either over, with its sets spared to the call that
\* proved it, or in flight with the recording that its buffer still holds.
THEOREM TimelineInvariant == Spec => []SetsInvariant
PROOF
<1>1. Init => SetsInvariant BY InitSets
<1>2. SetsInvariant /\ [Next]_vars => SetsInvariant' BY NextSets
<1> QED BY <1>1, <1>2, PTL DEF Spec

\* The last recording before a submission is the one that the property names.
LEMMA RecordedIsLast ==
  ASSUME NEW n \in Nat, NEW b, NEW j, IsLast(steps, n - 1, b, j)
  PROVE  RecordedBefore(n, b) = j
PROOF
<1> DEFINE S == {i \in StepsBefore(n, {"RecordCommandBuffer"}) : steps[i].buffer = b}
<1>1. \A i : i \in S <=> i \in 1 .. n - 1 /\ Records(steps[i], b) BY DEF StepsBefore, Records
<1>2. j \in S /\ \A i \in S : i <= j BY <1>1 DEF IsLast
<1>3. S \subseteq Nat BY <1>1
<1>4. PICK x : x = Latest(S) OBVIOUS
<1>5. x \in S /\ \A i \in S : i <= x BY <1>2, <1>4 DEF Latest
<1>6. x = j BY <1>2, <1>3, <1>5
<1> QED BY <1>4, <1>6 DEF RecordedBefore

\* The sets of the plans that an accepted replay keeps hold from the recording of
\* their command buffer to the end of each of its submissions.
LEMMA AcceptedSets == ASSUME SetsInvariant PROVE SetsHoldWhileRecorded
PROOF
<1> SUFFICES ASSUME Accepted, NEW p \in AllPlans
             PROVE  \E k \in p.at + 1 .. Len(steps) :
                      /\ Proves(k, p)
                      /\ \A j \in RecordedBefore(p.at, p.row.buffer) .. k : ~Touches(j, p)
  BY DEF SetsHoldWhileRecorded
<1>1. pending = {} /\ Holds(theme, descriptors, commands.active, pending, executions, steps)
  BY DEF SetsInvariant, Accepted
<1>2. PICK n \in DOMAIN executions : \E plan \in executions[n].plans :
        p = [at |-> executions[n].step, row |-> executions[n].selection, plan |-> plan]
  BY DEF AllPlans
<1>3. PICK row : row = executions[n] OBVIOUS
<1>4. p.at = row.step /\ p.row = row.selection /\ p.plan \in row.plans BY <1>2, <1>3
<1>5. RowOk(theme, row, steps) /\ Over(theme, row, steps)
  <2>1. RowHolds(theme, descriptors, commands.active, pending, row, steps) BY <1>1, <1>3 DEF Holds, RowsHold
  <2> QED BY <1>1, <2>1 DEF RowHolds, InFlight
<1>6. PICK bound : bound = theme.recordings[row.selection.recording].bound OBVIOUS
<1>7. /\ row.step \in Nat /\ p.plan.set \in bound /\ bound \subseteq DOMAIN SetsOf(theme)
  <2>1. Len(steps) \in Nat BY DEF SetsInvariant, Accepted
  <2> QED BY <1>4, <1>5, <1>6, <2>1 DEF RowOk
<1>8. PICK j : /\ IsLast(steps, row.step - 1, row.selection.buffer, j)
               /\ \E k \in row.step + 1 .. Len(steps) :
                    /\ Ended(theme, steps[k], row.selection.queue, steps[row.step].fence)
                    /\ Spared(theme, steps, j, k, bound)
  BY <1>5, <1>6 DEF Over
<1>9. PICK k \in row.step + 1 .. Len(steps) :
        /\ Ended(theme, steps[k], row.selection.queue, steps[row.step].fence)
        /\ Spared(theme, steps, j, k, bound)
  BY <1>8
<1>10. RecordedBefore(p.at, p.row.buffer) = j BY <1>4, <1>7, <1>8, RecordedIsLast
<1>11. Proves(k, p) BY <1>4, <1>9 DEF Proves, Ended
<1>12. ASSUME NEW i \in j .. k PROVE ~Touches(i, p)
  <2>1. ~Reaches(theme, steps[i], p.plan.set) BY <1>7, <1>9 DEF Spared
  <2>2. descriptors.sets[p.plan.set].allocation = SetsOf(theme)[p.plan.set].allocation
    BY <1>1, <1>7 DEF Holds, Counted
  <2> QED BY <2>1, <2>2 DEF Touches, Reaches, ReadsOf
<1> QED BY <1>4, <1>9, <1>10, <1>11, <1>12

\* From the recording of a command buffer to the end of each of its submissions no
\* update, copy, free or pool reset reaches a set that its accepted plans read,
\* for any replay and any order of its calls (ValueDescriptors.cpp:54).
THEOREM SetsAlwaysHold == Spec => []SetsHoldWhileRecorded
PROOF
<1>1. SetsInvariant => SetsHoldWhileRecorded BY AcceptedSets
<1> QED BY <1>1, TimelineInvariant, PTL

-----------------------------------------------------------------------------
(* The cheap listing of the same submissions.                              *)

\* The selections of the executions.
Selections(rows) == [n \in DOMAIN rows |-> rows[n].selection]

\* The selections of two lists.
LEMMA SelectionsJoin ==
  ASSUME NEW a, NEW b, Listed(a), Listed(b)
  PROVE  Selections(a \o b) = Selections(a) \o Selections(b)
PROOF
<1>1. /\ Len(a) \in Nat /\ DOMAIN a = 1 .. Len(a)
      /\ Len(b) \in Nat /\ DOMAIN b = 1 .. Len(b)
  BY ListedIs
<1>2. PICK T : T = {a[i].selection : i \in DOMAIN a} \cup {b[i].selection : i \in DOMAIN b} OBVIOUS
<1>3. PICK x : x = Selections(a) OBVIOUS
<1>4. PICK y : y = Selections(b) OBVIOUS
<1>5. x \in [1 .. Len(a) -> T] /\ y \in [1 .. Len(b) -> T] BY <1>1, <1>2, <1>3, <1>4 DEF Selections
<1>6. x \in Seq(T) /\ Len(x) = Len(a) /\ y \in Seq(T) /\ Len(y) = Len(b)
  <2>1. PICK n \in Nat : n = Len(a) BY <1>1
  <2>2. PICK m \in Nat : m = Len(b) BY <1>1
  <2>3. x \in [1 .. n -> T] /\ y \in [1 .. m -> T] BY <1>5, <2>1, <2>2
  <2>4. x \in Seq(T) /\ y \in Seq(T) BY <2>3
  <2>5. DOMAIN x = 1 .. n /\ DOMAIN y = 1 .. m BY <2>3
  <2> QED BY <2>1, <2>2, <2>4, <2>5
<1>7. PICK j : j = a \o b OBVIOUS
<1>8. Joins(a, b, j) BY <1>7, JoinedList
<1>9. DOMAIN j = 1 .. Len(a) + Len(b)
  <2>1. Listed(j) /\ Len(j) = Len(a) + Len(b) BY <1>8 DEF Joins
  <2> QED BY <2>1, ListedIs
<1>10. PICK z : z = x \o y OBVIOUS
<1>11. /\ z \in Seq(T) /\ DOMAIN z = 1 .. Len(a) + Len(b)
       /\ \A i \in 1 .. Len(a) + Len(b) : z[i] = IF i <= Len(a) THEN x[i] ELSE y[i - Len(a)]
  <2>1. /\ z \in Seq(T) /\ DOMAIN z = 1 .. Len(x) + Len(y)
        /\ \A i \in 1 .. Len(x) + Len(y) : z[i] = IF i <= Len(x) THEN x[i] ELSE y[i - Len(x)]
    <3>1. x \in Seq(T) /\ y \in Seq(T) BY <1>6
    <3> QED BY <1>10, <3>1
  <2> QED BY <1>6, <2>1
<1>12. ASSUME NEW i \in 1 .. Len(a) + Len(b) PROVE z[i] = j[i].selection
  <2>1. CASE i <= Len(a)
    <3>1. i \in 1 .. Len(a) BY <1>1, <2>1
    <3>2. z[i] = x[i] /\ x[i] = a[i].selection BY <1>1, <1>3, <1>11, <2>1, <3>1 DEF Selections
    <3>3. j[i] = a[i] BY <1>8, <3>1 DEF Joins
    <3> QED BY <3>2, <3>3
  <2>2. CASE ~(i <= Len(a))
    <3>1. PICK k : k = i - Len(a) OBVIOUS
    <3>2. k \in 1 .. Len(b) /\ i = Len(a) + k BY <1>1, <2>2, <3>1
    <3>3. z[i] = y[k] /\ y[k] = b[k].selection BY <1>1, <1>4, <1>11, <2>2, <3>1, <3>2 DEF Selections
    <3>4. j[i] = b[k] BY <1>8, <3>2 DEF Joins
    <3> QED BY <3>3, <3>4
  <2> QED BY <2>1, <2>2
<1>13. z = [i \in 1 .. Len(a) + Len(b) |-> z[i]] BY <1>11
<1>14. z = Selections(j)
  <2>1. Selections(j) = [i \in 1 .. Len(a) + Len(b) |-> j[i].selection] BY <1>9 DEF Selections
  <2> QED BY <1>12, <1>13, <2>1
<1> QED BY <1>3, <1>4, <1>7, <1>10, <1>14

\* The recursive function of a submission's candidates.
ListsTo(l, t, found, c, n) ==
  l = [k \in 0 .. n |-> IF k = 0 THEN found.rows ELSE l[k - 1] \o CandidateRows(t, found, c, InOrder(c)[k])]

\* There is such a function.
LEMMA ListsExist ==
  ASSUME NEW N \in Nat, NEW t, NEW found, NEW c
  PROVE  \E l : ListsTo(l, t, found, c, N)
PROOF
<1> DEFINE rows(k) == CandidateRows(t, found, c, InOrder(c)[k])
           S == {n \in 0 .. N : \E l : ListsTo(l, t, found, c, n)}
<1>1. 0 \in S
  <2> DEFINE l == [k \in 0 .. 0 |-> found.rows]
  <2>1. ListsTo(l, t, found, c, 0) BY DEF ListsTo
  <2> QED BY <2>1
<1>2. ASSUME NEW n \in 1 .. N, n - 1 \in S PROVE n \in S
  <2>1. PICK l : ListsTo(l, t, found, c, n - 1) BY <1>2
  <2> DEFINE g == [k \in 0 .. n |-> IF k = n THEN l[n - 1] \o rows(n) ELSE l[k]]
  <2>2. ASSUME NEW k \in 0 .. n PROVE g[k] = IF k = 0 THEN found.rows ELSE g[k - 1] \o rows(k)
    <3>1. CASE k = n
      <4>1. k # 0 /\ k - 1 \in 0 .. n /\ k - 1 # n BY <3>1
      <4>2. g[k] = l[k - 1] \o rows(k) /\ g[k - 1] = l[k - 1] BY <3>1, <4>1
      <4> HIDE DEF g
      <4> QED BY <4>1, <4>2
    <3>2. CASE k # n
      <4>1. k \in 0 .. n - 1 /\ (k # 0 => k - 1 \in 0 .. n /\ k - 1 # n) BY <3>2
      <4>2. g[k] = l[k] /\ (k # 0 => g[k - 1] = l[k - 1]) BY <3>2, <4>1
      <4>3. l[k] = IF k = 0 THEN found.rows ELSE l[k - 1] \o rows(k) BY <2>1, <4>1 DEF ListsTo
      <4> HIDE DEF g
      <4> QED BY <4>2, <4>3
    <3> QED BY <3>1, <3>2
  <2>3. g = [k \in 0 .. n |-> g[k]] OBVIOUS
  <2>4. ListsTo(g, t, found, c, n)
    <3> HIDE DEF g
    <3> QED BY <2>2, <2>3 DEF ListsTo
  <2> HIDE DEF g
  <2> QED BY <2>4
<1> HIDE DEF S
<1>3. 0 .. N \subseteq S BY <1>1, <1>2, Counting
<1>4. N \in S BY <1>3
<1> QED BY <1>4 DEF S

\* What the cheap listing finds of the calls followed so far.
FoundAs(found, active, rows, number) ==
  found = [ok |-> TRUE, active |-> active, rows |-> Selections(rows), submission |-> number]

\* The executions after the first n buffers are the candidates after them.
Matches(s, l, n, c) ==
  /\ Listed(s.executions) /\ Selections(s.executions) = l[n]
  /\ \A k \in 1 .. n : c.submits[InOrder(c)[k][1]][InOrder(c)[k][2]] \in DOMAIN commands.active
  /\ n # 0 => Len(s.executions) <= MaxExecutions

\* From one buffer of a submission to the next.
LEMMA MatchedOn ==
  ASSUME NEW s, NEW out, NEW c, NEW n \in Nat \ {0}, NEW N, n \in 1 .. N, N \in Nat, NEW b, NEW p, NEW new,
         NEW found, FoundAs(found, commands.active, executions, submission),
         NEW l, ListsTo(l, theme, found, c, N), Matches(s, l, n - 1, c), Submits(s, out, c, n, b, p, new),
         \A x \in DOMAIN commands.active : theme.recordings[commands.active[x]].read
  PROVE  Matches(out, l, n, c)
PROOF
<1>1. PICK at : at = InOrder(c)[n] OBVIOUS
<1>2. PICK r : r = commands.active[b] OBVIOUS
<1>3. /\ b = c.submits[at[1]][at[2]] /\ b \in DOMAIN commands.active
      /\ Listed(new) /\ DOMAIN new = DOMAIN theme.recordings[r].draws
      /\ \A m \in DOMAIN new : new[m].selection = Selection(c, at, r, m, submission)
      /\ out.executions = s.executions \o new /\ Len(out.executions) <= MaxExecutions
  BY <1>1, <1>2 DEF Submits
<1>4. Listed(s.executions) /\ Selections(s.executions) = l[n - 1] BY DEF Matches
<1>5. l[n] = l[n - 1] \o CandidateRows(theme, found, c, at)
  <2>1. n \in 0 .. N /\ n # 0 OBVIOUS
  <2> QED BY <1>1, <2>1 DEF ListsTo
<1>6. CandidateRows(theme, found, c, at) = Selections(new)
  <2>1. found.active = commands.active /\ found.submission = submission BY DEF FoundAs
  <2>2. theme.recordings[r].read BY <1>2, <1>3
  <2>3. PICK draws : draws = theme.recordings[r].draws OBVIOUS
  <2>4. CandidateRows(theme, found, c, at) = [m \in DOMAIN draws |-> Selection(c, at, r, m, submission)]
    BY <1>2, <1>3, <2>1, <2>2, <2>3 DEF CandidateRows
  <2>5. Selections(new) = [m \in DOMAIN draws |-> new[m].selection] BY <1>3, <2>3 DEF Selections
  <2> QED BY <1>3, <2>3, <2>4, <2>5
<1>7. Listed(out.executions)
  <2>1. PICK a : a = s.executions OBVIOUS
  <2>2. Joins(a, new, a \o new) BY <1>3, <1>4, <2>1, JoinedList
  <2>3. Listed(a \o new) BY <2>2 DEF Joins
  <2> QED BY <1>3, <2>1, <2>3
<1>8. Selections(out.executions) = l[n]
  <2>1. PICK a : a = s.executions OBVIOUS
  <2>2. Selections(a \o new) = Selections(a) \o Selections(new) BY <1>3, <1>4, <2>1, SelectionsJoin
  <2>3. PICK rows : rows = CandidateRows(theme, found, c, at) OBVIOUS
  <2>4. l[n] = l[n - 1] \o rows /\ rows = Selections(new) BY <1>5, <1>6, <2>3
  <2> QED BY <1>3, <1>4, <2>1, <2>2, <2>4
<1>9. ASSUME NEW k \in 1 .. n
      PROVE  c.submits[InOrder(c)[k][1]][InOrder(c)[k][2]] \in DOMAIN commands.active
  <2>1. CASE k = n BY <1>1, <1>3, <2>1
  <2>2. CASE k # n
    <3>1. k \in 1 .. n - 1 BY <2>2
    <3> QED BY <3>1 DEF Matches
  <2> QED BY <2>1, <2>2
<1> QED BY <1>3, <1>7, <1>8, <1>9 DEF Matches

\* To its last buffer.
LEMMA SubmissionMatches ==
  ASSUME theme \in Themes,
         \A x \in DOMAIN commands.active : /\ commands.active[x] \in DOMAIN theme.recordings
                                           /\ theme.recordings[commands.active[x]].read,
         NEW c, NEW N \in Nat, NEW base, NEW f, IsCarried(base), SubmitsTo(f, base, c, N), f[N].ok,
         NEW found, FoundAs(found, commands.active, executions, submission),
         NEW l, ListsTo(l, theme, found, c, N), Matches(base, l, 0, c)
  PROVE  Matches(f[N], l, N, c)
PROOF
<1> DEFINE S == {n \in 0 .. N : IsCarried(f[n]) /\ (f[n].ok => Matches(f[n], l, n, c))}
<1>1. 0 \in S
  <2>1. f[0] = base BY DEF SubmitsTo
  <2> QED BY <2>1
<1>2. ASSUME NEW n \in 1 .. N, n - 1 \in S PROVE n \in S
  <2>1. f[n] = SubmitBuffer(f[n - 1], c, n)
    <3>1. n \in 0 .. N /\ n # 0 OBVIOUS
    <3> QED BY <3>1 DEF SubmitsTo
  <2>2. PICK s : s = f[n - 1] OBVIOUS
  <2>3. PICK out : out = f[n] OBVIOUS
  <2>4. IsCarried(s) /\ (s.ok => Matches(s, l, n - 1, c)) BY <1>2, <2>2
  <2>5. IsCarried(out) /\ (out.ok => \E b, p, new : Submits(s, out, c, n, b, p, new))
    BY <2>1, <2>2, <2>3, <2>4, SubmitBufferIs
  <2>6. ASSUME out.ok PROVE Matches(out, l, n, c)
    <3>1. PICK b, p, new : Submits(s, out, c, n, b, p, new) BY <2>5, <2>6
    <3>2. s.ok BY <3>1 DEF Submits
    <3>3. n \in Nat \ {0} OBVIOUS
    <3> QED BY <2>4, <3>1, <3>2, <3>3, MatchedOn
  <2>7. n \in 0 .. N OBVIOUS
  <2> QED BY <2>3, <2>5, <2>6, <2>7
<1> HIDE DEF S
<1>3. 0 .. N \subseteq S BY <1>1, <1>2, Counting
<1>4. N \in S BY <1>3
<1> QED BY <1>4 DEF S

\* A submission that is not refused, to the cheap listing.
LEMMA SubmissionListed ==
  ASSUME SetsInvariant, NEW c, NEW base, NEW f, SubmitsCall(c, base, f),
         NEW found, FoundAs(found, commands.active, executions, submission), found.rows = Selections(executions)
  PROVE  FoundAs(CandidateSubmit(theme, found, c), commands.active, f[Len(InOrder(c))].executions, submission + 1)
PROOF
<1>1. PICK N : N = Len(InOrder(c)) OBVIOUS
<1>2. PICK out : out = f[N] OBVIOUS
<1>3. /\ c \in FrameCalls({"QueueSubmit"}) /\ SubmitQualified(c)
      /\ base = [ok |-> TRUE, uploads |-> uploads, descriptors |-> descriptors, pending |-> pending,
                 once |-> commands.once, executions |-> executions]
      /\ SubmitsTo(f, base, c, N) /\ out.ok
  BY <1>1, <1>2 DEF SubmitsCall
<1>4. CallOk(c) /\ c.op = "QueueSubmit" /\ phase = "frame" /\ theme \in Themes BY <1>3, FrameCallOk
<1>5. /\ N \in Nat /\ DOMAIN InOrder(c) = 1 .. N /\ ToSet(InOrder(c)) = SubmittedBuffers(c)
  BY <1>1, <1>4, InOrderIs
<1>6. /\ Len(c.submits) \in 1 .. MaxSubmits
      /\ \A i \in DOMAIN c.submits : c.submits[i] # <<>>
  BY <1>3 DEF SubmitQualified
<1>7. N # 0
  <2>1. 1 \in DOMAIN c.submits
    <3>1. Len(c.submits) \in Nat /\ DOMAIN c.submits = 1 .. Len(c.submits) BY <1>4, ListedIs DEF CallOk
    <3> QED BY <1>6, <3>1
  <2>2. PICK s : s = c.submits[1] OBVIOUS
  <2>3. s \in Seq(ToSet(s)) /\ s # <<>> BY <1>4, <1>6, <2>1, <2>2 DEF CallOk, Listed
  <2>4. 1 \in DOMAIN s
    <3>1. Len(s) # 0 BY <2>3, EmptySeq
    <3>2. Len(s) \in Nat /\ DOMAIN s = 1 .. Len(s) BY <2>3
    <3> QED BY <3>1, <3>2
  <2>5. <<1, 1>> \in SubmittedBuffers(c) BY <2>1, <2>2, <2>4 DEF SubmittedBuffers
  <2>6. \E n \in DOMAIN InOrder(c) : TRUE BY <1>5, <2>5 DEF ToSet
  <2> QED BY <1>5, <2>6
<1>8. PICK l : l = CHOOSE x : x = [n \in 0 .. N |->
                 IF n = 0 THEN found.rows ELSE x[n - 1] \o CandidateRows(theme, found, c, InOrder(c)[n])]
  OBVIOUS
<1>9. ListsTo(l, theme, found, c, N)
  <2>1. \E x : ListsTo(x, theme, found, c, N) BY <1>5, ListsExist
  <2> QED BY <1>8, <2>1 DEF ListsTo
<1>10. \A x \in DOMAIN commands.active : /\ commands.active[x] \in DOMAIN theme.recordings
                                         /\ theme.recordings[commands.active[x]].read
  BY <1>4, ActiveRecordings
<1>11. IsCarried(base) /\ Matches(base, l, 0, c)
  <2>1. IsCarried(base) BY <1>3 DEF IsCarried
  <2>2. base.executions = executions BY <1>3
  <2>3. Listed(executions) BY <1>4 DEF SetsInvariant
  <2>4. l[0] = Selections(executions)
    <3>1. 0 \in 0 .. N BY <1>5
    <3> QED BY <1>9, <3>1 DEF ListsTo
  <2>5. 1 .. 0 = {} OBVIOUS
  <2> QED BY <2>1, <2>2, <2>3, <2>4, <2>5 DEF Matches
<1>12. Matches(out, l, N, c)
  BY <1>2, <1>3, <1>4, <1>5, <1>9, <1>10, <1>11, SubmissionMatches
<1>13. /\ Listed(out.executions) /\ Selections(out.executions) = l[N]
       /\ \A k \in 1 .. N : c.submits[InOrder(c)[k][1]][InOrder(c)[k][2]] \in DOMAIN commands.active
       /\ Len(out.executions) <= MaxExecutions
  BY <1>7, <1>12 DEF Matches
<1>14. Len(l[N]) <= MaxExecutions
  <2>1. PICK a : a = out.executions OBVIOUS
  <2>2. Len(a) \in Nat /\ DOMAIN a = 1 .. Len(a) BY <1>13, <2>1, ListedIs
  <2>3. PICK M \in Nat : M = Len(a) BY <2>2
  <2>4. Selections(a) \in [1 .. M -> {a[i].selection : i \in 1 .. M}] BY <2>2, <2>3 DEF Selections
  <2>5. Len(Selections(a)) = M BY <2>4
  <2> QED BY <1>13, <2>1, <2>3, <2>5
<1>15. \A p \in SubmittedBuffers(c) : c.submits[p[1]][p[2]] \in DOMAIN found.active
  <2>1. found.active = commands.active BY DEF FoundAs
  <2>2. ASSUME NEW p \in SubmittedBuffers(c) PROVE c.submits[p[1]][p[2]] \in DOMAIN commands.active
    <3>1. PICK k \in 1 .. N : p = InOrder(c)[k] BY <1>5 DEF ToSet
    <3> QED BY <1>13, <3>1
  <2> QED BY <2>1, <2>2
<1>16. CandidateSubmit(theme, found, c) = [found EXCEPT !.submission = found.submission + 1, !.rows = l[N]]
  <2>1. found.ok BY DEF FoundAs
  <2> QED BY <1>1, <1>6, <1>8, <1>14, <1>15, <2>1 DEF CandidateSubmit
<1>17. CandidateSubmit(theme, found, c)
         = [ok |-> TRUE, active |-> commands.active, rows |-> l[N], submission |-> submission + 1]
  BY <1>16 DEF FoundAs
<1> QED BY <1>1, <1>2, <1>13, <1>17 DEF FoundAs

\* The recursive function of the cheap listing.
CandidatesTo(f, t, h, n) ==
  f = [k \in 0 .. n |-> IF k <= Len(t.initial) THEN NoCandidates ELSE Candidate(t, f[k - 1], h[k])]

\* The listing of the calls h is found.
Finds(t, h, found) == \E f : CandidatesTo(f, t, h, Len(h)) /\ f[Len(h)] = found

\* One more call.
LEMMA FindsNext ==
  ASSUME NEW t, Len(t.initial) \in Nat, NEW h, NEW c, NEW g, Longer(h, c, g), NEW found, Finds(t, h, found), NEW next,
         next = IF Len(g) <= Len(t.initial) THEN NoCandidates ELSE Candidate(t, found, c)
  PROVE  Finds(t, g, next)
PROOF
<1>1. PICK n \in Nat : n = Len(h) /\ Len(g) = n + 1 /\ g[n + 1] = c /\ \A i \in 1 .. n : g[i] = h[i]
  BY DEF Longer
<1>2. PICK f : CandidatesTo(f, t, h, n) /\ f[n] = found BY <1>1 DEF Finds
<1>3. PICK e : e = [k \in 0 .. n + 1 |-> IF k = n + 1 THEN next ELSE f[k]] OBVIOUS
<1>4. ASSUME NEW k \in 0 .. n + 1
      PROVE  e[k] = IF k <= Len(t.initial) THEN NoCandidates ELSE Candidate(t, e[k - 1], g[k])
  <2>1. CASE k = n + 1
    <3>1. k - 1 \in 0 .. n + 1 /\ k - 1 # n + 1 /\ k - 1 = n BY <2>1
    <3>2. e[k] = next /\ e[k - 1] = found BY <1>2, <1>3, <2>1, <3>1
    <3> QED BY <1>1, <2>1, <3>2
  <2>2. CASE k # n + 1
    <3>1. k \in 0 .. n /\ (k # 0 => k - 1 \in 0 .. n + 1 /\ k - 1 # n + 1 /\ k \in 1 .. n) BY <2>2
    <3>2. e[k] = f[k] /\ (k # 0 => e[k - 1] = f[k - 1] /\ g[k] = h[k]) BY <1>1, <1>3, <2>2, <3>1
    <3>3. f[k] = IF k <= Len(t.initial) THEN NoCandidates ELSE Candidate(t, f[k - 1], h[k])
      BY <1>2, <3>1 DEF CandidatesTo
    <3>4. k = 0 => k <= Len(t.initial) OBVIOUS
    <3> QED BY <3>2, <3>3, <3>4
  <2> QED BY <2>1, <2>2
<1>5. e = [k \in 0 .. n + 1 |-> e[k]] BY <1>3
<1>6. CandidatesTo(e, t, g, n + 1) BY <1>4, <1>5 DEF CandidatesTo
<1>7. e[n + 1] = next
  <2>1. n + 1 \in 0 .. n + 1 OBVIOUS
  <2> QED BY <1>3, <2>1
<1> QED BY <1>1, <1>6, <1>7 DEF Finds

\* It is the only one.
LEMMA FindsOne ==
  ASSUME NEW t, Len(t.initial) \in Nat, NEW h, NEW N \in Nat, NEW e, NEW f,
         CandidatesTo(e, t, h, N), CandidatesTo(f, t, h, N)
  PROVE  e[N] = f[N]
PROOF
<1> DEFINE S == {n \in 0 .. N : e[n] = f[n]}
<1>1. 0 \in S
  <2>1. 0 \in 0 .. N /\ 0 <= Len(t.initial) OBVIOUS
  <2> QED BY <2>1 DEF CandidatesTo
<1>2. ASSUME NEW n \in 1 .. N, n - 1 \in S PROVE n \in S
  <2>1. n \in 0 .. N /\ e[n - 1] = f[n - 1] BY <1>2
  <2>2. /\ e[n] = IF n <= Len(t.initial) THEN NoCandidates ELSE Candidate(t, e[n - 1], h[n])
        /\ f[n] = IF n <= Len(t.initial) THEN NoCandidates ELSE Candidate(t, f[n - 1], h[n])
    BY <2>1 DEF CandidatesTo
  <2> QED BY <2>1, <2>2
<1> HIDE DEF S
<1>3. 0 .. N \subseteq S BY <1>1, <1>2, Counting
<1>4. N \in S BY <1>3
<1> QED BY <1>4 DEF S

\* What the cheap listing has found is what the full one holds.
PlansInvariant ==
  phase # "refused" =>
    /\ phase = "initial" => submission = 0 /\ Len(steps) <= Len(theme.initial)
    /\ phase # "initial" => Len(theme.initial) <= Len(steps)
    /\ \E found : Finds(theme, steps, found) /\ FoundAs(found, commands.active, executions, submission)

\* Before the frame nothing is found.
LEMMA NothingFound ==
  FoundAs(NoCandidates, <<>>, <<>>, 0)
PROOF
<1>1. DOMAIN <<>> = {} OBVIOUS
<1>2. Selections(<<>>) = <<>> BY <1>1 DEF Selections
<1> QED BY <1>2 DEF FoundAs, NoCandidates

\* What the replay starts from.
LEMMA InitPlans == ASSUME Init PROVE PlansInvariant
PROOF
<1>1. SUFFICES ASSUME phase # "refused" PROVE PlansInvariant BY DEF PlansInvariant
<1>2. /\ theme \in Themes /\ steps = <<>> /\ commands = NoCommands /\ executions = <<>> /\ submission = 0
      /\ phase = "initial"
  BY <1>1 DEF Init
<1>3. Len(theme.initial) \in Nat /\ Len(steps) = 0
  <2>1. Listed(theme.initial) BY <1>2, ThemesAssumption
  <2> QED BY <1>2, <2>1, ListedIs
<1>4. Finds(theme, steps, NoCandidates)
  <2>1. PICK f : f = [k \in 0 .. 0 |-> NoCandidates] OBVIOUS
  <2>2. \A k \in 0 .. 0 : f[k] = NoCandidates /\ k <= Len(theme.initial) BY <1>3, <2>1
  <2>3. CandidatesTo(f, theme, steps, 0) BY <2>1, <2>2 DEF CandidatesTo
  <2> QED BY <1>3, <2>2, <2>3 DEF Finds
<1>5. FoundAs(NoCandidates, commands.active, executions, submission)
  <2>1. commands.active = <<>> BY <1>2 DEF NoCommands
  <2> QED BY <1>2, <2>1, NothingFound
<1> QED BY <1>2, <1>3, <1>4, <1>5 DEF PlansInvariant

\* A call that is followed, to the cheap listing.
LEMMA FollowedPlans ==
  ASSUME SetsInvariant, PlansInvariant, phase = "frame", NEW c \in CallsOf(theme), Follow(c),
         \A found : FoundAs(found, commands.active, executions, submission)
                      => FoundAs(Candidate(theme, found, c), commands'.active, executions', submission')
  PROVE  PlansInvariant'
PROOF
<1>1. theme' = theme /\ phase' = "frame" BY DEF Follow
<1>2. PICK g : g = steps' OBVIOUS
<1>3. Longer(steps, c, g) BY <1>2, FollowedLonger
<1>4. theme \in Themes /\ Len(theme.initial) \in Nat
  <2>1. theme \in Themes BY DEF SetsInvariant
  <2>2. Listed(theme.initial) BY <2>1, ThemesAssumption
  <2> QED BY <2>1, <2>2, ListedIs
<1>5. Len(steps) \in Nat /\ Len(g) = Len(steps) + 1 /\ Len(theme.initial) <= Len(steps)
  BY <1>3 DEF Longer, PlansInvariant
<1>6. PICK found : Finds(theme, steps, found) /\ FoundAs(found, commands.active, executions, submission)
  BY DEF PlansInvariant
<1>7. PICK next : next = Candidate(theme, found, c) OBVIOUS
<1>8. ~(Len(g) <= Len(theme.initial)) BY <1>4, <1>5
<1>9. Finds(theme, g, next) BY <1>3, <1>4, <1>6, <1>7, <1>8, FindsNext
<1>10. FoundAs(next, commands'.active, executions', submission') BY <1>6, <1>7
<1>11. Len(theme.initial) <= Len(g) BY <1>4, <1>5
<1> QED BY <1>1, <1>2, <1>9, <1>10, <1>11 DEF PlansInvariant

\* A refusal keeps nothing.
LEMMA RefusedPlans == ASSUME Refuse PROVE PlansInvariant'
BY DEF Refuse, PlansInvariant

\* A call that the cheap listing does not look at.
LEMMA PassedPlans ==
  ASSUME SetsInvariant, PlansInvariant, phase = "frame", NEW c \in CallsOf(theme), Follow(c),
         c.op \notin {"RecordCommandBuffer", "ResetCommandBuffer", "QueueSubmit"},
         UNCHANGED <<commands, executions, submission>>
  PROVE  PlansInvariant'
PROOF
<1>1. \A found : Candidate(theme, found, c) = found BY DEF Candidate
<1> QED BY <1>1, FollowedPlans

\* Each step keeps PlansInvariant.  A call of the initial state.
LEMMA InitialPlans == ASSUME SetsInvariant, PlansInvariant, InitialCall PROVE PlansInvariant'
PROOF
<1>1. CASE Refuse BY <1>1, RefusedPlans
<1>2. CASE ~Refuse
  <2>1. PICK c : c = theme.initial[Step] OBVIOUS
  <2>2. /\ phase = "initial" /\ Len(steps) < Len(theme.initial)
        /\ commands' = commands /\ submission' = submission
    BY DEF InitialCall, InInitialState
  <2>3. Follow(c) /\ executions' = executions
    <3>1. CASE c.op = "UpdateDescriptorSets"
      <4> DEFINE inside == /\ ended => c.op = "FreeCachedMemory"
                           /\ c.op = "InitEnd" => c.instance = theme.initial[1].instance
                 follow == /\ Follow(c) /\ descriptors' = Updated(c)
                           /\ UNCHANGED <<ended, uploads, executions>>
      <4>1. IF inside /\ UpdateQualified(c) /\ Updated(c).ok THEN follow ELSE Refuse
        BY <2>1, <3>1 DEF InitialCall, UploadCalls
      <4>2. follow
        <5> HIDE DEF inside, follow
        <5> QED BY <1>2, <4>1
      <4> QED BY <4>2
    <3>2. CASE c.op # "UpdateDescriptorSets"
      <4>1. CASE c.op = "PopulateBuffer" \/ c.op \in UploadCalls
        BY <1>2, <2>1, <3>2, <4>1 DEF InitialCall
      <4>2. CASE ~(c.op = "PopulateBuffer" \/ c.op \in UploadCalls)
        BY <1>2, <2>1, <3>2, <4>2 DEF InitialCall
      <4> QED BY <4>1, <4>2
    <3> QED BY <3>1, <3>2
  <2>4. InInitialState BY <2>2 DEF InInitialState
  <2>5. c \in CallsOf(theme) BY <2>1, <2>4, InitialCallOk
  <2>6. PICK g : g = steps' OBVIOUS
  <2>7. Longer(steps, c, g) BY <2>2, <2>3, <2>5, <2>6, FollowedLonger
  <2>8. theme \in Themes /\ Len(theme.initial) \in Nat
    <3>1. theme \in Themes BY <2>2 DEF SetsInvariant
    <3>2. Listed(theme.initial) BY <3>1, ThemesAssumption
    <3> QED BY <3>1, <3>2, ListedIs
  <2>9. Len(g) <= Len(theme.initial) BY <2>2, <2>7, <2>8 DEF Longer
  <2>10. PICK found : Finds(theme, steps, found) BY <2>2 DEF PlansInvariant
  <2>11. Finds(theme, g, NoCandidates) BY <2>7, <2>8, <2>9, <2>10, FindsNext
  <2>12. FoundAs(NoCandidates, commands'.active, executions', submission')
    <3>1. commands = NoCommands /\ executions = <<>> /\ submission = 0
      BY <2>2 DEF SetsInvariant, PlansInvariant
    <3>2. commands'.active = <<>> BY <2>2, <3>1 DEF NoCommands
    <3> QED BY <2>2, <2>3, <3>1, <3>2, NothingFound
  <2>13. theme' = theme /\ phase' = "initial" /\ submission' = 0
    BY <2>2, <2>3 DEF Follow, PlansInvariant
  <2> QED BY <2>6, <2>9, <2>11, <2>12, <2>13 DEF PlansInvariant
<1> QED BY <1>1, <1>2

\* The frame begins.
LEMMA BeginPlans == ASSUME SetsInvariant, PlansInvariant, BeginFrame PROVE PlansInvariant'
PROOF
<1>1. /\ phase = "initial" /\ Len(steps) = Len(theme.initial) /\ phase' = "frame"
      /\ theme' = theme /\ steps' = steps /\ commands' = commands /\ executions' = executions
      /\ submission' = submission
  BY DEF BeginFrame
<1>2. Len(steps) \in Nat BY <1>1 DEF SetsInvariant
<1> QED BY <1>1, <1>2 DEF PlansInvariant

\* A buffer is recorded.
LEMMA RecordPlans == ASSUME SetsInvariant, PlansInvariant, RecordCommandBuffer PROVE PlansInvariant'
PROOF
<1>1. CASE Refuse BY <1>1, RefusedPlans
<1>2. CASE ~Refuse
  <2>1. PICK c \in FrameCalls({"RecordCommandBuffer"}) :
          /\ RecordingQualified(c.recording) /\ theme.recordings[c.recording].buffer = c.buffer
          /\ Follow(c)
          /\ commands' = [commands EXCEPT !.active = Put(commands.active, c.buffer, c.recording),
                            !.generation = Put(commands.generation, c.buffer, At(commands.generation, c.buffer, 0) + 1)]
          /\ executions' = executions /\ submission' = submission
    BY <1>2 DEF RecordCommandBuffer
  <2>2. c \in CallsOf(theme) /\ c.op = "RecordCommandBuffer" /\ phase = "frame" BY FrameCallOk
  <2>3. PICK now : now = Put(commands.active, c.buffer, c.recording) OBVIOUS
  <2>4. commands'.active = now
    <3>1. PICK times : times = Put(commands.generation, c.buffer, At(commands.generation, c.buffer, 0) + 1)
      OBVIOUS
    <3>2. commands' = [commands EXCEPT !.active = now, !.generation = times] BY <2>1, <2>3, <3>1
    <3>3. IsCommands(commands) BY <2>2 DEF SetsInvariant
    <3> QED BY <3>2, <3>3 DEF IsCommands
  <2>5. ASSUME NEW found, FoundAs(found, commands.active, executions, submission)
        PROVE  FoundAs(Candidate(theme, found, c), now, executions, submission)
    <3>1. found.ok /\ found.active = commands.active BY <2>5 DEF FoundAs
    <3>2. c.recording \in DOMAIN theme.recordings BY <2>1 DEF RecordingQualified
    <3>3. Candidate(theme, found, c) = [found EXCEPT !.active = now]
      BY <2>1, <2>2, <2>3, <3>1, <3>2 DEF Candidate
    <3> QED BY <2>5, <3>3 DEF FoundAs
  <2> QED BY <2>1, <2>2, <2>4, <2>5, FollowedPlans
<1> QED BY <1>1, <1>2

\* A buffer is reset.
LEMMA ResetPlans == ASSUME SetsInvariant, PlansInvariant, ResetCommandBuffer PROVE PlansInvariant'
PROOF
<1>1. CASE Refuse BY <1>1, RefusedPlans
<1>2. CASE ~Refuse
  <2> DEFINE rest(c) == [b \in DOMAIN commands.active \ {c.buffer} |-> commands.active[b]]
  <2>1. PICK c \in FrameCalls({"ResetCommandBuffer"}) :
          /\ Follow(c) /\ commands' = [commands EXCEPT !.active = rest(c)]
          /\ executions' = executions /\ submission' = submission
    BY <1>2 DEF ResetCommandBuffer
  <2>2. c \in CallsOf(theme) /\ c.op = "ResetCommandBuffer" /\ phase = "frame" BY FrameCallOk
  <2>3. PICK active : active = commands.active OBVIOUS
  <2>4. PICK now : now = [b \in DOMAIN active \ {c.buffer} |-> active[b]] OBVIOUS
  <2>5. commands'.active = now
    <3>1. rest(c) = now BY <2>3, <2>4
    <3>2. commands' = [commands EXCEPT !.active = now] BY <2>1, <3>1
    <3>3. IsCommands(commands) BY <2>2 DEF SetsInvariant
    <3> QED BY <3>2, <3>3 DEF IsCommands
  <2>6. ASSUME NEW found, FoundAs(found, commands.active, executions, submission)
        PROVE  FoundAs(Candidate(theme, found, c), now, executions, submission)
    <3>1. found.active = active BY <2>3, <2>6 DEF FoundAs
    <3>2. PICK x : x = [b \in DOMAIN found.active \ {c.buffer} |-> found.active[b]] OBVIOUS
    <3>3. Candidate(theme, found, c) = [found EXCEPT !.active = x] BY <2>2, <3>2 DEF Candidate
    <3>4. x = now BY <2>4, <3>1, <3>2
    <3> QED BY <2>6, <3>3, <3>4 DEF FoundAs
  <2> QED BY <2>1, <2>2, <2>5, <2>6, FollowedPlans
<1> QED BY <1>1, <1>2

\* A submission.
LEMMA SubmitPlans == ASSUME SetsInvariant, PlansInvariant, QueueSubmit PROVE PlansInvariant'
PROOF
<1>1. CASE Refuse BY <1>1, RefusedPlans
<1>2. CASE ~Refuse
  <2>1. PICK c, base, f : SubmitsCall(c, base, f) BY <1>2, SubmissionIs
  <2>2. PICK out : out = f[Len(InOrder(c))] OBVIOUS
  <2>3. /\ c \in FrameCalls({"QueueSubmit"}) /\ Follow(c) /\ executions' = out.executions
        /\ commands' = [commands EXCEPT !.once = out.once] /\ submission' = submission + 1
    BY <2>1, <2>2 DEF SubmitsCall
  <2>4. c \in CallsOf(theme) /\ c.op = "QueueSubmit" /\ phase = "frame" BY <2>3, FrameCallOk
  <2>5. commands'.active = commands.active
    <3>1. IsCommands(commands) BY <2>4 DEF SetsInvariant
    <3> QED BY <2>3, <3>1 DEF IsCommands
  <2>6. ASSUME NEW found, FoundAs(found, commands.active, executions, submission)
        PROVE  FoundAs(Candidate(theme, found, c), commands.active, out.executions, submission + 1)
    <3>1. Candidate(theme, found, c) = CandidateSubmit(theme, found, c) BY <2>4 DEF Candidate
    <3>2. found.rows = Selections(executions) BY <2>6 DEF FoundAs
    <3> QED BY <2>1, <2>2, <2>6, <3>1, <3>2, SubmissionListed
  <2> QED BY <2>3, <2>4, <2>5, <2>6, FollowedPlans
<1> QED BY <1>1, <1>2

\* The calls of the frame that the cheap listing does not look at.
LEMMA QuietPlans ==
  ASSUME SetsInvariant, PlansInvariant, FollowUpload \/ FollowDescriptors \/ QueueLabel \/ PassiveCall
  PROVE  PlansInvariant'
PROOF
<1>1. CASE Refuse BY <1>1, RefusedPlans
<1>2. CASE ~Refuse
  <2>1. PICK c, ops : /\ c \in FrameCalls(ops) /\ Follow(c)
                      /\ c.op \notin {"RecordCommandBuffer", "ResetCommandBuffer", "QueueSubmit"}
                      /\ commands' = commands /\ executions' = executions /\ submission' = submission
    <3>1. CASE FollowUpload
      <4>1. PICK c \in FrameCalls(UploadCalls) :
              Follow(c) /\ commands' = commands /\ executions' = executions /\ submission' = submission
        BY <1>2, <3>1 DEF FollowUpload
      <4>2. c.op \in UploadCalls BY FrameCallOk
      <4> QED BY <4>1, <4>2 DEF UploadCalls
    <3>2. CASE FollowDescriptors
      <4>1. PICK c \in FrameCalls(DescriptorCalls) :
              Follow(c) /\ commands' = commands /\ executions' = executions /\ submission' = submission
        BY <1>2, <3>2 DEF FollowDescriptors, DescriptorCalls
      <4>2. c.op \in DescriptorCalls BY FrameCallOk
      <4> QED BY <4>1, <4>2 DEF DescriptorCalls
    <3>3. CASE QueueLabel
      <4>1. PICK c \in FrameCalls({"QueueBeginDebugUtilsLabel", "QueueEndDebugUtilsLabel"}) :
              Follow(c) /\ commands' = commands /\ executions' = executions /\ submission' = submission
        BY <1>2, <3>3 DEF QueueLabel
      <4>2. c.op \in {"QueueBeginDebugUtilsLabel", "QueueEndDebugUtilsLabel"} BY FrameCallOk
      <4> QED BY <4>1, <4>2
    <3>4. CASE PassiveCall
      <4>1. PICK c \in FrameCalls({x.op : x \in theme.frame} \ Followed) :
              Follow(c) /\ commands' = commands /\ executions' = executions /\ submission' = submission
        BY <1>2, <3>4 DEF PassiveCall
      <4>2. c.op \notin Followed BY FrameCallOk
      <4> QED BY <4>1, <4>2 DEF Followed
    <3> QED BY <3>1, <3>2, <3>3, <3>4
  <2>2. c \in CallsOf(theme) /\ phase = "frame" BY <2>1, FrameCallOk
  <2> QED BY <2>1, <2>2, PassedPlans
<1> QED BY <1>1, <1>2

\* The frame ends.
LEMMA EndPlans == ASSUME SetsInvariant, PlansInvariant, EndFrame PROVE PlansInvariant'
PROOF
<1>1. CASE Refuse BY <1>1, RefusedPlans
<1>2. CASE ~Refuse
  <2>1. /\ phase = "frame" /\ phase' = "accepted"
        /\ theme' = theme /\ steps' = steps /\ commands' = commands /\ executions' = executions
        /\ submission' = submission
    BY <1>2 DEF EndFrame
  <2> QED BY <2>1 DEF PlansInvariant
<1> QED BY <1>1, <1>2

\* So every step keeps it.
LEMMA NextPlans == ASSUME SetsInvariant, PlansInvariant, [Next]_vars PROVE PlansInvariant'
PROOF
<1>1. CASE InitialCall BY <1>1, InitialPlans
<1>2. CASE BeginFrame BY <1>2, BeginPlans
<1>3. CASE FollowUpload \/ FollowDescriptors \/ QueueLabel \/ PassiveCall BY <1>3, QuietPlans
<1>4. CASE RecordCommandBuffer BY <1>4, RecordPlans
<1>5. CASE ResetCommandBuffer BY <1>5, ResetPlans
<1>6. CASE QueueSubmit BY <1>6, SubmitPlans
<1>7. CASE EndFrame BY <1>7, EndPlans
<1>8. CASE DeadlinePasses BY <1>8, RefusedPlans DEF DeadlinePasses
<1>9. CASE UNCHANGED vars BY <1>9 DEF PlansInvariant, vars
<1> QED BY <1>1, <1>2, <1>3, <1>4, <1>5, <1>6, <1>7, <1>8, <1>9 DEF Next

\* What the cheap listing finds of an accepted replay is what the full one found.
LEMMA AcceptedPlans == ASSUME SetsInvariant, PlansInvariant PROVE PlansAreCandidates
PROOF
<1>1. SUFFICES ASSUME Accepted
               PROVE  Candidates.ok /\ Candidates.rows = [n \in DOMAIN executions |-> executions[n].selection]
  BY DEF PlansAreCandidates
<1>2. theme \in Themes /\ Len(steps) \in Nat BY <1>1 DEF SetsInvariant, Accepted
<1>3. Len(theme.initial) \in Nat
  <2>1. Listed(theme.initial) BY <1>2, ThemesAssumption
  <2> QED BY <2>1, ListedIs
<1>4. PICK found, e : /\ CandidatesTo(e, theme, steps, Len(steps)) /\ e[Len(steps)] = found
                      /\ FoundAs(found, commands.active, executions, submission)
  BY <1>1 DEF PlansInvariant, Finds, Accepted
<1>5. PICK f : f = CHOOSE x : x = [k \in 0 .. Len(steps) |->
                 IF k <= Len(theme.initial) THEN NoCandidates ELSE Candidate(theme, x[k - 1], steps[k])]
  OBVIOUS
<1>6. CandidatesTo(f, theme, steps, Len(steps))
  <2>1. \E x : CandidatesTo(x, theme, steps, Len(steps)) BY <1>4
  <2> QED BY <1>5, <2>1 DEF CandidatesTo
<1>7. Candidates = f[Len(steps)] BY <1>5 DEF Candidates
<1>8. f[Len(steps)] = found BY <1>2, <1>3, <1>4, <1>6, FindsOne
<1> QED BY <1>4, <1>7, <1>8 DEF FoundAs, Selections

\* The cheap listing selects the same draws of the same submissions in the same
\* order as the full one, whenever the full one accepts the replay
\* (ValueTimeline.cpp:164).
THEOREM PlansAlwaysMatch == Spec => []PlansAreCandidates
PROOF
<1>1. Init => PlansInvariant BY InitPlans
<1>2. SetsInvariant /\ PlansInvariant /\ [Next]_vars => PlansInvariant' BY NextPlans
<1>3. SetsInvariant /\ PlansInvariant => PlansAreCandidates BY AcceptedPlans
<1> QED BY <1>1, <1>2, <1>3, TimelineInvariant, PTL DEF Spec

-----------------------------------------------------------------------------
(* The upload ledger.                                                      *)

\* Where the captured memory graph of a replay places its buffers.
Placing(t) == MemoryGraph(t.resources).buffers

\* What the ledger keeps of a buffer that is placed at a binding.
BufferKept(at, k) ==
  /\ k = [binding |-> at, writes |-> k.writes, sound |-> k.sound, alive |-> k.alive, completions |-> k.completions]
  /\ k.writes # <<>> => "host_coherent" \in at.flags

IsUploads(t, u) ==
  /\ u = [ok |-> u.ok, buffers |-> u.buffers, mappings |-> u.mappings, pending |-> u.pending, uploads |-> u.uploads]
  /\ u.ok \in BOOLEAN
  /\ DOMAIN u.buffers = DOMAIN Placing(t)
  /\ \A b \in DOMAIN u.buffers : BufferKept(Placing(t)[b], u.buffers[b])

\* Call j of h is the last of the first n that maps the memory.
Maps(c, memory) == c.op = "MapMemory" /\ c.memory = memory
LastMap(h, n, memory, j) ==
  /\ j \in 1 .. n /\ Maps(h[j], memory)
  /\ \A i \in 1 .. n : Maps(h[i], memory) => i <= j

\* A mapping starts where the last call that maps its memory says.
MapsHold(u, h) ==
  \A m \in DOMAIN u.mappings :
    \E j \in 1 .. Len(h) : LastMap(h, Len(h), m, j) /\ h[j].offset \in Nat /\ u.mappings[m].offset = h[j].offset

\* A plan's bytes lie within a coherent buffer that the GPU only reads.
PlanPlaced(t, plan) ==
  /\ plan.buffer \in DOMAIN Placing(t)
  /\ "host_coherent" \in Placing(t)[plan.buffer].flags /\ ReadOnlyUsage(Placing(t)[plan.buffer].usage)
  /\ plan.offset \in Nat /\ plan.prefix \in Nat
  /\ plan.offset + plan.prefix <= Placing(t)[plan.buffer].bytes

\* Call j of h neither ends the buffer of a plan nor writes one of its bytes.
Spares(t, h, j, plan) ==
  LET at == Placing(t)[plan.buffer] IN
  /\ h[j].op # "PopulateBuffer"
  /\ ~(h[j].op = "DestroyBuffer" /\ h[j].buffer = plan.buffer)
  /\ ~(h[j].op = "FreeMemory" /\ h[j].memory = at.memory)
  /\ h[j].op = "UpdateMappedMemory" =>
       \E i \in 1 .. j - 1 :
              /\ LastMap(h, j - 1, h[j].memory, i)
              /\ h[j].memory = at.memory =>
                   \A x \in 0 .. plan.prefix - 1 :
                     at.offset + plan.offset + x
                       \notin h[i].offset + h[j].offset .. h[i].offset + h[j].offset + h[j].bytes - 1

\* No call up to the n-th proves that the submission of a row is over.
Unproved(t, row, h, n) == \A i \in row.step + 1 .. n : ~Ended(t, h[i], row.selection.queue, h[row.step].fence)

\* A use p is of the submission of a row.
IsUseOf(t, p, row, h) ==
  /\ p.queue = row.selection.queue /\ p.device = t.queues[row.selection.queue].device
  /\ p.fence = h[row.step].fence

\* Until its submission is proved to be over a plan's buffer is used, and spared.
PlanHolds(t, u, row, plan, h) ==
  /\ PlanPlaced(t, plan)
  /\ \A j \in row.step + 1 .. Len(h) : Unproved(t, row, h, j) => Spares(t, h, j, plan)
  /\ Unproved(t, row, h, Len(h)) =>
       /\ u.buffers[plan.buffer].sound
       /\ \E p \in u.pending : IsUseOf(t, p, row, h) /\ plan.buffer \in p.buffers

UploadsHold(t, u, rows, h) ==
  /\ IsUploads(t, u) /\ u.ok /\ MapsHold(u, h)
  /\ \A n \in DOMAIN rows : /\ rows[n].step \in 1 .. Len(h)
                            /\ \A plan \in rows[n].plans : PlanHolds(t, u, rows[n], plan, h)

BytesInvariant == phase # "refused" => UploadsHold(theme, uploads, executions, steps)

\* A buffer stays where it is placed.
LEMMA KeptBinding == ASSUME NEW at, NEW k, BufferKept(at, k) PROVE k.binding = at
PROOF
<1>1. k = [binding |-> at, writes |-> k.writes, sound |-> k.sound, alive |-> k.alive, completions |-> k.completions]
  BY DEF BufferKept
<1>2. [binding |-> at, writes |-> k.writes, sound |-> k.sound, alive |-> k.alive,
       completions |-> k.completions].binding = at
  OBVIOUS
<1> QED BY <1>1, <1>2

\* And is kept with another content.
LEMMA ChangedKept ==
  ASSUME NEW at, NEW k, BufferKept(at, k), NEW v
  PROVE  /\ (v # <<>> => "host_coherent" \in at.flags) => /\ BufferKept(at, [k EXCEPT !.writes = v])
                                                        /\ [k EXCEPT !.writes = v].sound = k.sound
         /\ BufferKept(at, [k EXCEPT !.sound = v])
         /\ BufferKept(at, [k EXCEPT !.alive = v])
         /\ BufferKept(at, [k EXCEPT !.completions = v]) /\ [k EXCEPT !.completions = v].sound = k.sound
PROOF
<1>1. PICK w, s, a, cs : w = k.writes /\ s = k.sound /\ a = k.alive /\ cs = k.completions OBVIOUS
<1>2. k = [binding |-> at, writes |-> w, sound |-> s, alive |-> a, completions |-> cs] BY <1>1 DEF BufferKept
<1>3. w # <<>> => "host_coherent" \in at.flags BY <1>1 DEF BufferKept
<1>4. ASSUME NEW w2, NEW s2, NEW a2, NEW c2, w2 # <<>> => "host_coherent" \in at.flags,
             NEW g, g = [binding |-> at, writes |-> w2, sound |-> s2, alive |-> a2, completions |-> c2]
      PROVE  BufferKept(at, g) /\ g.sound = s2
  <2>1. g.writes = w2 /\ g.sound = s2 /\ g.alive = a2 /\ g.completions = c2 BY <1>4
  <2> QED BY <1>4, <2>1 DEF BufferKept
<1>5. [k EXCEPT !.writes = v] = [binding |-> at, writes |-> v, sound |-> s, alive |-> a, completions |-> cs]
  BY <1>2
<1>6. [k EXCEPT !.sound = v] = [binding |-> at, writes |-> w, sound |-> v, alive |-> a, completions |-> cs]
  BY <1>2
<1>7. [k EXCEPT !.alive = v] = [binding |-> at, writes |-> w, sound |-> s, alive |-> v, completions |-> cs]
  BY <1>2
<1>8. [k EXCEPT !.completions = v] = [binding |-> at, writes |-> w, sound |-> s, alive |-> a, completions |-> v]
  BY <1>2
<1>9. (v # <<>> => "host_coherent" \in at.flags) => /\ BufferKept(at, [k EXCEPT !.writes = v])
                                                   /\ [k EXCEPT !.writes = v].sound = k.sound
  BY <1>1, <1>4, <1>5
<1>10. BufferKept(at, [k EXCEPT !.sound = v]) BY <1>3, <1>4, <1>6
<1>11. BufferKept(at, [k EXCEPT !.alive = v]) BY <1>3, <1>4, <1>7
<1>12. BufferKept(at, [k EXCEPT !.completions = v]) /\ [k EXCEPT !.completions = v].sound = k.sound
  BY <1>1, <1>3, <1>4, <1>8
<1> QED BY <1>9, <1>10, <1>11, <1>12

\* A ledger whose buffers are kept is a ledger.
LEMMA KeptUploads ==
  ASSUME NEW t, NEW u, IsUploads(t, u), NEW ok \in BOOLEAN, NEW bs, NEW ms, NEW ps, NEW n,
         DOMAIN bs = DOMAIN u.buffers, \A b \in DOMAIN bs : BufferKept(Placing(t)[b], bs[b]),
         NEW e, e = [ok |-> ok, buffers |-> bs, mappings |-> ms, pending |-> ps, uploads |-> n]
  PROVE  IsUploads(t, e) /\ e.ok = ok /\ e.buffers = bs /\ e.mappings = ms /\ e.pending = ps
BY DEF IsUploads

\* A checked operation leaves a ledger, and one that is ok only where it was not refused.
LEMMA CheckedUploads ==
  ASSUME NEW t, NEW u, IsUploads(t, u), NEW required \in BOOLEAN, NEW next,
         u.ok /\ required => IsUploads(t, next), NEW e, e = CheckedUpload(u, required, next)
  PROVE  IsUploads(t, e) /\ (e.ok => u.ok /\ required /\ e = next)
PROOF
<1>1. CASE u.ok /\ required
  <2>1. e = next BY <1>1 DEF CheckedUpload
  <2> QED BY <1>1, <2>1
<1>2. CASE ~(u.ok /\ required)
  <2>1. e = [u EXCEPT !.ok = FALSE] BY <1>2 DEF CheckedUpload
  <2>2. e = [ok |-> FALSE, buffers |-> u.buffers, mappings |-> u.mappings, pending |-> u.pending,
             uploads |-> u.uploads]
    BY <2>1 DEF IsUploads
  <2>3. \A b \in DOMAIN u.buffers : BufferKept(Placing(t)[b], u.buffers[b]) BY DEF IsUploads
  <2>4. e.ok = FALSE /\ e.buffers = u.buffers /\ e.mappings = u.mappings /\ e.pending = u.pending
        /\ e.uploads = u.uploads
    BY <2>2
  <2>5. DOMAIN u.buffers = DOMAIN Placing(t) BY DEF IsUploads
  <2>6. IsUploads(t, e) BY <2>2, <2>3, <2>4, <2>5 DEF IsUploads
  <2> QED BY <2>4, <2>6
<1> QED BY <1>1, <1>2

\* A buffer whose bytes must not change: a submission uses it, and an update of it
\* would be one of its bytes.
Held(u, b) == InUse(u, b) /\ Has(u, b, "host_coherent") /\ u.buffers[b].sound

\* A change that leaves the uses, the mappings and the buffers that are held.
Leaves(u, e) ==
  /\ u.ok /\ e.pending = u.pending /\ e.mappings = u.mappings
  /\ \A b \in DOMAIN u.buffers : Held(u, b) => e.buffers[b].sound

\* What an operation on the ledger of t promises.
UploadMoves(t, u, e) == IsUploads(t, e) /\ (e.ok => Leaves(u, e))

\* Bindings do not change.
LEMMA SameBinding ==
  ASSUME NEW t, NEW u, NEW e, IsUploads(t, u), IsUploads(t, e)
  PROVE  /\ DOMAIN e.buffers = DOMAIN u.buffers /\ DOMAIN u.buffers = DOMAIN Placing(t)
         /\ \A b \in DOMAIN u.buffers : /\ u.buffers[b].binding = Placing(t)[b]
                                        /\ e.buffers[b].binding = u.buffers[b].binding
PROOF
<1>1. ASSUME NEW b \in DOMAIN u.buffers PROVE u.buffers[b].binding = Placing(t)[b]
  <2>1. BufferKept(Placing(t)[b], u.buffers[b]) BY DEF IsUploads
  <2> QED BY <2>1, KeptBinding
<1>2. ASSUME NEW b \in DOMAIN e.buffers PROVE e.buffers[b].binding = Placing(t)[b]
  <2>1. BufferKept(Placing(t)[b], e.buffers[b]) BY DEF IsUploads
  <2> QED BY <2>1, KeptBinding
<1> QED BY <1>1, <1>2 DEF IsUploads

\* One change after the other; what is held stays held.
LEMMA LeavesOn ==
  ASSUME NEW t, NEW u, NEW e, NEW f, IsUploads(t, u), IsUploads(t, e), Leaves(u, e), Leaves(e, f)
  PROVE  Leaves(u, f) /\ \A b \in DOMAIN u.buffers : Held(u, b) => Held(e, b)
PROOF
<1>1. \A b \in DOMAIN u.buffers : e.buffers[b].binding = u.buffers[b].binding BY SameBinding
<1>2. DOMAIN e.buffers = DOMAIN u.buffers BY SameBinding
<1>3. ASSUME NEW b \in DOMAIN u.buffers, Held(u, b) PROVE Held(e, b)
  <2>1. InUse(e, b) BY <1>3 DEF Held, InUse, Leaves
  <2>2. Has(e, b, "host_coherent") BY <1>1, <1>3 DEF Held, Has
  <2>3. e.buffers[b].sound BY <1>3 DEF Leaves
  <2> QED BY <2>1, <2>2, <2>3 DEF Held
<1>4. \A b \in DOMAIN u.buffers : Held(u, b) => f.buffers[b].sound BY <1>2, <1>3 DEF Leaves
<1> QED BY <1>3, <1>4 DEF Leaves

\* The buffers that are spoilt are not sound, the others are as they were.
LEMMA InvalidateIs ==
  ASSUME NEW t, NEW u, IsUploads(t, u), NEW spoilt, NEW e, e = Invalidate(u, spoilt)
  PROVE  /\ IsUploads(t, e)
         /\ e.ok => /\ u.ok /\ e.pending = u.pending /\ e.mappings = u.mappings
                    /\ \A b \in DOMAIN u.buffers : b \notin spoilt => e.buffers[b] = u.buffers[b]
PROOF
<1> DEFINE required == \A b \in spoilt : Alive(u, b)
<1>1. PICK bs : bs = [b \in DOMAIN u.buffers |->
                        IF b \in spoilt THEN [u.buffers[b] EXCEPT !.writes = <<>>, !.sound = FALSE]
                        ELSE u.buffers[b]]
  OBVIOUS
<1>2. PICK g : g = [u EXCEPT !.buffers = bs] OBVIOUS
<1>3. e = CheckedUpload(u, required, g) BY <1>1, <1>2 DEF Invalidate
<1>4. DOMAIN bs = DOMAIN u.buffers BY <1>1
<1>5. ASSUME NEW b \in DOMAIN bs PROVE BufferKept(Placing(t)[b], bs[b])
  <2>2. PICK k : k = u.buffers[b] OBVIOUS
  <2>3. PICK at : at = Placing(t)[b] OBVIOUS
  <2>1. BufferKept(at, k) BY <1>4, <2>2, <2>3 DEF IsUploads
  <2>4. CASE b \in spoilt
    <3>1. bs[b] = [k EXCEPT !.writes = <<>>, !.sound = FALSE] BY <1>1, <1>4, <2>2, <2>4
    <3>2. PICK none, no : none = <<>> /\ no = FALSE OBVIOUS
    <3>3. PICK h : h = [k EXCEPT !.writes = none] OBVIOUS
    <3>4. BufferKept(at, h) BY <2>1, <3>2, <3>3, ChangedKept
    <3>5. BufferKept(at, [h EXCEPT !.sound = no]) BY <3>4, ChangedKept
    <3>6. bs[b] = [h EXCEPT !.sound = no] BY <3>1, <3>2, <3>3
    <3> QED BY <2>3, <3>5, <3>6
  <2>5. CASE b \notin spoilt
    <3>1. bs[b] = k BY <1>1, <1>4, <2>2, <2>5
    <3> QED BY <2>1, <2>3, <3>1
  <2> QED BY <2>4, <2>5
<1>6. g = [ok |-> u.ok, buffers |-> bs, mappings |-> u.mappings, pending |-> u.pending, uploads |-> u.uploads]
  BY <1>2 DEF IsUploads
<1>7. u.ok \in BOOLEAN BY DEF IsUploads
<1>8. IsUploads(t, g) /\ g.buffers = bs /\ g.mappings = u.mappings /\ g.pending = u.pending
  BY <1>4, <1>5, <1>6, <1>7, KeptUploads
<1>9. required \in BOOLEAN OBVIOUS
<1>10. IsUploads(t, e) /\ (e.ok => u.ok /\ e = g)
  <2> HIDE DEF required
  <2> QED BY <1>3, <1>8, <1>9, CheckedUploads
<1>11. \A b \in DOMAIN u.buffers : b \notin spoilt => bs[b] = u.buffers[b] BY <1>1
<1> QED BY <1>8, <1>10, <1>11

\* A ledger in which one buffer is kept anew.
LEMMA OneKept ==
  ASSUME NEW t, NEW u, IsUploads(t, u), NEW b \in DOMAIN u.buffers, NEW k, BufferKept(Placing(t)[b], k),
         NEW bs, bs = [u.buffers EXCEPT ![b] = k], NEW n,
         NEW e, e = [ok |-> u.ok, buffers |-> bs, mappings |-> u.mappings, pending |-> u.pending, uploads |-> n]
  PROVE  /\ IsUploads(t, e) /\ e.ok = u.ok /\ e.mappings = u.mappings /\ e.pending = u.pending
         /\ e.buffers[b] = k /\ \A x \in DOMAIN u.buffers : x # b => e.buffers[x] = u.buffers[x]
PROOF
<1>1. DOMAIN bs = DOMAIN u.buffers OBVIOUS
<1>2. \A x \in DOMAIN bs : BufferKept(Placing(t)[x], bs[x]) BY DEF IsUploads
<1>3. u.ok \in BOOLEAN BY DEF IsUploads
<1>4. IsUploads(t, e) /\ e.ok = u.ok /\ e.mappings = u.mappings /\ e.pending = u.pending /\ e.buffers = bs
  BY <1>1, <1>2, <1>3, KeptUploads
<1> QED BY <1>4

\* A write reaches a buffer that no submission uses.
LEMMA WriteIs ==
  ASSUME NEW t, NEW u, IsUploads(t, u), NEW b, Has(u, b, "host_coherent"), NEW offset, NEW bytes, NEW step,
         NEW e, e = WriteUpload(u, b, offset, bytes, step)
  PROVE  UploadMoves(t, u, e) /\ (e.ok => ~InUse(u, b))
PROOF
<1> DEFINE required ==
        /\ Alive(u, b) /\ ~InUse(u, b)
        /\ u.uploads < MaxUploads /\ Len(u.buffers[b].writes) < MaxBufferUploads
        /\ u.buffers[b].sound => bytes > 0 /\ offset + bytes <= u.buffers[b].binding.bytes
<1>0. PICK entry : entry = [offset |-> offset, bytes |-> bytes, step |-> step,
                             completions |-> u.buffers[b].completions]
  OBVIOUS
<1>8. PICK writes : writes = Append(u.buffers[b].writes, entry) OBVIOUS
<1>1. PICK n, none : n = u.uploads + 1 /\ none = {} OBVIOUS
<1>9. PICK kept : kept = [u EXCEPT !.uploads = n, !.buffers[b].writes = writes, !.buffers[b].completions = none]
  OBVIOUS
<1>2. PICK g : g = IF ~u.buffers[b].sound THEN [u EXCEPT !.uploads = n] ELSE kept OBVIOUS
<1>3. e = CheckedUpload(u, required, g) BY <1>0, <1>1, <1>2, <1>8, <1>9 DEF WriteUpload
<1>4. ASSUME u.ok, required PROVE IsUploads(t, g) /\ Leaves(u, g)
  <2>1. b \in DOMAIN u.buffers /\ ~InUse(u, b) BY <1>4 DEF Alive
  <2>2. u = [ok |-> u.ok, buffers |-> u.buffers, mappings |-> u.mappings, pending |-> u.pending,
             uploads |-> u.uploads]
        /\ BufferKept(Placing(t)[b], u.buffers[b])
    BY <2>1 DEF IsUploads
  <2>3. PICK old : old = u.buffers[b] OBVIOUS
  <2>4. PICK written : written = [old EXCEPT !.writes = writes] OBVIOUS
  <2>5. PICK k : k = [written EXCEPT !.completions = none] OBVIOUS
  <2>6. BufferKept(Placing(t)[b], k)
    <3>1. "host_coherent" \in Placing(t)[b].flags
      <4>1. u.buffers[b].binding = Placing(t)[b] BY <2>2, KeptBinding
      <4> QED BY <4>1 DEF Has
    <3>2. BufferKept(Placing(t)[b], written) BY <2>2, <2>3, <2>4, <3>1, ChangedKept
    <3> QED BY <2>5, <3>2, ChangedKept
  <2>7. CASE ~u.buffers[b].sound
    <3>1. g = [ok |-> u.ok, buffers |-> u.buffers, mappings |-> u.mappings, pending |-> u.pending, uploads |-> n]
      BY <1>2, <2>2, <2>7
    <3>2. \A x \in DOMAIN u.buffers : BufferKept(Placing(t)[x], u.buffers[x]) BY DEF IsUploads
    <3>3. u.ok \in BOOLEAN BY DEF IsUploads
    <3>4. IsUploads(t, g) /\ g.buffers = u.buffers /\ g.mappings = u.mappings /\ g.pending = u.pending
      BY <3>1, <3>2, <3>3, KeptUploads
    <3> QED BY <1>4, <3>4 DEF Leaves, Held
  <2>8. CASE u.buffers[b].sound
    <3>1. PICK counted : counted = [u EXCEPT !.uploads = n] OBVIOUS
    <3>2. counted = [ok |-> u.ok, buffers |-> u.buffers, mappings |-> u.mappings, pending |-> u.pending,
                     uploads |-> n]
      BY <2>2, <3>1
    <3>3. PICK first : first = [u.buffers EXCEPT ![b] = written] OBVIOUS
    <3>4. PICK bs : bs = [u.buffers EXCEPT ![b] = k] OBVIOUS
    <3>5. PICK filled : filled = [counted EXCEPT !.buffers = first] OBVIOUS
    <3>6. filled = [ok |-> u.ok, buffers |-> first, mappings |-> u.mappings, pending |-> u.pending, uploads |-> n]
      BY <3>2, <3>5
    <3>7. first[b] = written /\ [first EXCEPT ![b] = k] = bs BY <2>1, <3>3, <3>4
    <3>8. g = [filled EXCEPT !.buffers = [first EXCEPT ![b] = k]]
      <4>1. g = [[[u EXCEPT !.uploads = n] EXCEPT !.buffers[b].writes = writes] EXCEPT !.buffers[b].completions = none]
        BY <1>2, <1>9, <2>8
      <4>2. g = [[counted EXCEPT !.buffers[b].writes = writes] EXCEPT !.buffers[b].completions = none]
        BY <3>1, <4>1
      <4>3. counted.buffers = u.buffers /\ filled.buffers = first BY <3>2, <3>6
      <4>4. [counted EXCEPT !.buffers[b].writes = writes] = filled
        <5>1. [counted EXCEPT !.buffers[b].writes = writes]
                = [counted EXCEPT !.buffers = [counted.buffers EXCEPT ![b] = [counted.buffers[b] EXCEPT !.writes = writes]]]
          OBVIOUS
        <5> QED BY <2>3, <2>4, <3>3, <3>5, <4>3, <5>1
      <4>5. g = [filled EXCEPT !.buffers[b].completions = none] BY <4>2, <4>4
      <4>6. [filled EXCEPT !.buffers[b].completions = none]
              = [filled EXCEPT !.buffers = [filled.buffers EXCEPT ![b] = [filled.buffers[b] EXCEPT !.completions = none]]]
        OBVIOUS
      <4> QED BY <2>5, <3>7, <4>3, <4>5, <4>6
    <3>9. g = [ok |-> u.ok, buffers |-> bs, mappings |-> u.mappings, pending |-> u.pending, uploads |-> n]
      BY <3>6, <3>7, <3>8
    <3>10. /\ IsUploads(t, g) /\ g.mappings = u.mappings /\ g.pending = u.pending
           /\ \A x \in DOMAIN u.buffers : x # b => g.buffers[x] = u.buffers[x]
      BY <2>1, <2>6, <3>4, <3>9, OneKept
    <3> QED BY <1>4, <2>1, <3>10 DEF Leaves, Held
  <2> QED BY <2>7, <2>8
<1>5. required \in BOOLEAN OBVIOUS
<1>6. required => ~InUse(u, b) OBVIOUS
<1>7. IsUploads(t, e) /\ (e.ok => u.ok /\ required /\ e = g)
  <2> HIDE DEF required
  <2> QED BY <1>3, <1>4, <1>5, CheckedUploads
<1> QED BY <1>4, <1>6, <1>7 DEF UploadMoves

\* A listed buffer of a mapped update is not held.
LEMMA ListedUpdate ==
  ASSUME NEW t, NEW u, IsUploads(t, u), NEW c, NEW first, NEW info, NEW step,
         NEW e, e = UpdateListed(u, c, first, info, step)
  PROVE  UploadMoves(t, u, e) /\ (e.ok => Alive(u, info.buffer) /\ ~Held(u, info.buffer))
PROOF
<1> DEFINE b == u.buffers[info.buffer].binding
           written == Least(c.bytes, b.bytes - info.offset)
           required == /\ Alive(u, info.buffer)
                       /\ b.sound /\ b.memory = c.memory /\ b.device = c.device
                       /\ first >= b.offset /\ info.offset = first - b.offset /\ info.offset < b.bytes
                       /\ info.range >= written
<1>1. PICK w : w = WriteUpload(u, info.buffer, info.offset, written, step) OBVIOUS
<1>2. PICK s : s = Invalidate(u, {info.buffer}) OBVIOUS
<1>3. PICK g : g = IF Has(u, info.buffer, "host_coherent") THEN w ELSE s OBVIOUS
<1>4. e = CheckedUpload(u, required, g) BY <1>1, <1>2, <1>3 DEF UpdateListed
<1> HIDE DEF written
<1>5. CASE Has(u, info.buffer, "host_coherent")
  <2>1. UploadMoves(t, u, w) /\ (w.ok => ~InUse(u, info.buffer)) BY <1>1, <1>5, WriteIs
  <2>2. IsUploads(t, g) /\ (g.ok => Leaves(u, g) /\ ~Held(u, info.buffer))
    BY <1>3, <1>5, <2>1 DEF UploadMoves, Held
  <2>3. required \in BOOLEAN OBVIOUS
  <2>4. IsUploads(t, e) /\ (e.ok => required /\ e = g)
    <3> HIDE DEF required
    <3> QED BY <1>4, <2>2, <2>3, CheckedUploads
  <2>5. required => Alive(u, info.buffer) OBVIOUS
  <2> QED BY <2>2, <2>4, <2>5 DEF UploadMoves
<1>6. CASE ~Has(u, info.buffer, "host_coherent")
  <2>1. /\ IsUploads(t, s)
        /\ s.ok => /\ u.ok /\ s.pending = u.pending /\ s.mappings = u.mappings
                   /\ \A x \in DOMAIN u.buffers : x \notin {info.buffer} => s.buffers[x] = u.buffers[x]
    BY <1>2, InvalidateIs
  <2>2. ~Held(u, info.buffer) BY <1>6 DEF Held
  <2>3. s.ok => Leaves(u, s) BY <2>1, <2>2 DEF Leaves, Held
  <2>4. g = s BY <1>3, <1>6
  <2>5. required \in BOOLEAN OBVIOUS
  <2>6. IsUploads(t, e) /\ (e.ok => required /\ e = g)
    <3> HIDE DEF required
    <3> QED BY <1>4, <2>1, <2>4, <2>5, CheckedUploads
  <2>7. required => Alive(u, info.buffer) OBVIOUS
  <2> QED BY <2>2, <2>3, <2>4, <2>6, <2>7 DEF UploadMoves
<1> QED BY <1>5, <1>6

\* The recursive function of a mapped update.
UpdatesTo(f, u, c, first, step, n) ==
  f = [k \in 0 .. n |-> IF k = 0 THEN u ELSE UpdateListed(f[k - 1], c, first, c.buffers[k], step)]

\* There is such a function.
LEMMA UpdatesExist ==
  ASSUME NEW N \in Nat, NEW u, NEW c, NEW first, NEW step
  PROVE  \E f : UpdatesTo(f, u, c, first, step, N)
PROOF
<1> DEFINE S == {n \in 0 .. N : \E f : UpdatesTo(f, u, c, first, step, n)}
<1>1. 0 \in S
  <2> DEFINE f == [k \in 0 .. 0 |-> u]
  <2>1. UpdatesTo(f, u, c, first, step, 0) BY DEF UpdatesTo
  <2> QED BY <2>1
<1>2. ASSUME NEW n \in 1 .. N, n - 1 \in S PROVE n \in S
  <2>1. PICK f : UpdatesTo(f, u, c, first, step, n - 1) BY <1>2
  <2> DEFINE g == [k \in 0 .. n |-> IF k = n THEN UpdateListed(f[n - 1], c, first, c.buffers[n], step) ELSE f[k]]
  <2>2. ASSUME NEW k \in 0 .. n
        PROVE  g[k] = IF k = 0 THEN u ELSE UpdateListed(g[k - 1], c, first, c.buffers[k], step)
    <3>1. CASE k = n
      <4>1. k # 0 /\ k - 1 \in 0 .. n /\ k - 1 # n BY <3>1
      <4>2. g[k] = UpdateListed(f[k - 1], c, first, c.buffers[k], step) /\ g[k - 1] = f[k - 1] BY <3>1, <4>1
      <4> HIDE DEF g
      <4> QED BY <4>1, <4>2
    <3>2. CASE k # n
      <4>1. k \in 0 .. n - 1 /\ (k # 0 => k - 1 \in 0 .. n /\ k - 1 # n) BY <3>2
      <4>2. g[k] = f[k] /\ (k # 0 => g[k - 1] = f[k - 1]) BY <3>2, <4>1
      <4>3. f[k] = IF k = 0 THEN u ELSE UpdateListed(f[k - 1], c, first, c.buffers[k], step)
        BY <2>1, <4>1 DEF UpdatesTo
      <4> HIDE DEF g
      <4> QED BY <4>2, <4>3
    <3> QED BY <3>1, <3>2
  <2>3. g = [k \in 0 .. n |-> g[k]] OBVIOUS
  <2>4. UpdatesTo(g, u, c, first, step, n)
    <3> HIDE DEF g
    <3> QED BY <2>2, <2>3 DEF UpdatesTo
  <2> HIDE DEF g
  <2> QED BY <2>4
<1> HIDE DEF S
<1>3. 0 .. N \subseteq S BY <1>1, <1>2, Counting
<1>4. N \in S BY <1>3
<1> QED BY <1>4 DEF S

\* None of the buffers that are listed was held.
LEMMA UpdatesMove ==
  ASSUME NEW t, NEW u, IsUploads(t, u), NEW c, NEW first, NEW step, NEW N \in Nat, NEW f,
         UpdatesTo(f, u, c, first, step, N)
  PROVE  UploadMoves(t, u, f[N]) /\ (f[N].ok => \A i \in 1 .. N : ~Held(u, c.buffers[i].buffer))
PROOF
<1> DEFINE S == {n \in 0 .. N : /\ UploadMoves(t, u, f[n])
                                /\ f[n].ok => \A i \in 1 .. n : ~Held(u, c.buffers[i].buffer)}
<1>1. 0 \in S
  <2>1. f[0] = u BY DEF UpdatesTo
  <2>2. u.ok => Leaves(u, u) BY DEF Leaves, Held
  <2>3. UploadMoves(t, u, u) BY <2>2 DEF UploadMoves
  <2> QED BY <2>1, <2>3
<1>2. ASSUME NEW n \in 1 .. N, n - 1 \in S PROVE n \in S
  <2>1. f[n] = UpdateListed(f[n - 1], c, first, c.buffers[n], step)
    <3>1. n \in 0 .. N /\ n # 0 OBVIOUS
    <3> QED BY <3>1 DEF UpdatesTo
  <2>2. PICK g : g = f[n - 1] OBVIOUS
  <2>3. PICK h : h = f[n] OBVIOUS
  <2>4. PICK b : b = c.buffers[n].buffer OBVIOUS
  <2>5. UploadMoves(t, u, g) /\ (g.ok => \A i \in 1 .. n - 1 : ~Held(u, c.buffers[i].buffer)) BY <1>2, <2>2
  <2>6. IsUploads(t, g) BY <2>5 DEF UploadMoves
  <2>7. UploadMoves(t, g, h) /\ (h.ok => Alive(g, b) /\ ~Held(g, b)) BY <2>1, <2>2, <2>3, <2>4, <2>6, ListedUpdate
  <2>8. ASSUME h.ok PROVE Leaves(u, h) /\ \A i \in 1 .. n : ~Held(u, c.buffers[i].buffer)
    <3>1. Leaves(g, h) /\ g.ok /\ Leaves(u, g) BY <2>5, <2>7, <2>8 DEF UploadMoves, Leaves
    <3>2. Leaves(u, h) /\ \A x \in DOMAIN u.buffers : Held(u, x) => Held(g, x)
      <4>1. IsUploads(t, h) BY <2>7 DEF UploadMoves
      <4> QED BY <2>6, <3>1, <4>1, LeavesOn
    <3>3. ~Held(u, b)
      <4>1. h.ok /\ ~Held(g, b) BY <2>7, <2>8
      <4>2. b \in DOMAIN u.buffers BY <2>6, <2>7, <2>8, SameBinding DEF Alive
      <4> QED BY <3>2, <4>1, <4>2
    <3>4. \A i \in 1 .. n : i \in 1 .. n - 1 \/ i = n OBVIOUS
    <3> QED BY <2>4, <2>5, <3>1, <3>2, <3>3, <3>4
  <2>9. n \in 0 .. N OBVIOUS
  <2>10. UploadMoves(t, u, h) BY <2>7, <2>8 DEF UploadMoves
  <2> QED BY <2>3, <2>8, <2>9, <2>10
<1> HIDE DEF S
<1>3. 0 .. N \subseteq S BY <1>1, <1>2, Counting
<1>4. N \in S BY <1>3
<1> QED BY <1>4 DEF S

\* The bytes first .. last - 1 of an allocation hold one of the buffer b.
Touching(at, first, last) == first < at.offset + at.bytes /\ at.offset < last

\* A mapped update names the buffers it writes, and none of them is held.
LEMMA MappedUpdate ==
  ASSUME NEW t, NEW u, IsUploads(t, u), NEW c, Listed(c.buffers), NEW step,
         NEW first, first = u.mappings[c.memory].offset + c.offset, NEW last, last = first + c.bytes,
         NEW e, e = UpdateMappedMemory(u, c, step)
  PROVE  /\ IsUploads(t, e)
         /\ e.ok => /\ Leaves(u, e) /\ c.memory \in DOMAIN u.mappings /\ c.bytes \in 1 .. MaxUploadBytes
                    /\ \A b \in DOMAIN u.buffers :
                         Held(u, b) /\ u.buffers[b].binding.memory = c.memory
                           => ~Touching(u.buffers[b].binding, first, last)
PROOF
<1>1. PICK N : N = Len(c.buffers) OBVIOUS
<1>2. N \in Nat /\ DOMAIN c.buffers = 1 .. N BY <1>1, ListedIs
<1> DEFINE begin == u.mappings[c.memory].offset + c.offset
<1>16. PICK f : f = CHOOSE x : x = [n \in 0 .. Len(c.buffers) |->
                 IF n = 0 THEN u ELSE UpdateListed(x[n - 1], c, begin, c.buffers[n], step)]
  OBVIOUS
<1>3. f = CHOOSE x : x = [n \in 0 .. N |->
                 IF n = 0 THEN u ELSE UpdateListed(x[n - 1], c, first, c.buffers[n], step)]
  BY <1>1, <1>16
<1>4. UpdatesTo(f, u, c, first, step, N)
  <2>1. \E x : UpdatesTo(x, u, c, first, step, N) BY <1>2, UpdatesExist
  <2> QED BY <1>3, <2>1 DEF UpdatesTo
<1>5. PICK done : done = f[N] OBVIOUS
<1>6. UploadMoves(t, u, done) /\ (done.ok => \A i \in 1 .. N : ~Held(u, c.buffers[i].buffer))
  BY <1>2, <1>4, <1>5, UpdatesMove
<1>7. IsUploads(t, done) BY <1>6 DEF UploadMoves
<1> DEFINE listed   == {c.buffers[i].buffer : i \in DOMAIN c.buffers}
           covers   == \A b \in SoundIn(done, c.memory) : Touching(done.buffers[b].binding, first, last) => b \in listed
           required == /\ c.memory \in DOMAIN u.mappings /\ c.device = u.mappings[c.memory].device
                       /\ c.offset + c.bytes <= u.mappings[c.memory].bytes /\ c.bytes \in 1 .. MaxUploadBytes
                       /\ Len(c.buffers) \in 1 .. MaxListed /\ Cardinality(listed) = Len(c.buffers)
<1>8. PICK inner : inner = CheckedUpload(done, covers, done) OBVIOUS
<1>9. e = CheckedUpload(u, required, inner)
  <2>1. PICK near : near = \A b \in SoundIn(done, c.memory) :
              (/\ begin < done.buffers[b].binding.offset + done.buffers[b].binding.bytes
               /\ done.buffers[b].binding.offset < begin + c.bytes) => b \in listed
    OBVIOUS
  <2>2. near = covers BY <2>1 DEF Touching
  <2>3. e = CheckedUpload(u, required, CheckedUpload(done, near, done))
    BY <1>1, <1>16, <1>5, <2>1 DEF UpdateMappedMemory
  <2> HIDE DEF covers, required
  <2> QED BY <1>8, <2>2, <2>3
<1>10. IsUploads(t, inner) /\ (inner.ok => covers /\ inner = done)
  <2>1. covers \in BOOLEAN OBVIOUS
  <2> HIDE DEF covers
  <2> QED BY <1>7, <1>8, <2>1, CheckedUploads
<1>11. IsUploads(t, e) /\ (e.ok => required /\ e = inner)
  <2>1. required \in BOOLEAN OBVIOUS
  <2> HIDE DEF required
  <2> QED BY <1>9, <1>10, <2>1, CheckedUploads
<1>12. ASSUME e.ok PROVE covers /\ required /\ e = done /\ done.ok
  <2>1. e = inner /\ required BY <1>11, <1>12
  <2>2. inner.ok BY <1>12, <2>1
  <2>3. covers /\ inner = done BY <1>10, <2>2
  <2> HIDE DEF covers, required
  <2> QED BY <1>12, <2>1, <2>3
<1>13. ASSUME e.ok, NEW b \in DOMAIN u.buffers, Held(u, b), u.buffers[b].binding.memory = c.memory,
              Touching(u.buffers[b].binding, first, last)
       PROVE  FALSE
  <2>1. Leaves(u, done) /\ covers BY <1>6, <1>12, <1>13 DEF UploadMoves
  <2>2. done.buffers[b].sound BY <1>13, <2>1 DEF Leaves
  <2>3. done.buffers[b].binding = u.buffers[b].binding /\ b \in DOMAIN done.buffers BY <1>7, <1>13, SameBinding
  <2>4. b \in SoundIn(done, c.memory) BY <1>13, <2>2, <2>3 DEF SoundIn
  <2>5. b \in listed BY <1>13, <2>1, <2>3, <2>4
  <2>6. PICK i \in 1 .. N : c.buffers[i].buffer = b BY <1>2, <2>5
  <2> QED BY <1>6, <1>12, <1>13, <2>6
<1>14. e.ok => Leaves(u, e) BY <1>6, <1>12 DEF UploadMoves
<1>15. required => c.memory \in DOMAIN u.mappings /\ c.bytes \in 1 .. MaxUploadBytes OBVIOUS
<1> HIDE DEF required
<1> QED BY <1>11, <1>12, <1>13, <1>14, <1>15

\* A followed call takes the ledger u to e: the uses it does not prove to be over
\* stay, and no buffer that is held is written, spoilt or ended.
HostMoves(t, u, e, c) ==
  /\ u.ok
  /\ \A p \in u.pending : p \in e.pending \/ Done(c, p)
  /\ \A m \in DOMAIN e.mappings :
       IF Maps(c, m) THEN e.mappings[m].offset = c.offset
       ELSE m \in DOMAIN u.mappings /\ e.mappings[m].offset = u.mappings[m].offset
  /\ c.op # "PopulateBuffer" =>
       \A b \in DOMAIN u.buffers : Held(u, b) =>
         /\ e.buffers[b].sound
         /\ ~(c.op = "DestroyBuffer" /\ c.buffer = b)
         /\ ~(c.op = "FreeMemory" /\ c.memory = u.buffers[b].binding.memory)
  /\ c.op = "UpdateMappedMemory" =>
       /\ c.memory \in DOMAIN u.mappings /\ c.bytes \in 1 .. MaxUploadBytes
       /\ \A b \in DOMAIN u.buffers : Held(u, b) /\ u.buffers[b].binding.memory = c.memory =>
            ~Touching(u.buffers[b].binding, u.mappings[c.memory].offset + c.offset,
                      u.mappings[c.memory].offset + c.offset + c.bytes)

\* What an operation of a call promises.
HostStep(t, u, e, c) == IsUploads(t, e) /\ (e.ok => HostMoves(t, u, e, c))

\* A call that leaves the ledger.
LEMMA QuietUploads ==
  ASSUME NEW t, NEW u, IsUploads(t, u), u.ok, NEW c,
         c.op \notin {"PopulateBuffer", "MapMemory", "DestroyBuffer", "FreeMemory", "UpdateMappedMemory"}
  PROVE  HostMoves(t, u, u, c)
BY DEF HostMoves, Held, Maps

\* The ledger with other mappings.
LEMMA MappedUploads ==
  ASSUME NEW t, NEW u, IsUploads(t, u), NEW ms, NEW e, e = [u EXCEPT !.mappings = ms]
  PROVE  IsUploads(t, e) /\ e.ok = u.ok /\ e.buffers = u.buffers /\ e.mappings = ms /\ e.pending = u.pending
PROOF
<1>1. e = [ok |-> u.ok, buffers |-> u.buffers, mappings |-> ms, pending |-> u.pending, uploads |-> u.uploads]
  BY DEF IsUploads
<1>2. PICK bs, ps, n : bs = u.buffers /\ ps = u.pending /\ n = u.uploads OBVIOUS
<1>3. u.ok \in BOOLEAN /\ DOMAIN bs = DOMAIN u.buffers /\ \A b \in DOMAIN bs : BufferKept(Placing(t)[b], bs[b])
  BY <1>2 DEF IsUploads
<1>4. e = [ok |-> u.ok, buffers |-> bs, mappings |-> ms, pending |-> ps, uploads |-> n] BY <1>1, <1>2
<1>5. e.ok = u.ok /\ e.buffers = bs /\ e.mappings = ms /\ e.pending = ps /\ e.uploads = n BY <1>4
<1>6. DOMAIN bs = DOMAIN Placing(t) BY <1>2 DEF IsUploads
<1>7. IsUploads(t, e) BY <1>3, <1>4, <1>5, <1>6 DEF IsUploads
<1> QED BY <1>2, <1>5, <1>7

LEMMA MapStep ==
  ASSUME NEW t, NEW u, IsUploads(t, u), NEW c, c.op = "MapMemory", NEW e, e = MapMemory(u, c)
  PROVE  HostStep(t, u, e, c)
PROOF
<1> DEFINE sound == SoundIn(u, c.memory)
           allocation == u.buffers[CHOOSE b \in sound : TRUE].binding.allocation
           bytes == IF c.bytes = Whole THEN allocation - c.offset ELSE c.bytes
           required == /\ c.memory \notin DOMAIN u.mappings /\ c.plain
                       /\ sound # {}
                       /\ \A b \in sound : u.buffers[b].alive /\ u.buffers[b].binding.device = c.device
                                           /\ Has(u, b, "host_visible")
                       /\ c.offset < allocation
                       /\ bytes > 0 /\ bytes <= allocation - c.offset
<1>11. PICK size : size = bytes
  <2> HIDE DEF bytes
  <2> QED OBVIOUS
<1>12. PICK new : new = [device |-> c.device, offset |-> c.offset, bytes |-> size] OBVIOUS
<1>1. new = [device |-> c.device, offset |-> c.offset, bytes |-> bytes] BY <1>11, <1>12
<1>2. PICK ms : ms = [m \in DOMAIN u.mappings \cup {c.memory} |-> IF m = c.memory THEN new ELSE u.mappings[m]]
  OBVIOUS
<1>3. PICK g : g = [u EXCEPT !.mappings = ms] OBVIOUS
<1>4. e = CheckedUpload(u, required, g) BY <1>1, <1>2, <1>3 DEF MapMemory
<1>5. IsUploads(t, g) /\ g.buffers = u.buffers /\ g.mappings = ms /\ g.pending = u.pending
  BY <1>3, MappedUploads
<1>6. new.offset = c.offset BY <1>12
<1> HIDE DEF bytes, allocation
<1>7. required \in BOOLEAN OBVIOUS
<1>8. IsUploads(t, e) /\ (e.ok => u.ok /\ e = g)
  <2> HIDE DEF required
  <2> QED BY <1>4, <1>5, <1>7, CheckedUploads
<1>9. \A m \in DOMAIN ms : IF m = c.memory THEN ms[m].offset = c.offset
                           ELSE m \in DOMAIN u.mappings /\ ms[m].offset = u.mappings[m].offset
  BY <1>2, <1>6
<1>10. \A m : Maps(c, m) <=> m = c.memory BY DEF Maps
<1> QED BY <1>5, <1>8, <1>9, <1>10 DEF HostStep, HostMoves, Held

LEMMA UnmapStep ==
  ASSUME NEW t, NEW u, IsUploads(t, u), NEW c, c.op = "UnmapMemory", NEW e, e = UnmapMemory(u, c)
  PROVE  HostStep(t, u, e, c)
PROOF
<1> DEFINE required == c.memory \in DOMAIN u.mappings /\ u.mappings[c.memory].device = c.device
<1>1. PICK ms : ms = [m \in DOMAIN u.mappings \ {c.memory} |-> u.mappings[m]] OBVIOUS
<1>2. PICK g : g = [u EXCEPT !.mappings = ms] OBVIOUS
<1>3. e = CheckedUpload(u, required, g) BY <1>1, <1>2 DEF UnmapMemory
<1>4. IsUploads(t, g) /\ g.buffers = u.buffers /\ g.mappings = ms /\ g.pending = u.pending
  BY <1>2, MappedUploads
<1>5. required \in BOOLEAN OBVIOUS
<1>6. IsUploads(t, e) /\ (e.ok => u.ok /\ e = g)
  <2> HIDE DEF required
  <2> QED BY <1>3, <1>4, <1>5, CheckedUploads
<1>7. \A m \in DOMAIN ms : m \in DOMAIN u.mappings /\ ms[m].offset = u.mappings[m].offset BY <1>1
<1>8. \A m : ~Maps(c, m) BY DEF Maps
<1> QED BY <1>4, <1>6, <1>7, <1>8 DEF HostStep, HostMoves, Held

LEMMA ResetStep ==
  ASSUME NEW t, NEW u, IsUploads(t, u), NEW c, c.op = "ResetFences", NEW e, e = ResetFences(u, c)
  PROVE  HostStep(t, u, e, c)
PROOF
<1> DEFINE required == \A p \in u.pending : ~(p.device = c.device /\ p.fence \in c.fences)
<1>1. required \in BOOLEAN OBVIOUS
<1>2. e = CheckedUpload(u, required, u) BY DEF ResetFences
<1>3. IsUploads(t, e) /\ (e.ok => u.ok /\ e = u)
  <2> HIDE DEF required
  <2> QED BY <1>1, <1>2, CheckedUploads
<1> QED BY <1>3, QuietUploads DEF HostStep

\* Populating a buffer leaves the uses and the mappings.
LEMMA PopulateStep ==
  ASSUME NEW t, NEW u, IsUploads(t, u), NEW c, c.op = "PopulateBuffer", NEW step, NEW e, e = PopulateBuffer(u, c, step)
  PROVE  HostStep(t, u, e, c)
PROOF
<1> DEFINE b == u.buffers[c.buffer].binding
           staged == c.offset # 0 \/ ~Has(u, c.buffer, "host_visible") \/ ~Has(u, c.buffer, "host_coherent")
           m == u.mappings[b.memory]
           within == b.memory \in DOMAIN u.mappings => b.offset >= m.offset /\ b.offset + c.bytes <= m.offset + m.bytes
           required == /\ Alive(u, c.buffer) /\ u.buffers[c.buffer].sound /\ b.device = c.device
                       /\ c.bytes \in 1 .. MaxUploadBytes
           Same(x) == IsUploads(t, x) /\ (x.ok => u.ok /\ x.pending = u.pending /\ x.mappings = u.mappings)
<1>1. PICK s : s = Invalidate(u, {c.buffer}) OBVIOUS
<1>2. PICK w : w = WriteUpload(u, c.buffer, c.offset, c.bytes, step) OBVIOUS
<1>3. PICK k : k = CheckedUpload(u, within, w) OBVIOUS
<1>4. PICK g : g = IF staged THEN s ELSE k OBVIOUS
<1>5. e = CheckedUpload(u, required, g) BY <1>1, <1>2, <1>3, <1>4 DEF PopulateBuffer
<1>6. Same(s) BY <1>1, InvalidateIs
<1>7. ~staged => Same(k)
  <2>1. SUFFICES ASSUME ~staged PROVE Same(k) OBVIOUS
  <2>2. Has(u, c.buffer, "host_coherent") BY <2>1
  <2>3. UploadMoves(t, u, w) BY <1>2, <2>2, WriteIs
  <2>4. Same(w) BY <2>3 DEF UploadMoves, Leaves
  <2>5. within \in BOOLEAN OBVIOUS
  <2>6. IsUploads(t, k) /\ (k.ok => k = w)
    <3> HIDE DEF within
    <3> QED BY <1>3, <2>4, <2>5, CheckedUploads
  <2> QED BY <2>4, <2>6
<1>8. Same(g)
  <2> HIDE DEF staged, Same
  <2> QED BY <1>4, <1>6, <1>7
<1>9. required \in BOOLEAN OBVIOUS
<1>10. IsUploads(t, e) /\ (e.ok => e = g)
  <2>1. IsUploads(t, g) BY <1>8
  <2> HIDE DEF required, Same
  <2> QED BY <1>5, <1>9, <2>1, CheckedUploads
<1>11. Same(e) BY <1>8, <1>10
<1>12. \A x : ~Maps(c, x) BY DEF Maps
<1> QED BY <1>11, <1>12 DEF HostStep, HostMoves

\* The uses that are over leave, the buffers stay as they are.
LEMMA RetireIs ==
  ASSUME NEW t, NEW u, IsUploads(t, u), NEW done, NEW step, NEW e, e = Retire(u, done, step)
  PROVE  /\ IsUploads(t, e)
         /\ e.ok => /\ u.ok /\ e.pending = u.pending \ done /\ e.mappings = u.mappings
                    /\ \A b \in DOMAIN u.buffers : e.buffers[b].sound = u.buffers[b].sound
PROOF
<1> DEFINE over(b)  == {[use |-> p.place, by |-> step] : p \in {q \in done : b \in q.buffers}}
           required == \A b \in DOMAIN u.buffers :
                         Cardinality(u.buffers[b].completions \cup over(b)) <= MaxCompletions \/ over(b) = {}
<1>1. PICK bs : bs = [b \in DOMAIN u.buffers |-> [u.buffers[b] EXCEPT !.completions = @ \cup over(b)]] OBVIOUS
<1>2. PICK left : left = u.pending \ done OBVIOUS
<1>3. PICK g : g = [u EXCEPT !.pending = left, !.buffers = bs] OBVIOUS
<1>4. e = CheckedUpload(u, required, g)
  <2>1. g = [u EXCEPT !.pending = @ \ done,
                      !.buffers = [b \in DOMAIN @ |-> [u.buffers[b] EXCEPT !.completions = @ \cup over(b)]]]
    BY <1>1, <1>2, <1>3
  <2> QED BY <2>1 DEF Retire
<1>5. DOMAIN bs = DOMAIN u.buffers BY <1>1
<1>6. ASSUME NEW b \in DOMAIN bs PROVE BufferKept(Placing(t)[b], bs[b]) /\ bs[b].sound = u.buffers[b].sound
  <2>1. PICK old : old = u.buffers[b] OBVIOUS
  <2>2. PICK cs : cs = u.buffers[b].completions \cup over(b) OBVIOUS
  <2>3. bs[b] = [old EXCEPT !.completions = cs] BY <1>1, <1>5, <2>1, <2>2
  <2>4. PICK at : at = Placing(t)[b] OBVIOUS
  <2>5. BufferKept(at, old) BY <1>5, <2>1, <2>4 DEF IsUploads
  <2>6. BufferKept(at, [old EXCEPT !.completions = cs]) /\ [old EXCEPT !.completions = cs].sound = old.sound
    BY <2>5, ChangedKept
  <2> QED BY <2>1, <2>3, <2>4, <2>6
<1>7. g = [ok |-> u.ok, buffers |-> bs, mappings |-> u.mappings, pending |-> left, uploads |-> u.uploads]
  BY <1>3 DEF IsUploads
<1>8. u.ok \in BOOLEAN BY DEF IsUploads
<1>9. IsUploads(t, g) /\ g.buffers = bs /\ g.mappings = u.mappings /\ g.pending = left
  BY <1>5, <1>6, <1>7, <1>8, KeptUploads
<1>10. required \in BOOLEAN OBVIOUS
<1>11. IsUploads(t, e) /\ (e.ok => u.ok /\ e = g)
  <2> HIDE DEF required
  <2> QED BY <1>4, <1>9, <1>10, CheckedUploads
<1> QED BY <1>2, <1>5, <1>6, <1>9, <1>11

LEMMA WaitStep ==
  ASSUME NEW t, NEW u, IsUploads(t, u), NEW c, c.op \in {"WaitForFences", "QueueWaitIdle", "DeviceWaitIdle"},
         NEW step, NEW e, e = HostUpload(u, c, step)
  PROVE  HostStep(t, u, e, c)
PROOF
<1>1. PICK done : e = Retire(u, done, step) /\ \A p \in done : Done(c, p)
  <2>1. CASE c.op = "WaitForFences"
    <3>1. PICK done : done = {p \in u.pending : c.all /\ c.timeout = Whole /\ p.device = c.device /\ p.fence \in c.fences}
      OBVIOUS
    <3>2. e = Retire(u, done, step) BY <2>1, <3>1 DEF HostUpload, WaitForFences
    <3>3. \A p \in done : Done(c, p) BY <2>1, <3>1 DEF Done
    <3> QED BY <3>2, <3>3
  <2>2. CASE c.op = "QueueWaitIdle"
    <3>1. PICK done : done = {p \in u.pending : p.queue = c.queue} OBVIOUS
    <3>2. e = Retire(u, done, step) BY <2>2, <3>1 DEF HostUpload, QueueWaitIdle
    <3>3. \A p \in done : Done(c, p) BY <2>2, <3>1 DEF Done
    <3> QED BY <3>2, <3>3
  <2>3. CASE c.op = "DeviceWaitIdle"
    <3>1. PICK done : done = {p \in u.pending : p.device = c.device} OBVIOUS
    <3>2. e = Retire(u, done, step) BY <2>3, <3>1 DEF HostUpload, DeviceWaitIdle
    <3>3. \A p \in done : Done(c, p) BY <2>3, <3>1 DEF Done
    <3> QED BY <3>2, <3>3
  <2> QED BY <2>1, <2>2, <2>3
<1>2. /\ IsUploads(t, e)
      /\ e.ok => /\ u.ok /\ e.pending = u.pending \ done /\ e.mappings = u.mappings
                 /\ \A b \in DOMAIN u.buffers : e.buffers[b].sound = u.buffers[b].sound
  BY <1>1, RetireIs
<1>3. \A x : ~Maps(c, x) BY DEF Maps
<1> QED BY <1>1, <1>2, <1>3 DEF HostStep, HostMoves, Held

LEMMA DestroyStep ==
  ASSUME NEW t, NEW u, IsUploads(t, u), NEW c, c.op = "DestroyBuffer", NEW e, e = DestroyBuffer(u, c)
  PROVE  HostStep(t, u, e, c)
PROOF
<1> DEFINE required == Alive(u, c.buffer) /\ u.buffers[c.buffer].binding.device = c.device /\ ~InUse(u, c.buffer)
<1>1. PICK b, old, no, none : b = c.buffer /\ old = u.buffers[c.buffer] /\ no = FALSE /\ none = <<>> OBVIOUS
<1>2. PICK k : k = [old EXCEPT !.alive = no, !.sound = no, !.writes = none] OBVIOUS
<1>3. PICK bs : bs = [u.buffers EXCEPT ![b] = k] OBVIOUS
<1>4. PICK g : g = [u EXCEPT !.buffers = bs] OBVIOUS
<1>5. e = CheckedUpload(u, required, g)
  <2>1. g = [u EXCEPT !.buffers[c.buffer] = [@ EXCEPT !.alive = FALSE, !.sound = FALSE, !.writes = <<>>]]
    BY <1>1, <1>2, <1>3, <1>4
  <2> QED BY <2>1 DEF DestroyBuffer
<1>6. ASSUME required PROVE /\ IsUploads(t, g) /\ g.mappings = u.mappings /\ g.pending = u.pending
                            /\ \A x \in DOMAIN u.buffers : x # b => g.buffers[x] = u.buffers[x]
  <2>1. b \in DOMAIN u.buffers BY <1>1, <1>6 DEF Alive
  <2>2. PICK at : at = Placing(t)[b] OBVIOUS
  <2>3. BufferKept(at, old) BY <1>1, <2>1, <2>2 DEF IsUploads
  <2>4. PICK k1 : k1 = [old EXCEPT !.alive = no] OBVIOUS
  <2>5. PICK k2 : k2 = [k1 EXCEPT !.sound = no] OBVIOUS
  <2>6. BufferKept(at, k1) BY <2>3, <2>4, ChangedKept
  <2>7. BufferKept(at, k2) BY <2>5, <2>6, ChangedKept
  <2>8. BufferKept(at, [k2 EXCEPT !.writes = none]) BY <1>1, <2>7, ChangedKept
  <2>9. k = [k2 EXCEPT !.writes = none] BY <1>2, <2>4, <2>5
  <2>10. g = [ok |-> u.ok, buffers |-> bs, mappings |-> u.mappings, pending |-> u.pending, uploads |-> u.uploads]
    BY <1>4 DEF IsUploads
  <2> QED BY <1>3, <2>1, <2>2, <2>8, <2>9, <2>10, OneKept
<1>7. required \in BOOLEAN OBVIOUS
<1>8. IsUploads(t, e) /\ (e.ok => u.ok /\ required /\ e = g)
  <2> HIDE DEF required
  <2> QED BY <1>5, <1>6, <1>7, CheckedUploads
<1>9. required => ~Held(u, b) BY <1>1 DEF Held
<1>10. \A x : ~Maps(c, x) BY DEF Maps
<1>11. ASSUME e.ok PROVE HostMoves(t, u, e, c)
  <2>1. /\ u.ok /\ required /\ e = g BY <1>8, <1>11
  <2>2. /\ g.mappings = u.mappings /\ g.pending = u.pending
        /\ \A x \in DOMAIN u.buffers : x # b => g.buffers[x] = u.buffers[x]
    BY <1>6, <2>1
  <2> HIDE DEF required
  <2> QED BY <1>1, <1>9, <1>10, <2>1, <2>2 DEF HostMoves, Held
<1> QED BY <1>8, <1>11 DEF HostStep

LEMMA FreeMemoryStep ==
  ASSUME NEW t, NEW u, IsUploads(t, u), NEW c, c.op = "FreeMemory", NEW e, e = FreeMemory(u, c)
  PROVE  HostStep(t, u, e, c)
PROOF
<1> DEFINE bound == {b \in DOMAIN u.buffers : u.buffers[b].binding.memory = c.memory}
           required == /\ c.memory \notin DOMAIN u.mappings /\ bound # {}
                       /\ \A b \in bound : u.buffers[b].binding.device = c.device /\ ~InUse(u, b)
<1>1. PICK no, none : no = FALSE /\ none = <<>> OBVIOUS
<1>2. PICK bs : bs = [b \in DOMAIN u.buffers |->
                        IF b \in bound THEN [u.buffers[b] EXCEPT !.alive = FALSE, !.sound = FALSE, !.writes = <<>>]
                        ELSE u.buffers[b]]
  OBVIOUS
<1>3. PICK g : g = [u EXCEPT !.buffers = bs] OBVIOUS
<1>4. e = CheckedUpload(u, required, g) BY <1>2, <1>3 DEF FreeMemory
<1>5. DOMAIN bs = DOMAIN u.buffers BY <1>2
<1>6. ASSUME NEW b \in DOMAIN bs PROVE BufferKept(Placing(t)[b], bs[b])
  <2>1. PICK at, old : at = Placing(t)[b] /\ old = u.buffers[b] OBVIOUS
  <2>2. BufferKept(at, old) BY <1>5, <2>1 DEF IsUploads
  <2>3. PICK k1 : k1 = [old EXCEPT !.alive = no] OBVIOUS
  <2>4. PICK k2 : k2 = [k1 EXCEPT !.sound = no] OBVIOUS
  <2>5. BufferKept(at, k1) BY <2>2, <2>3, ChangedKept
  <2>6. BufferKept(at, k2) BY <2>4, <2>5, ChangedKept
  <2>7. BufferKept(at, [k2 EXCEPT !.writes = none]) BY <1>1, <2>6, ChangedKept
  <2>8. PICK k : k = [old EXCEPT !.alive = FALSE, !.sound = FALSE, !.writes = <<>>] OBVIOUS
  <2>9. k = [k2 EXCEPT !.writes = none] BY <1>1, <2>3, <2>4, <2>8
  <2>10. bs[b] = k \/ bs[b] = old BY <1>2, <1>5, <2>1, <2>8
  <2> QED BY <2>1, <2>2, <2>7, <2>9, <2>10
<1>7. g = [ok |-> u.ok, buffers |-> bs, mappings |-> u.mappings, pending |-> u.pending, uploads |-> u.uploads]
  BY <1>3 DEF IsUploads
<1>8. u.ok \in BOOLEAN BY DEF IsUploads
<1>9. IsUploads(t, g) /\ g.buffers = bs /\ g.mappings = u.mappings /\ g.pending = u.pending
  BY <1>5, <1>6, <1>7, <1>8, KeptUploads
<1>10. required \in BOOLEAN OBVIOUS
<1>11. IsUploads(t, e) /\ (e.ok => u.ok /\ required /\ e = g)
  <2> HIDE DEF required
  <2> QED BY <1>4, <1>9, <1>10, CheckedUploads
<1>12. \A x : ~Maps(c, x) BY DEF Maps
<1>13. ASSUME e.ok, NEW b \in DOMAIN u.buffers, Held(u, b)
       PROVE  e.buffers[b].sound /\ c.memory # u.buffers[b].binding.memory
  <2>1. required /\ e = g BY <1>11, <1>13
  <2>2. b \notin bound BY <1>13, <2>1 DEF Held
  <2>3. bs[b] = u.buffers[b] BY <1>2, <2>2
  <2> QED BY <1>9, <1>13, <2>1, <2>2, <2>3 DEF Held
<1>14. ASSUME e.ok PROVE HostMoves(t, u, e, c)
  <2>1. u.ok /\ e.mappings = u.mappings /\ e.pending = u.pending BY <1>9, <1>11, <1>14
  <2> QED BY <1>12, <1>13, <1>14, <2>1 DEF HostMoves
<1> QED BY <1>11, <1>14 DEF HostStep

\* Every call of the host that the ledger follows.
LEMMA HostSteps ==
  ASSUME NEW t, NEW u, IsUploads(t, u), NEW c, CallOk(c), c.op \in UploadCalls \cup {"PopulateBuffer"},
         NEW step, NEW e, e = HostUpload(u, c, step)
  PROVE  HostStep(t, u, e, c)
PROOF
<1>1. CASE c.op = "MapMemory" BY <1>1, MapStep DEF HostUpload
<1>2. CASE c.op = "UnmapMemory" BY <1>2, UnmapStep DEF HostUpload
<1>3. CASE c.op = "PopulateBuffer" BY <1>3, PopulateStep DEF HostUpload
<1>4. CASE c.op = "UpdateMappedMemory"
  <2>1. e = UpdateMappedMemory(u, c, step) BY <1>4 DEF HostUpload
  <2>2. Listed(c.buffers) BY <1>4 DEF CallOk
  <2>3. PICK first : first = u.mappings[c.memory].offset + c.offset OBVIOUS
  <2>4. PICK last : last = first + c.bytes OBVIOUS
  <2>5. /\ IsUploads(t, e)
        /\ e.ok => /\ Leaves(u, e) /\ c.memory \in DOMAIN u.mappings /\ c.bytes \in 1 .. MaxUploadBytes
                   /\ \A b \in DOMAIN u.buffers :
                        Held(u, b) /\ u.buffers[b].binding.memory = c.memory
                          => ~Touching(u.buffers[b].binding, first, last)
    BY <2>1, <2>2, <2>3, <2>4, MappedUpdate
  <2>6. \A x : ~Maps(c, x) BY <1>4 DEF Maps
  <2> QED BY <1>4, <2>3, <2>4, <2>5, <2>6 DEF HostStep, HostMoves, Leaves
<1>5. CASE c.op \in {"WaitForFences", "QueueWaitIdle", "DeviceWaitIdle"} BY <1>5, WaitStep
<1>6. CASE c.op = "ResetFences" BY <1>6, ResetStep DEF HostUpload
<1>7. CASE c.op = "DestroyBuffer" BY <1>7, DestroyStep DEF HostUpload
<1>8. CASE c.op = "FreeMemory" BY <1>8, FreeMemoryStep DEF HostUpload
<1> QED BY <1>1, <1>2, <1>3, <1>4, <1>5, <1>6, <1>7, <1>8 DEF UploadCalls

\* Where a captured buffer is placed; it is not one that the GPU only reads when a
\* copy writes it.
LEMMA PlacedOk ==
  ASSUME NEW t \in Themes, NEW b \in DOMAIN Placing(t)
  PROVE  /\ Placing(t)[b].offset \in Nat /\ Placing(t)[b].bytes \in Nat
         /\ \A r \in DOMAIN t.recordings :
              b \in t.recordings[r].copies => ~ReadOnlyUsage(Placing(t)[b].usage)
PROOF
<1>1. PICK calls : calls = t.resources OBVIOUS
<1> DEFINE place(x) == {p \in Bindings(calls) : calls[p[1]].bindings[p[2]].buffer = x}
<1>2. GraphQualified(calls)
  <2>1. SUFFICES ASSUME ~GraphQualified(calls) PROVE FALSE OBVIOUS
  <2>2. Placing(t) = <<>> BY <1>1, <2>1 DEF Placing, MemoryGraph
  <2> QED BY <2>2
<1>3. Placing(t) = [x \in Names(calls, "CreateBuffer") |->
                      IF place(x) = {} THEN NoBinding ELSE Binding(calls, CHOOSE p \in place(x) : TRUE)]
  BY <1>1, <1>2 DEF Placing, MemoryGraph
<1>4. b \in Names(calls, "CreateBuffer")
      /\ Placing(t)[b] = IF place(b) = {} THEN NoBinding ELSE Binding(calls, CHOOSE p \in place(b) : TRUE)
  BY <1>3
<1>5. CASE place(b) = {}
  <2>1. Placing(t)[b] = NoBinding BY <1>4, <1>5
  <2>2. NoBinding.offset = 0 /\ NoBinding.bytes = 0 /\ NoBinding.usage = {} BY DEF NoBinding
  <2> QED BY <2>1, <2>2 DEF ReadOnlyUsage
<1>6. CASE place(b) # {}
  <2>1. PICK p : p = CHOOSE x \in place(b) : TRUE OBVIOUS
  <2>2. p \in place(b) BY <1>6, <2>1
  <2>3. p \in Bindings(calls) /\ calls[p[1]].bindings[p[2]].buffer = b BY <2>2
  <2>4. p[1] \in DOMAIN calls /\ calls[p[1]].op = "AllocateMemory" /\ p[2] \in DOMAIN calls[p[1]].bindings
    <3>1. PICK i \in Calls(calls, "AllocateMemory") : \E n \in DOMAIN calls[i].bindings : p = <<i, n>>
      BY <2>3 DEF Bindings
    <3>2. PICK n \in DOMAIN calls[i].bindings : p = <<i, n>> BY <3>1
    <3>3. p[1] = i /\ p[2] = n BY <3>2
    <3> QED BY <3>2, <3>3 DEF Calls
  <2>5. PICK i : i = CHOOSE j \in Calls(calls, "CreateBuffer") : calls[j].name = b OBVIOUS
  <2>6. i \in DOMAIN calls /\ calls[i].op = "CreateBuffer" /\ calls[i].name = b
    <3>1. \E j \in Calls(calls, "CreateBuffer") : calls[j].name = b BY <1>4 DEF Names
    <3>2. i \in Calls(calls, "CreateBuffer") /\ calls[i].name = b BY <2>5, <3>1
    <3> QED BY <3>2 DEF Calls
  <2>7. Named(calls, "CreateBuffer", b) = calls[i] BY <2>5 DEF Named
  <2>8. Placing(t)[b] = Binding(calls, p) BY <1>4, <1>6, <2>1
  <2>9. PICK q : q = Binding(calls, p) OBVIOUS
  <2>10. q.offset = calls[p[1]].bindings[p[2]].offset /\ q.bytes = calls[i].bytes /\ q.usage = calls[i].usage
    BY <2>3, <2>7, <2>9 DEF Binding
  <2>11. ResourceOk(calls[p[1]]) /\ ResourceOk(calls[i]) BY <1>1, <2>4, <2>6, ThemesAssumption
  <2>12. q.offset \in Nat /\ q.bytes \in Nat BY <2>4, <2>6, <2>10, <2>11 DEF ResourceOk
  <2>13. ASSUME NEW r \in DOMAIN t.recordings, b \in t.recordings[r].copies PROVE ~ReadOnlyUsage(q.usage)
    <3>1. CopiesAllowed(t, t.recordings[r]) BY ThemesAssumption
    <3>2. "transfer_dst" \in calls[i].usage BY <1>1, <2>6, <2>13, <3>1 DEF CopiesAllowed
    <3> QED BY <2>10, <3>2 DEF ReadOnlyUsage
  <2> QED BY <2>8, <2>9, <2>12, <2>13
<1> QED BY <1>5, <1>6

\* Calls that follow do not change the last mapping before a call.
LEMMA MapKept ==
  ASSUME NEW h, NEW c, NEW g, Longer(h, c, g), NEW n \in 0 .. Len(h), NEW memory, NEW j, LastMap(h, n, memory, j)
  PROVE  LastMap(g, n, memory, j) /\ g[j] = h[j]
PROOF
<1>1. \A i \in 1 .. n : i \in 1 .. Len(h) /\ g[i] = h[i] BY DEF Longer
<1> QED BY <1>1 DEF LastMap

LEMMA MapNext ==
  ASSUME NEW h, NEW c, NEW g, Longer(h, c, g), NEW memory, ~Maps(c, memory), NEW j, LastMap(h, Len(h), memory, j)
  PROVE  LastMap(g, Len(g), memory, j) /\ g[j] = h[j]
PROOF
<1>1. \A i \in 1 .. Len(g) : i \in 1 .. Len(h) \/ i = Len(h) + 1 BY DEF Longer
<1>2. j \in 1 .. Len(h) /\ j \in 1 .. Len(g) /\ g[j] = h[j] /\ Maps(g[j], memory) BY DEF LastMap, Longer
<1>3. ASSUME NEW i \in 1 .. Len(g), Maps(g[i], memory) PROVE i <= j
  <2>1. CASE i \in 1 .. Len(h) BY <1>3, <2>1 DEF LastMap, Longer
  <2>2. CASE i = Len(h) + 1 BY <1>3, <2>2 DEF Longer
  <2> QED BY <1>1, <2>1, <2>2
<1> QED BY <1>2, <1>3 DEF LastMap

LEMMA MapNew ==
  ASSUME NEW h, NEW c, NEW g, Longer(h, c, g), NEW memory, Maps(c, memory)
  PROVE  LastMap(g, Len(g), memory, Len(g)) /\ g[Len(g)] = c
PROOF
<1>1. Len(g) \in Nat /\ Len(g) \in 1 .. Len(g) /\ g[Len(g)] = c BY DEF Longer
<1>2. \A i \in 1 .. Len(g) : i <= Len(g) BY <1>1
<1> QED BY <1>1, <1>2 DEF LastMap

\* The mappings follow the calls.
LEMMA MapsFollow ==
  ASSUME NEW t, NEW u, NEW e, NEW h, NEW c, NEW g, Longer(h, c, g), MapsHold(u, h), CallOk(c), HostMoves(t, u, e, c)
  PROVE  MapsHold(e, g)
PROOF
<1>1. SUFFICES ASSUME NEW m \in DOMAIN e.mappings
               PROVE  \E j \in 1 .. Len(g) : /\ LastMap(g, Len(g), m, j) /\ g[j].offset \in Nat
                                             /\ e.mappings[m].offset = g[j].offset
  BY DEF MapsHold
<1>2. CASE Maps(c, m)
  <2>1. e.mappings[m].offset = c.offset BY <1>1, <1>2 DEF HostMoves
  <2>2. c.offset \in Nat BY <1>2 DEF Maps, CallOk
  <2>3. LastMap(g, Len(g), m, Len(g)) /\ g[Len(g)] = c BY <1>2, MapNew
  <2>4. Len(g) \in 1 .. Len(g) BY DEF Longer
  <2> QED BY <2>1, <2>2, <2>3, <2>4
<1>3. CASE ~Maps(c, m)
  <2>1. m \in DOMAIN u.mappings /\ e.mappings[m].offset = u.mappings[m].offset BY <1>1, <1>3 DEF HostMoves
  <2>2. PICK j \in 1 .. Len(h) : LastMap(h, Len(h), m, j) /\ h[j].offset \in Nat /\ u.mappings[m].offset = h[j].offset
    BY <2>1 DEF MapsHold
  <2>3. LastMap(g, Len(g), m, j) /\ g[j] = h[j] BY <1>3, <2>2, MapNext
  <2>4. j \in 1 .. Len(g) BY DEF Longer
  <2> QED BY <2>1, <2>2, <2>3, <2>4
<1> QED BY <1>2, <1>3

\* What a call spared it spares.
LEMMA SparesKept ==
  ASSUME NEW t, NEW h, NEW c, NEW g, Longer(h, c, g), NEW j \in 1 .. Len(h), NEW plan, Spares(t, h, j, plan)
  PROVE  Spares(t, g, j, plan)
PROOF
<1>1. g[j] = h[j] /\ j - 1 \in 0 .. Len(h) BY DEF Longer
<1>2. ASSUME h[j].op = "UpdateMappedMemory"
      PROVE  \E i \in 1 .. j - 1 :
              /\ LastMap(g, j - 1, g[j].memory, i)
              /\ g[j].memory = Placing(t)[plan.buffer].memory =>
                   \A x \in 0 .. plan.prefix - 1 :
                     Placing(t)[plan.buffer].offset + plan.offset + x
                       \notin g[i].offset + g[j].offset .. g[i].offset + g[j].offset + g[j].bytes - 1
  <2>1. PICK i \in 1 .. j - 1 :
              /\ LastMap(h, j - 1, h[j].memory, i)
              /\ h[j].memory = Placing(t)[plan.buffer].memory =>
                   \A x \in 0 .. plan.prefix - 1 :
                     Placing(t)[plan.buffer].offset + plan.offset + x
                       \notin h[i].offset + h[j].offset .. h[i].offset + h[j].offset + h[j].bytes - 1
    BY <1>2 DEF Spares
  <2>2. LastMap(g, j - 1, h[j].memory, i) /\ g[i] = h[i] BY <1>1, <2>1, MapKept
  <2> QED BY <1>1, <2>1, <2>2
<1> QED BY <1>1, <1>2 DEF Spares

\* A call spares the plans whose buffer is held.
LEMMA HeldSpares ==
  ASSUME NEW t \in Themes, NEW u, NEW e, IsUploads(t, u), NEW h, NEW c, NEW g, Longer(h, c, g), MapsHold(u, h), CallOk(c),
         HostMoves(t, u, e, c), c.op # "PopulateBuffer", NEW plan, PlanPlaced(t, plan), Held(u, plan.buffer)
  PROVE  Spares(t, g, Len(g), plan)
PROOF
<1>1. PICK b, at : b = plan.buffer /\ at = Placing(t)[plan.buffer] OBVIOUS
<1>2. b \in DOMAIN Placing(t) /\ b \in DOMAIN u.buffers /\ u.buffers[b].binding = at
  BY <1>1, SameBinding DEF PlanPlaced
<1>3. at.offset \in Nat /\ at.bytes \in Nat BY <1>1, <1>2, PlacedOk
<1>4. Len(h) \in Nat /\ Len(g) = Len(h) + 1 /\ Len(g) - 1 = Len(h) /\ g[Len(g)] = c BY DEF Longer
<1>5. ~(c.op = "DestroyBuffer" /\ c.buffer = b) /\ ~(c.op = "FreeMemory" /\ c.memory = at.memory)
  BY <1>1, <1>2 DEF HostMoves
<1>6. ASSUME c.op = "UpdateMappedMemory"
      PROVE  \E i \in 1 .. Len(g) - 1 :
              /\ LastMap(g, Len(g) - 1, c.memory, i)
              /\ c.memory = at.memory =>
                   \A x \in 0 .. plan.prefix - 1 :
                     at.offset + plan.offset + x \notin g[i].offset + c.offset .. g[i].offset + c.offset + c.bytes - 1
  <2>1. c.memory \in DOMAIN u.mappings /\ c.bytes \in 1 .. MaxUploadBytes BY <1>6 DEF HostMoves
  <2>2. PICK i \in 1 .. Len(h) : /\ LastMap(h, Len(h), c.memory, i) /\ h[i].offset \in Nat
                                 /\ u.mappings[c.memory].offset = h[i].offset
    BY <2>1 DEF MapsHold
  <2>3. LastMap(g, Len(h), c.memory, i) /\ g[i] = h[i]
    <3>1. Len(h) \in 0 .. Len(h) BY <1>4
    <3> QED BY <2>2, <3>1, MapKept
  <2>4. ASSUME c.memory = at.memory, NEW x \in 0 .. plan.prefix - 1,
               at.offset + plan.offset + x \in g[i].offset + c.offset .. g[i].offset + c.offset + c.bytes - 1
        PROVE  FALSE
    <3>1. ~Touching(at, u.mappings[c.memory].offset + c.offset, u.mappings[c.memory].offset + c.offset + c.bytes)
      BY <1>1, <1>2, <1>6, <2>4 DEF HostMoves
    <3>2. PICK first : first = h[i].offset + c.offset OBVIOUS
    <3>3. first \in Nat /\ c.bytes \in Nat
      <4>1. c.offset \in Nat BY <1>6 DEF CallOk
      <4>2. MaxUploadBytes \in Nat BY UploadBounds
      <4> QED BY <2>1, <2>2, <3>2, <4>1, <4>2
    <3>4. ~Touching(at, first, first + c.bytes) BY <2>2, <3>1, <3>2
    <3>5. plan.offset \in Nat /\ plan.prefix \in Nat /\ plan.offset + plan.prefix <= at.bytes
      BY <1>1 DEF PlanPlaced
    <3>6. at.offset + plan.offset + x \in first .. first + c.bytes - 1 BY <2>3, <2>4, <3>2
    <3>7. first < at.offset + at.bytes /\ at.offset < first + c.bytes
      <4>1. PICK o, n, po, pp, by : o = at.offset /\ n = at.bytes /\ po = plan.offset /\ pp = plan.prefix /\ by = c.bytes
        OBVIOUS
      <4>2. o \in Nat /\ n \in Nat /\ po \in Nat /\ pp \in Nat /\ by \in Nat /\ po + pp <= n
        BY <1>3, <3>3, <3>5, <4>1
      <4>3. x \in 0 .. pp - 1 /\ o + po + x \in first .. first + by - 1 BY <2>4, <3>6, <4>1
      <4>4. first < o + n /\ o < first + by BY <3>3, <4>2, <4>3
      <4> QED BY <4>1, <4>4
    <3> QED BY <3>4, <3>7 DEF Touching
  <2> QED BY <1>4, <2>2, <2>3, <2>4
<1> QED BY <1>1, <1>4, <1>5, <1>6 DEF Spares

\* The buffer of a plan is held as long as its submission is not proved to be over.
LEMMA UnprovedHeld ==
  ASSUME NEW t, NEW u, IsUploads(t, u), NEW row, NEW plan, NEW h, PlanHolds(t, u, row, plan, h),
         Unproved(t, row, h, Len(h))
  PROVE  plan.buffer \in DOMAIN u.buffers /\ Held(u, plan.buffer)
PROOF
<1>1. plan.buffer \in DOMAIN Placing(t) /\ "host_coherent" \in Placing(t)[plan.buffer].flags
  BY DEF PlanHolds, PlanPlaced
<1>2. plan.buffer \in DOMAIN u.buffers /\ u.buffers[plan.buffer].binding = Placing(t)[plan.buffer]
  BY <1>1, SameBinding
<1> QED BY <1>1, <1>2 DEF PlanHolds, Held, InUse, Has

\* A plan holds past a call.
LEMMA PlanFollows ==
  ASSUME NEW t \in Themes, NEW u, NEW e, IsUploads(t, u), NEW h, NEW c, NEW g, Longer(h, c, g), MapsHold(u, h),
         CallOk(c), HostMoves(t, u, e, c), c.op # "PopulateBuffer",
         NEW row, row.step \in 1 .. Len(h), NEW plan, PlanHolds(t, u, row, plan, h)
  PROVE  PlanHolds(t, e, row, plan, g)
PROOF
<1>1. Len(h) \in Nat /\ Len(g) = Len(h) + 1 /\ g[Len(g)] = c /\ g[row.step] = h[row.step] BY DEF Longer
<1>2. ASSUME NEW n \in 1 .. Len(g), n >= Len(h), Unproved(t, row, g, n) PROVE Unproved(t, row, h, Len(h))
  <2>1. \A i \in row.step + 1 .. Len(h) : i \in row.step + 1 .. n /\ g[i] = h[i] BY <1>1, <1>2 DEF Longer
  <2> QED BY <1>1, <1>2, <2>1 DEF Unproved
<1>3. PlanPlaced(t, plan) BY DEF PlanHolds
<1>4. ASSUME NEW j \in row.step + 1 .. Len(g), Unproved(t, row, g, j) PROVE Spares(t, g, j, plan)
  <2>1. CASE j \in row.step + 1 .. Len(h)
    <3>1. j \in 1 .. Len(h) BY <1>1, <2>1
    <3>2. \A i \in row.step + 1 .. j : g[i] = h[i] BY <1>1, <2>1 DEF Longer
    <3>3. Unproved(t, row, h, j) BY <1>1, <1>4, <3>2 DEF Unproved
    <3>4. Spares(t, h, j, plan) BY <2>1, <3>3 DEF PlanHolds
    <3> QED BY <3>1, <3>4, SparesKept
  <2>2. CASE j = Len(g)
    <3>1. Unproved(t, row, h, Len(h)) BY <1>1, <1>2, <1>4, <2>2
    <3>2. Held(u, plan.buffer) BY <3>1, UnprovedHeld
    <3>3. Spares(t, g, Len(g), plan) BY <1>3, <3>2, HeldSpares
    <3> QED BY <2>2, <3>3
  <2> QED BY <1>1, <2>1, <2>2
<1>5. ASSUME Unproved(t, row, g, Len(g))
      PROVE  /\ e.buffers[plan.buffer].sound
             /\ \E p \in e.pending : IsUseOf(t, p, row, g) /\ plan.buffer \in p.buffers
  <2>1. Unproved(t, row, h, Len(h)) BY <1>1, <1>2, <1>5
  <2>2. plan.buffer \in DOMAIN u.buffers /\ Held(u, plan.buffer) BY <2>1, UnprovedHeld
  <2>3. PICK p \in u.pending : IsUseOf(t, p, row, h) /\ plan.buffer \in p.buffers BY <2>1 DEF PlanHolds
  <2>4. ~Done(c, p)
    <3>1. SUFFICES ASSUME Done(c, p) PROVE FALSE OBVIOUS
    <3>2. Ended(t, c, row.selection.queue, h[row.step].fence) BY <2>3, <3>1 DEF Done, Ended, IsUseOf
    <3>3. Len(g) \in row.step + 1 .. Len(g) BY <1>1
    <3>4. ~Ended(t, g[Len(g)], row.selection.queue, g[row.step].fence) BY <1>5, <3>3 DEF Unproved
    <3> QED BY <1>1, <3>2, <3>4
  <2>5. p \in e.pending BY <2>3, <2>4 DEF HostMoves
  <2>6. IsUseOf(t, p, row, g) BY <1>1, <2>3 DEF IsUseOf
  <2>7. e.buffers[plan.buffer].sound BY <2>2 DEF HostMoves
  <2> QED BY <2>3, <2>5, <2>6, <2>7
<1> QED BY <1>3, <1>4, <1>5 DEF PlanHolds

\* The ledger holds past a call.
LEMMA CalledHolds ==
  ASSUME NEW t \in Themes, NEW u, NEW rows, NEW h, UploadsHold(t, u, rows, h), NEW c, NEW g, Longer(h, c, g), CallOk(c),
         NEW e, IsUploads(t, e), e.ok, HostMoves(t, u, e, c), c.op = "PopulateBuffer" => DOMAIN rows = {}
  PROVE  UploadsHold(t, e, rows, g)
PROOF
<1>1. IsUploads(t, u) /\ MapsHold(u, h) BY DEF UploadsHold
<1>2. MapsHold(e, g) BY <1>1, MapsFollow
<1>3. ASSUME NEW n \in DOMAIN rows
      PROVE  rows[n].step \in 1 .. Len(g) /\ \A plan \in rows[n].plans : PlanHolds(t, e, rows[n], plan, g)
  <2>1. rows[n].step \in 1 .. Len(h) BY DEF UploadsHold
  <2>2. rows[n].step \in 1 .. Len(g) BY <2>1 DEF Longer
  <2>3. ASSUME NEW plan \in rows[n].plans PROVE PlanHolds(t, e, rows[n], plan, g)
    <3>1. PlanHolds(t, u, rows[n], plan, h) BY DEF UploadsHold
    <3>2. c.op # "PopulateBuffer" OBVIOUS
    <3> QED BY <1>1, <2>1, <3>1, <3>2, PlanFollows
  <2> QED BY <2>2, <2>3
<1> QED BY <1>2, <1>3 DEF UploadsHold

\* The bytes of a range were written, in a buffer that is sound.
LEMMA UploadRangeIs ==
  ASSUME NEW u, NEW b, NEW offset, NEW bytes, NEW e, e = UploadRange(u, b, offset, bytes), e.qualified
  PROVE  /\ b \in DOMAIN u.buffers /\ u.buffers[b].sound /\ u.buffers[b].writes # <<>>
         /\ bytes \in 1 .. MaxRangeBytes /\ offset + bytes <= u.buffers[b].binding.bytes
PROOF
<1>1. PICK writes : writes = u.buffers[b].writes OBVIOUS
<1>2. PICK start : start = [holes |-> {[begin |-> offset, end |-> offset + bytes]}, segments |-> {}] OBVIOUS
<1>3. PICK f : f = CHOOSE x : x = [n \in 0 .. Len(u.buffers[b].writes) |->
                 IF n = 0 THEN [holes |-> {[begin |-> offset, end |-> offset + bytes]}, segments |-> {}]
                 ELSE FillHoles(u.buffers[b].writes[Len(u.buffers[b].writes) + 1 - n], x[n - 1])]
  OBVIOUS
<1> DEFINE required == /\ Alive(u, b) /\ u.buffers[b].sound
                       /\ bytes \in 1 .. MaxRangeBytes
                       /\ offset + bytes <= u.buffers[b].binding.bytes
                       /\ f[Len(u.buffers[b].writes)].holes = {}
<1>4. e = IF required THEN [qualified |-> TRUE, segments |-> f[Len(u.buffers[b].writes)].segments] ELSE NoRange
  BY <1>3 DEF UploadRange
<1>5. required
  <2>1. NoRange.qualified = FALSE BY DEF NoRange
  <2> HIDE DEF required
  <2> QED BY <1>4, <2>1
<1>6. ASSUME writes = <<>> PROVE FALSE
  <2>1. Len(writes) = 0 BY <1>6
  <2>2. PICK g : g = [n \in 0 .. 0 |-> start] OBVIOUS
  <2>3. g = [n \in 0 .. 0 |-> IF n = 0 THEN start ELSE FillHoles(writes[Len(writes) + 1 - n], g[n - 1])]
    BY <2>2
  <2>4. f = CHOOSE x : x = [n \in 0 .. Len(writes) |->
                 IF n = 0 THEN start ELSE FillHoles(writes[Len(writes) + 1 - n], x[n - 1])]
    BY <1>1, <1>2, <1>3
  <2>5. f = [n \in 0 .. Len(writes) |-> IF n = 0 THEN start ELSE FillHoles(writes[Len(writes) + 1 - n], f[n - 1])]
    <3>1. \E x : x = [n \in 0 .. Len(writes) |->
                 IF n = 0 THEN start ELSE FillHoles(writes[Len(writes) + 1 - n], x[n - 1])]
      BY <2>1, <2>3
    <3> QED BY <2>4, <3>1
  <2>6. f[0] = start BY <2>1, <2>5
  <2>7. start.holes # {} BY <1>2
  <2> QED BY <1>1, <1>5, <2>1, <2>6, <2>7
<1> QED BY <1>1, <1>5, <1>6 DEF Alive

\* The uses of a submission are added, and name its buffers.
LEMMA UsesIs ==
  ASSUME NEW t, NEW u, IsUploads(t, u), NEW queue, NEW device, NEW fence, NEW used, NEW place,
         NEW e, e = SubmitUses(u, queue, device, fence, used, place)
  PROVE  /\ IsUploads(t, e)
         /\ e.ok => /\ u.ok /\ e.mappings = u.mappings /\ e.buffers = u.buffers /\ u.pending \subseteq e.pending
                    /\ \A b \in used : \E p \in e.pending :
                         p.queue = queue /\ p.device = device /\ p.fence = fence /\ b \in p.buffers
PROOF
<1> DEFINE required == /\ Cardinality(u.pending) < MaxUsesPending
                       /\ fence # NoFence => \A p \in u.pending : ~(p.device = device /\ p.fence = fence)
                       /\ \A b \in used : Alive(u, b) /\ u.buffers[b].binding.device = device
<1>1. PICK p : p = [queue |-> queue, device |-> device, fence |-> fence, buffers |-> used, place |-> place] OBVIOUS
<1>2. PICK ps : ps = u.pending \cup {p} OBVIOUS
<1>3. PICK k : k = [u EXCEPT !.pending = ps] OBVIOUS
<1>4. PICK g : g = IF used = {} THEN u ELSE k OBVIOUS
<1>5. e = CheckedUpload(u, required, g)
  <2>1. k = [u EXCEPT !.pending = @ \cup {[queue |-> queue, device |-> device, fence |-> fence,
                                           buffers |-> used, place |-> place]}]
    BY <1>1, <1>2, <1>3
  <2> QED BY <1>4, <2>1 DEF SubmitUses
<1>6. IsUploads(t, k) /\ k.buffers = u.buffers /\ k.mappings = u.mappings /\ k.pending = ps
  <2>1. PICK ok, bs, ms, n : ok = u.ok /\ bs = u.buffers /\ ms = u.mappings /\ n = u.uploads OBVIOUS
  <2>2. k = [ok |-> ok, buffers |-> bs, mappings |-> ms, pending |-> ps, uploads |-> n]
    BY <1>3, <2>1 DEF IsUploads
  <2>3. ok \in BOOLEAN /\ DOMAIN bs = DOMAIN Placing(t) /\ \A b \in DOMAIN bs : BufferKept(Placing(t)[b], bs[b])
    BY <2>1 DEF IsUploads
  <2>4. k.ok = ok /\ k.buffers = bs /\ k.mappings = ms /\ k.pending = ps /\ k.uploads = n BY <2>2
  <2>5. IsUploads(t, k) BY <2>2, <2>3, <2>4 DEF IsUploads
  <2> QED BY <2>1, <2>4, <2>5
<1>7. required \in BOOLEAN OBVIOUS
<1>8. IsUploads(t, g) BY <1>4, <1>6
<1>9. IsUploads(t, e) /\ (e.ok => u.ok /\ e = g)
  <2> HIDE DEF required
  <2> QED BY <1>5, <1>7, <1>8, CheckedUploads
<1>10. p.queue = queue /\ p.device = device /\ p.fence = fence /\ p.buffers = used BY <1>1
<1>11. g.mappings = u.mappings /\ g.buffers = u.buffers /\ u.pending \subseteq g.pending
       /\ (used # {} => p \in g.pending)
  BY <1>2, <1>4, <1>6
<1> QED BY <1>9, <1>10, <1>11

\* A plan that is qualified rests on bytes of a sound, coherent buffer.
LEMMA PlanBacked ==
  ASSUME IsUploads(theme, uploads), NEW s, IsUploads(theme, s.uploads), IsLedger(s.descriptors),
         NEW r, RecordingOfDraws(r), NEW m \in DOMAIN r.draws, NEW want, NEW device,
         PlanQualified(s, device, r.draws[m], want), NEW plan, plan = Plan(s, r.draws[m], want)
  PROVE  PlanPlaced(theme, plan) /\ s.uploads.buffers[plan.buffer].sound
PROOF
<1>1. PICK draw : draw = r.draws[m] OBVIOUS
<1>2. PICK bank : bank = draw.bank[want.read.set] OBVIOUS
<1>3. PICK entry : entry = Element(s.descriptors, bank.set, want.read.binding, 0) OBVIOUS
<1>4. PICK binding : binding = BindingOf(s.descriptors, bank.set, want.read.binding) OBVIOUS
<1>5. PICK dynamic : dynamic = IF binding.type = "uniform_dynamic" THEN bank.dynamic[want.read.binding] ELSE 0
  OBVIOUS
<1>6. PICK b, offset, prefix : b = entry.value.buffer /\ offset = entry.value.offset + dynamic
                               /\ prefix = want.read.offset + want.read.bytes
  OBVIOUS
<1>7. PICK upload : upload = UploadRange(s.uploads, b, offset, prefix) OBVIOUS
<1>8. plan.buffer = b /\ plan.offset = offset /\ plan.prefix = prefix /\ plan.upload = upload
  BY <1>1, <1>2, <1>3, <1>4, <1>5, <1>6, <1>7 DEF Plan
<1>9. /\ want.read.set \in DOMAIN draw.bank
      /\ b \in DOMAIN uploads.buffers /\ ReadOnlyUsage(uploads.buffers[b].binding.usage)
      /\ binding.type = "uniform_dynamic" => want.read.binding \in DOMAIN bank.dynamic
      /\ plan.upload.qualified
  BY <1>1, <1>2, <1>3, <1>4, <1>6 DEF PlanQualified, Placed
<1>10. entry.value.offset \in Nat
  <2>1. Nothing.value.offset = 0 BY DEF Nothing, Undefined
  <2>2. CASE entry = Nothing BY <2>1, <2>2
  <2>3. CASE entry # Nothing
    <3>1. PICK slot : slot = <<want.read.binding, 0>> OBVIOUS
    <3>2. /\ InBinding(s.descriptors, bank.set, want.read.binding, 0, 1)
          /\ slot \in DOMAIN s.descriptors.sets[bank.set].entries
          /\ entry = s.descriptors.sets[bank.set].entries[slot]
      BY <1>3, <2>3, <3>1 DEF Element
    <3>3. bank.set \in DOMAIN s.descriptors.sets BY <3>2 DEF InBinding, LiveSet
    <3>4. EntryOk(entry) BY <3>2, <3>3 DEF IsLedger, SetOk
    <3> QED BY <3>4 DEF EntryOk
  <2> QED BY <2>2, <2>3
<1>11. dynamic \in Nat
  <2>1. CASE binding.type = "uniform_dynamic"
    <3>1. want.read.binding \in DOMAIN bank.dynamic BY <1>9, <2>1
    <3>2. bank.dynamic[want.read.binding] \in Nat BY <1>1, <1>2, <1>9, <3>1 DEF RecordingOfDraws
    <3> QED BY <1>5, <2>1, <3>2
  <2>2. CASE binding.type # "uniform_dynamic" BY <1>5, <2>2
  <2> QED BY <2>1, <2>2
<1>12. offset \in Nat BY <1>6, <1>10, <1>11
<1>13. upload.qualified BY <1>8, <1>9
<1>14. /\ b \in DOMAIN s.uploads.buffers /\ s.uploads.buffers[b].sound /\ s.uploads.buffers[b].writes # <<>>
       /\ prefix \in 1 .. MaxRangeBytes /\ offset + prefix <= s.uploads.buffers[b].binding.bytes
  BY <1>7, <1>13, UploadRangeIs
<1>15. prefix \in Nat
  <2>1. MaxRangeBytes \in Nat BY UploadBounds
  <2> QED BY <1>14, <2>1
<1>16. BufferKept(Placing(theme)[b], s.uploads.buffers[b]) BY <1>14 DEF IsUploads
<1>17. s.uploads.buffers[b].binding = Placing(theme)[b] BY <1>16, KeptBinding
<1>18. uploads.buffers[b].binding = Placing(theme)[b] /\ b \in DOMAIN Placing(theme) BY <1>9, SameBinding
<1>19. "host_coherent" \in Placing(theme)[b].flags BY <1>14, <1>16 DEF BufferKept
<1> QED BY <1>8, <1>9, <1>12, <1>14, <1>15, <1>17, <1>18, <1>19 DEF PlanPlaced

\* What the ledger has of the n-th buffer of a submission: its copies spoil their
\* targets, and its new rows rest on the buffers used.
Backs(s, out, c, r, spoilt, used, new, place) ==
  /\ r \in DOMAIN theme.recordings
  /\ spoilt = Invalidate(s.uploads, theme.recordings[r].copies) /\ spoilt.ok
  /\ out.uploads = SubmitUses(spoilt, c.queue, theme.queues[c.queue].device, c.fence, used, place) /\ out.uploads.ok
  /\ out.executions = s.executions \o new /\ Listed(new)
  /\ \A m \in DOMAIN new :
       /\ new[m].step = Step /\ new[m].selection.queue = c.queue
       /\ \A plan \in new[m].plans :
            plan.buffer \in used /\ PlanPlaced(theme, plan) /\ spoilt.buffers[plan.buffer].sound

\* SubmitBuffer() as Backs says it.
LEMMA SubmitBufferBacks ==
  ASSUME theme \in Themes, \A b \in DOMAIN commands.active : commands.active[b] \in DOMAIN theme.recordings,
         IsUploads(theme, uploads),
         NEW s, NEW c, NEW n, IsCarried(s), IsUploads(theme, s.uploads), IsLedger(s.descriptors),
         NEW out, out = SubmitBuffer(s, c, n), out.ok
  PROVE  \E r, spoilt, used, new : Backs(s, out, c, r, spoilt, used, new, <<Step, n>>)
PROOF
<1> DEFINE at     == InOrder(c)[n]
           buffer == c.submits[at[1]][at[2]]
           name   == commands.active[buffer]
           r      == theme.recordings[name]
           device == theme.queues[c.queue].device
           spoilt == [s EXCEPT !.uploads = Invalidate(s.uploads, r.copies)]
           plans(m) == {Plan(spoilt, r.draws[m], want) : want \in ReadsOfDraw(r.draws[m])}
           used   == r.copies \cup {plan.buffer : plan \in UNION {plans(m) : m \in DOMAIN r.draws}}
           rows   == [m \in DOMAIN r.draws |->
                   [selection |-> Selection(c, at, name, m, submission), plans |-> plans(m),
                    labels |-> At(labels, c.queue, <<>>), step |-> Step]]
           use    == [queue |-> c.queue, device |-> device, fence |-> c.fence,
                      recording |-> name, place |-> <<Step, n>>]
           next   == [once        |-> s.once \cup (IF r.one_time THEN {<<buffer, commands.generation[buffer]>>} ELSE {}),
                 descriptors |-> Submitted(s.descriptors, name),
                 uploads     |-> SubmitUses(spoilt.uploads, c.queue, device, c.fence, used, <<Step, n>>),
                 pending     |-> s.pending \cup {use},
                 executions  |-> s.executions \o rows,
                 ok          |-> TRUE]
           required ==
             /\ s.ok
             /\ BufferQualified(s, c, buffer)
             /\ spoilt.uploads.ok
             /\ \A m \in DOMAIN r.draws :
                  /\ DrawQualified(r.draws[m])
                  /\ Cardinality(ReadsOfDraw(r.draws[m])) <= MaxPlans
                  /\ \A want \in ReadsOfDraw(r.draws[m]) : PlanQualified(spoilt, device, r.draws[m], want)
             /\ next.descriptors.ok /\ next.uploads.ok
             /\ Cardinality(next.pending) <= MaxInFlight /\ Len(next.executions) <= MaxExecutions
<1>1. out = IF required THEN next ELSE [s EXCEPT !.ok = FALSE] BY DEF SubmitBuffer
<1>2. [s EXCEPT !.ok = FALSE].ok = FALSE
  <2>1. PICK x : x = [s EXCEPT !.ok = FALSE] OBVIOUS
  <2>2. x = [ok |-> FALSE, uploads |-> s.uploads, descriptors |-> s.descriptors, pending |-> s.pending,
             once |-> s.once, executions |-> s.executions]
    BY <2>1 DEF IsCarried
  <2> QED BY <2>1, <2>2
<1>3. PICK once : once = s.once \cup (IF r.one_time THEN {<<buffer, commands.generation[buffer]>>} ELSE {}) OBVIOUS
<1>4. PICK up : up = SubmitUses(spoilt.uploads, c.queue, device, c.fence, used, <<Step, n>>)
  <2> HIDE DEF spoilt, device, used
  <2> QED OBVIOUS
<1>5. PICK new : new = rows
  <2> HIDE DEF rows
  <2> QED OBVIOUS
<1>6. PICK p : p = use
  <2> HIDE DEF use
  <2> QED OBVIOUS
<1>7. next = [once |-> once, descriptors |-> Submitted(s.descriptors, name), uploads |-> up,
              pending |-> s.pending \cup {p}, executions |-> s.executions \o new, ok |-> TRUE]
  BY <1>3, <1>4, <1>5, <1>6, Zenon
<1>8. required => /\ buffer \in DOMAIN commands.active /\ spoilt.uploads.ok
                  /\ \A m \in DOMAIN r.draws : \A want \in ReadsOfDraw(r.draws[m]) :
                       PlanQualified(spoilt, device, r.draws[m], want)
                  /\ next.uploads.ok
  <2> HIDE DEF at, next, r, spoilt, device
  <2> QED BY DEF BufferQualified
<1>9. PICK sp : sp = Invalidate(s.uploads, r.copies) OBVIOUS
<1>10. PICK us : us = used
  <2> HIDE DEF used
  <2> QED OBVIOUS
<1>11. PICK after : after = spoilt
  <2> HIDE DEF spoilt
  <2> QED OBVIOUS
<1>12. after.uploads = sp /\ after.descriptors = s.descriptors
  <2>1. after = [ok |-> s.ok, uploads |-> sp, descriptors |-> s.descriptors, pending |-> s.pending,
                 once |-> s.once, executions |-> s.executions]
    BY <1>9, <1>11 DEF IsCarried
  <2> QED BY <2>1
<1> HIDE DEF required, next
<1>13. required /\ out = next BY <1>1, <1>2
<1>14. /\ buffer \in DOMAIN commands.active /\ sp.ok
       /\ \A m \in DOMAIN r.draws : \A want \in ReadsOfDraw(r.draws[m]) : PlanQualified(after, device, r.draws[m], want)
       /\ out.uploads.ok
  BY <1>8, <1>11, <1>12, <1>13
<1>15. out.uploads = SubmitUses(sp, c.queue, device, c.fence, us, <<Step, n>>)
  <2>1. out.uploads = up
    <3> HIDE DEF name
    <3> QED BY <1>7, <1>13
  <2>2. up = SubmitUses(after.uploads, c.queue, device, c.fence, us, <<Step, n>>)
    <3> HIDE DEF spoilt, device, used
    <3> QED BY <1>4, <1>10, <1>11
  <2> QED BY <1>12, <2>1, <2>2
<1>16. out.executions = s.executions \o new
  <2> HIDE DEF name
  <2> QED BY <1>7, <1>13
<1>17. name \in DOMAIN theme.recordings BY <1>14
<1>18. RecordingOfDraws(r) BY <1>17, ThemesAssumption
<1>19. DOMAIN new = DOMAIN r.draws BY <1>5
<1>20. IsUploads(theme, sp) BY <1>9, InvalidateIs
<1>21. ASSUME NEW m \in DOMAIN new
       PROVE  /\ new[m].step = Step /\ new[m].selection.queue = c.queue
              /\ \A plan \in new[m].plans :
                   plan.buffer \in us /\ PlanPlaced(theme, plan) /\ sp.buffers[plan.buffer].sound
  <2>1. PICK some : some = plans(m)
    <3> HIDE DEF plans
    <3> QED OBVIOUS
  <2>2. PICK sel : sel = Selection(c, at, name, m, submission) OBVIOUS
  <2>3. new[m].selection = sel /\ new[m].plans = some /\ new[m].step = Step
    <3>1. new[m] = [selection |-> sel, plans |-> some, labels |-> At(labels, c.queue, <<>>), step |-> Step]
      <4> HIDE DEF plans
      <4> QED BY <1>5, <1>19, <2>1, <2>2
    <3> QED BY <3>1
  <2>4. sel.queue = c.queue BY <2>2 DEF Selection
  <2>5. ASSUME NEW plan \in some
        PROVE  plan.buffer \in us /\ PlanPlaced(theme, plan) /\ sp.buffers[plan.buffer].sound
    <3>1. PICK want \in ReadsOfDraw(r.draws[m]) : plan = Plan(after, r.draws[m], want)
      <4> HIDE DEF spoilt, r
      <4> QED BY <1>11, <2>1
    <3>2. PlanQualified(after, device, r.draws[m], want) BY <1>14, <1>19
    <3>3. IsUploads(theme, after.uploads) /\ IsLedger(after.descriptors) BY <1>12, <1>20
    <3>4. PlanPlaced(theme, plan) /\ after.uploads.buffers[plan.buffer].sound
      <4>1. m \in DOMAIN r.draws BY <1>19
      <4> HIDE DEF r, device
      <4> QED BY <1>18, <3>1, <3>2, <3>3, <4>1, PlanBacked
    <3>5. plan.buffer \in us
      <4>1. some \in {plans(x) : x \in DOMAIN r.draws}
        <5> HIDE DEF plans, r
        <5> QED BY <1>19, <2>1
      <4>2. plan \in UNION {plans(x) : x \in DOMAIN r.draws}
        <5> HIDE DEF plans, r
        <5> QED BY <4>1
      <4> HIDE DEF plans, r
      <4> QED BY <1>10, <4>2
    <3> QED BY <1>12, <3>4, <3>5
  <2> QED BY <2>3, <2>4, <2>5
<1>22. Listed(new)
  <2>1. Len(r.draws) \in Nat /\ DOMAIN r.draws = 1 .. Len(r.draws) BY <1>18, ListedIs DEF RecordingOfDraws
  <2>2. PICK N \in Nat : DOMAIN new = 1 .. N BY <1>19, <2>1
  <2>3. new = [m \in 1 .. N |-> new[m]] BY <1>5, <2>2
  <2>4. new \in [1 .. N -> ToSet(new)] BY <2>2, <2>3 DEF ToSet
  <2> HIDE DEF rows
  <2> QED BY <2>4 DEF Listed
<1>23. Backs(s, out, c, name, sp, us, new, <<Step, n>>)
  <2> HIDE DEF at, buffer, used, spoilt, rows, plans
  <2> QED BY <1>9, <1>14, <1>15, <1>16, <1>17, <1>21, <1>22 DEF Backs
<1> QED BY <1>23

\* One more buffer of a submission, whose call is the last of g.
LEMMA BackedHolds ==
  ASSUME theme \in Themes, NEW s, NEW g, UploadsHold(theme, s.uploads, s.executions, g), Listed(s.executions),
         NEW c, Len(g) \in Nat \ {0}, Len(g) = Step, c = g[Len(g)],
         NEW out, NEW r, NEW spoilt, NEW used, NEW new, NEW place, Backs(s, out, c, r, spoilt, used, new, place)
  PROVE  UploadsHold(theme, out.uploads, out.executions, g) /\ Listed(out.executions)
PROOF
<1>1. PICK u, e, copies, rows, all : u = s.uploads /\ e = out.uploads /\ copies = theme.recordings[r].copies
                                     /\ rows = s.executions /\ all = out.executions
  OBVIOUS
<1>2. PICK device : device = theme.queues[c.queue].device OBVIOUS
<1>3. IsUploads(theme, u) /\ MapsHold(u, g) BY <1>1 DEF UploadsHold
<1>4. /\ IsUploads(theme, spoilt) /\ spoilt.pending = u.pending /\ spoilt.mappings = u.mappings
      /\ \A b \in DOMAIN u.buffers : b \notin copies => spoilt.buffers[b] = u.buffers[b]
  <2>1. spoilt = Invalidate(u, copies) /\ spoilt.ok BY <1>1 DEF Backs
  <2> QED BY <1>3, <2>1, InvalidateIs
<1>5. /\ IsUploads(theme, e) /\ e.ok /\ e.mappings = spoilt.mappings /\ e.buffers = spoilt.buffers
      /\ spoilt.pending \subseteq e.pending
      /\ \A b \in used : \E p \in e.pending :
                         p.queue = c.queue /\ p.device = device /\ p.fence = c.fence /\ b \in p.buffers
  <2>1. e = SubmitUses(spoilt, c.queue, device, c.fence, used, place) /\ e.ok BY <1>1, <1>2 DEF Backs
  <2> QED BY <1>4, <2>1, UsesIs
<1>6. MapsHold(e, g) BY <1>3, <1>4, <1>5 DEF MapsHold
<1>7. ASSUME NEW row, NEW plan, PlanHolds(theme, u, row, plan, g) PROVE PlanHolds(theme, e, row, plan, g)
  <2>1. PlanPlaced(theme, plan) BY <1>7 DEF PlanHolds
  <2>2. plan.buffer \in DOMAIN u.buffers /\ plan.buffer \in DOMAIN Placing(theme) BY <1>3, <2>1, SameBinding DEF PlanPlaced
  <2>3. plan.buffer \notin copies
    <3>1. r \in DOMAIN theme.recordings BY DEF Backs
    <3>2. ReadOnlyUsage(Placing(theme)[plan.buffer].usage) BY <2>1 DEF PlanPlaced
    <3> QED BY <1>1, <2>2, <3>1, <3>2, PlacedOk
  <2>4. e.buffers[plan.buffer] = u.buffers[plan.buffer] BY <1>4, <1>5, <2>2, <2>3
  <2>5. u.pending \subseteq e.pending BY <1>4, <1>5
  <2> QED BY <1>7, <2>4, <2>5 DEF PlanHolds
<1>8. ASSUME NEW m \in DOMAIN new
      PROVE  new[m].step \in 1 .. Len(g) /\ \A plan \in new[m].plans : PlanHolds(theme, e, new[m], plan, g)
  <2>1. PICK row : row = new[m] OBVIOUS
  <2>2. row.step = Len(g) /\ row.selection.queue = c.queue BY <2>1 DEF Backs
  <2>3. ASSUME NEW plan \in row.plans PROVE PlanHolds(theme, e, row, plan, g)
    <3>1. plan.buffer \in used /\ PlanPlaced(theme, plan) /\ spoilt.buffers[plan.buffer].sound
      BY <2>1, <2>3 DEF Backs
    <3>2. PICK p \in e.pending : p.queue = c.queue /\ p.device = device /\ p.fence = c.fence /\ plan.buffer \in p.buffers
      BY <1>5, <3>1
    <3>3. IsUseOf(theme, p, row, g) BY <1>2, <2>2, <3>2 DEF IsUseOf
    <3>4. \A j \in row.step + 1 .. Len(g) : FALSE BY <2>2
    <3> QED BY <1>5, <3>1, <3>2, <3>3, <3>4 DEF PlanHolds
  <2> QED BY <2>1, <2>2, <2>3
<1>9. Listed(all) /\ \A i \in DOMAIN all : (\E k \in DOMAIN rows : all[i] = rows[k]) \/ (\E k \in DOMAIN new : all[i] = new[k])
  <2>1. all = rows \o new /\ Listed(new) /\ Listed(rows) BY <1>1 DEF Backs
  <2>2. Joins(rows, new, all) BY <2>1, JoinedList
  <2> QED BY <2>2 DEF Joins
<1>10. ASSUME NEW n \in DOMAIN all
       PROVE  all[n].step \in 1 .. Len(g) /\ \A plan \in all[n].plans : PlanHolds(theme, e, all[n], plan, g)
  <2>1. CASE \E k \in DOMAIN rows : all[n] = rows[k]
    <3>1. PICK k \in DOMAIN rows : all[n] = rows[k] BY <2>1
    <3>2. rows[k].step \in 1 .. Len(g) /\ \A plan \in rows[k].plans : PlanHolds(theme, u, rows[k], plan, g)
      BY <1>1 DEF UploadsHold
    <3> QED BY <1>7, <3>1, <3>2
  <2>2. CASE \E k \in DOMAIN new : all[n] = new[k] BY <1>8, <2>2
  <2> QED BY <1>9, <2>1, <2>2
<1>11. UploadsHold(theme, e, all, g) BY <1>5, <1>6, <1>10 DEF UploadsHold
<1> QED BY <1>1, <1>9, <1>11

\* A submission that is not refused, as a whole.
LEMMA SubmissionUploads ==
  ASSUME theme \in Themes, \A b \in DOMAIN commands.active : commands.active[b] \in DOMAIN theme.recordings,
         IsUploads(theme, uploads),
         NEW c, NEW g, NEW N \in Nat, NEW base, NEW f, IsCarried(base), Carries(base, g, 0),
         UploadsHold(theme, base.uploads, base.executions, g),
         Len(g) \in Nat \ {0}, Len(g) = Step, c = g[Len(g)], c.op = "QueueSubmit",
         SubmitsTo(f, base, c, N), f[N].ok
  PROVE  UploadsHold(theme, f[N].uploads, f[N].executions, g)
PROOF
<1> DEFINE S == {n \in 0 .. N : /\ IsCarried(f[n])
                                /\ f[n].ok => /\ Carries(f[n], g, n)
                                              /\ UploadsHold(theme, f[n].uploads, f[n].executions, g)}
<1>1. 0 \in S
  <2>1. f[0] = base BY DEF SubmitsTo
  <2> QED BY <2>1
<1>2. ASSUME NEW n \in 1 .. N, n - 1 \in S PROVE n \in S
  <2>1. f[n] = SubmitBuffer(f[n - 1], c, n)
    <3>1. n \in 0 .. N /\ n # 0 OBVIOUS
    <3> QED BY <3>1 DEF SubmitsTo
  <2>2. PICK s : s = f[n - 1] OBVIOUS
  <2>3. PICK out : out = f[n] OBVIOUS
  <2>4. IsCarried(s) /\ (s.ok => Carries(s, g, n - 1) /\ UploadsHold(theme, s.uploads, s.executions, g))
    BY <1>2, <2>2
  <2>5. IsCarried(out) /\ (out.ok => \E b, p, new : Submits(s, out, c, n, b, p, new))
    BY <2>1, <2>2, <2>3, <2>4, SubmitBufferIs
  <2>6. ASSUME out.ok PROVE Carries(out, g, n) /\ UploadsHold(theme, out.uploads, out.executions, g)
    <3>1. PICK b, p, new : Submits(s, out, c, n, b, p, new) BY <2>5, <2>6
    <3>2. s.ok BY <3>1 DEF Submits
    <3>3. n \in Nat \ {0} OBVIOUS
    <3>4. Carries(out, g, n) BY <2>4, <3>1, <3>2, <3>3, CarriedOn
    <3>5. IsUploads(theme, s.uploads) /\ IsLedger(s.descriptors) /\ Listed(s.executions)
      BY <2>4, <3>2 DEF UploadsHold, Carries, Holds, Counted
    <3>6. out = SubmitBuffer(s, c, n) BY <2>1, <2>2, <2>3
    <3>7. PICK r, spoilt, used, rows : Backs(s, out, c, r, spoilt, used, rows, <<Step, n>>)
      BY <2>4, <2>6, <3>5, <3>6, SubmitBufferBacks
    <3>8. UploadsHold(theme, s.uploads, s.executions, g) BY <2>4, <3>2
    <3>9. PICK place : place = <<Step, n>> OBVIOUS
    <3>10. Backs(s, out, c, r, spoilt, used, rows, place) BY <3>7, <3>9
    <3>11. UploadsHold(theme, out.uploads, out.executions, g) BY <3>5, <3>8, <3>10, BackedHolds
    <3> QED BY <3>4, <3>11
  <2>7. n \in 0 .. N OBVIOUS
  <2> QED BY <2>3, <2>5, <2>6, <2>7
<1> HIDE DEF S
<1>3. 0 .. N \subseteq S BY <1>1, <1>2, Counting
<1>4. N \in S BY <1>3
<1> QED BY <1>4 DEF S

-----------------------------------------------------------------------------
(* The timeline and the uploads.                                           *)

\* What a replay starts from.
LEMMA InitBytes == ASSUME Init PROVE BytesInvariant
PROOF
<1>1. SUFFICES ASSUME phase # "refused" PROVE UploadsHold(theme, uploads, executions, steps) BY DEF BytesInvariant
<1>2. SourceQualified(theme) BY <1>1 DEF Init
<1>3. uploads = UploadLedger(MemoryGraph(theme.resources)) /\ steps = <<>> /\ executions = <<>> BY DEF Init
<1>4. PICK placed : placed = Placing(theme) OBVIOUS
<1>5. MemoryGraph(theme.resources).qualified = TRUE /\ MemoryGraph(theme.resources).buffers = placed
  <2>1. GraphQualified(theme.resources) BY <1>2 DEF SourceQualified, MemoryGraph
  <2> QED BY <1>4, <2>1 DEF MemoryGraph, Placing
<1>6. PICK none, no : none = <<>> /\ no = {} OBVIOUS
<1>7. PICK bs : bs = [b \in DOMAIN placed |->
                        [binding |-> placed[b], writes |-> none, sound |-> placed[b].sound, alive |-> TRUE,
                         completions |-> no]]
  OBVIOUS
<1>8. uploads = [ok |-> TRUE, buffers |-> bs, mappings |-> none, pending |-> no, uploads |-> 0]
  BY <1>3, <1>5, <1>6, <1>7 DEF UploadLedger
<1>9. uploads.ok = TRUE /\ uploads.buffers = bs /\ uploads.mappings = none /\ uploads.pending = no /\ uploads.uploads = 0
  BY <1>8
<1>10. ASSUME NEW b \in DOMAIN bs PROVE BufferKept(placed[b], bs[b])
  <2>1. PICK at, k, sound : at = placed[b] /\ k = bs[b] /\ sound = placed[b].sound OBVIOUS
  <2>2. k = [binding |-> at, writes |-> none, sound |-> sound, alive |-> TRUE, completions |-> no]
    BY <1>7, <2>1
  <2>3. k.writes = none /\ k.sound = sound /\ k.alive = TRUE /\ k.completions = no BY <2>2
  <2>4. BufferKept(at, k) BY <1>6, <2>2, <2>3 DEF BufferKept
  <2> QED BY <2>1, <2>4
<1>11. DOMAIN bs = DOMAIN placed BY <1>7
<1>12. IsUploads(theme, uploads) BY <1>4, <1>8, <1>9, <1>10, <1>11 DEF IsUploads
<1>13. DOMAIN none = {} BY <1>6
<1> QED BY <1>3, <1>6, <1>9, <1>12, <1>13 DEF UploadsHold, MapsHold

\* A call that the ledger follows, or that leaves it.
LEMMA FollowedBytes ==
  ASSUME SetsInvariant, BytesInvariant, phase \in {"initial", "frame"}, NEW c \in CallsOf(theme), CallOk(c), Follow(c),
         NEW e, uploads' = e, IsUploads(theme, e), e.ok, HostMoves(theme, uploads, e, c), executions' = executions,
         phase = "initial" \/ c.op # "PopulateBuffer"
  PROVE  BytesInvariant'
PROOF
<1>1. Longer(steps, c, steps') BY FollowedLonger
<1>2. theme' = theme /\ phase' = phase BY DEF Follow
<1>3. PICK g : g = steps' OBVIOUS
<1>4. theme \in Themes /\ UploadsHold(theme, uploads, executions, steps) BY DEF SetsInvariant, BytesInvariant
<1>5. c.op = "PopulateBuffer" => DOMAIN executions = {} BY DEF SetsInvariant
<1>6. Longer(steps, c, g) BY <1>1, <1>3
<1>7. UploadsHold(theme, e, executions, g) BY <1>4, <1>5, <1>6, CalledHolds
<1> QED BY <1>2, <1>3, <1>7 DEF BytesInvariant

\* A call that does not reach the ledger.
LEMMA UnfollowedBytes ==
  ASSUME SetsInvariant, BytesInvariant, phase \in {"initial", "frame"}, NEW c \in CallsOf(theme), CallOk(c), Follow(c),
         uploads' = uploads, executions' = executions, c.op \notin UploadCalls, c.op # "PopulateBuffer"
  PROVE  BytesInvariant'
PROOF
<1>1. IsUploads(theme, uploads) /\ uploads.ok BY DEF BytesInvariant, UploadsHold
<1>2. HostMoves(theme, uploads, uploads, c) BY <1>1, QuietUploads DEF UploadCalls
<1> QED BY <1>1, <1>2, FollowedBytes

\* A call of the host.
LEMMA HostBytes ==
  ASSUME SetsInvariant, BytesInvariant, phase \in {"initial", "frame"}, NEW c \in CallsOf(theme), CallOk(c), Follow(c),
         c.op \in UploadCalls \cup {"PopulateBuffer"}, phase = "initial" \/ c.op # "PopulateBuffer",
         HostUpload(uploads, c, Step).ok, uploads' = HostUpload(uploads, c, Step), executions' = executions
  PROVE  BytesInvariant'
PROOF
<1>1. IsUploads(theme, uploads) BY DEF BytesInvariant, UploadsHold
<1>2. PICK e : e = HostUpload(uploads, c, Step) OBVIOUS
<1>3. HostStep(theme, uploads, e, c) BY <1>1, <1>2, HostSteps
<1>4. IsUploads(theme, e) /\ e.ok /\ HostMoves(theme, uploads, e, c) BY <1>2, <1>3 DEF HostStep
<1> QED BY <1>2, <1>4, FollowedBytes

\* A refusal keeps nothing.
LEMMA RefusedBytes == ASSUME Refuse PROVE BytesInvariant'
BY DEF Refuse, BytesInvariant

\* Each step keeps BytesInvariant.  A call of the initial state.
LEMMA InitialBytes == ASSUME SetsInvariant, BytesInvariant, InitialCall PROVE BytesInvariant'
PROOF
<1>1. CASE Refuse BY <1>1, RefusedBytes
<1>2. CASE ~Refuse
  <2>1. PICK c : c = theme.initial[Step] OBVIOUS
  <2>2. InInitialState /\ phase = "initial" BY DEF InitialCall, InInitialState
  <2>3. c \in CallsOf(theme) /\ CallOk(c) BY <2>1, <2>2, InitialCallOk
  <2>4. CASE c.op = "PopulateBuffer" \/ c.op \in UploadCalls
    <3>1. c.op # "UpdateDescriptorSets" BY <2>4 DEF UploadCalls
    <3>2. /\ HostUpload(uploads, c, Step).ok /\ Follow(c) /\ uploads' = HostUpload(uploads, c, Step)
          /\ executions' = executions
      <4> DEFINE inside == /\ ended => c.op = "FreeCachedMemory"
                           /\ c.op = "InitEnd" => c.instance = theme.initial[1].instance
                 follow == /\ Follow(c) /\ uploads' = HostUpload(uploads, c, Step)
                           /\ UNCHANGED <<ended, descriptors, executions>>
      <4>1. IF inside /\ HostUpload(uploads, c, Step).ok THEN follow ELSE Refuse
        BY <2>1, <2>4, <3>1 DEF InitialCall
      <4>2. HostUpload(uploads, c, Step).ok /\ follow
        <5> HIDE DEF inside, follow
        <5> QED BY <1>2, <4>1
      <4> QED BY <4>2
    <3>3. c.op \in UploadCalls \cup {"PopulateBuffer"} BY <2>4
    <3> QED BY <2>2, <2>3, <3>2, <3>3, HostBytes
  <2>5. CASE ~(c.op = "PopulateBuffer" \/ c.op \in UploadCalls)
    <3>1. Follow(c) /\ uploads' = uploads /\ executions' = executions
      <4>1. CASE c.op = "UpdateDescriptorSets" BY <1>2, <2>1, <2>5, <4>1 DEF InitialCall
      <4>2. CASE c.op # "UpdateDescriptorSets" BY <1>2, <2>1, <2>5, <4>2 DEF InitialCall
      <4> QED BY <4>1, <4>2
    <3> QED BY <2>2, <2>3, <2>5, <3>1, UnfollowedBytes
  <2> QED BY <2>4, <2>5
<1> QED BY <1>1, <1>2

\* A call that the uploads follow.
LEMMA UploadBytes == ASSUME SetsInvariant, BytesInvariant, FollowUpload PROVE BytesInvariant'
PROOF
<1>1. CASE Refuse BY <1>1, RefusedBytes
<1>2. CASE ~Refuse
  <2>1. PICK c \in FrameCalls(UploadCalls) :
          /\ HostUpload(uploads, c, Step).ok /\ Follow(c) /\ uploads' = HostUpload(uploads, c, Step)
          /\ executions' = executions
    BY <1>2 DEF FollowUpload
  <2>2. c \in CallsOf(theme) /\ CallOk(c) /\ c.op \in UploadCalls /\ phase = "frame" BY FrameCallOk
  <2>3. c.op # "PopulateBuffer" BY <2>2 DEF UploadCalls
  <2> QED BY <2>1, <2>2, <2>3, HostBytes
<1> QED BY <1>1, <1>2

\* A call that the uploads do not follow, and no submission.
LEMMA OtherBytes ==
  ASSUME SetsInvariant, BytesInvariant,
         FollowDescriptors \/ RecordCommandBuffer \/ ResetCommandBuffer \/ QueueLabel \/ PassiveCall
  PROVE  BytesInvariant'
PROOF
<1>1. CASE Refuse BY <1>1, RefusedBytes
<1>2. CASE ~Refuse
  <2> DEFINE Passed(c) == Follow(c) /\ uploads' = uploads /\ executions' = executions
  <2>1. PICK c : /\ \E ops : c \in FrameCalls(ops)
                 /\ c.op \notin UploadCalls /\ c.op # "PopulateBuffer" /\ Passed(c)
    <3>1. CASE FollowDescriptors
      <4>1. PICK c \in FrameCalls(DescriptorCalls) : Passed(c)
        BY <1>2, <3>1 DEF FollowDescriptors, DescriptorCalls
      <4>2. c.op \in DescriptorCalls BY DEF FrameCalls
      <4> QED BY <4>1, <4>2 DEF DescriptorCalls, UploadCalls
    <3>2. CASE RecordCommandBuffer
      <4>1. PICK c \in FrameCalls({"RecordCommandBuffer"}) : Passed(c)
        BY <1>2, <3>2 DEF RecordCommandBuffer
      <4>2. c.op = "RecordCommandBuffer" BY DEF FrameCalls
      <4> QED BY <4>1, <4>2 DEF UploadCalls
    <3>3. CASE ResetCommandBuffer
      <4>1. PICK c \in FrameCalls({"ResetCommandBuffer"}) : Passed(c)
        BY <1>2, <3>3 DEF ResetCommandBuffer
      <4>2. c.op = "ResetCommandBuffer" BY DEF FrameCalls
      <4> QED BY <4>1, <4>2 DEF UploadCalls
    <3>4. CASE QueueLabel
      <4>1. PICK c \in FrameCalls({"QueueBeginDebugUtilsLabel", "QueueEndDebugUtilsLabel"}) : Passed(c)
        BY <1>2, <3>4 DEF QueueLabel, ledgers
      <4>2. c.op \in {"QueueBeginDebugUtilsLabel", "QueueEndDebugUtilsLabel"} BY DEF FrameCalls
      <4> QED BY <4>1, <4>2 DEF UploadCalls
    <3>5. CASE PassiveCall
      <4>1. PICK c \in FrameCalls({x.op : x \in theme.frame} \ Followed) : PassiveOk(c) /\ Passed(c)
        BY <1>2, <3>5 DEF PassiveCall, ledgers
      <4>2. c.op \notin UploadCalls BY DEF FrameCalls, Followed
      <4>3. c.op # "PopulateBuffer" BY <4>1 DEF PassiveOk
      <4> QED BY <4>1, <4>2, <4>3
    <3> QED BY <3>1, <3>2, <3>3, <3>4, <3>5
  <2>2. c \in CallsOf(theme) /\ CallOk(c) /\ phase = "frame" BY <2>1, FrameCallOk
  <2> QED BY <2>1, <2>2, UnfollowedBytes
<1> QED BY <1>1, <1>2

\* A submission.
LEMMA SubmitBytes == ASSUME SetsInvariant, BytesInvariant, QueueSubmit PROVE BytesInvariant'
PROOF
<1>1. CASE Refuse BY <1>1, RefusedBytes
<1>2. CASE ~Refuse
  <2>1. PICK c, base, f : SubmitsCall(c, base, f) BY <1>2, SubmissionIs
  <2>2. PICK N : N = Len(InOrder(c)) OBVIOUS
  <2>3. PICK out : out = f[N] OBVIOUS
  <2>4. /\ c \in FrameCalls({"QueueSubmit"}) /\ Follow(c)
        /\ base = [ok |-> TRUE, uploads |-> uploads, descriptors |-> descriptors, pending |-> pending,
                   once |-> commands.once, executions |-> executions]
        /\ SubmitsTo(f, base, c, N) /\ out.ok
        /\ uploads' = out.uploads /\ executions' = out.executions
    BY <2>1, <2>2, <2>3 DEF SubmitsCall
  <2>5. c \in CallsOf(theme) /\ CallOk(c) /\ c.op = "QueueSubmit" /\ phase = "frame" /\ theme \in Themes
    BY <2>4, FrameCallOk
  <2>6. N \in Nat BY <2>2, <2>5, InOrderIs
  <2>7. /\ Longer(steps, c, steps') /\ Step \in Nat \ {0} /\ Len(steps') = Step /\ steps'[Step] = c
        /\ Holds(theme, descriptors, commands.active, pending, executions, steps)
        /\ IsLedger(descriptors) /\ descriptors.ok
    BY <2>4, <2>5, FollowedLonger
  <2>8. PICK g : g = steps' OBVIOUS
  <2>9. Len(g) \in Nat \ {0} /\ Len(g) = Step /\ c = g[Len(g)] BY <2>7, <2>8
  <2>10. Listed(executions) BY <2>5 DEF SetsInvariant
  <2>11. Carries(base, g, 0)
    <3>1. Holds(theme, descriptors, commands.active, pending, executions, g)
      <4>1. CoversCall(theme, c, descriptors, descriptors) BY <2>5, <2>7, QuietCovers
      <4> QED BY <2>5, <2>7, <2>8, <4>1, CoveredHolds
    <3>2. \A p \in pending : p.place[1] # Len(g)
      <4>1. Earlier(pending, steps) /\ Len(steps) \in Nat /\ Len(g) = Len(steps) + 1
        BY <2>7, <2>8 DEF Holds, Longer
      <4> QED BY <4>1 DEF Earlier
    <3>3. base.descriptors = descriptors /\ base.pending = pending /\ base.executions = executions BY <2>4
    <3> QED BY <2>10, <3>1, <3>2, <3>3 DEF Carries
  <2>12. IsCarried(base) /\ base.uploads = uploads /\ base.executions = executions BY <2>4 DEF IsCarried
  <2>13. UploadsHold(theme, uploads, executions, steps) /\ IsUploads(theme, uploads) /\ uploads.ok
    BY <2>5 DEF BytesInvariant, UploadsHold
  <2>14. UploadsHold(theme, uploads, executions, g)
    <3>1. c.op \notin {"PopulateBuffer", "MapMemory", "DestroyBuffer", "FreeMemory", "UpdateMappedMemory"} BY <2>5
    <3>2. PICK u : u = uploads OBVIOUS
    <3>3. HostMoves(theme, u, u, c) BY <2>13, <3>1, <3>2, QuietUploads
    <3>4. UploadsHold(theme, u, executions, g) BY <2>5, <2>7, <2>8, <2>13, <3>1, <3>2, <3>3, CalledHolds
    <3> QED BY <3>2, <3>4
  <2>15. UploadsHold(theme, base.uploads, base.executions, g) BY <2>12, <2>14
  <2>16. \A b \in DOMAIN commands.active : commands.active[b] \in DOMAIN theme.recordings
    BY <2>5, ActiveRecordings
  <2>17. UploadsHold(theme, out.uploads, out.executions, g)
    BY <2>3, <2>4, <2>5, <2>6, <2>9, <2>11, <2>12, <2>13, <2>15, <2>16, SubmissionUploads
  <2>18. theme' = theme BY <2>4 DEF Follow
  <2> QED BY <2>4, <2>8, <2>17, <2>18 DEF BytesInvariant
<1> QED BY <1>1, <1>2

\* The frame begins, and ends.
LEMMA FrameBytes == ASSUME SetsInvariant, BytesInvariant, BeginFrame \/ EndFrame PROVE BytesInvariant'
PROOF
<1>1. CASE Refuse BY <1>1, RefusedBytes
<1>2. CASE ~Refuse
  <2>1. phase # "refused" /\ theme' = theme /\ steps' = steps /\ uploads' = uploads /\ executions' = executions
    BY <1>2 DEF BeginFrame, EndFrame, ledgers
  <2> QED BY <2>1 DEF BytesInvariant
<1> QED BY <1>1, <1>2

\* So every step keeps it.
LEMMA NextBytes == ASSUME SetsInvariant, BytesInvariant, [Next]_vars PROVE BytesInvariant'
PROOF
<1>1. CASE InitialCall BY <1>1, InitialBytes
<1>2. CASE BeginFrame \/ EndFrame BY <1>2, FrameBytes
<1>3. CASE FollowUpload BY <1>3, UploadBytes
<1>4. CASE FollowDescriptors \/ RecordCommandBuffer \/ ResetCommandBuffer \/ QueueLabel \/ PassiveCall
  BY <1>4, OtherBytes
<1>5. CASE QueueSubmit BY <1>5, SubmitBytes
<1>6. CASE DeadlinePasses BY <1>6, RefusedBytes DEF DeadlinePasses
<1>7. CASE UNCHANGED vars BY <1>7 DEF BytesInvariant, vars, ledgers
<1> QED BY <1>1, <1>2, <1>3, <1>4, <1>5, <1>6, <1>7 DEF Next

\* The mapping of an update is the one that the property names.
LEMMA StartIs ==
  ASSUME NEW n \in Nat, NEW j, LastMap(steps, n - 1, steps[n].memory, j), steps[n].op = "UpdateMappedMemory"
  PROVE  UploadStart(n) = steps[j].offset + steps[n].offset
PROOF
<1> DEFINE S == {i \in StepsBefore(n, {"MapMemory"}) : steps[i].memory = steps[n].memory}
<1>1. \A i : i \in S <=> i \in 1 .. n - 1 /\ Maps(steps[i], steps[n].memory) BY DEF StepsBefore, Maps
<1>2. j \in S /\ \A i \in S : i <= j BY <1>1 DEF LastMap
<1>3. S \subseteq Nat BY <1>1
<1>4. PICK x : x = Latest(S) OBVIOUS
<1>5. x \in S /\ \A i \in S : i <= x BY <1>2, <1>4 DEF Latest
<1>6. x = j BY <1>2, <1>3, <1>5
<1> QED BY <1>4, <1>6 DEF UploadStart

\* The bytes of the plans that an accepted replay keeps hold until their submission
\* is proved to be over.
LEMMA AcceptedBytes == ASSUME SetsInvariant, BytesInvariant PROVE BytesHoldInFlight
PROOF
<1> SUFFICES ASSUME Accepted, NEW p \in AllPlans
             PROVE  \E k \in p.at + 1 .. Len(steps) :
                      /\ Proves(k, p)
                      /\ \A j \in p.at + 1 .. k :
                           /\ ~Ends(j, p)
                           /\ \A x \in 0 .. p.plan.prefix - 1 : ~Uploads(j, MemoryOf(p), Address(p, x))
  BY DEF BytesHoldInFlight
<1>1. /\ pending = {} /\ Holds(theme, descriptors, commands.active, pending, executions, steps)
      /\ UploadsHold(theme, uploads, executions, steps) /\ Len(steps) \in Nat
  BY DEF SetsInvariant, BytesInvariant, Accepted
<1>2. PICK n \in DOMAIN executions : \E plan \in executions[n].plans :
        p = [at |-> executions[n].step, row |-> executions[n].selection, plan |-> plan]
  BY DEF AllPlans
<1>3. PICK row, plan : row = executions[n] /\ plan = p.plan OBVIOUS
<1>4. p.at = row.step /\ p.row = row.selection /\ plan \in row.plans BY <1>2, <1>3
<1>5. RowOk(theme, row, steps) /\ Over(theme, row, steps)
  <2>1. RowHolds(theme, descriptors, commands.active, pending, row, steps) BY <1>1, <1>3 DEF Holds, RowsHold
  <2> QED BY <1>1, <2>1 DEF RowHolds, InFlight
<1>6. row.step \in 1 .. Len(steps) /\ PlanHolds(theme, uploads, row, plan, steps) /\ IsUploads(theme, uploads)
  BY <1>1, <1>3, <1>4 DEF UploadsHold
<1> DEFINE over(i) == Ended(theme, steps[i], row.selection.queue, steps[row.step].fence)
           S == {i \in row.step + 1 .. Len(steps) : over(i)}
<1>7. S # {} BY <1>5 DEF Over
<1>8. S \in SUBSET Nat BY <1>6
<1>9. PICK k \in S : \A i \in S : k <= i
  <2> HIDE DEF S
  <2> QED BY <1>7, <1>8, LeastOf
<1>10. k \in row.step + 1 .. Len(steps) /\ over(k) /\ k \in Nat BY <1>6, <1>9
<1>11. Proves(k, p) BY <1>4, <1>10 DEF Proves, Ended
<1>12. ASSUME NEW j \in row.step + 1 .. k, j # k PROVE Spares(theme, steps, j, plan)
  <2>1. j \in row.step + 1 .. Len(steps) BY <1>6, <1>10, <1>12
  <2>2. ASSUME NEW i \in row.step + 1 .. j PROVE ~over(i)
    <3>1. i \in row.step + 1 .. Len(steps) /\ ~(k <= i) BY <1>6, <1>10, <1>12
    <3> QED BY <1>9, <3>1
  <2>3. Unproved(theme, row, steps, j) BY <2>2 DEF Unproved
  <2> QED BY <1>6, <2>1, <2>3 DEF PlanHolds
<1>13. PICK at : at = Placing(theme)[plan.buffer] OBVIOUS
<1>14. MemoryOf(p) = at.memory /\ \A x : Address(p, x) = at.offset + plan.offset + x
  <2>1. plan.buffer \in DOMAIN Placing(theme) BY <1>6 DEF PlanHolds, PlanPlaced
  <2>2. Placed(plan.buffer) = at BY <1>6, <1>13, <2>1, SameBinding DEF Placed
  <2> QED BY <1>3, <2>2 DEF MemoryOf, Address
<1>15. ASSUME NEW j \in row.step + 1 .. k
       PROVE  ~Ends(j, p) /\ \A x \in 0 .. plan.prefix - 1 : ~Uploads(j, MemoryOf(p), Address(p, x))
  <2>1. CASE j = k
    <3>1. steps[k].op \in {"QueueWaitIdle", "DeviceWaitIdle", "WaitForFences"} BY <1>10 DEF Ended
    <3> QED BY <2>1, <3>1 DEF Ends, Uploads
  <2>2. CASE j # k
    <3>1. Spares(theme, steps, j, plan) BY <1>12, <2>2
    <3>2. ~Ends(j, p) BY <1>3, <1>13, <1>14, <3>1 DEF Spares, Ends
    <3>3. ASSUME NEW x \in 0 .. plan.prefix - 1, Uploads(j, MemoryOf(p), Address(p, x)) PROVE FALSE
      <4>1. steps[j].op = "UpdateMappedMemory" BY <3>1, <3>3 DEF Spares, Uploads
      <4>2. PICK i \in 1 .. j - 1 :
              /\ LastMap(steps, j - 1, steps[j].memory, i)
              /\ steps[j].memory = at.memory =>
                   \A y \in 0 .. plan.prefix - 1 :
                     at.offset + plan.offset + y
                       \notin steps[i].offset + steps[j].offset .. steps[i].offset + steps[j].offset + steps[j].bytes - 1
        BY <1>13, <3>1, <4>1 DEF Spares
      <4>3. j \in Nat BY <1>6, <1>10
      <4>4. UploadStart(j) = steps[i].offset + steps[j].offset BY <4>1, <4>2, <4>3, StartIs
      <4>5. MemoryOf(p) = steps[j].memory /\ Address(p, x) \in UploadStart(j) .. UploadStart(j) + steps[j].bytes - 1
        BY <3>3, <4>1 DEF Uploads
      <4> QED BY <1>14, <4>2, <4>4, <4>5
    <3> QED BY <3>2, <3>3
  <2> QED BY <2>1, <2>2
<1> QED BY <1>3, <1>4, <1>10, <1>11, <1>15

\* At every moment the bytes of every plan lie in a coherent buffer that the GPU
\* only reads, and until a call proves its submission to be over the ledger keeps
\* a use of that buffer: so no update, destruction or free could follow, whichever
\* buffer of the allocation it named.
THEOREM UploadsInvariant == Spec => []BytesInvariant
PROOF
<1>1. Init => BytesInvariant BY InitBytes
<1>2. SetsInvariant /\ BytesInvariant /\ [Next]_vars => BytesInvariant' BY NextBytes
<1> QED BY <1>1, <1>2, TimelineInvariant, PTL DEF Spec

\* Every accepted use is proved to be over by a later wait, and until that wait
\* nothing reaches one of its bytes and nothing ends its buffer, for any replay and
\* any order of its calls (ValueUploads.cpp:221, ValueTimeline.cpp:133).
THEOREM BytesAlwaysHold == Spec => []BytesHoldInFlight
PROOF
<1>1. SetsInvariant /\ BytesInvariant => BytesHoldInFlight BY AcceptedBytes
<1> QED BY <1>1, TimelineInvariant, UploadsInvariant, PTL
=============================================================================
