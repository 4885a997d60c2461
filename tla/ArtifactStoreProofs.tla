-------------------------- MODULE ArtifactStoreProofs --------------------------
(***************************************************************************)
(* What ArtifactStore checks on two bundles and one crash, for any number  *)
(* of bundles, threads, calls, failing disk operations and crashes: the    *)
(* store opens again, the catalogue agrees with the disk, evidence goes    *)
(* only with a receipt and never while something protects it, and what     *)
(* its owner left is quarantined.                                          *)
(*                                                                         *)
(* The invariant is a predicate of a bundle, as the disk, the recovery and *)
(* the catalogue have it, and one of each thing under way: the mutex'      *)
(* owner, the calls and prune().                                           *)
(***************************************************************************)
EXTENDS ArtifactStore, FiniteSetTheorems, WellFoundedInduction, TLAPS

Manifest == [status : {"none", "staging", "complete", "failed"}, quarantined : BOOLEAN,
             completed : Nat, files : Nat]
Homes    == {"none", "staging", "bundles", "trash", "deleted"}
Bundle   == [home : Homes, pin : {"none", "yes", "no"}, manifest : Manifest, content : Nat]
Entry    == [known : BOOLEAN, manifest : Manifest, pinned : BOOLEAN, staged : BOOLEAN,
             leases : Nat, writer_active : BOOLEAN]
Call     == [at : {"idle", "prune", "allocate", "finalize"},
             next : {"return", "allocate", "finalize"},
             id : Ids \cup {NoId}, pinned : BOOLEAN, completed : Nat]
Holding  == [op : {"none", "begin pin", "begin manifest", "quarantine", "commit", "finalize",
                   "claim", "unclaim"},
             id : Ids \cup {NoId}, thread : Threads \cup {Nobody}, manifest : Manifest]
Gone     == {"trash", "deleted"}

Typed ==
  /\ clock \in Nat
  /\ disk \in [Ids -> Bundle] /\ entries \in [Ids -> Entry]
  /\ up \in {"down", "bundles", "staging", "trash", "up", "refused"}
  /\ trash_usage \in [Ids -> Nat]
  /\ holding \in Holding
  /\ calls \in [Threads -> Call]
  /\ writers \in [Ids -> Threads \cup {Nobody}] /\ held \in [Threads -> Ids \cup {NoId}]

Unfinished == {Initial, Quarantined(Initial)}

\* What the disk says of a bundle; only a committed outcome can be published.
OnDisk(id) ==
  LET d == disk[id]
  IN /\ d.home = "none" => d = NoBundle
     /\ d.home = "staging" => d.manifest \in {NoManifest} \cup Unfinished \/ Final(d.manifest)
     /\ d.home \in {"staging", "bundles"} /\ Final(d.manifest) =>
          /\ d.pin # "none"
          /\ d.manifest.status = "complete" => d.content > 0
     /\ d.home = "bundles" => Final(d.manifest) /\ Whole(id)
     /\ Prepared(id) /\ ~Rewrites => Whole(id)
     /\ d.home \in {"none", "staging"} => id \notin receipts
     /\ d.home \in Gone => id \in receipts

\* Whether the catalogue speaks of the bundle: when recover() has read it.
Read(id) ==
  \/ up \in {"trash", "up"}
  \/ up = "staging" /\ (disk[id].home # "staging" \/ id \in recovered)
  \/ up = "bundles" /\ id \in recovered

Leases(id) == {t \in Threads : held[t] = id}

Catalogued(id) ==
  LET e == entries[id]
      d == disk[id]
  IN /\ e.known <=> d.home \in {"staging", "bundles"}
     /\ e.known => (e.staged <=> d.home = "staging")
     /\ e.known /\ d.pin = "yes" => e.pinned
     /\ d.home = "bundles" => e.manifest = d.manifest
     /\ id \in expirations <=> d.home \in Gone
     /\ e.writer_active <=> writers[id] # Nobody
     /\ e.writer_active => e.known
     /\ e.leases = Cardinality(Leases(id))
     /\ e.leases > 0 => d.home = "bundles"

\* An attempt as the catalogue has it: what nobody owns is quarantined, or is
\* a begin() that failed.
Attempted(id) ==
  LET e == entries[id]
      d == disk[id]
  IN d.home = "staging" =>
       /\ e.manifest \in Unfinished
       /\ d.manifest.quarantined => e.manifest.quarantined
       /\ e.manifest.quarantined => e.pinned
       /\ e.writer_active \/ e.manifest.quarantined => d.pin # "none"
       /\ e.manifest.quarantined \/ e.writer_active \/ (d.content = 0 /\ ~Final(d.manifest))
       /\ up # "up" => e.manifest.quarantined

Recovery(id) ==
  /\ Read(id) => Catalogued(id) /\ Attempted(id)
  /\ up \in {"bundles", "staging"} /\ ~Read(id) =>
       /\ entries[id] = NoEntry
       /\ id \in expirations <=> id \in receipts
  /\ up = "bundles" /\ id \in recovered => disk[id].home = "bundles"

\* What the owner of the mutex has still to write, and what it has written.
HoldsBegin ==
  holding.op \in {"begin pin", "begin manifest"} =>
    LET id == holding.id
        t  == holding.thread
    IN /\ disk[id].home = "staging" /\ disk[id].manifest = NoManifest /\ disk[id].content = 0
       /\ t \in Threads /\ calls[t].at = "allocate"
       /\ holding.manifest = Initial /\ entries[id].manifest = Initial
       /\ ~entries[id].writer_active /\ entries[id].leases = 0
       /\ entries[id].pinned = calls[t].pinned
       /\ holding.op = "begin manifest" => disk[id].pin # "none"

HoldsAttempt ==
  /\ holding.op = "quarantine" =>
       /\ disk[holding.id].home = "staging" /\ entries[holding.id].manifest = holding.manifest
       /\ holding.manifest = Quarantined(Initial)
       /\ up = "staging" => holding.id \in recovered
  /\ holding.op = "commit" =>
       LET id == holding.id
       IN /\ disk[id].home = "staging" /\ writers[id] # Nobody
          /\ Final(holding.manifest) /\ holding.manifest.files = disk[id].content
          /\ holding.manifest.status = "complete" => disk[id].content > 0
  /\ holding.op = "finalize" =>
       LET id == holding.id
       IN /\ disk[id].home = "staging" /\ disk[id].manifest = holding.manifest
          /\ Final(holding.manifest) /\ Whole(id) /\ writers[id] # Nobody

HoldsClaim ==
  holding.op \in {"claim", "unclaim"} =>
    /\ disk[holding.id].home = "bundles" /\ ~Protected(entries[holding.id])
    /\ holding.op = "claim" => holding.id \in receipts

Holds ==
  /\ holding.op = "none" => holding = NotHolding
  /\ holding.op # "none" => holding.id \in Ids
  /\ HoldsBegin /\ HoldsAttempt /\ HoldsClaim

\* A call that publishes belongs to the writer of its bundle.
Calling(t) ==
  LET c == calls[t]
  IN /\ c.at = "idle" => c = Idle
     /\ c.at \in {"allocate", "finalize"} => c.next = c.at
     /\ c.at # "idle" /\ c.next = "finalize" => c.id \in Ids /\ writers[c.id] = t

\* prune() deletes what it has claimed.
Pruning ==
  /\ pruner.todo \subseteq Nat \X Ids
  /\ pruner.retry \subseteq {id \in Ids : disk[id].home \in Gone}
  /\ pruner.deleting # NoId => pruner.deleting \in Ids /\ disk[pruner.deleting].home \in Gone
  /\ pruner = [f \in DOMAIN NoPruner |-> pruner[f]]
  /\ pruner.phase # "none" => pruner.owner \in Threads
  /\ \A id \in Ids : trash_usage[id] # 0 => disk[id].home \in Gone

\* While the store is not open nobody calls it; it refuses to open only over
\* a rewritten report.
Closed ==
  /\ up # "up" =>
       /\ \A id \in Ids : writers[id] = Nobody
       /\ \A t \in Threads : held[t] = NoId /\ calls[t] = Idle
       /\ pruner = NoPruner
       /\ holding # NotHolding => holding.op = "quarantine" /\ up = "staging"
  /\ up = "refused" => Rewrites

IInv ==
  /\ Typed /\ Holds /\ Pruning /\ Closed
  /\ \A id \in Ids : OnDisk(id) /\ Recovery(id)
  /\ \A t \in Threads : Calling(t)

-----------------------------------------------------------------------------
(* Values.                                                                 *)

LEMMA Identifiers ==
  /\ Ids \subseteq Nat /\ NoId \notin Ids /\ Nobody \notin Threads /\ IsFiniteSet(Threads)
  /\ Growth \in Nat
BY StoreAssumption DEF Ids, NoId

LEMMA Manifests ==
  /\ NoManifest \in Manifest /\ Initial \in Manifest /\ Quarantined(Initial) \in Manifest
  /\ ~Final(NoManifest) /\ ~Final(Initial) /\ ~Final(Quarantined(Initial))
  /\ ~NoManifest.quarantined /\ ~Initial.quarantined /\ Quarantined(Initial).quarantined
  /\ NoManifest.status = "none" /\ Initial.status = "staging"
  /\ Quarantined(Initial).status = "failed"
  /\ Quarantined(Quarantined(Initial)) = Quarantined(Initial)
BY DEF NoManifest, Initial, Quarantined, Manifest, Final

LEMMA UnfinishedIs ==
  ASSUME NEW m \in Unfinished
  PROVE  m \in Manifest /\ ~Final(m) /\ Quarantined(m) = Quarantined(Initial)
BY Manifests DEF Unfinished

LEMMA Nothings ==
  /\ NoBundle \in Bundle /\ NoBundle.home = "none" /\ NoBundle.pin = "none"
  /\ NoBundle.manifest = NoManifest /\ NoBundle.content = 0
  /\ NoEntry \in Entry /\ ~NoEntry.known /\ ~NoEntry.staged /\ ~NoEntry.pinned
  /\ NoEntry.leases = 0 /\ ~NoEntry.writer_active /\ NoEntry.manifest = NoManifest
  /\ Idle \in Call /\ Idle.at = "idle" /\ Idle.next = "return"
  /\ NotHolding \in Holding /\ NotHolding.op = "none" /\ NotHolding.id = NoId
BY Manifests DEF NoBundle, Bundle, Homes, NoEntry, Entry, Idle, Call, NotHolding, Holding

LEMMA FinalIs ==
  ASSUME NEW id \in Ids, Typed, NEW success \in BOOLEAN, NEW completed \in Nat
  PROVE  /\ FinalManifest(id, success, completed) \in Manifest
         /\ Final(FinalManifest(id, success, completed))
         /\ FinalManifest(id, success, completed).files = disk[id].content
         /\ FinalManifest(id, success, completed).status = "complete" <=> success
BY DEF Typed, Bundle, FinalManifest, Final, Manifest

LEMMA HoldingIs ==
  ASSUME NEW op \in {"begin pin", "begin manifest", "quarantine", "commit", "finalize", "claim",
                 "unclaim"},
         NEW id \in Ids, NEW t \in Threads \cup {Nobody}, NEW m \in Manifest
  PROVE  [op |-> op, id |-> id, thread |-> t, manifest |-> m] \in Holding
BY DEF Holding

Less == {ss \in Nat \X Nat : ss[1] < ss[2]}

LEMMA Least ==
  ASSUME NEW S \in SUBSET Nat, S # {}
  PROVE  \E x \in S : \A y \in S : x <= y
<1>1. IsWellFoundedOn(Less, Nat)
  BY NatLessThanWellFounded DEF Less, OpToRel
<1>2. PICK x \in S : \A y \in S : ~(<<y, x>> \in Less)
  BY <1>1, WFMin
<1>3. ASSUME NEW y \in S PROVE x <= y
  <2>1. ~(y < x)
    BY <1>2 DEF Less
  <2> QED
    BY <2>1
<1> QED
  BY <1>3

\* The candidate prune() looks at next is one of them: the oldest, and of
\* those the one with the least ID.
LEMMA OldestIs ==
  ASSUME pruner.todo \subseteq Nat \X Ids, pruner.todo # {}
  PROVE  Oldest \in pruner.todo
<1> DEFINE T     == pruner.todo
           Times == {c[1] : c \in T}
<1>1. Ids \subseteq Nat
  BY Identifiers
<1>2. Times \in SUBSET Nat /\ Times # {}
  OBVIOUS
<1>3. PICK x \in Times : \A y \in Times : x <= y
  BY <1>2, Least
<1> DEFINE Names == {c[2] : c \in {d \in T : d[1] = x}}
<1>4. Names \in SUBSET Nat /\ Names # {}
  BY <1>1
<1>5. PICK k \in Names : \A y \in Names : k <= y
  BY <1>4, Least
<1>6. PICK c \in T : c[1] = x /\ c[2] = k
  OBVIOUS
<1>7. \A d \in T : c[1] < d[1] \/ (c[1] = d[1] /\ c[2] <= d[2])
  <2> SUFFICES ASSUME NEW d \in T PROVE c[1] < d[1] \/ (c[1] = d[1] /\ c[2] <= d[2])
    OBVIOUS
  <2>1. d[1] \in Nat /\ d[2] \in Nat /\ x \in Nat /\ x <= d[1]
    BY <1>1, <1>2, <1>3
  <2>2. CASE d[1] = x
    <3>1. d[2] \in Names
      BY <2>2
    <3> QED
      BY <1>5, <1>6, <2>2, <3>1
  <2>3. CASE d[1] # x
    BY <1>6, <2>1, <2>3
  <2> QED
    BY <2>2, <2>3
<1> QED
  BY <1>6, <1>7 DEF Oldest

-----------------------------------------------------------------------------
(* What a disk operation does.                                             *)

\* Disk is written at one bundle only.
DiskElsewhere(id) == \A k \in Ids \ {id} : disk'[k] = disk[k]

LEMMA ManifestWritten ==
  ASSUME Typed, NEW id \in Ids, NEW m \in Manifest, NEW result, WriteManifest(id, m, result)
  PROVE  /\ disk' \in [Ids -> Bundle] /\ DiskElsewhere(id)
         /\ disk'[id].home = disk[id].home /\ disk'[id].pin = disk[id].pin
         /\ disk'[id].content = disk[id].content
         /\ disk'[id].manifest = m \/ disk'[id] = disk[id]
         /\ ~Throws(result) => disk'[id].manifest = m
BY DEF Typed, WriteManifest, Bundle, DiskElsewhere, Lands, Throws

LEMMA PinWritten ==
  ASSUME Typed, NEW id \in Ids, NEW pinned \in BOOLEAN, NEW result, WritePin(id, pinned, result)
  PROVE  /\ disk' \in [Ids -> Bundle] /\ DiskElsewhere(id)
         /\ disk'[id].home = disk[id].home /\ disk'[id].manifest = disk[id].manifest
         /\ disk'[id].content = disk[id].content
         /\ disk'[id].pin = disk[id].pin \/ disk'[id].pin = IF pinned THEN "yes" ELSE "no"
         /\ ~Throws(result) => disk'[id].pin = IF pinned THEN "yes" ELSE "no"
BY DEF Typed, WritePin, Bundle, DiskElsewhere, Lands, Throws

LEMMA MovedTo ==
  ASSUME Typed, NEW id \in Ids, NEW home \in Homes, NEW result, Move(id, home, result)
  PROVE  /\ disk' \in [Ids -> Bundle] /\ DiskElsewhere(id)
         /\ disk'[id].pin = disk[id].pin /\ disk'[id].manifest = disk[id].manifest
         /\ disk'[id].content = disk[id].content
         /\ IF Lands(result) THEN disk'[id].home = home ELSE disk'[id] = disk[id]
BY DEF Typed, Move, Bundle, DiskElsewhere, Lands

-----------------------------------------------------------------------------
(* One bundle at a time.                                                   *)

Same(id) ==
  /\ disk'[id] = disk[id] /\ entries'[id] = entries[id] /\ writers'[id] = writers[id]
  /\ id \in expirations' <=> id \in expirations
  /\ id \in receipts' <=> id \in receipts
  /\ id \in recovered' <=> id \in recovered
  /\ Leases(id)' = Leases(id)

LEMMA SameOnDisk ==
  ASSUME NEW id \in Ids, OnDisk(id), disk'[id] = disk[id],
         id \in receipts' <=> id \in receipts
  PROVE  OnDisk(id)'
BY DEF OnDisk, Prepared, Whole

LEMMA SameRecovery ==
  ASSUME NEW id \in Ids, Recovery(id), Same(id), up' = up
  PROVE  Recovery(id)'
<1>1. Read(id)' <=> Read(id)
  BY DEF Same, Read
<1>2. Catalogued(id) => Catalogued(id)'
  BY DEF Same, Catalogued
<1>3. Attempted(id) => Attempted(id)'
  BY DEF Same, Attempted
<1> QED
  BY <1>1, <1>2, <1>3 DEF Same, Recovery

\* A step that concerns one bundle.
LEMMA Elsewhere ==
  ASSUME NEW id \in Ids, \A k \in Ids : OnDisk(k) /\ Recovery(k),
         up' = up, \A k \in Ids \ {id} : Same(k), OnDisk(id)', Recovery(id)'
  PROVE  \A k \in Ids : OnDisk(k)' /\ Recovery(k)'
<1> SUFFICES ASSUME NEW k \in Ids \ {id} PROVE OnDisk(k)' /\ Recovery(k)'
  OBVIOUS
<1>1. OnDisk(k)'
  BY SameOnDisk DEF Same
<1>2. Recovery(k)'
  BY SameRecovery
<1> QED
  BY <1>1, <1>2

\* A step that concerns none.
LEMMA Nowhere ==
  ASSUME \A k \in Ids : OnDisk(k) /\ Recovery(k),
         UNCHANGED <<disk, receipts, up, recovered, entries, expirations, writers, held>>
  PROVE  \A k \in Ids : OnDisk(k)' /\ Recovery(k)'
<1> SUFFICES ASSUME NEW k \in Ids PROVE OnDisk(k)' /\ Recovery(k)'
  OBVIOUS
<1>1. Same(k)
  BY DEF Same, Leases
<1>2. OnDisk(k)'
  BY SameOnDisk
<1>3. Recovery(k)'
  BY <1>1, SameRecovery
<1> QED
  BY <1>2, <1>3

\* An open store: every bundle is in the catalogue.
LEMMA Opened ==
  ASSUME IInv, up = "up", NEW id \in Ids
  PROVE  /\ Typed /\ OnDisk(id) /\ Catalogued(id) /\ Attempted(id)
         /\ disk[id] \in Bundle /\ entries[id] \in Entry
BY DEF IInv, Recovery, Read, Typed

\* And it stays so.
LEMMA StaysOpen ==
  ASSUME NEW id \in Ids, up' = "up", Catalogued(id)', Attempted(id)'
  PROVE  Recovery(id)'
BY DEF Recovery, Read

\* Between two critical sections nothing is left to write.
LEMMA Released == ASSUME holding' = NotHolding PROVE Holds'
BY Nothings DEF Holds, HoldsBegin, HoldsAttempt, HoldsClaim

LEMMA OpenNotClosed == ASSUME up' = "up" PROVE Closed'
BY DEF Closed

LEMMA CallsSame ==
  ASSUME \A t \in Threads : Calling(t), UNCHANGED <<calls, writers>>
  PROVE  \A t \in Threads : Calling(t)'
BY DEF Calling

LEMMA CallReturns ==
  ASSUME Typed, \A t \in Threads : Calling(t), NEW t \in Threads \cup {Nobody},
         calls' = [calls EXCEPT ![t] = Idle],
         \A k \in Ids : writers[k] # Nobody => writers'[k] = writers[k]
  PROVE  calls' \in [Threads -> Call] /\ \A u \in Threads : Calling(u)'
<1>1. calls' \in [Threads -> Call]
  BY Nothings DEF Typed
<1>2. ASSUME NEW u \in Threads PROVE Calling(u)'
  <2>1. CASE u = t
    <3>1. calls'[u] = Idle
      BY <2>1 DEF Typed
    <3> QED
      BY <3>1, Nothings DEF Calling
  <2>2. CASE u # t
    <3>1. calls'[u] = calls[u]
      BY <2>2 DEF Typed
    <3>2. Nobody # u
      BY Identifiers
    <3> QED
      BY <3>1, <3>2 DEF Calling
  <2> QED
    BY <2>1, <2>2
<1> QED
  BY <1>1, <1>2

\* A call that begins, or goes on after prune().
LEMMA CallGoesOn ==
  ASSUME Typed, \A t \in Threads : Calling(t), NEW t \in Threads \cup {Nobody}, NEW c \in Call,
         calls' = [calls EXCEPT ![t] = c], UNCHANGED writers,
         c.at # "idle", c.at \in {"allocate", "finalize"} => c.next = c.at,
         c.next = "finalize" => c.id \in Ids /\ writers[c.id] = t
  PROVE  calls' \in [Threads -> Call] /\ \A u \in Threads : Calling(u)'
<1>1. calls' \in [Threads -> Call]
  BY DEF Typed
<1>2. \A u \in Threads : Calling(u)'
  BY DEF Typed, Calling
<1> QED
  BY <1>1, <1>2

LEMMA PruningSame ==
  ASSUME Pruning, UNCHANGED <<pruner, trash_usage>>,
         \A id \in Ids : disk[id].home \in Gone => disk'[id].home \in Gone
  PROVE  Pruning'
BY DEF Pruning

\* The steps of a call between its critical sections.
LEMMA Between ==
  ASSUME IInv, MutexFree, clock' \in Nat, calls' \in [Threads -> Call],
         UNCHANGED <<disk, receipts, up, recovered, entries, expirations, writers, held, holding>>,
         trash_usage' \in [Ids -> Nat],
         \A t \in Threads : Calling(t)', Pruning'
  PROVE  IInv'
<1>1. Typed'
  BY DEF IInv, Typed
<1>2. \A k \in Ids : OnDisk(k)' /\ Recovery(k)'
  BY Nowhere DEF IInv
<1>3. Holds' /\ Closed'
  BY Released, OpenNotClosed DEF MutexFree
<1> QED
  BY <1>1, <1>2, <1>3 DEF IInv

-----------------------------------------------------------------------------
(* Calls that only begin or end.                                           *)

LEMMA BeginCallKept ==
  ASSUME IInv, NEW t \in Threads, NEW pinned \in BOOLEAN, BeginCall(t, pinned)
  PROVE  IInv'
<1> DEFINE c == [Idle EXCEPT !.at = "prune", !.next = "allocate", !.pinned = pinned]
<1>1. /\ MutexFree /\ Typed /\ Pruning /\ (\A u \in Threads : Calling(u)) /\ clock' = clock
      /\ UNCHANGED <<disk, receipts, up, recovered, entries, expirations, writers, held, holding>>
      /\ UNCHANGED <<pruner, trash_usage>> /\ calls' = [calls EXCEPT ![t] = c]
  BY DEF IInv, BeginCall, Ask, Free
<1>2. c \in Call /\ c.at = "prune" /\ c.next = "allocate"
  BY DEF Idle, Call
<1> HIDE DEF c
<1>3. calls' \in [Threads -> Call] /\ \A u \in Threads : Calling(u)'
  BY <1>1, <1>2, CallGoesOn
<1>4. Pruning'
  BY <1>1, PruningSame
<1> QED
  BY <1>1, <1>3, <1>4, Between DEF Typed

LEMMA PruneCallKept ==
  ASSUME IInv, NEW t \in Threads, PruneCall(t)
  PROVE  IInv'
<1> DEFINE c == [Idle EXCEPT !.at = "prune"]
<1>1. /\ MutexFree /\ Typed /\ Pruning /\ (\A u \in Threads : Calling(u)) /\ clock' = clock
      /\ UNCHANGED <<disk, receipts, up, recovered, entries, expirations, writers, held, holding>>
      /\ UNCHANGED <<pruner, trash_usage>> /\ calls' = [calls EXCEPT ![t] = c]
  BY DEF IInv, PruneCall, Ask, Free
<1>2. c \in Call /\ c.at = "prune" /\ c.next = "return"
  BY DEF Idle, Call
<1> HIDE DEF c
<1>3. calls' \in [Threads -> Call] /\ \A u \in Threads : Calling(u)'
  BY <1>1, <1>2, CallGoesOn
<1>4. Pruning'
  BY <1>1, PruningSame
<1> QED
  BY <1>1, <1>3, <1>4, Between DEF Typed

LEMMA PublishSuccessCallKept ==
  ASSUME IInv, NEW t \in Threads, NEW id \in Ids, PublishSuccessCall(t, id)
  PROVE  IInv'
<1> DEFINE c == [Idle EXCEPT !.at = "prune", !.next = "finalize", !.id = id, !.completed = clock]
<1>1. /\ MutexFree /\ Typed /\ Pruning /\ (\A u \in Threads : Calling(u)) /\ clock' = clock
      /\ UNCHANGED <<disk, receipts, up, recovered, entries, expirations, writers, held, holding>>
      /\ UNCHANGED <<pruner, trash_usage>> /\ calls' = [calls EXCEPT ![t] = c]
      /\ writers[id] = t
  BY DEF IInv, PublishSuccessCall, Ask, Free, Owns
<1>2. c \in Call /\ c.at = "prune" /\ c.next = "finalize" /\ c.id = id
  BY <1>1 DEF Idle, Call, Typed
<1> HIDE DEF c
<1>3. calls' \in [Threads -> Call] /\ \A u \in Threads : Calling(u)'
  BY <1>1, <1>2, CallGoesOn
<1>4. Pruning'
  BY <1>1, PruningSame
<1> QED
  BY <1>1, <1>3, <1>4, Between DEF Typed

LEMMA AllocateRefusedKept ==
  ASSUME IInv, NEW t \in Threads, AllocateRefused(t)
  PROVE  IInv'
<1>1. /\ MutexFree /\ Typed /\ Pruning /\ (\A u \in Threads : Calling(u)) /\ clock' = clock
      /\ UNCHANGED <<disk, receipts, up, recovered, entries, expirations, writers, held, holding>>
      /\ UNCHANGED <<pruner, trash_usage>> /\ calls' = [calls EXCEPT ![t] = Idle]
  BY DEF IInv, AllocateRefused
<1>3. calls' \in [Threads -> Call] /\ \A u \in Threads : Calling(u)'
  BY <1>1, CallReturns
<1>4. Pruning'
  BY <1>1, PruningSame
<1> QED
  BY <1>1, <1>3, <1>4, Between DEF Typed

LEMMA TickKept ==
  ASSUME IInv, Tick
  PROVE  IInv'
<1>1. /\ clock' \in Nat
      /\ UNCHANGED <<disk, receipts, up, recovered, entries, expirations, trash_usage, holding,
                     pruner, calls, writers, held>>
  BY DEF IInv, Typed, Tick, memory
<1>2. Typed'
  BY <1>1 DEF IInv, Typed
<1>3. \A k \in Ids : OnDisk(k)' /\ Recovery(k)'
  BY <1>1, Nowhere DEF IInv
<1>4. Holds'
  BY <1>1 DEF IInv, Holds, HoldsBegin, HoldsAttempt, HoldsClaim, Whole
<1>5. Pruning' /\ \A t \in Threads : Calling(t)'
  BY <1>1, PruningSame, CallsSame DEF IInv
<1>6. Closed'
  BY <1>1 DEF IInv, Closed
<1> QED
  BY <1>2, <1>3, <1>4, <1>5, <1>6 DEF IInv

-----------------------------------------------------------------------------
(* prune() looks for candidates and deletes what it has claimed.           *)

LEMMA PruneCandidatesKept ==
  ASSUME IInv, NEW t \in Threads, PruneCandidates(t)
  PROVE  IInv'
<1>1. /\ MutexFree /\ Typed /\ Pruning /\ (\A u \in Threads : Calling(u)) /\ clock' = clock
      /\ UNCHANGED <<disk, receipts, up, recovered, entries, expirations, writers, held, holding>>
      /\ UNCHANGED <<calls, trash_usage>>
  BY DEF IInv, PruneCandidates, PrunerUnchanged
<1> DEFINE todo   == {<<entries[id].manifest.completed, id>> :
                        id \in {k \in Ids : entries[k].known /\ ~entries[k].staged}}
           growth == IF calls[t].next = "finalize" THEN PublicationGrowth(calls[t].id) ELSE 0
<1>2. pruner' = [NoPruner EXCEPT !.owner = t, !.phase = "claims", !.todo = todo, !.growth = growth]
  BY DEF PruneCandidates
<1>3. todo \subseteq Nat \X Ids
  BY <1>1 DEF Typed, Entry, Manifest
<1> HIDE DEF todo, growth
<1>4. /\ pruner'.todo = todo /\ pruner'.retry = {} /\ pruner'.deleting = NoId
      /\ pruner'.owner = t
      /\ pruner' = [f \in DOMAIN NoPruner |-> pruner'[f]]
  BY <1>2 DEF NoPruner
<1>5. Pruning'
  BY <1>1, <1>3, <1>4 DEF Pruning
<1>6. \A u \in Threads : Calling(u)'
  BY <1>1, CallsSame
<1> QED
  BY <1>1, <1>5, <1>6, Between DEF Typed

LEMMA PruneClaimsKept ==
  ASSUME IInv, PruneClaims
  PROVE  IInv'
<1>1. /\ MutexFree /\ Typed /\ Pruning /\ (\A u \in Threads : Calling(u)) /\ clock' = clock
      /\ UNCHANGED <<disk, receipts, up, recovered, entries, expirations, writers, held, holding>>
      /\ UNCHANGED <<calls, trash_usage>>
      /\ pruner' = [pruner EXCEPT !.phase = "loop", !.time = clock,
                                  !.retry = {id \in Ids : trash_usage[id] # 0}]
      /\ pruner.phase = "claims"
  BY DEF IInv, PruneClaims, PrunerUnchanged
<1>2. /\ pruner'.todo = pruner.todo /\ pruner'.retry = {id \in Ids : trash_usage[id] # 0}
      /\ pruner'.deleting = pruner.deleting /\ pruner' = [f \in DOMAIN NoPruner |-> pruner'[f]]
      /\ pruner'.owner = pruner.owner
  BY <1>1 DEF Pruning, NoPruner
<1>3. Pruning'
  BY <1>1, <1>2 DEF Pruning
<1>4. \A u \in Threads : Calling(u)'
  BY <1>1, CallsSame
<1> QED
  BY <1>1, <1>3, <1>4, Between DEF Typed

LEMMA PruneSkipKept ==
  ASSUME IInv, PruneSkip
  PROVE  IInv'
<1>1. /\ MutexFree /\ Typed /\ Pruning /\ (\A u \in Threads : Calling(u)) /\ clock' = clock
      /\ UNCHANGED <<disk, receipts, up, recovered, entries, expirations, writers, held, holding>>
      /\ UNCHANGED <<calls, trash_usage>>
      /\ pruner' = [pruner EXCEPT !.todo = pruner.todo \ {Oldest}] /\ pruner.phase = "loop"
  BY DEF IInv, PruneSkip, Considering, PrunerUnchanged
<1>2. /\ pruner'.todo \subseteq pruner.todo /\ pruner'.retry = pruner.retry
      /\ pruner'.deleting = pruner.deleting /\ pruner' = [f \in DOMAIN NoPruner |-> pruner'[f]]
      /\ pruner'.owner = pruner.owner
  BY <1>1 DEF Pruning, NoPruner
<1>3. Pruning'
  BY <1>1, <1>2 DEF Pruning
<1>4. \A u \in Threads : Calling(u)'
  BY <1>1, CallsSame
<1> QED
  BY <1>1, <1>3, <1>4, Between DEF Typed

LEMMA HoldsSame ==
  ASSUME Holds, UNCHANGED <<holding, calls, up, recovered, receipts>>,
         holding.op # "none" => /\ disk'[holding.id] = disk[holding.id]
                                /\ entries'[holding.id] = entries[holding.id]
                                /\ writers'[holding.id] = writers[holding.id]
  PROVE  Holds'
<1>1. CASE holding.op = "none"
  BY <1>1 DEF Holds, HoldsBegin, HoldsAttempt, HoldsClaim
<1>2. CASE holding.op # "none"
  <2>1. HoldsBegin'
    BY <1>2 DEF Holds, HoldsBegin
  <2>2. HoldsAttempt'
    BY <1>2 DEF Holds, HoldsAttempt, Whole
  <2>3. HoldsClaim'
    BY <1>2 DEF Holds, HoldsClaim
  <2> QED
    BY <1>2, <2>1, <2>2, <2>3 DEF Holds
<1> QED
  BY <1>1, <1>2

LEMMA PrunerIsOpen ==
  ASSUME IInv, pruner.phase # "none"
  PROVE  up = "up" /\ pruner.owner \in Threads
<1>1. NoPruner.phase = "none"
  BY DEF NoPruner
<1> QED
  BY <1>1 DEF IInv, Closed, Pruning

\* What is held is of a bundle that is still there, and the store is open.
LEMMA HolderIs ==
  ASSUME IInv, holding.op # "none"
  PROVE  /\ holding.id \in Ids /\ Typed /\ Holds
         /\ disk[holding.id].home \in {"staging", "bundles"}
         /\ holding.op # "quarantine" => up = "up"
<1>1. holding # NotHolding
  BY Nothings
<1>2. holding.op \in {"begin pin", "begin manifest", "quarantine", "commit", "finalize", "claim",
                      "unclaim"}
  BY DEF IInv, Typed, Holding
<1>3. disk[holding.id].home \in {"staging", "bundles"}
  BY <1>2 DEF IInv, Holds, HoldsBegin, HoldsAttempt, HoldsClaim
<1> QED
  BY <1>1, <1>3 DEF IInv, Holds, Closed

LEMMA PruneRetryKept ==
  ASSUME IInv, NEW id \in Ids, PruneRetry(id)
  PROVE  IInv'
<1>1. /\ clock' = clock /\ pruner.phase = "loop" /\ id \in pruner.retry
      /\ UNCHANGED <<disk, receipts, up, recovered, entries, expirations, trash_usage, holding,
                     calls, writers, held>>
      /\ pruner' = [pruner EXCEPT !.retry = pruner.retry \ {id}, !.deleting = id]
  BY DEF PruneRetry, PrunerUnchanged
<1>2. up = "up" /\ Pruning
  BY <1>1, PrunerIsOpen DEF IInv
<1>3. /\ pruner'.todo = pruner.todo /\ pruner'.retry \subseteq pruner.retry
      /\ pruner'.deleting = id /\ pruner' = [f \in DOMAIN NoPruner |-> pruner'[f]]
      /\ pruner'.owner = pruner.owner
  BY <1>1, <1>2 DEF Pruning, NoPruner
<1>4. Pruning'
  BY <1>1, <1>2, <1>3 DEF Pruning
<1>5. Typed' /\ Holds'
  BY <1>1, HoldsSame DEF IInv, Typed
<1>6. \A k \in Ids : OnDisk(k)' /\ Recovery(k)'
  BY <1>1, Nowhere DEF IInv
<1>7. Closed' /\ \A t \in Threads : Calling(t)'
  BY <1>1, <1>2, OpenNotClosed, CallsSame DEF IInv
<1> QED
  BY <1>4, <1>5, <1>6, <1>7 DEF IInv

LEMMA PruneDeleteKept ==
  ASSUME IInv, NEW result, PruneDelete(result)
  PROVE  IInv'
<1>0. PICK id \in Ids : id = pruner.deleting
  BY PrunerIsOpen DEF PruneDelete, IInv, Pruning
<1>1. /\ clock' = clock /\ pruner.phase = "loop" /\ id # NoId /\ Move(id, "deleted", result)
      /\ UNCHANGED <<receipts, up, recovered, entries, expirations, trash_usage, holding,
                     calls, writers, held>>
      /\ pruner' = IF Throws(result) THEN [pruner EXCEPT !.deleting = NoId]
                                     ELSE [pruner EXCEPT !.phase = "uncharge"]
  BY <1>0 DEF PruneDelete
<1>2. up = "up" /\ Pruning /\ id \in Ids /\ disk[id].home \in Gone /\ Typed
  BY <1>0, <1>1, PrunerIsOpen DEF IInv, Pruning
<1>3. /\ disk' \in [Ids -> Bundle] /\ (\A k \in Ids \ {id} : disk'[k] = disk[k])
      /\ disk'[id].home \in Gone
  BY <1>1, <1>2, MovedTo DEF Homes, Gone, DiskElsewhere
<1>4. /\ pruner'.todo = pruner.todo /\ pruner'.retry = pruner.retry
      /\ pruner'.deleting \in {id, NoId} /\ pruner' = [f \in DOMAIN NoPruner |-> pruner'[f]]
      /\ pruner'.owner = pruner.owner
  BY <1>0, <1>1, <1>2 DEF Pruning, NoPruner
<1>5. Pruning'
  BY <1>1, <1>2, <1>3, <1>4 DEF Pruning
<1>6. OnDisk(id)'
  BY <1>1, <1>2, <1>3 DEF IInv, OnDisk, Gone, Prepared
<1>7. Recovery(id)'
  <2>1. Catalogued(id)
    BY <1>2, Opened
  <2>2. Catalogued(id)'
    BY <1>1, <1>2, <1>3, <2>1 DEF Catalogued, Leases, Gone, Typed, Entry
  <2>3. Attempted(id)'
    BY <1>3 DEF Attempted, Gone
  <2> QED
    BY <1>1, <1>2, <2>2, <2>3, StaysOpen
<1>8. \A k \in Ids \ {id} : Same(k)
  BY <1>1, <1>3 DEF Same, Leases
<1>9. \A k \in Ids : OnDisk(k)' /\ Recovery(k)'
  BY <1>1, <1>2, <1>6, <1>7, <1>8, Elsewhere DEF IInv
<1>10. Typed'
  BY <1>1, <1>2, <1>3 DEF Typed
<1>11. Holds'
  <2>1. holding.op # "none" => holding.id \in Ids \ {id}
    BY <1>2, HolderIs DEF Gone
  <2> QED
    BY <1>1, <1>3, <2>1, HoldsSame DEF IInv
<1>12. Closed' /\ \A t \in Threads : Calling(t)'
  BY <1>1, <1>2, OpenNotClosed, CallsSame DEF IInv
<1> QED
  BY <1>5, <1>9, <1>10, <1>11, <1>12 DEF IInv

LEMMA PruneUnchargeKept ==
  ASSUME IInv, PruneUncharge
  PROVE  IInv'
<1>1. /\ MutexFree /\ Typed /\ Pruning /\ (\A u \in Threads : Calling(u)) /\ clock' = clock
      /\ UNCHANGED <<disk, receipts, up, recovered, entries, expirations, writers, held, holding>>
      /\ calls' = calls /\ trash_usage' = [trash_usage EXCEPT ![pruner.deleting] = 0]
      /\ pruner' = [pruner EXCEPT !.phase = "loop", !.deleting = NoId]
      /\ pruner.phase = "uncharge"
  BY DEF IInv, PruneUncharge
<1>2. /\ pruner'.todo = pruner.todo /\ pruner'.retry = pruner.retry
      /\ pruner'.deleting = NoId /\ pruner' = [f \in DOMAIN NoPruner |-> pruner'[f]]
      /\ pruner'.owner = pruner.owner
  BY <1>1 DEF Pruning, NoPruner
<1>3. /\ trash_usage' \in [Ids -> Nat]
      /\ \A id \in Ids : trash_usage'[id] # 0 => trash_usage[id] # 0
  BY <1>1 DEF Typed
<1>4. Pruning'
  BY <1>1, <1>2, <1>3 DEF Pruning
<1>5. \A u \in Threads : Calling(u)'
  BY <1>1, CallsSame
<1> QED
  BY <1>1, <1>3, <1>4, <1>5, Between DEF Typed

LEMMA PruneEndKept ==
  ASSUME IInv, PruneEnd
  PROVE  IInv'
<1> DEFINE t == pruner.owner
           c == [calls[t] EXCEPT !.at = calls[t].next]
<1>1. /\ MutexFree /\ Typed /\ Pruning /\ (\A u \in Threads : Calling(u)) /\ clock' = clock
      /\ UNCHANGED <<disk, receipts, up, recovered, entries, expirations, writers, held, holding>>
      /\ trash_usage' = trash_usage /\ pruner' = NoPruner /\ pruner.phase = "loop"
      /\ \/ calls' = [calls EXCEPT ![t] = Idle]
         \/ calls[t].next # "return" /\ calls' = [calls EXCEPT ![t] = c]
  BY DEF IInv, PruneEnd
<1>2. t \in Threads
  BY <1>1, PrunerIsOpen
<1>3. calls' \in [Threads -> Call] /\ \A u \in Threads : Calling(u)'
  <2>1. CASE calls' = [calls EXCEPT ![t] = Idle]
    BY <1>1, <1>2, <2>1, CallReturns
  <2>2. CASE calls[t].next # "return" /\ calls' = [calls EXCEPT ![t] = c]
    <3>1. calls[t] \in Call /\ Calling(t) /\ calls[t].at # "idle"
      BY <1>1, <1>2, <2>2, Nothings DEF Calling, Typed
    <3>2. /\ c \in Call /\ c.at = calls[t].next /\ c.next = calls[t].next /\ c.id = calls[t].id
          /\ c.at \in {"allocate", "finalize"}
      BY <2>2, <3>1 DEF Call
    <3>3. c.next = "finalize" => c.id \in Ids /\ writers[c.id] = t
      BY <3>1, <3>2 DEF Calling
    <3> HIDE DEF c
    <3> QED
      BY <1>1, <1>2, <2>2, <3>2, <3>3, CallGoesOn
  <2> QED
    BY <1>1, <2>1, <2>2
<1>4. Pruning'
  BY <1>1 DEF Pruning, NoPruner
<1> QED
  BY <1>1, <1>3, <1>4, Between DEF Typed

-----------------------------------------------------------------------------
(* prune() claims a bundle.                                                *)

LEMMA PruneReceiptKept ==
  ASSUME IInv, NEW result, PruneReceipt(result)
  PROVE  IInv'
<1>1. /\ MutexFree /\ Typed /\ Pruning /\ (\A u \in Threads : Calling(u)) /\ clock' = clock
      /\ UNCHANGED <<disk, up, recovered, entries, expirations, trash_usage, calls, writers, held>>
      /\ pruner.phase = "loop" /\ pruner.todo # {} /\ holding = NotHolding
      /\ pruner' = [pruner EXCEPT !.todo = pruner.todo \ {Oldest}]
  BY DEF IInv, PruneReceipt, Considering, MutexFree
<1>2. PICK id \in Ids : id = Oldest[2]
  BY <1>1, OldestIs DEF Pruning
<1>3. /\ entries[id].known /\ ~entries[id].staged /\ ~Protected(entries[id])
      /\ receipts' = IF Lands(result) THEN receipts \cup {id} ELSE receipts
      /\ \/ holding' = NotHolding
         \/ Lands(result) /\ Hold("claim", id, pruner.owner, NoManifest)
  BY <1>1, <1>2 DEF PruneReceipt, Claimable, Lands, Throws
<1>4. up = "up" /\ disk[id].home = "bundles" /\ pruner.owner \in Threads
  BY <1>1, <1>3, Opened, PrunerIsOpen DEF MutexFree, Catalogued
<1>5. /\ pruner'.todo \subseteq pruner.todo /\ pruner'.retry = pruner.retry
      /\ pruner'.deleting = pruner.deleting /\ pruner' = [f \in DOMAIN NoPruner |-> pruner'[f]]
      /\ pruner'.owner = pruner.owner
  BY <1>1 DEF Pruning, NoPruner
<1>6. Pruning'
  BY <1>1, <1>4, <1>5 DEF Pruning
<1>7. holding' = NotHolding \/ holding' = [op |-> "claim", id |-> id, thread |-> pruner.owner,
                                           manifest |-> NoManifest]
  BY <1>3 DEF Hold
<1>8. Typed'
  <2>1. NotHolding \in Holding /\ NoManifest \in Manifest
    BY Nothings, Manifests
  <2>2. holding' \in Holding
    BY <1>4, <1>7, <2>1, HoldingIs
  <2> QED
    BY <1>1, <2>2 DEF Typed
<1>9. Holds'
  <2>1. CASE holding' = NotHolding
    BY <2>1, Released
  <2>2. CASE Hold("claim", id, pruner.owner, NoManifest) /\ Lands(result)
    <3>1. holding'.op = "claim" /\ holding'.id = id /\ id \in receipts'
      BY <1>3, <2>2 DEF Hold
    <3> QED
      BY <1>1, <1>3, <1>4, <3>1 DEF Holds, HoldsBegin, HoldsAttempt, HoldsClaim
  <2> QED
    BY <1>3, <2>1, <2>2
<1>10. OnDisk(id)'
  BY <1>1, <1>3, <1>4 DEF IInv, OnDisk, Prepared, Whole, Gone
<1>11. Recovery(id)'
  <2>1. Catalogued(id) /\ Attempted(id)
    BY <1>4, Opened
  <2>2. Catalogued(id)' /\ Attempted(id)'
    BY <1>1, <2>1 DEF Catalogued, Attempted, Leases
  <2> QED
    BY <1>1, <1>4, <2>2, StaysOpen
<1>12. \A k \in Ids \ {id} : Same(k)
  BY <1>1, <1>3 DEF Same, Leases
<1>13. \A k \in Ids : OnDisk(k)' /\ Recovery(k)'
  BY <1>1, <1>10, <1>11, <1>12, Elsewhere DEF IInv
<1>14. Closed' /\ \A t \in Threads : Calling(t)'
  BY <1>1, <1>4, OpenNotClosed, CallsSame
<1> QED
  BY <1>6, <1>8, <1>9, <1>13, <1>14 DEF IInv

LEMMA PruneClaimKept ==
  ASSUME IInv, NEW result, PruneClaim(result)
  PROVE  IInv'
<1>0. holding.op = "claim" /\ up = "up"
  BY HolderIs DEF PruneClaim
<1>1. PICK id \in Ids : id = holding.id
  BY <1>0, HolderIs
<1>2. /\ Typed /\ Pruning /\ Holds /\ (\A u \in Threads : Calling(u)) /\ clock' = clock
      /\ UNCHANGED <<receipts, up, recovered, calls, writers, held>>
      /\ Move(id, "trash", result)
      /\ IF Lands(result)
         THEN /\ trash_usage' = [trash_usage EXCEPT ![id] = Bytes(id)]
              /\ expirations' = expirations \cup {id}
              /\ entries' = [entries EXCEPT ![id] = NoEntry]
              /\ pruner' = [pruner EXCEPT !.deleting = id]
              /\ holding' = NotHolding
         ELSE /\ holding' = [holding EXCEPT !.op = "unclaim"]
              /\ UNCHANGED <<trash_usage, expirations, entries, pruner>>
  BY <1>1 DEF PruneClaim, IInv
<1>3. disk[id].home = "bundles" /\ ~Protected(entries[id]) /\ id \in receipts
  BY <1>0, <1>1, <1>2 DEF Holds, HoldsClaim
<1>4. /\ disk' \in [Ids -> Bundle] /\ (\A k \in Ids \ {id} : disk'[k] = disk[k])
      /\ IF Lands(result) THEN disk'[id].home = "trash" ELSE disk'[id] = disk[id]
  BY <1>2, MovedTo DEF DiskElsewhere, Homes
<1>5. Catalogued(id) /\ Attempted(id) /\ OnDisk(id) /\ entries[id] \in Entry
  BY <1>0, Opened
<1>6. \A k \in Ids \ {id} : Same(k)
  BY <1>2, <1>4 DEF Same, Leases, Typed
<1>7. Closed' /\ \A t \in Threads : Calling(t)'
  BY <1>0, <1>2, OpenNotClosed, CallsSame
<1>8. CASE Lands(result)
  <2>1. Bytes(id) \in Nat
    BY <1>2, Identifiers DEF Bytes, ManifestBytes, Typed, Bundle
  <2>2. Typed'
    BY <1>2, <1>4, <1>8, <2>1, Nothings DEF Typed
  <2>3. Holds'
    BY <1>2, <1>8, Released
  <2>4. OnDisk(id)'
    BY <1>2, <1>3, <1>4, <1>8 DEF OnDisk, Prepared, Gone
  <2>5. entries'[id] = NoEntry /\ id \in expirations' /\ disk'[id].home = "trash"
    BY <1>2, <1>4, <1>8 DEF Typed
  <2>6. Cardinality(Leases(id)) = 0 /\ writers[id] = Nobody
    BY <1>3, <1>5 DEF Catalogued, Protected, Entry
  <2>7. Catalogued(id)'
    BY <1>2, <2>5, <2>6, Nothings DEF Catalogued, Leases, Gone
  <2>8. Attempted(id)'
    BY <2>5 DEF Attempted
  <2>9. \A k \in Ids : OnDisk(k)' /\ Recovery(k)'
    BY <1>0, <1>2, <1>6, <2>4, <2>7, <2>8, StaysOpen, Elsewhere DEF IInv
  <2>10. /\ pruner'.todo = pruner.todo /\ pruner'.retry = pruner.retry
         /\ pruner'.deleting = id /\ pruner' = [f \in DOMAIN NoPruner |-> pruner'[f]]
         /\ pruner'.owner = pruner.owner /\ pruner'.phase = pruner.phase
    BY <1>2, <1>8 DEF Pruning, NoPruner
  <2>11. \A k \in Ids \ {id} : trash_usage'[k] = trash_usage[k]
    BY <1>2, <1>8 DEF Typed
  <2>12. Pruning'
    <3>1. \A k \in Ids : disk[k].home \in Gone => disk'[k].home \in Gone
      BY <1>3, <1>4 DEF Gone
    <3>2. disk'[id].home \in Gone
      BY <2>5 DEF Gone
    <3>3. /\ pruner.todo \subseteq Nat \X Ids
          /\ pruner.retry \subseteq {k \in Ids : disk[k].home \in Gone}
          /\ pruner.phase # "none" => pruner.owner \in Threads
      BY <1>2 DEF Pruning
    <3>4. \A k \in Ids : trash_usage'[k] # 0 => disk'[k].home \in Gone
      BY <1>2, <2>11, <3>1, <3>2 DEF Pruning
    <3> QED
      BY <2>10, <3>1, <3>2, <3>3, <3>4 DEF Pruning
  <2> QED
    BY <1>7, <2>2, <2>3, <2>9, <2>12 DEF IInv
<1>9. CASE ~Lands(result)
  <2>1. /\ UNCHANGED <<trash_usage, expirations, entries, pruner>> /\ disk'[id] = disk[id]
        /\ holding' = [holding EXCEPT !.op = "unclaim"]
    BY <1>2, <1>4, <1>9
  <2>2. Same(id)
    BY <1>2, <2>1 DEF Same, Leases
  <2>3. \A k \in Ids : OnDisk(k)' /\ Recovery(k)'
    BY <1>2, <1>6, <2>2, SameOnDisk, SameRecovery DEF IInv, Same
  <2>4. holding' \in Holding /\ holding'.op = "unclaim" /\ holding'.id = id
    BY <1>1, <1>2, <2>1 DEF Typed, Holding
  <2>5. Typed'
    BY <1>2, <1>4, <2>1, <2>4 DEF Typed
  <2>6. Holds'
    BY <1>1, <1>3, <2>1, <2>4 DEF Holds, HoldsBegin, HoldsAttempt, HoldsClaim
  <2>7. Pruning'
    BY <1>2, <1>4, <2>1, PruningSame
  <2> QED
    BY <1>7, <2>3, <2>5, <2>6, <2>7 DEF IInv
<1> QED
  BY <1>8, <1>9

LEMMA PruneUnclaimKept ==
  ASSUME IInv, NEW result, PruneUnclaim(result)
  PROVE  IInv'
<1>0. holding.op = "unclaim" /\ up = "up"
  BY HolderIs DEF PruneUnclaim
<1>1. PICK id \in Ids : id = holding.id
  BY <1>0, HolderIs
<1>2. /\ Typed /\ Pruning /\ Holds /\ (\A u \in Threads : Calling(u)) /\ clock' = clock
      /\ UNCHANGED <<disk, up, recovered, entries, expirations, trash_usage, pruner, calls,
                     writers, held>>
      /\ receipts' = IF Lands(result) THEN receipts \ {id} ELSE receipts
      /\ holding' = NotHolding
  BY <1>1 DEF PruneUnclaim, IInv
<1>3. disk[id].home = "bundles"
  BY <1>0, <1>1, <1>2 DEF Holds, HoldsClaim
<1>4. OnDisk(id)'
  BY <1>2, <1>3 DEF IInv, OnDisk, Prepared, Whole, Gone
<1>5. Catalogued(id)' /\ Attempted(id)'
  <2>1. Catalogued(id) /\ Attempted(id)
    BY <1>0, Opened
  <2> QED
    BY <1>2, <2>1 DEF Catalogued, Attempted, Leases
<1>6. \A k \in Ids \ {id} : Same(k)
  BY <1>2 DEF Same, Leases
<1>7. \A k \in Ids : OnDisk(k)' /\ Recovery(k)'
  BY <1>0, <1>2, <1>4, <1>5, <1>6, StaysOpen, Elsewhere DEF IInv
<1>8. Typed' /\ Holds'
  BY <1>2, Nothings, Released DEF Typed
<1>9. Pruning' /\ Closed' /\ \A t \in Threads : Calling(t)'
  BY <1>0, <1>2, PruningSame, OpenNotClosed, CallsSame
<1> QED
  BY <1>7, <1>8, <1>9 DEF IInv

-----------------------------------------------------------------------------
(* begin().                                                                *)

LEMMA AllocateKept ==
  ASSUME IInv, NEW t \in Threads, NEW id \in Ids, Allocate(t, id)
  PROVE  IInv'
<1> DEFINE e == [NoEntry EXCEPT !.known = TRUE, !.manifest = Initial, !.pinned = calls[t].pinned,
                                !.staged = TRUE]
<1>1. /\ up = "up" /\ Typed /\ Pruning /\ (\A u \in Threads : Calling(u)) /\ clock' = clock
      /\ UNCHANGED <<receipts, up, recovered, expirations, trash_usage, pruner, calls, writers, held>>
      /\ calls[t].at = "allocate" /\ disk[id] = NoBundle
      /\ disk' = [disk EXCEPT ![id].home = "staging"] /\ entries' = [entries EXCEPT ![id] = e]
      /\ holding' = [op |-> "begin pin", id |-> id, thread |-> t, manifest |-> Initial]
  BY DEF Allocate, IInv, MutexFree, Hold
<1>2. /\ e \in Entry /\ e.known /\ e.manifest = Initial /\ e.staged /\ e.leases = 0
      /\ ~e.writer_active /\ e.pinned = calls[t].pinned
  BY <1>1, Manifests DEF NoEntry, Entry, Typed, Call
<1> HIDE DEF e
<1>3. /\ disk' \in [Ids -> Bundle] /\ (\A k \in Ids \ {id} : disk'[k] = disk[k])
      /\ disk'[id].home = "staging" /\ disk'[id].pin = "none" /\ disk'[id].content = 0
      /\ disk'[id].manifest = NoManifest
  BY <1>1, Nothings DEF Typed, Bundle, Homes
<1>4. /\ entries' \in [Ids -> Entry] /\ entries'[id] = e
      /\ \A k \in Ids \ {id} : entries'[k] = entries[k]
  BY <1>1, <1>2 DEF Typed
<1>5. holding' \in Holding
  BY <1>1, HoldingIs, Manifests
<1>6. Typed'
  BY <1>1, <1>3, <1>4, <1>5 DEF Typed
<1>7. Catalogued(id) /\ OnDisk(id) /\ entries[id] \in Entry
  BY <1>1, Opened
<1>8. /\ Cardinality(Leases(id)) = 0 /\ writers[id] = Nobody /\ id \notin expirations
      /\ id \notin receipts
  <2>1. disk[id].home = "none"
    BY <1>1, Nothings
  <2>2. entries[id].leases \in Nat /\ ~(entries[id].leases > 0)
    BY <1>7, <2>1 DEF Catalogued, Entry
  <2>3. Cardinality(Leases(id)) = 0
    BY <1>7, <2>2 DEF Catalogued
  <2>4. writers[id] = Nobody /\ id \notin expirations
    BY <1>7, <2>1 DEF Catalogued, Gone
  <2>5. id \notin receipts
    BY <1>7, <2>1 DEF OnDisk
  <2> QED
    BY <2>3, <2>4, <2>5
<1>9. OnDisk(id)'
  BY <1>1, <1>3, <1>8, Manifests DEF OnDisk, Prepared, Gone
<1>10. Catalogued(id)'
  <2>1. Leases(id)' = Leases(id) /\ writers' = writers /\ expirations' = expirations
    BY <1>1 DEF Leases
  <2> QED
    BY <1>2, <1>3, <1>4, <1>8, <2>1 DEF Catalogued, Gone
<1>11. Attempted(id)'
  BY <1>1, <1>2, <1>3, <1>4, Manifests DEF Attempted, Unfinished
<1>12. \A k \in Ids \ {id} : Same(k)
  BY <1>1, <1>3, <1>4 DEF Same, Leases
<1>13. \A k \in Ids : OnDisk(k)' /\ Recovery(k)'
  BY <1>1, <1>9, <1>10, <1>11, <1>12, StaysOpen, Elsewhere DEF IInv
<1>14. Holds'
  BY <1>1, <1>2, <1>3, <1>4 DEF Holds, HoldsBegin, HoldsAttempt, HoldsClaim
<1>15. Pruning'
  <2>1. \A k \in Ids : disk[k].home \in Gone => disk'[k].home \in Gone
    BY <1>1, <1>3, Nothings DEF Gone
  <2> QED
    BY <1>1, <2>1, PruningSame
<1>16. Closed' /\ \A u \in Threads : Calling(u)'
  BY <1>1, OpenNotClosed, CallsSame
<1> QED
  BY <1>6, <1>13, <1>14, <1>15, <1>16 DEF IInv

LEMMA BeginPinKept ==
  ASSUME IInv, NEW result, BeginPin(result)
  PROVE  IInv'
<1>0. holding.op = "begin pin" /\ up = "up"
  BY HolderIs DEF BeginPin
<1>1. PICK id \in Ids : id = holding.id
  BY <1>0, HolderIs
<1>2. PICK t \in Threads : t = holding.thread
  BY <1>0 DEF IInv, Holds, HoldsBegin
<1>3. /\ Typed /\ Pruning /\ Holds /\ (\A u \in Threads : Calling(u)) /\ clock' = clock
      /\ UNCHANGED <<receipts, up, recovered, entries, expirations, trash_usage, pruner,
                     writers, held>>
      /\ WritePin(id, calls[t].pinned, result)
      /\ \/ holding' = NotHolding /\ calls' = [calls EXCEPT ![t] = Idle]
         \/ ~Throws(result) /\ holding' = [holding EXCEPT !.op = "begin manifest"] /\ calls' = calls
  BY <1>1, <1>2 DEF BeginPin, IInv
<1>4. /\ disk[id].home = "staging" /\ disk[id].manifest = NoManifest /\ disk[id].content = 0
      /\ entries[id].manifest = Initial /\ ~entries[id].writer_active
      /\ entries[id].pinned = calls[t].pinned /\ calls[t].at = "allocate"
      /\ holding.manifest = Initial /\ entries[id].leases = 0
  BY <1>0, <1>1, <1>2, <1>3 DEF Holds, HoldsBegin
<1>5. calls[t].pinned \in BOOLEAN
  BY <1>3 DEF Typed, Call
<1>6. /\ disk' \in [Ids -> Bundle] /\ (\A k \in Ids \ {id} : disk'[k] = disk[k])
      /\ disk'[id].home = disk[id].home /\ disk'[id].manifest = disk[id].manifest
      /\ disk'[id].content = disk[id].content
      /\ disk'[id].pin = disk[id].pin \/ disk'[id].pin = IF calls[t].pinned THEN "yes" ELSE "no"
      /\ ~Throws(result) => disk'[id].pin = IF calls[t].pinned THEN "yes" ELSE "no"
  BY <1>3, <1>5, PinWritten DEF DiskElsewhere
<1>7. Catalogued(id) /\ Attempted(id) /\ OnDisk(id)
  BY <1>0, Opened
<1>8. OnDisk(id)'
  BY <1>3, <1>4, <1>6, <1>7, Manifests DEF OnDisk, Prepared, Gone
<1>9. Catalogued(id)'
  <2>1. Leases(id)' = Leases(id)
    BY <1>3 DEF Leases
  <2> QED
    BY <1>3, <1>4, <1>6, <1>7, <2>1 DEF Catalogued, Gone
<1>10. Attempted(id)'
  BY <1>3, <1>4, <1>6, <1>7, Manifests DEF Attempted
<1>11. \A k \in Ids \ {id} : Same(k)
  BY <1>3, <1>6 DEF Same, Leases
<1>12. \A k \in Ids : OnDisk(k)' /\ Recovery(k)'
  BY <1>0, <1>3, <1>8, <1>9, <1>10, <1>11, StaysOpen, Elsewhere DEF IInv
<1>13. Pruning' /\ Closed'
  BY <1>0, <1>3, <1>6, PruningSame, OpenNotClosed
<1>14. CASE holding' = NotHolding /\ calls' = [calls EXCEPT ![t] = Idle]
  <2>1. calls' \in [Threads -> Call] /\ \A u \in Threads : Calling(u)'
    BY <1>3, <1>14, CallReturns
  <2>2. Typed' /\ Holds'
    BY <1>3, <1>6, <1>14, <2>1, Nothings, Released DEF Typed
  <2> QED
    BY <1>12, <1>13, <2>1, <2>2 DEF IInv
<1>15. CASE ~Throws(result) /\ holding' = [holding EXCEPT !.op = "begin manifest"] /\ calls' = calls
  <2>1. /\ holding' \in Holding /\ holding'.op = "begin manifest" /\ holding'.id = id
        /\ holding'.thread = t /\ holding'.manifest = holding.manifest
    BY <1>1, <1>2, <1>3, <1>15 DEF Typed, Holding
  <2>2. Typed'
    BY <1>3, <1>6, <1>15, <2>1 DEF Typed
  <2>3. Holds'
    <3>1. /\ disk'[id].home = "staging" /\ disk'[id].manifest = NoManifest /\ disk'[id].content = 0
          /\ disk'[id].pin # "none" /\ entries' = entries /\ calls' = calls /\ t \in Threads
      BY <1>3, <1>4, <1>6, <1>15
    <3>2. HoldsBegin'
      BY <1>4, <2>1, <3>1 DEF HoldsBegin
    <3>3. HoldsAttempt' /\ HoldsClaim'
      BY <2>1 DEF HoldsAttempt, HoldsClaim
    <3> QED
      BY <2>1, <3>2, <3>3 DEF Holds
  <2>4. \A u \in Threads : Calling(u)'
    BY <1>3, <1>15, CallsSame
  <2> QED
    BY <1>12, <1>13, <2>2, <2>3, <2>4 DEF IInv
<1> QED
  BY <1>3, <1>14, <1>15

LEMMA BeginManifestKept ==
  ASSUME IInv, NEW result, BeginManifest(result)
  PROVE  IInv'
<1>0. holding.op = "begin manifest" /\ up = "up"
  BY HolderIs DEF BeginManifest
<1>1. PICK id \in Ids : id = holding.id
  BY <1>0, HolderIs
<1>2. PICK t \in Threads : t = holding.thread
  BY <1>0 DEF IInv, Holds, HoldsBegin
<1>3. /\ Typed /\ Pruning /\ Holds /\ (\A u \in Threads : Calling(u)) /\ clock' = clock
      /\ UNCHANGED <<receipts, up, recovered, expirations, trash_usage, pruner, held>>
      /\ WriteManifest(id, holding.manifest, result) /\ holding' = NotHolding
      /\ calls' = [calls EXCEPT ![t] = Idle]
      /\ \/ UNCHANGED <<entries, writers>>
         \/ /\ ~Throws(result) /\ entries' = [entries EXCEPT ![id].writer_active = TRUE]
            /\ writers' = [writers EXCEPT ![id] = t]
  BY <1>1, <1>2 DEF BeginManifest, IInv
<1>4. /\ disk[id].home = "staging" /\ disk[id].manifest = NoManifest /\ disk[id].content = 0
      /\ entries[id].manifest = Initial /\ ~entries[id].writer_active
      /\ holding.manifest = Initial /\ disk[id].pin # "none"
  BY <1>0, <1>1, <1>2, <1>3 DEF Holds, HoldsBegin
<1>5. /\ disk' \in [Ids -> Bundle] /\ (\A k \in Ids \ {id} : disk'[k] = disk[k])
      /\ disk'[id].home = disk[id].home /\ disk'[id].pin = disk[id].pin
      /\ disk'[id].content = disk[id].content /\ disk'[id].manifest \in {Initial, NoManifest}
  BY <1>3, <1>4, ManifestWritten, Manifests DEF DiskElsewhere
<1>6. Catalogued(id) /\ Attempted(id) /\ OnDisk(id) /\ entries[id] \in Entry
  BY <1>0, Opened
<1>7. writers[id] = Nobody /\ t # Nobody
  BY <1>4, <1>6, Identifiers DEF Catalogued
<1>8. /\ entries' \in [Ids -> Entry] /\ writers' \in [Ids -> Threads \cup {Nobody}]
      /\ \A k \in Ids \ {id} : entries'[k] = entries[k] /\ writers'[k] = writers[k]
      /\ entries'[id].known = entries[id].known /\ entries'[id].manifest = entries[id].manifest
      /\ entries'[id].pinned = entries[id].pinned /\ entries'[id].staged = entries[id].staged
      /\ entries'[id].leases = entries[id].leases
      /\ entries'[id].writer_active <=> writers'[id] # Nobody
  <2> DEFINE e == [entries[id] EXCEPT !.writer_active = TRUE]
  <2>1. /\ e \in Entry /\ e.known = entries[id].known /\ e.manifest = entries[id].manifest
        /\ e.pinned = entries[id].pinned /\ e.staged = entries[id].staged
        /\ e.leases = entries[id].leases /\ e.writer_active
    BY <1>6 DEF Entry
  <2>2. \/ UNCHANGED <<entries, writers>>
        \/ entries' = [entries EXCEPT ![id] = e] /\ writers' = [writers EXCEPT ![id] = t]
    BY <1>3, Zenon
  <2> HIDE DEF e
  <2>3. CASE UNCHANGED <<entries, writers>>
    BY <1>3, <1>4, <1>7, <2>3 DEF Typed
  <2>4. CASE entries' = [entries EXCEPT ![id] = e] /\ writers' = [writers EXCEPT ![id] = t]
    BY <1>3, <1>7, <2>1, <2>4 DEF Typed
  <2> QED
    BY <2>2, <2>3, <2>4
<1>9. OnDisk(id)'
  <2>1. ~Final(disk'[id].manifest) /\ disk'[id].manifest \in {NoManifest} \cup Unfinished
    BY <1>5, Manifests DEF Unfinished
  <2>2. id \notin receipts' /\ disk'[id].home = "staging"
    BY <1>3, <1>4, <1>5, <1>6 DEF OnDisk
  <2> QED
    BY <2>1, <2>2 DEF OnDisk, Prepared, Gone
<1>10. Catalogued(id)'
  <2>1. Leases(id)' = Leases(id)
    BY <1>3 DEF Leases
  <2>2. entries[id].known
    BY <1>4, <1>6 DEF Catalogued
  <2> QED
    BY <1>3, <1>4, <1>5, <1>6, <1>8, <2>1, <2>2 DEF Catalogued, Gone
<1>11. Attempted(id)'
  BY <1>3, <1>4, <1>5, <1>6, <1>8, Manifests DEF Attempted
<1>12. \A k \in Ids \ {id} : Same(k)
  BY <1>3, <1>5, <1>8 DEF Same, Leases
<1>13. \A k \in Ids : OnDisk(k)' /\ Recovery(k)'
  BY <1>0, <1>3, <1>9, <1>10, <1>11, <1>12, StaysOpen, Elsewhere DEF IInv
<1>14. Pruning' /\ Closed'
  BY <1>0, <1>3, <1>5, PruningSame, OpenNotClosed
<1>15. calls' \in [Threads -> Call] /\ \A u \in Threads : Calling(u)'
  <2>1. \A k \in Ids : writers[k] # Nobody => writers'[k] = writers[k]
    BY <1>7, <1>8
  <2> QED
    BY <1>3, <2>1, CallReturns
<1>16. Typed' /\ Holds'
  BY <1>3, <1>5, <1>8, <1>15, Nothings, Released DEF Typed
<1> QED
  BY <1>13, <1>14, <1>15, <1>16 DEF IInv

-----------------------------------------------------------------------------
(* Writers.                                                                *)

\* An attempt of somebody, or in quarantine, is written to.
LEMMA Rewritten ==
  ASSUME NEW id \in Ids, Catalogued(id), Attempted(id), disk[id].home = "staging",
         disk'[id].home = "staging", disk'[id].pin = disk[id].pin,
         disk'[id].manifest.quarantined => entries[id].manifest.quarantined,
         entries[id].manifest.quarantined \/ entries[id].writer_active,
         UNCHANGED <<entries, writers, held, expirations, up>>
  PROVE  Catalogued(id)' /\ Attempted(id)'
<1>1. Leases(id)' = Leases(id)
  BY DEF Leases
<1>2. Catalogued(id)'
  BY <1>1 DEF Catalogued, Gone
<1>3. Attempted(id)'
  BY DEF Attempted
<1> QED
  BY <1>2, <1>3

\* Outside its critical sections the store stages, or an open one has a
\* writer for, what is written to.
LEMMA WriteKept ==
  ASSUME IInv, NEW id \in Ids, Write(id)
  PROVE  IInv'
<1>1. /\ Typed /\ Pruning /\ Holds /\ (\A u \in Threads : Calling(u)) /\ Closed /\ clock' = clock
      /\ UNCHANGED <<receipts, up, recovered, entries, expirations, trash_usage, holding, pruner,
                     calls, writers, held>>
      /\ OnDisk(id) /\ Recovery(id)
      /\ disk[id].home = "staging" /\ disk[id].manifest # NoManifest
      /\ IF writers[id] # Nobody THEN holding.id # id
                                 ELSE up # "up" \/ entries[id].manifest.quarantined
      /\ Prepared(id) => Rewrites
      /\ disk' = [disk EXCEPT ![id].content = disk[id].content + 1]
  BY DEF IInv, Write, memory
<1>2. /\ disk' \in [Ids -> Bundle] /\ (\A k \in Ids \ {id} : disk'[k] = disk[k])
      /\ disk'[id].home = disk[id].home /\ disk'[id].pin = disk[id].pin
      /\ disk'[id].manifest = disk[id].manifest /\ disk'[id].content = disk[id].content + 1
      /\ disk[id].content \in Nat
  BY <1>1 DEF Typed, Bundle
<1>3. OnDisk(id)'
  BY <1>1, <1>2 DEF OnDisk, Prepared, Gone
<1>4. Recovery(id)'
  <2>1. Read(id)' <=> Read(id)
    BY <1>1, <1>2 DEF Read
  <2>2. CASE Read(id)
    <3>1. Catalogued(id) /\ Attempted(id)
      BY <1>1, <2>2 DEF Recovery
    <3>2. disk[id].manifest.quarantined => entries[id].manifest.quarantined
      BY <1>1, <3>1 DEF Attempted
    <3>3. entries[id].manifest.quarantined \/ entries[id].writer_active
      BY <1>1, <3>1 DEF Attempted, Catalogued
    <3>4. Catalogued(id)' /\ Attempted(id)'
      BY <1>1, <1>2, <3>1, <3>2, <3>3, Rewritten
    <3> QED
      BY <1>1, <1>2, <2>1, <2>2, <3>4 DEF Recovery
  <2>3. CASE ~Read(id)
    BY <1>1, <1>2, <2>1, <2>3 DEF Recovery
  <2> QED
    BY <2>2, <2>3
<1>5. \A k \in Ids \ {id} : Same(k)
  BY <1>1, <1>2 DEF Same, Leases
<1>6. \A k \in Ids : OnDisk(k)' /\ Recovery(k)'
  BY <1>1, <1>3, <1>4, <1>5, Elsewhere DEF IInv
<1>7. Typed' /\ Pruning' /\ Closed' /\ \A u \in Threads : Calling(u)'
  <2>1. Typed'
    BY <1>1, <1>2 DEF Typed
  <2>2. Pruning' /\ \A u \in Threads : Calling(u)'
    BY <1>1, <1>2, PruningSame, CallsSame
  <2>3. Closed'
    BY <1>1 DEF Closed
  <2> QED
    BY <2>1, <2>2, <2>3
<1>8. Holds'
  <2>1. CASE holding.op = "none" \/ holding.id # id
    <3>1. holding.op # "none" => holding.id \in Ids \ {id}
      BY <1>1, <2>1 DEF Holds
    <3> QED
      BY <1>1, <1>2, <3>1, HoldsSame
  <2>2. CASE holding.op # "none" /\ holding.id = id
    <3>1. writers[id] = Nobody
      BY <1>1, <2>2
    <3>2. holding.op = "quarantine"
      BY <1>1, <2>2, <3>1 DEF Holds, HoldsBegin, HoldsAttempt, HoldsClaim, Typed, Holding
    <3> QED
      BY <1>1, <1>2, <2>2, <3>2 DEF Holds, HoldsBegin, HoldsAttempt, HoldsClaim
  <2> QED
    BY <2>1, <2>2
<1> QED
  BY <1>6, <1>7, <1>8 DEF IInv

-----------------------------------------------------------------------------
(* An open store's step at one bundle.                                     *)

LEMMA OpenStep ==
  ASSUME IInv, up = "up", up' = "up", NEW id \in Ids, \A k \in Ids \ {id} : Same(k),
         OnDisk(id)', Catalogued(id)', Attempted(id)', Typed', Holds', Pruning',
         \A t \in Threads : Calling(t)'
  PROVE  IInv'
<1>1. \A k \in Ids : OnDisk(k)' /\ Recovery(k)'
  BY StaysOpen, Elsewhere DEF IInv
<1> QED
  BY <1>1, OpenNotClosed DEF IInv

\* The writer of t comes or goes while t is in no other call.
LEMMA CallsOfOthers ==
  ASSUME Typed, \A u \in Threads : Calling(u), NEW t \in Threads, calls[t] = Idle, calls' = calls,
         \A k \in Ids : writers[k] \notin {t, Nobody} => writers'[k] = writers[k]
  PROVE  \A u \in Threads : Calling(u)'
<1> SUFFICES ASSUME NEW u \in Threads PROVE Calling(u)'
  OBVIOUS
<1>1. u # Nobody /\ Calling(u)
  BY Identifiers
<1>2. CASE u = t
  BY <1>1, <1>2, Nothings DEF Calling
<1>3. CASE u # t
  BY <1>1, <1>3 DEF Calling
<1> QED
  BY <1>2, <1>3

LEMMA UpdateProvenanceKept ==
  ASSUME IInv, NEW t \in Threads, NEW id \in Ids, NEW result, UpdateProvenance(t, id, result)
  PROVE  IInv'
<1>1. /\ up = "up" /\ Typed /\ Pruning /\ Holds /\ (\A u \in Threads : Calling(u)) /\ clock' = clock
      /\ UNCHANGED <<receipts, up, recovered, entries, expirations, trash_usage, holding, pruner,
                     calls, writers, held>>
      /\ holding = NotHolding /\ writers[id] = t /\ entries[id].staged
      /\ WriteManifest(id, entries[id].manifest, result)
  BY DEF UpdateProvenance, Ask, Free, MutexFree, Owns, IInv, memory
<1>2. Catalogued(id) /\ Attempted(id) /\ OnDisk(id)
  BY <1>1, Opened
<1>3. entries[id].writer_active /\ disk[id].home = "staging" /\ entries[id].manifest \in Unfinished
  BY <1>1, <1>2, Identifiers DEF Catalogued, Attempted
<1>4. entries[id].manifest \in Manifest /\ ~Final(entries[id].manifest)
  BY <1>3, UnfinishedIs
<1>5. /\ disk' \in [Ids -> Bundle] /\ (\A k \in Ids \ {id} : disk'[k] = disk[k])
      /\ disk'[id].home = "staging" /\ disk'[id].pin = disk[id].pin
      /\ disk'[id].manifest = entries[id].manifest \/ disk'[id] = disk[id]
  BY <1>1, <1>3, <1>4, ManifestWritten DEF DiskElsewhere
<1>6. OnDisk(id)'
  <2>1. CASE disk'[id] = disk[id]
    BY <1>1, <1>2, <2>1, SameOnDisk
  <2>2. CASE disk'[id].manifest = entries[id].manifest
    BY <1>1, <1>2, <1>3, <1>4, <1>5, <2>2 DEF OnDisk, Prepared, Gone
  <2> QED
    BY <1>5, <2>1, <2>2
<1>7. Catalogued(id)' /\ Attempted(id)'
  <2>1. disk'[id].manifest.quarantined => entries[id].manifest.quarantined
    BY <1>2, <1>3, <1>5 DEF Attempted
  <2> QED
    BY <1>1, <1>2, <1>3, <1>5, <2>1, Rewritten
<1>8. \A k \in Ids \ {id} : Same(k)
  BY <1>1, <1>5 DEF Same, Leases
<1>9. Typed' /\ Holds'
  BY <1>1, <1>5, Released DEF Typed
<1>10. Pruning' /\ \A u \in Threads : Calling(u)'
  <2>1. \A k \in Ids : disk[k].home \in Gone => disk'[k].home \in Gone
    BY <1>3, <1>5 DEF Gone
  <2> QED
    BY <1>1, <2>1, PruningSame, CallsSame
<1> QED
  BY <1>1, <1>6, <1>7, <1>8, <1>9, <1>10, OpenStep

\* quarantine_locked() on the attempt of a writer, who keeps it or not.
LEMMA QuarantineLockedKept ==
  ASSUME IInv, up = "up", NEW id \in Ids, NEW active \in BOOLEAN, NEW result,
         QuarantineLocked(id, active, result), holding = NotHolding,
         entries[id].staged, writers[id] # Nobody,
         writers' \in [Ids -> Threads \cup {Nobody}],
         \A k \in Ids \ {id} : writers'[k] = writers[k], active <=> writers'[id] # Nobody,
         UNCHANGED <<clock, receipts, up, recovered, expirations, trash_usage, pruner, calls, held>>,
         \A u \in Threads : Calling(u)'
  PROVE  IInv'
<1> DEFINE m == Quarantined(entries[id].manifest)
<1>1. Typed /\ Catalogued(id) /\ Attempted(id) /\ OnDisk(id) /\ entries[id] \in Entry /\ Pruning
  BY Opened DEF IInv
<1>2. /\ entries[id].writer_active /\ entries[id].known /\ disk[id].home = "staging"
      /\ entries[id].manifest \in Unfinished /\ disk[id].pin # "none"
  BY <1>1 DEF Catalogued, Attempted
<1>3. m = Quarantined(Initial) /\ m \in Manifest /\ m \in Unfinished /\ m.quarantined
  BY <1>2, UnfinishedIs, Manifests DEF Unfinished
<1>4. /\ entries' = [entries EXCEPT ![id].pinned = TRUE, ![id].manifest = m,
                                    ![id].writer_active = active]
      /\ WritePin(id, TRUE, result)
      /\ \/ holding' = NotHolding
         \/ holding' = [op |-> "quarantine", id |-> id, thread |-> Nobody, manifest |-> m]
  BY DEF QuarantineLocked, Hold
<1> HIDE DEF m
<1>5. /\ disk' \in [Ids -> Bundle] /\ (\A k \in Ids \ {id} : disk'[k] = disk[k])
      /\ disk'[id].home = "staging" /\ disk'[id].manifest = disk[id].manifest
      /\ disk'[id].content = disk[id].content
      /\ disk'[id].pin = disk[id].pin \/ disk'[id].pin = "yes"
  BY <1>1, <1>2, <1>4, PinWritten DEF DiskElsewhere
<1>6. /\ entries' \in [Ids -> Entry] /\ (\A k \in Ids \ {id} : entries'[k] = entries[k])
      /\ entries'[id].known = entries[id].known /\ entries'[id].staged = entries[id].staged
      /\ entries'[id].leases = entries[id].leases /\ entries'[id].pinned
      /\ entries'[id].manifest = m /\ entries'[id].writer_active = active
  BY <1>1, <1>3, <1>4 DEF Typed, Entry
<1>7. OnDisk(id)'
  BY <1>1, <1>2, <1>5 DEF OnDisk, Prepared, Whole, Gone
<1>8. Catalogued(id)'
  <2>1. Leases(id)' = Leases(id)
    BY DEF Leases
  <2> QED
    BY <1>1, <1>2, <1>5, <1>6, <2>1 DEF Catalogued, Gone
<1>9. Attempted(id)'
  BY <1>1, <1>2, <1>3, <1>5, <1>6 DEF Attempted
<1>10. \A k \in Ids \ {id} : Same(k)
  BY <1>5, <1>6 DEF Same, Leases
<1>11. Typed'
  <2>1. holding' \in Holding
    <3>1. [op |-> "quarantine", id |-> id, thread |-> Nobody, manifest |-> m] \in Holding
      BY <1>3, HoldingIs
    <3> QED
      BY <1>4, <3>1, Nothings
  <2> QED
    BY <1>1, <1>5, <1>6, <2>1 DEF Typed
<1>12. Holds'
  <2>1. CASE holding' = NotHolding
    BY <2>1, Released
  <2>2. CASE holding' = [op |-> "quarantine", id |-> id, thread |-> Nobody, manifest |-> m]
    <3>1. holding'.op = "quarantine" /\ holding'.id = id /\ holding'.manifest = m
      BY <2>2
    <3> QED
      BY <1>3, <1>5, <1>6, <3>1 DEF Holds, HoldsBegin, HoldsAttempt, HoldsClaim
  <2> QED
    BY <1>4, <2>1, <2>2
<1>13. Pruning'
  <2>1. \A k \in Ids : disk[k].home \in Gone => disk'[k].home \in Gone
    BY <1>2, <1>5 DEF Gone
  <2> QED
    BY <1>1, <2>1, PruningSame
<1> QED
  BY <1>7, <1>8, <1>9, <1>10, <1>11, <1>12, <1>13, OpenStep

LEMMA QuarantineKept ==
  ASSUME IInv, NEW t \in Threads, NEW id \in Ids, NEW result, Quarantine(t, id, result)
  PROVE  IInv'
<1>1. /\ up = "up" /\ (\A u \in Threads : Calling(u)) /\ holding = NotHolding
      /\ writers[id] = t /\ entries[id].staged /\ QuarantineLocked(id, TRUE, result)
      /\ UNCHANGED <<clock, receipts, up, recovered, expirations, trash_usage, pruner, calls,
                     writers, held>>
      /\ writers \in [Ids -> Threads \cup {Nobody}]
  BY DEF Quarantine, Ask, Free, MutexFree, Owns, IInv, Typed
<1>2. \A u \in Threads : Calling(u)'
  BY <1>1, CallsSame
<1>3. writers[id] # Nobody
  BY <1>1, Identifiers
<1> QED
  BY <1>1, <1>2, <1>3, QuarantineLockedKept

LEMMA ReleaseWriterKept ==
  ASSUME IInv, NEW t \in Threads, NEW id \in Ids, NEW result, ReleaseWriter(t, id, result)
  PROVE  IInv'
<1>1. /\ up = "up" /\ Typed /\ Pruning /\ (\A u \in Threads : Calling(u)) /\ holding = NotHolding
      /\ calls[t] = Idle /\ writers[id] = t /\ writers' = [writers EXCEPT ![id] = Nobody]
      /\ IF entries[id].staged /\ ~entries[id].manifest.quarantined
         THEN QuarantineLocked(id, FALSE, result)
         ELSE /\ entries' = [entries EXCEPT ![id].writer_active = FALSE]
              /\ UNCHANGED <<disk, holding>>
      /\ UNCHANGED <<clock, receipts, up, recovered, expirations, trash_usage, pruner, calls, held>>
  BY DEF ReleaseWriter, Ask, Free, MutexFree, Owns, IInv
<1>2. /\ writers' \in [Ids -> Threads \cup {Nobody}] /\ writers'[id] = Nobody
      /\ (\A k \in Ids \ {id} : writers'[k] = writers[k]) /\ writers[id] # Nobody
  BY <1>1, Identifiers DEF Typed
<1>3. \A u \in Threads : Calling(u)'
  BY <1>1, <1>2, CallsOfOthers
<1>4. CASE entries[id].staged /\ ~entries[id].manifest.quarantined
  BY <1>1, <1>2, <1>3, <1>4, QuarantineLockedKept
<1>5. CASE ~(entries[id].staged /\ ~entries[id].manifest.quarantined)
  <2>1. Catalogued(id) /\ Attempted(id) /\ OnDisk(id) /\ entries[id] \in Entry
    BY <1>1, Opened
  <2>2. /\ entries' \in [Ids -> Entry] /\ (\A k \in Ids \ {id} : entries'[k] = entries[k])
        /\ entries'[id].known = entries[id].known /\ entries'[id].staged = entries[id].staged
        /\ entries'[id].leases = entries[id].leases /\ entries'[id].pinned = entries[id].pinned
        /\ entries'[id].manifest = entries[id].manifest /\ ~entries'[id].writer_active
    <3>1. entries \in [Ids -> Entry] /\ entries' = [entries EXCEPT ![id].writer_active = FALSE]
      BY <1>1, <1>5 DEF Typed
    <3> QED
      BY <2>1, <3>1 DEF Entry
  <2>3. OnDisk(id)'
    BY <1>1, <1>5, <2>1, SameOnDisk
  <2>4. Catalogued(id)'
    <3>1. Leases(id)' = Leases(id) /\ disk' = disk /\ expirations' = expirations
      BY <1>1, <1>5 DEF Leases
    <3> QED
      BY <1>2, <2>1, <2>2, <3>1 DEF Catalogued
  <2>5. Attempted(id)'
    <3>1. disk[id].home = "staging" => entries[id].manifest.quarantined
      BY <1>2, <1>5, <2>1 DEF Catalogued
    <3>2. disk' = disk /\ up' = up
      BY <1>1, <1>5
    <3> QED
      BY <2>1, <2>2, <3>1, <3>2 DEF Attempted
  <2>6. \A k \in Ids \ {id} : Same(k)
    BY <1>1, <1>2, <1>5, <2>2 DEF Same, Leases
  <2>7. Typed' /\ Holds' /\ Pruning'
    BY <1>1, <1>2, <1>5, <2>2, Released, PruningSame DEF Typed
  <2> QED
    BY <1>1, <1>3, <2>3, <2>4, <2>5, <2>6, <2>7, OpenStep
<1> QED
  BY <1>4, <1>5

LEMMA ResumeKept ==
  ASSUME IInv, NEW t \in Threads, NEW id \in Ids, Resume(t, id)
  PROVE  IInv'
<1>1. /\ up = "up" /\ Typed /\ Pruning /\ (\A u \in Threads : Calling(u)) /\ holding = NotHolding
      /\ calls[t] = Idle /\ writers' = [writers EXCEPT ![id] = t]
      /\ entries[id].known /\ entries[id].staged /\ entries[id].manifest.quarantined
      /\ ~entries[id].writer_active /\ entries' = [entries EXCEPT ![id].writer_active = TRUE]
      /\ UNCHANGED <<clock, disk, receipts, up, recovered, expirations, trash_usage, holding,
                     pruner, calls, held>>
  BY DEF Resume, Ask, Free, MutexFree, IInv
<1>2. Catalogued(id) /\ Attempted(id) /\ OnDisk(id) /\ entries[id] \in Entry
  BY <1>1, Opened
<1>3. /\ entries' \in [Ids -> Entry] /\ (\A k \in Ids \ {id} : entries'[k] = entries[k])
      /\ entries'[id].known = entries[id].known /\ entries'[id].staged = entries[id].staged
      /\ entries'[id].leases = entries[id].leases /\ entries'[id].pinned = entries[id].pinned
      /\ entries'[id].manifest = entries[id].manifest /\ entries'[id].writer_active
  BY <1>1, <1>2 DEF Typed, Entry
<1>4. /\ writers[id] = Nobody /\ t # Nobody /\ writers'[id] = t
      /\ writers' \in [Ids -> Threads \cup {Nobody}] /\ \A k \in Ids \ {id} : writers'[k] = writers[k]
  BY <1>1, <1>2, Identifiers DEF Typed, Catalogued
<1>5. OnDisk(id)'
  BY <1>1, <1>2, SameOnDisk
<1>6. Catalogued(id)'
  <2>1. Leases(id)' = Leases(id) /\ disk' = disk /\ expirations' = expirations
    BY <1>1 DEF Leases
  <2> QED
    BY <1>1, <1>2, <1>3, <1>4, <2>1 DEF Catalogued
<1>7. Attempted(id)'
  BY <1>1, <1>2, <1>3 DEF Attempted
<1>8. \A k \in Ids \ {id} : Same(k)
  BY <1>1, <1>3, <1>4 DEF Same, Leases
<1>9. \A u \in Threads : Calling(u)'
  BY <1>1, <1>4, CallsOfOthers
<1>10. Typed' /\ Holds' /\ Pruning'
  BY <1>1, <1>3, <1>4, Released, PruningSame DEF Typed
<1> QED
  BY <1>1, <1>5, <1>6, <1>7, <1>8, <1>9, <1>10, OpenStep

\* The rest of quarantine_locked(), in an open store or in recover().
LEMMA QuarantineManifestKept ==
  ASSUME IInv, NEW result, QuarantineManifest(result)
  PROVE  IInv'
<1> DEFINE m == Quarantined(Initial)
<1>0. holding.op = "quarantine"
  BY DEF QuarantineManifest
<1>1. PICK id \in Ids : id = holding.id
  BY <1>0, HolderIs
<1>2. /\ Typed /\ Pruning /\ Closed /\ Holds /\ (\A u \in Threads : Calling(u)) /\ clock' = clock
      /\ UNCHANGED <<receipts, recovered, entries, expirations, trash_usage, pruner, calls,
                     writers, held>>
      /\ WriteManifest(id, holding.manifest, result) /\ holding' = NotHolding
      /\ up' = IF up # "up" /\ Throws(result) THEN "down" ELSE up
      /\ holding # NotHolding
  BY <1>0, <1>1, Nothings DEF QuarantineManifest, IInv
<1>3. /\ disk[id].home = "staging" /\ entries[id].manifest = m /\ holding.manifest = m
      /\ up = "staging" => id \in recovered
  BY <1>0, <1>1, <1>2 DEF Holds, HoldsAttempt
<1>4. m \in Manifest /\ ~Final(m) /\ m.quarantined /\ m \in Unfinished
  BY Manifests DEF Unfinished
<1> HIDE DEF m
<1>5. up \in {"up", "staging"} /\ Read(id)
  BY <1>2, <1>3 DEF Closed, Read
<1>6. OnDisk(id) /\ Recovery(id) /\ Catalogued(id) /\ Attempted(id)
  BY <1>5 DEF IInv, Recovery
<1>7. /\ disk' \in [Ids -> Bundle] /\ (\A k \in Ids \ {id} : disk'[k] = disk[k])
      /\ disk'[id].home = "staging" /\ disk'[id].pin = disk[id].pin
      /\ disk'[id].manifest = m \/ disk'[id] = disk[id]
  BY <1>2, <1>3, <1>4, ManifestWritten DEF DiskElsewhere
<1>8. OnDisk(id)'
  <2>1. CASE disk'[id] = disk[id]
    BY <1>2, <1>6, <2>1, SameOnDisk
  <2>2. CASE disk'[id].manifest = m
    BY <1>2, <1>3, <1>4, <1>6, <1>7, <2>2 DEF OnDisk, Prepared, Gone
  <2> QED
    BY <1>7, <2>1, <2>2
<1>9. \A k \in Ids : OnDisk(k)' /\ Recovery(k)'
  <2>1. CASE up' = up
    <3>1. Catalogued(id)' /\ Attempted(id)'
      BY <1>2, <1>3, <1>4, <1>6, <1>7, <2>1, Rewritten
    <3>2. Read(id)' /\ up' # "bundles"
      BY <1>2, <1>3, <1>5, <2>1 DEF Read
    <3>3. Recovery(id)'
      BY <3>1, <3>2 DEF Recovery
    <3>4. \A k \in Ids \ {id} : Same(k)
      BY <1>2, <1>7 DEF Same, Leases
    <3> QED
      BY <1>8, <2>1, <3>3, <3>4, Elsewhere DEF IInv
  <2>2. CASE up' = "down"
    <3>1. \A k \in Ids : Recovery(k)'
      BY <2>2 DEF Recovery, Read
    <3>2. \A k \in Ids \ {id} : OnDisk(k)'
      BY <1>2, <1>7, SameOnDisk DEF IInv
    <3> QED
      BY <1>8, <3>1, <3>2
  <2> QED
    BY <1>2, <2>1, <2>2
<1>10. Typed' /\ Holds'
  BY <1>2, <1>7, Nothings, Released DEF Typed
<1>11. Closed'
  BY <1>2, <1>5 DEF Closed
<1>12. Pruning' /\ \A u \in Threads : Calling(u)'
  <2>1. \A k \in Ids : disk[k].home \in Gone => disk'[k].home \in Gone
    BY <1>3, <1>7 DEF Gone
  <2> QED
    BY <1>2, <2>1, PruningSame, CallsSame
<1> QED
  BY <1>9, <1>10, <1>11, <1>12 DEF IInv

-----------------------------------------------------------------------------
(* Publication.                                                            *)

\* finalize_locked() by the writer, up to the manifest.
LEMMA FinalizeKept ==
  ASSUME IInv, up = "up", NEW t \in Threads, NEW id \in Ids,
         NEW success \in BOOLEAN, NEW completed \in Nat,
         writers[id] = t, Publishable(id, success), Finalize(t, id, success, completed),
         UNCHANGED <<clock, disk, receipts, up, recovered, entries, expirations, trash_usage,
                     pruner, writers, held>>,
         calls' \in [Threads -> Call], \A u \in Threads : Calling(u)'
  PROVE  IInv'
<1> DEFINE m == FinalManifest(id, success, completed)
<1>1. Typed /\ Catalogued(id) /\ Pruning /\ \A k \in Ids : OnDisk(k) /\ Recovery(k)
  BY Opened DEF IInv
<1>2. t # Nobody /\ entries[id].staged /\ (success => disk[id].content > 0)
  BY Identifiers DEF Publishable
<1>3. disk[id].home = "staging"
  BY <1>1, <1>2 DEF Catalogued
<1>4. /\ m \in Manifest /\ Final(m) /\ m.files = disk[id].content
      /\ m.status = "complete" <=> success
  BY <1>1, FinalIs
<1>5. holding' = [op |-> "commit", id |-> id, thread |-> t, manifest |-> m]
  BY DEF Finalize, Hold
<1> HIDE DEF m
<1>6. holding' \in Holding
  BY <1>4, <1>5, HoldingIs
<1>7. Typed'
  BY <1>1, <1>6 DEF Typed
<1>8. Holds'
  BY <1>2, <1>3, <1>4, <1>5 DEF Holds, HoldsBegin, HoldsAttempt, HoldsClaim
<1>9. Pruning' /\ Closed'
  BY <1>1, PruningSame, OpenNotClosed
<1>10. \A k \in Ids : OnDisk(k)' /\ Recovery(k)'
  BY <1>1, Nowhere
<1> QED
  BY <1>7, <1>8, <1>9, <1>10 DEF IInv

LEMMA PublishFailureKept ==
  ASSUME IInv, NEW t \in Threads, NEW id \in Ids, PublishFailure(t, id)
  PROVE  IInv'
<1>1. /\ up = "up" /\ (\A u \in Threads : Calling(u))
      /\ writers[id] = t /\ Publishable(id, FALSE) /\ Finalize(t, id, FALSE, clock)
      /\ UNCHANGED <<clock, disk, receipts, up, recovered, entries, expirations, trash_usage,
                     pruner, calls, writers, held>>
      /\ calls \in [Threads -> Call] /\ clock \in Nat
  BY DEF PublishFailure, Ask, Free, MutexFree, Owns, IInv, Typed
<1>2. \A u \in Threads : Calling(u)'
  BY <1>1, CallsSame
<1> QED
  BY <1>1, <1>2, FinalizeKept

LEMMA FinalizeSuccessKept ==
  ASSUME IInv, NEW t \in Threads, FinalizeSuccess(t)
  PROVE  IInv'
<1>1. /\ MutexFree /\ Typed /\ Pruning /\ (\A u \in Threads : Calling(u))
      /\ calls[t].at = "finalize" /\ calls' = [calls EXCEPT ![t] = Idle]
      /\ UNCHANGED <<clock, disk, receipts, up, recovered, entries, expirations, trash_usage,
                     pruner, writers, held>>
      /\ \/ /\ Publishable(calls[t].id, TRUE)
            /\ Finalize(t, calls[t].id, TRUE, calls[t].completed)
         \/ UNCHANGED holding
  BY DEF FinalizeSuccess, IInv
<1>2. calls[t] \in Call /\ Calling(t)
  BY <1>1 DEF Typed
<1>3. PICK id \in Ids : id = calls[t].id
  BY <1>1, <1>2 DEF Calling
<1>4. writers[id] = t /\ calls[t].completed \in Nat
  BY <1>1, <1>2, <1>3 DEF Calling, Call
<1>5. calls' \in [Threads -> Call] /\ \A u \in Threads : Calling(u)'
  BY <1>1, CallReturns
<1>6. CASE Publishable(id, TRUE) /\ Finalize(t, id, TRUE, calls[t].completed)
  BY <1>1, <1>4, <1>5, <1>6, FinalizeKept DEF MutexFree
<1>7. CASE UNCHANGED holding
  <2>1. Pruning'
    BY <1>1, PruningSame
  <2> QED
    BY <1>1, <1>5, <1>7, <2>1, Between DEF Typed
<1> QED
  BY <1>1, <1>3, <1>6, <1>7

\* The manifest, which commits the outcome.
LEMMA FinalizeCommitKept ==
  ASSUME IInv, NEW result, FinalizeCommit(result)
  PROVE  IInv'
<1>0. holding.op = "commit" /\ up = "up"
  BY HolderIs DEF FinalizeCommit
<1>1. PICK id \in Ids : id = holding.id
  BY <1>0, HolderIs
<1> DEFINE m == holding.manifest
<1>2. /\ Typed /\ Pruning /\ Holds /\ (\A u \in Threads : Calling(u)) /\ clock' = clock
      /\ UNCHANGED <<receipts, up, recovered, entries, expirations, trash_usage, pruner, calls,
                     writers, held>>
      /\ WriteManifest(id, m, result)
      /\ holding' = IF Throws(result) THEN NotHolding ELSE [holding EXCEPT !.op = "finalize"]
  BY <1>1 DEF FinalizeCommit, IInv
<1>3. Catalogued(id) /\ Attempted(id) /\ OnDisk(id)
  BY <1>0, Opened
<1>4. /\ disk[id].home = "staging" /\ writers[id] # Nobody /\ Final(m) /\ m \in Manifest
      /\ m.files = disk[id].content /\ (m.status = "complete" => disk[id].content > 0)
  BY <1>0, <1>1, <1>2 DEF Holds, HoldsAttempt, Typed, Holding
<1>5. entries[id].writer_active /\ disk[id].pin # "none" /\ ~m.quarantined
  BY <1>3, <1>4 DEF Catalogued, Attempted, Final
<1>6. \/ holding' = NotHolding
      \/ /\ ~Throws(result) /\ holding'.op = "finalize" /\ holding'.id = id
         /\ holding'.manifest = m /\ holding' \in Holding
  BY <1>1, <1>2 DEF Typed, Holding
<1> HIDE DEF m
<1>7. /\ disk' \in [Ids -> Bundle] /\ (\A k \in Ids \ {id} : disk'[k] = disk[k])
      /\ disk'[id].home = "staging" /\ disk'[id].pin = disk[id].pin
      /\ disk'[id].content = disk[id].content
      /\ disk'[id].manifest = m \/ disk'[id] = disk[id]
      /\ ~Throws(result) => disk'[id].manifest = m
  BY <1>2, <1>4, ManifestWritten DEF DiskElsewhere
<1>8. OnDisk(id)'
  <2>1. CASE disk'[id] = disk[id]
    BY <1>2, <1>3, <2>1, SameOnDisk
  <2>2. CASE disk'[id].manifest = m
    BY <1>2, <1>3, <1>4, <1>5, <1>7, <2>2 DEF OnDisk, Prepared, Whole, Gone
  <2> QED
    BY <1>7, <2>1, <2>2
<1>9. Catalogued(id)' /\ Attempted(id)'
  <2>1. disk'[id].manifest.quarantined => entries[id].manifest.quarantined
    BY <1>3, <1>4, <1>5, <1>7 DEF Attempted
  <2> QED
    BY <1>2, <1>3, <1>4, <1>5, <1>7, <2>1, Rewritten
<1>10. \A k \in Ids \ {id} : Same(k)
  BY <1>2, <1>7 DEF Same, Leases
<1>11. Typed'
  BY <1>2, <1>6, <1>7, Nothings DEF Typed
<1>12. Holds'
  <2>1. CASE holding' = NotHolding
    BY <2>1, Released
  <2>2. CASE ~Throws(result) /\ holding'.op = "finalize" /\ holding'.id = id /\ holding'.manifest = m
    <3>1. disk'[id].manifest = m /\ Whole(id)'
      BY <1>4, <1>5, <1>7, <2>2 DEF Whole
    <3>2. writers'[id] # Nobody
      BY <1>2, <1>4
    <3> QED
      BY <1>4, <1>7, <2>2, <3>1, <3>2 DEF Holds, HoldsBegin, HoldsAttempt, HoldsClaim
  <2> QED
    BY <1>6, <2>1, <2>2
<1>13. Pruning' /\ \A u \in Threads : Calling(u)'
  <2>1. \A k \in Ids : disk[k].home \in Gone => disk'[k].home \in Gone
    BY <1>4, <1>7 DEF Gone
  <2> QED
    BY <1>2, <2>1, PruningSame, CallsSame
<1> QED
  BY <1>0, <1>2, <1>8, <1>9, <1>10, <1>11, <1>12, <1>13, OpenStep

LEMMA FinalizeRenameKept ==
  ASSUME IInv, NEW result, FinalizeRename(result)
  PROVE  IInv'
<1>0. holding.op = "finalize" /\ up = "up"
  BY HolderIs DEF FinalizeRename
<1>1. PICK id \in Ids : id = holding.id
  BY <1>0, HolderIs
<1> DEFINE m == holding.manifest
           e == [entries[id] EXCEPT !.manifest = m, !.staged = FALSE]
<1>2. /\ Typed /\ Pruning /\ Holds /\ (\A u \in Threads : Calling(u)) /\ clock' = clock
      /\ UNCHANGED <<receipts, up, recovered, expirations, trash_usage, pruner, calls,
                     writers, held>>
      /\ Move(id, "bundles", result) /\ holding' = NotHolding
  BY <1>1 DEF FinalizeRename, IInv
<1>3. /\ disk[id].home = "staging" /\ disk[id].manifest = m /\ Final(m) /\ Whole(id)
      /\ m \in Manifest
  BY <1>0, <1>1, <1>2 DEF Holds, HoldsAttempt, Typed, Holding
<1>4. /\ Catalogued(id) /\ Attempted(id) /\ OnDisk(id) /\ entries[id] \in Entry
      /\ entries \in [Ids -> Entry]
  BY <1>0, <1>2, Opened DEF Typed
<1>5. /\ disk' \in [Ids -> Bundle] /\ (\A k \in Ids \ {id} : disk'[k] = disk[k])
      /\ disk'[id].pin = disk[id].pin /\ disk'[id].manifest = disk[id].manifest
      /\ disk'[id].content = disk[id].content
      /\ IF Lands(result) THEN disk'[id].home = "bundles" ELSE disk'[id] = disk[id]
  BY <1>2, MovedTo DEF DiskElsewhere, Homes
<1>6. /\ entries' \in [Ids -> Entry] /\ (\A k \in Ids \ {id} : entries'[k] = entries[k])
      /\ IF Lands(result)
         THEN /\ entries'[id].known = entries[id].known /\ ~entries'[id].staged
              /\ entries'[id].pinned = entries[id].pinned /\ entries'[id].manifest = m
              /\ entries'[id].leases = entries[id].leases
              /\ entries'[id].writer_active = entries[id].writer_active
         ELSE entries' = entries
  <2>1. CASE Lands(result)
    <3>1. entries' = [entries EXCEPT ![id].manifest = m, ![id].staged = FALSE]
      BY <1>1, <2>1 DEF FinalizeRename
    <3> HIDE DEF m
    <3> QED
      BY <1>3, <1>4, <2>1, <3>1 DEF Entry
  <2>2. CASE ~Lands(result)
    <3>1. entries' = entries
      BY <2>2 DEF FinalizeRename
    <3> QED
      BY <1>4, <2>2, <3>1
  <2> QED
    BY <2>1, <2>2
<1> HIDE DEF m
<1>7. OnDisk(id)' /\ Catalogued(id)' /\ Attempted(id)'
  <2>1. Leases(id)' = Leases(id)
    BY <1>2 DEF Leases
  <2>2. CASE Lands(result)
    <3>1. OnDisk(id)'
      BY <1>2, <1>3, <1>4, <1>5, <2>2 DEF OnDisk, Prepared, Whole, Gone
    <3>2. Catalogued(id)'
      BY <1>2, <1>3, <1>4, <1>5, <1>6, <2>1, <2>2 DEF Catalogued, Gone
    <3>3. Attempted(id)'
      BY <1>5, <2>2 DEF Attempted
    <3> QED
      BY <3>1, <3>2, <3>3
  <2>3. CASE ~Lands(result)
    <3>1. disk'[id] = disk[id] /\ entries' = entries
      BY <1>5, <1>6, <2>3
    <3>2. OnDisk(id)'
      BY <1>2, <1>4, <3>1, SameOnDisk
    <3> QED
      BY <1>2, <1>4, <2>1, <3>1, <3>2 DEF Catalogued, Attempted
  <2> QED
    BY <2>2, <2>3
<1>8. \A k \in Ids \ {id} : Same(k)
  BY <1>2, <1>5, <1>6 DEF Same, Leases
<1>9. Typed' /\ Holds'
  BY <1>2, <1>5, <1>6, Nothings, Released DEF Typed
<1>10. Pruning' /\ \A u \in Threads : Calling(u)'
  <2>1. \A k \in Ids : disk[k].home \in Gone => disk'[k].home \in Gone
    BY <1>3, <1>5 DEF Gone
  <2> QED
    BY <1>2, <2>1, PruningSame, CallsSame
<1> QED
  BY <1>0, <1>2, <1>7, <1>8, <1>9, <1>10, OpenStep

-----------------------------------------------------------------------------
(* Pins and leases.                                                        *)

LEMMA PinKept ==
  ASSUME IInv, NEW t \in Threads, NEW id \in Ids, NEW pinned \in BOOLEAN, NEW result,
         Pin(t, id, pinned, result)
  PROVE  IInv'
<1> DEFINE p == pinned \/ Throws(result)
<1>1. /\ up = "up" /\ Typed /\ Pruning /\ (\A u \in Threads : Calling(u)) /\ holding = NotHolding
      /\ entries[id].known /\ (~pinned => ~entries[id].manifest.quarantined)
      /\ WritePin(id, pinned, result) /\ entries' = [entries EXCEPT ![id].pinned = p]
      /\ UNCHANGED <<clock, receipts, up, recovered, expirations, trash_usage, holding, pruner,
                     calls, writers, held>>
  BY DEF Pin, Ask, Free, MutexFree, IInv
<1>2. p \in BOOLEAN /\ (pinned => p) /\ (~pinned /\ p => Throws(result)) /\ (Throws(result) => p)
  BY DEF Throws
<1> HIDE DEF p
<1>3. Catalogued(id) /\ Attempted(id) /\ OnDisk(id) /\ entries[id] \in Entry
  BY <1>1, Opened
<1>4. disk[id].home \in {"staging", "bundles"}
  BY <1>1, <1>3 DEF Catalogued
<1>5. /\ disk' \in [Ids -> Bundle] /\ (\A k \in Ids \ {id} : disk'[k] = disk[k])
      /\ disk'[id].home = disk[id].home /\ disk'[id].manifest = disk[id].manifest
      /\ disk'[id].content = disk[id].content
      /\ disk'[id].pin = disk[id].pin \/ disk'[id].pin = IF pinned THEN "yes" ELSE "no"
      /\ ~Throws(result) => disk'[id].pin = IF pinned THEN "yes" ELSE "no"
  BY <1>1, PinWritten DEF DiskElsewhere
<1>6. /\ entries' \in [Ids -> Entry] /\ (\A k \in Ids \ {id} : entries'[k] = entries[k])
      /\ entries'[id].known = entries[id].known /\ entries'[id].staged = entries[id].staged
      /\ entries'[id].leases = entries[id].leases /\ entries'[id].manifest = entries[id].manifest
      /\ entries'[id].writer_active = entries[id].writer_active /\ entries'[id].pinned = p
  BY <1>1, <1>2, <1>3 DEF Typed, Entry
<1>7. disk[id].pin # "none" => disk'[id].pin # "none"
  BY <1>5
<1>8. disk'[id].pin = "yes" => p
  BY <1>2, <1>5
<1>9. OnDisk(id)'
  BY <1>1, <1>3, <1>4, <1>5, <1>7 DEF OnDisk, Prepared, Whole, Gone
<1>10. Catalogued(id)'
  <2>1. Leases(id)' = Leases(id) /\ writers' = writers /\ expirations' = expirations
    BY <1>1 DEF Leases
  <2> QED
    BY <1>3, <1>5, <1>6, <1>8, <2>1 DEF Catalogued
<1>11. Attempted(id)'
  BY <1>1, <1>2, <1>3, <1>5, <1>6, <1>7 DEF Attempted
<1>12. \A k \in Ids \ {id} : Same(k)
  BY <1>1, <1>5, <1>6 DEF Same, Leases
<1>13. Typed' /\ Holds'
  BY <1>1, <1>5, <1>6, Released DEF Typed
<1>14. Pruning' /\ \A u \in Threads : Calling(u)'
  <2>1. \A k \in Ids : disk[k].home \in Gone => disk'[k].home \in Gone
    BY <1>5
  <2> QED
    BY <1>1, <2>1, PruningSame, CallsSame
<1> QED
  BY <1>1, <1>9, <1>10, <1>11, <1>12, <1>13, <1>14, OpenStep

LEMMA LeasesFinite ==
  ASSUME NEW id \in Ids
  PROVE  IsFiniteSet(Leases(id)) /\ Cardinality(Leases(id)) \in Nat
<1>1. Leases(id) \subseteq Threads
  BY DEF Leases
<1> QED
  BY <1>1, Identifiers, FS_Subset, FS_CardinalityType

\* What a lease that is taken or given back does not change.
LEMMA LeaseStep ==
  ASSUME IInv, up = "up", holding = NotHolding, NEW t \in Threads, NEW id \in Ids,
         NEW leases \in Nat, disk[id].home = "bundles",
         entries' = [entries EXCEPT ![id].leases = leases],
         leases = Cardinality(Leases(id)'), held' \in [Threads -> Ids \cup {NoId}],
         \A k \in Ids \ {id} : Leases(k)' = Leases(k),
         UNCHANGED <<clock, disk, receipts, up, recovered, expirations, trash_usage, holding,
                     pruner, calls, writers>>
  PROVE  IInv'
<1>1. /\ Typed /\ Catalogued(id) /\ Attempted(id) /\ OnDisk(id) /\ entries[id] \in Entry
      /\ Pruning /\ \A u \in Threads : Calling(u)
  BY Opened DEF IInv
<1>2. /\ entries' \in [Ids -> Entry] /\ (\A k \in Ids \ {id} : entries'[k] = entries[k])
      /\ entries'[id].known = entries[id].known /\ entries'[id].staged = entries[id].staged
      /\ entries'[id].leases = leases /\ entries'[id].manifest = entries[id].manifest
      /\ entries'[id].writer_active = entries[id].writer_active
      /\ entries'[id].pinned = entries[id].pinned
  BY <1>1 DEF Typed, Entry
<1>3. OnDisk(id)'
  BY <1>1, SameOnDisk
<1>4. Catalogued(id)' /\ Attempted(id)'
  <2>1. disk' = disk /\ writers' = writers /\ expirations' = expirations
    OBVIOUS
  <2> QED
    BY <1>1, <1>2, <2>1 DEF Catalogued, Attempted
<1>5. \A k \in Ids \ {id} : Same(k)
  BY <1>2 DEF Same
<1>6. Typed' /\ Holds'
  BY <1>1, <1>2, Released DEF Typed
<1>7. Pruning' /\ \A u \in Threads : Calling(u)'
  BY <1>1, PruningSame, CallsSame
<1> QED
  BY <1>3, <1>4, <1>5, <1>6, <1>7, OpenStep

LEMMA LeaseKept ==
  ASSUME IInv, NEW t \in Threads, NEW id \in Ids, Lease(t, id)
  PROVE  IInv'
<1>1. /\ up = "up" /\ holding = NotHolding /\ held[t] = NoId /\ entries[id].known
      /\ ~entries[id].staged /\ entries' = [entries EXCEPT ![id].leases = entries[id].leases + 1]
      /\ held' = [held EXCEPT ![t] = id] /\ held \in [Threads -> Ids \cup {NoId}]
      /\ UNCHANGED <<clock, disk, receipts, up, recovered, expirations, trash_usage, holding,
                     pruner, calls, writers>>
  BY DEF Lease, Ask, Free, MutexFree, IInv, Typed
<1>2. Catalogued(id) /\ entries[id] \in Entry
  BY <1>1, Opened
<1>3. disk[id].home = "bundles" /\ entries[id].leases = Cardinality(Leases(id))
  BY <1>1, <1>2 DEF Catalogued
<1>4. NoId \notin Ids
  BY Identifiers
<1>5. t \notin Leases(id) /\ Leases(id)' = Leases(id) \cup {t}
  BY <1>1, <1>4 DEF Leases
<1>6. \A k \in Ids \ {id} : Leases(k)' = Leases(k)
  BY <1>1, <1>4 DEF Leases
<1>7. Cardinality(Leases(id)') = entries[id].leases + 1
  <2>1. IsFiniteSet(Leases(id))
    BY LeasesFinite
  <2>2. Cardinality(Leases(id) \cup {t}) = Cardinality(Leases(id)) + 1
    BY <1>5, <2>1, FS_AddElement
  <2> QED
    BY <1>3, <1>5, <2>2
<1>8. entries[id].leases + 1 \in Nat /\ held' \in [Threads -> Ids \cup {NoId}]
  BY <1>1, <1>2 DEF Entry
<1> QED
  BY <1>1, <1>3, <1>6, <1>7, <1>8, LeaseStep

LEMMA ReleaseLeaseKept ==
  ASSUME IInv, NEW t \in Threads, ReleaseLease(t)
  PROVE  IInv'
<1>1. /\ up = "up" /\ holding = NotHolding /\ held[t] # NoId
      /\ held' = [held EXCEPT ![t] = NoId] /\ held \in [Threads -> Ids \cup {NoId}]
      /\ UNCHANGED <<clock, disk, receipts, up, recovered, expirations, trash_usage, holding,
                     pruner, calls, writers>>
  BY DEF ReleaseLease, Ask, Free, MutexFree, IInv, Typed
<1>2. PICK id \in Ids : id = held[t]
  BY <1>1
<1>3. entries' = [entries EXCEPT ![id].leases = entries[id].leases - 1]
  BY <1>2 DEF ReleaseLease
<1>4. Catalogued(id) /\ entries[id] \in Entry
  BY <1>1, Opened
<1>5. NoId \notin Ids
  BY Identifiers
<1>6. t \in Leases(id) /\ Leases(id)' = Leases(id) \ {t}
  BY <1>1, <1>2, <1>5 DEF Leases
<1>7. \A k \in Ids \ {id} : Leases(k)' = Leases(k)
  BY <1>1, <1>2, <1>5 DEF Leases
<1>8. Cardinality(Leases(id)') = Cardinality(Leases(id)) - 1 /\ Cardinality(Leases(id)') \in Nat
  <2>1. IsFiniteSet(Leases(id)) /\ Leases(id) \ {t} \subseteq Leases(id)
    BY LeasesFinite
  <2> QED
    BY <1>6, <2>1, FS_RemoveElement, FS_Subset, FS_CardinalityType
<1>9. /\ entries[id].leases - 1 \in Nat /\ entries[id].leases - 1 = Cardinality(Leases(id)')
      /\ entries[id].leases > 0
  <2>1. entries[id].leases = Cardinality(Leases(id)) /\ entries[id].leases \in Nat
    BY <1>4 DEF Catalogued, Entry
  <2> QED
    BY <1>8, <2>1
<1>10. disk[id].home = "bundles" /\ held' \in [Threads -> Ids \cup {NoId}]
  BY <1>1, <1>4, <1>9 DEF Catalogued
<1> QED
  BY <1>1, <1>3, <1>7, <1>9, <1>10, LeaseStep

-----------------------------------------------------------------------------
(* The process dies and recover() begins.                                  *)

LEMMA BlankKept ==
  ASSUME IInv, NEW phase \in {"down", "bundles"}, Blank(phase),
         UNCHANGED <<clock, disk, receipts>>, phase = "bundles" => expirations' = receipts
  PROVE  IInv'
<1>1. Typed'
  BY Nothings DEF IInv, Typed, Blank
<1>2. Holds'
  BY Released DEF Blank
<1>3. Pruning'
  BY DEF Blank, Pruning, NoPruner
<1>4. Closed' /\ \A t \in Threads : Calling(t)'
  BY Nothings DEF Blank, Closed, Calling
<1>5. ASSUME NEW k \in Ids PROVE OnDisk(k)' /\ Recovery(k)'
  <2>1. OnDisk(k)'
    BY SameOnDisk DEF IInv
  <2>2. ~Read(k)' /\ entries'[k] = NoEntry /\ k \notin recovered'
    BY DEF Blank, Read
  <2>3. up' = phase
    BY DEF Blank
  <2>4. Recovery(k)'
    BY <2>2, <2>3 DEF Recovery
  <2> QED
    BY <2>1, <2>4
<1> QED
  BY <1>1, <1>2, <1>3, <1>4, <1>5 DEF IInv

LEMMA CrashKept == ASSUME IInv, Crash PROVE IInv'
BY BlankKept DEF Crash

LEMMA StartKept == ASSUME IInv, Start PROVE IInv'
BY BlankKept DEF Start

-----------------------------------------------------------------------------
(* recover().                                                              *)

\* While it runs nobody owns or leases anything.
LEMMA Unowned ==
  ASSUME IInv, up # "up", NEW id \in Ids
  PROVE  /\ writers[id] = Nobody /\ Leases(id) = {} /\ Cardinality(Leases(id)) = 0
<1>1. writers[id] = Nobody /\ \A t \in Threads : held[t] = NoId
  BY DEF IInv, Closed
<1>2. Leases(id) = {}
  BY <1>1, Identifiers DEF Leases
<1> QED
  BY <1>1, <1>2, FS_EmptySet

\* A step of recover() at one bundle; an error of the disk ends the process.
LEMMA RecoveryStep ==
  ASSUME IInv, up \in {"bundles", "staging", "trash"}, up' \in {"down", up}, NEW id \in Ids,
         UNCHANGED <<clock, pruner, calls, writers, held>>,
         disk' \in [Ids -> Bundle], entries' \in [Ids -> Entry], trash_usage' \in [Ids -> Nat],
         holding' \in Holding, Holds',
         holding' # NotHolding => holding'.op = "quarantine" /\ up' = "staging",
         \A k \in Ids : trash_usage'[k] # 0 => disk'[k].home \in Gone,
         \A k \in Ids \ {id} : Same(k), OnDisk(id)', up' = up => Recovery(id)'
  PROVE  IInv'
<1>1. Typed /\ Closed /\ (\A t \in Threads : Calling(t)) /\ pruner = NoPruner
  BY DEF IInv, Closed
<1>2. Typed'
  BY <1>1 DEF Typed
<1>3. \A k \in Ids : OnDisk(k)' /\ Recovery(k)'
  <2>1. CASE up' = up
    BY <2>1, Elsewhere DEF IInv
  <2>2. CASE up' = "down"
    <3>1. \A k \in Ids : Recovery(k)'
      BY <2>2 DEF Recovery, Read
    <3>2. \A k \in Ids \ {id} : OnDisk(k)'
      BY SameOnDisk DEF IInv, Same
    <3> QED
      BY <3>1, <3>2
  <2> QED
    BY <2>1, <2>2
<1>4. Pruning'
  BY <1>1 DEF Pruning, NoPruner
<1>5. Closed' /\ \A t \in Threads : Calling(t)'
  BY <1>1, CallsSame DEF Closed
<1> QED
  BY <1>2, <1>3, <1>4, <1>5 DEF IInv

LEMMA RefuseKept ==
  ASSUME IInv, up \in {"bundles", "staging", "trash"}, holding = NotHolding, Rewrites,
         NEW result, Refuse(result)
  PROVE  IInv'
<1>1. /\ Typed /\ Pruning /\ Closed /\ (\A t \in Threads : Calling(t)) /\ up' = "refused"
      /\ UNCHANGED <<clock, disk, receipts, recovered, entries, expirations, trash_usage, holding,
                     pruner, calls, writers, held>>
  BY DEF IInv, Refuse
<1>2. Typed' /\ Holds'
  BY <1>1, Released DEF Typed
<1>3. \A k \in Ids : Recovery(k)'
  BY <1>1 DEF Recovery, Read
<1>4. \A k \in Ids : OnDisk(k)'
  BY <1>1, SameOnDisk DEF IInv
<1>5. Closed'
  BY <1>1 DEF Closed
<1>6. Pruning' /\ \A t \in Threads : Calling(t)'
  BY <1>1, PruningSame, CallsSame
<1> QED
  BY <1>2, <1>3, <1>4, <1>5, <1>6 DEF IInv

LEMMA KnownIs ==
  ASSUME Typed, NEW id \in Ids, NEW staged \in BOOLEAN
  PROVE  /\ Known(id, staged) \in Entry /\ Known(id, staged).known
         /\ Known(id, staged).manifest = disk[id].manifest
         /\ Known(id, staged).pinned <=> disk[id].pin = "yes"
         /\ Known(id, staged).staged = staged /\ Known(id, staged).leases = 0
         /\ ~Known(id, staged).writer_active
BY DEF Known, NoEntry, Entry, Typed, Bundle

\* The bundle is published once it is in bundles/ and in the catalogue.
LEMMA RecoveredBundle ==
  ASSUME IInv, up \in {"bundles", "staging"}, up' = up, NEW id \in Ids, UNCHANGED <<writers, held>>,
         disk'[id].home = "bundles", disk'[id].manifest = disk[id].manifest,
         disk'[id].pin = disk[id].pin, entries'[id] = Known(id, FALSE),
         id \in recovered', id \notin expirations'
  PROVE  Recovery(id)'
<1>1. Typed /\ writers'[id] = Nobody /\ Leases(id)' = Leases(id) /\ Cardinality(Leases(id)) = 0
  BY Unowned DEF IInv, Leases
<1> DEFINE e == Known(id, FALSE)
<1>2. /\ e.known /\ e.manifest = disk[id].manifest /\ (e.pinned <=> disk[id].pin = "yes")
      /\ ~e.staged /\ e.leases = 0 /\ ~e.writer_active
  BY <1>1, KnownIs
<1> HIDE DEF e
<1>3. entries'[id] = e
  BY DEF e
<1>4. Catalogued(id)'
  BY <1>1, <1>2, <1>3 DEF Catalogued, Gone
<1>5. Attempted(id)'
  BY DEF Attempted
<1>6. Read(id)'
  BY DEF Read
<1> QED
  BY <1>4, <1>5, <1>6 DEF Recovery

LEMMA RecoverBundleKept ==
  ASSUME IInv, NEW id \in Ids, NEW result, RecoverBundle(id, result)
  PROVE  IInv'
<1>1. /\ up = "bundles" /\ holding = NotHolding /\ disk[id].home = "bundles" /\ Typed /\ Pruning
      /\ OnDisk(id)
  BY DEF RecoverBundle, Recovering, IInv
<1>2. Final(disk[id].manifest) /\ Whole(id)
  BY <1>1 DEF OnDisk
<1>3. /\ entries' = [entries EXCEPT ![id] = Known(id, FALSE)] /\ recovered' = recovered \cup {id}
      /\ expirations' = expirations \ {id}
      /\ receipts' = receipts \/ receipts' = receipts \ {id}
      /\ up' = up \/ up' = "down"
      /\ UNCHANGED <<clock, disk, trash_usage, holding, pruner, calls, writers, held>>
  BY <1>2 DEF RecoverBundle
<1>4. entries' \in [Ids -> Entry] /\ entries'[id] = Known(id, FALSE)
  BY <1>1, <1>3, KnownIs DEF Typed
<1>5. \A k \in Ids \ {id} : Same(k)
  BY <1>1, <1>3 DEF Same, Leases, Typed
<1>6. OnDisk(id)'
  BY <1>1, <1>3 DEF OnDisk, Prepared, Whole, Gone
<1>7. up' = up => Recovery(id)'
  BY <1>1, <1>3, <1>4, RecoveredBundle
<1>8. /\ holding' \in Holding /\ disk' \in [Ids -> Bundle] /\ trash_usage' \in [Ids -> Nat]
      /\ Holds' /\ holding' = NotHolding
  BY <1>1, <1>3, Released DEF Typed
<1>9. \A k \in Ids : trash_usage'[k] # 0 => disk'[k].home \in Gone
  BY <1>1, <1>3 DEF Pruning
<1> QED
  BY <1>1, <1>3, <1>4, <1>5, <1>6, <1>7, <1>8, <1>9, RecoveryStep

\* An attempt recover() has not come to yet.
LEMMA Unread ==
  ASSUME IInv, up = "staging", NEW id \in Ids, disk[id].home = "staging", id \notin recovered
  PROVE  id \notin expirations /\ id \notin receipts
<1>1. ~Read(id)
  BY DEF Read
<1> QED
  BY <1>1 DEF IInv, Recovery, OnDisk

LEMMA RecoverPreparedKept ==
  ASSUME IInv, NEW id \in Ids, NEW result, RecoverPrepared(id, result)
  PROVE  IInv'
<1>1. /\ up = "staging" /\ holding = NotHolding /\ disk[id].home = "staging" /\ id \notin recovered
      /\ Prepared(id) /\ Typed /\ Pruning /\ OnDisk(id)
  BY DEF RecoverPrepared, Recovering, IInv
<1>2. id \notin expirations /\ id \notin receipts
  BY <1>1, Unread
<1>3. CASE ~Whole(id)
  <2>1. Rewrites
    BY <1>1, <1>3, StoreAssumption DEF OnDisk
  <2>2. Refuse(result)
    BY <1>3 DEF RecoverPrepared
  <2> QED
    BY <1>1, <2>1, <2>2, RefuseKept
<1>4. CASE Whole(id)
  <2>1. /\ Move(id, "bundles", result) /\ entries' = [entries EXCEPT ![id] = Known(id, FALSE)]
        /\ recovered' = recovered \cup {id} /\ up' = IF Throws(result) THEN "down" ELSE up
        /\ UNCHANGED <<clock, receipts, expirations, trash_usage, holding, pruner, calls, writers,
                       held>>
    BY <1>2, <1>4 DEF RecoverPrepared
  <2>2. entries' \in [Ids -> Entry] /\ entries'[id] = Known(id, FALSE)
    BY <1>1, <2>1, KnownIs DEF Typed
  <2>3. /\ disk' \in [Ids -> Bundle] /\ (\A k \in Ids \ {id} : disk'[k] = disk[k])
        /\ disk'[id].pin = disk[id].pin /\ disk'[id].manifest = disk[id].manifest
        /\ disk'[id].content = disk[id].content
        /\ IF Lands(result) THEN disk'[id].home = "bundles" ELSE disk'[id] = disk[id]
    BY <1>1, <2>1, MovedTo DEF DiskElsewhere, Homes
  <2>4. \A k \in Ids \ {id} : Same(k)
    BY <1>1, <2>1, <2>3 DEF Same, Leases, Typed
  <2>5. OnDisk(id)'
    <3>1. CASE Lands(result)
      BY <1>1, <1>4, <2>1, <2>3, <3>1 DEF OnDisk, Prepared, Whole, Gone
    <3>2. CASE ~Lands(result)
      BY <1>1, <2>1, <2>3, <3>2, SameOnDisk
    <3> QED
      BY <3>1, <3>2
  <2>6. up' = up => Recovery(id)'
    <3> SUFFICES ASSUME up' = up PROVE Recovery(id)'
      OBVIOUS
    <3>1. disk'[id].home = "bundles"
      BY <1>1, <2>1, <2>3 DEF Lands, Throws
    <3> QED
      BY <1>1, <1>2, <2>1, <2>2, <2>3, <3>1, RecoveredBundle
  <2>7. /\ holding' \in Holding /\ trash_usage' \in [Ids -> Nat] /\ Holds' /\ holding' = NotHolding
    BY <1>1, <2>1, Released DEF Typed
  <2>8. \A k \in Ids : trash_usage'[k] # 0 => disk'[k].home \in Gone
    <3>1. id \in Ids /\ trash_usage[id] = 0
      BY <1>1 DEF Pruning, Gone
    <3> QED
      BY <1>1, <2>1, <2>3, <3>1 DEF Pruning
  <2>9. up' \in {"down", up}
    BY <2>1
  <2> QED
    BY <1>1, <2>1, <2>2, <2>3, <2>4, <2>5, <2>6, <2>7, <2>8, <2>9, RecoveryStep
<1> QED
  BY <1>3, <1>4

LEMMA RecoverAttemptKept ==
  ASSUME IInv, NEW id \in Ids, NEW result, RecoverAttempt(id, result)
  PROVE  IInv'
<1> DEFINE m == Quarantined(Initial)
           e == [Known(id, TRUE) EXCEPT !.pinned = TRUE, !.manifest = m]
<1>1. /\ up = "staging" /\ holding = NotHolding /\ disk[id].home = "staging" /\ id \notin recovered
      /\ ~Prepared(id) /\ Typed /\ Pruning /\ OnDisk(id)
  BY DEF RecoverAttempt, Recovering, IInv
<1>2. id \notin expirations /\ id \notin receipts
  BY <1>1, Unread
<1>3. ~Final(disk[id].manifest) /\ disk[id].manifest \in {NoManifest} \cup Unfinished
  BY <1>1 DEF OnDisk, Prepared
<1>4. Quarantined(IF disk[id].manifest.status = "none" THEN Initial ELSE disk[id].manifest) = m
  <2>1. CASE disk[id].manifest = NoManifest
    BY <2>1, Manifests
  <2>2. CASE disk[id].manifest = Initial
    BY <2>2, Manifests
  <2>3. CASE disk[id].manifest = m
    BY <2>3, Manifests
  <2> QED
    BY <1>3, <2>1, <2>2, <2>3 DEF Unfinished
<1>5. /\ entries' = [entries EXCEPT ![id] = e] /\ WritePin(id, TRUE, result)
      /\ recovered' = recovered \cup {id} /\ up' = IF Throws(result) THEN "down" ELSE up
      /\ UNCHANGED <<clock, receipts, expirations, trash_usage, pruner, calls, writers, held>>
  BY <1>2, <1>4 DEF RecoverAttempt
<1>6. IF Throws(result) THEN holding' = NotHolding
      ELSE holding' = [op |-> "quarantine", id |-> id, thread |-> Nobody, manifest |-> m]
  BY <1>1, <1>2, <1>4 DEF RecoverAttempt, Hold
<1>7. m \in Manifest /\ m \in Unfinished /\ m.quarantined
  BY Manifests DEF Unfinished
<1> HIDE DEF m
<1>8. /\ e \in Entry /\ e.known /\ e.staged /\ e.pinned /\ e.manifest = m /\ e.leases = 0
      /\ ~e.writer_active
  <2>1. /\ Known(id, TRUE) \in Entry /\ Known(id, TRUE).known /\ Known(id, TRUE).staged = TRUE
        /\ Known(id, TRUE).leases = 0 /\ ~Known(id, TRUE).writer_active
    BY <1>1, KnownIs
  <2> QED
    BY <1>7, <2>1 DEF Entry
<1> HIDE DEF e
<1>9. /\ entries' \in [Ids -> Entry] /\ entries'[id] = e
      /\ \A k \in Ids \ {id} : entries'[k] = entries[k]
  BY <1>1, <1>5, <1>8 DEF Typed
<1>10. /\ disk' \in [Ids -> Bundle] /\ (\A k \in Ids \ {id} : disk'[k] = disk[k])
       /\ disk'[id].home = "staging" /\ disk'[id].manifest = disk[id].manifest
       /\ disk'[id].content = disk[id].content /\ (~Throws(result) => disk'[id].pin = "yes")
  BY <1>1, <1>5, PinWritten DEF DiskElsewhere
<1>11. \A k \in Ids \ {id} : Same(k)
  BY <1>5, <1>9, <1>10 DEF Same, Leases
<1>12. OnDisk(id)'
  BY <1>2, <1>3, <1>5, <1>10 DEF OnDisk, Prepared, Gone
<1>13. up' = up => Recovery(id)'
  <2> SUFFICES ASSUME up' = up PROVE Recovery(id)'
    OBVIOUS
  <2>1. disk'[id].pin = "yes" /\ up' = "staging"
    BY <1>1, <1>5, <1>10
  <2>2. Cardinality(Leases(id)) = 0 /\ Leases(id)' = Leases(id) /\ writers'[id] = Nobody
    BY <1>1, <1>5, Unowned DEF Leases
  <2>3. Catalogued(id)'
    BY <1>2, <1>5, <1>8, <1>9, <1>10, <2>2 DEF Catalogued, Gone
  <2>4. Attempted(id)'
    BY <1>7, <1>8, <1>9, <2>1 DEF Attempted
  <2>5. Read(id)'
    BY <1>5, <2>1 DEF Read
  <2> QED
    BY <2>1, <2>3, <2>4, <2>5 DEF Recovery
<1>14. holding' \in Holding
  <2>1. [op |-> "quarantine", id |-> id, thread |-> Nobody, manifest |-> m] \in Holding
    BY <1>7, HoldingIs
  <2> QED
    BY <1>6, <2>1, Nothings
<1>15. Holds' /\ (holding' # NotHolding => holding'.op = "quarantine" /\ up' = "staging")
  <2>1. CASE Throws(result)
    BY <1>6, <2>1, Released
  <2>2. CASE ~Throws(result)
    <3>1. holding'.op = "quarantine" /\ holding'.id = id /\ holding'.manifest = m
      BY <1>6, <2>2
    <3>2. HoldsBegin' /\ HoldsClaim'
      BY <3>1 DEF HoldsBegin, HoldsClaim
    <3>3. HoldsAttempt'
      BY <1>5, <1>8, <1>9, <1>10, <3>1 DEF HoldsAttempt, m
    <3> QED
      BY <1>1, <1>5, <2>2, <3>1, <3>2, <3>3 DEF Holds
  <2> QED
    BY <2>1, <2>2
<1>16. \A k \in Ids : trash_usage'[k] # 0 => disk'[k].home \in Gone
  <2>1. trash_usage[id] = 0
    BY <1>1 DEF Pruning, Gone
  <2> QED
    BY <1>1, <1>5, <1>10, <2>1 DEF Pruning
<1>17. up' \in {"down", up} /\ trash_usage' \in [Ids -> Nat]
  BY <1>1, <1>5 DEF Typed
<1> QED
  BY <1>1, <1>5, <1>9, <1>10, <1>11, <1>12, <1>13, <1>14, <1>15, <1>16, <1>17, RecoveryStep

LEMMA RecoverTrashKept ==
  ASSUME IInv, NEW id \in Ids, NEW result, RecoverTrash(id, result)
  PROVE  IInv'
<1>1. /\ up = "trash" /\ holding = NotHolding /\ disk[id].home = "trash" /\ Typed /\ Pruning
      /\ OnDisk(id)
  BY DEF RecoverTrash, Recovering, IInv
<1>2. Catalogued(id)
  BY <1>1 DEF IInv, Recovery, Read
<1>3. id \in expirations /\ ~entries[id].known
  BY <1>1, <1>2 DEF Catalogued, Gone
<1>4. /\ Move(id, "deleted", result)
      /\ trash_usage' = [trash_usage EXCEPT ![id] = IF Throws(result) THEN Bytes(id) ELSE 0]
      /\ recovered' = recovered \cup {id}
      /\ UNCHANGED <<clock, receipts, up, entries, expirations, holding, pruner, calls, writers,
                     held>>
  BY <1>3 DEF RecoverTrash
<1>5. /\ disk' \in [Ids -> Bundle] /\ (\A k \in Ids \ {id} : disk'[k] = disk[k])
      /\ disk'[id].home \in Gone
  BY <1>1, <1>4, MovedTo DEF DiskElsewhere, Homes, Gone
<1>6. \A k \in Ids \ {id} : Same(k)
  BY <1>4, <1>5 DEF Same, Leases
<1>7. OnDisk(id)'
  BY <1>1, <1>4, <1>5 DEF OnDisk, Prepared, Gone
<1>8. Recovery(id)'
  <2>1. Leases(id)' = Leases(id) /\ ~(entries[id].leases > 0)
    BY <1>1, <1>2, <1>4 DEF Catalogued, Leases
  <2>2. Catalogued(id)'
    BY <1>2, <1>3, <1>4, <1>5, <2>1 DEF Catalogued, Gone
  <2>3. Attempted(id)'
    BY <1>5 DEF Attempted, Gone
  <2> QED
    BY <1>1, <1>4, <2>2, <2>3 DEF Recovery
<1>9. trash_usage' \in [Ids -> Nat]
  <2>1. Bytes(id) \in Nat
    BY <1>1, Identifiers DEF Bytes, ManifestBytes, Typed, Bundle
  <2> QED
    BY <1>1, <1>4, <2>1 DEF Typed
<1>10. \A k \in Ids : trash_usage'[k] # 0 => disk'[k].home \in Gone
  <2>1. \A k \in Ids \ {id} : trash_usage'[k] = trash_usage[k]
    BY <1>1, <1>4 DEF Typed
  <2> QED
    BY <1>1, <1>5, <2>1 DEF Pruning
<1>11. /\ holding' \in Holding /\ entries' \in [Ids -> Entry] /\ Holds' /\ holding' = NotHolding
  BY <1>1, <1>4, Released DEF Typed
<1> QED
  BY <1>1, <1>4, <1>5, <1>6, <1>7, <1>8, <1>9, <1>10, <1>11, RecoveryStep

\* An entry of nobody, for a bundle the disk does not have.
LEMMA Absent ==
  ASSUME IInv, up # "up", NEW id \in Ids, OnDisk(id), entries[id] = NoEntry,
         id \in expirations <=> id \in receipts, disk[id].home \in {"none"} \cup Gone
  PROVE  Catalogued(id)
<1>1. writers[id] = Nobody /\ Cardinality(Leases(id)) = 0
  BY Unowned
<1> QED
  BY <1>1, Nothings DEF Catalogued, OnDisk, Gone

\* recover() goes on to the next directory.
LEMMA PhaseStep ==
  ASSUME IInv, up \in {"bundles", "staging", "trash"}, up' \in {"staging", "trash", "up"},
         holding = NotHolding,
         UNCHANGED <<clock, disk, receipts, entries, expirations, trash_usage, holding, pruner,
                     calls, writers, held>>,
         \A id \in Ids : Recovery(id)'
  PROVE  IInv'
<1>1. Typed /\ Closed /\ Pruning /\ \A t \in Threads : Calling(t)
  BY DEF IInv
<1>2. Typed' /\ Holds'
  BY <1>1, Released DEF Typed
<1>3. \A k \in Ids : OnDisk(k)'
  BY SameOnDisk DEF IInv
<1>4. Closed'
  BY <1>1 DEF Closed
<1>5. Pruning' /\ \A t \in Threads : Calling(t)'
  BY <1>1, PruningSame, CallsSame
<1> QED
  BY <1>2, <1>3, <1>4, <1>5 DEF IInv

LEMMA BundlesDoneKept ==
  ASSUME IInv, NextPhase("bundles", "staging")
  PROVE  IInv'
<1>1. /\ up = "bundles" /\ holding = NotHolding /\ up' = "staging" /\ recovered' = {}
      /\ UNCHANGED <<clock, disk, receipts, entries, expirations, trash_usage, holding, pruner,
                     calls, writers, held>>
      /\ \A id \in Ids : disk[id].home = "bundles" => id \in recovered
  BY DEF NextPhase, Recover, Recovering
<1>2. ASSUME NEW id \in Ids PROVE Recovery(id)'
  <2>1. OnDisk(id) /\ Recovery(id) /\ disk[id] \in Bundle
    BY DEF IInv, Typed
  <2>2. Leases(id)' = Leases(id)
    BY <1>1 DEF Leases
  <2>3. CASE id \in recovered
    <3>1. Catalogued(id) /\ disk[id].home = "bundles"
      BY <1>1, <2>1, <2>3 DEF Recovery, Read
    <3>2. Catalogued(id)' /\ Attempted(id)'
      BY <1>1, <2>2, <3>1 DEF Catalogued, Attempted
    <3>3. Read(id)'
      BY <1>1, <3>1 DEF Read
    <3> QED
      BY <1>1, <3>2, <3>3 DEF Recovery
  <2>4. CASE id \notin recovered
    <3>1. ~Read(id)
      BY <1>1, <2>4 DEF Read
    <3>2. /\ entries[id] = NoEntry /\ (id \in expirations <=> id \in receipts)
          /\ disk[id].home # "bundles"
      BY <1>1, <2>1, <2>4, <3>1 DEF Recovery
    <3>3. CASE disk[id].home = "staging"
      <4>1. ~Read(id)'
        BY <1>1, <3>3 DEF Read
      <4> QED
        BY <1>1, <3>2, <4>1 DEF Recovery
    <3>4. CASE disk[id].home # "staging"
      <4>1. disk[id].home \in {"none"} \cup Gone
        BY <2>1, <3>2, <3>4 DEF Bundle, Homes, Gone
      <4>2. Catalogued(id)
        BY <1>1, <2>1, <3>2, <4>1, Absent
      <4>3. Catalogued(id)' /\ Attempted(id)'
        BY <1>1, <2>2, <3>4, <4>2 DEF Catalogued, Attempted
      <4>4. Read(id)'
        BY <1>1, <3>4 DEF Read
      <4> QED
        BY <1>1, <4>3, <4>4 DEF Recovery
    <3> QED
      BY <3>3, <3>4
  <2> QED
    BY <2>3, <2>4
<1> QED
  BY <1>1, <1>2, PhaseStep

LEMMA StagingDoneKept ==
  ASSUME IInv, NextPhase("staging", "trash")
  PROVE  IInv'
<1>1. /\ up = "staging" /\ holding = NotHolding /\ up' = "trash" /\ recovered' = {}
      /\ UNCHANGED <<clock, disk, receipts, entries, expirations, trash_usage, holding, pruner,
                     calls, writers, held>>
      /\ \A id \in Ids : disk[id].home = "staging" => id \in recovered
  BY DEF NextPhase, Recover, Recovering
<1>2. ASSUME NEW id \in Ids PROVE Recovery(id)'
  <2>1. Read(id)
    BY <1>1 DEF Read
  <2>2. Catalogued(id) /\ Attempted(id) /\ Leases(id)' = Leases(id)
    BY <1>1, <2>1 DEF IInv, Recovery, Leases
  <2>3. Catalogued(id)' /\ Attempted(id)'
    BY <1>1, <2>2 DEF Catalogued, Attempted
  <2> QED
    BY <1>1, <2>3 DEF Recovery
<1> QED
  BY <1>1, <1>2, PhaseStep

LEMMA TrashDoneKept ==
  ASSUME IInv, NextPhase("trash", "up")
  PROVE  IInv'
<1>1. /\ up = "trash" /\ holding = NotHolding /\ up' = "up"
      /\ UNCHANGED <<clock, disk, receipts, entries, expirations, trash_usage, holding, pruner,
                     calls, writers, held>>
  BY DEF NextPhase
<1>2. ASSUME NEW id \in Ids PROVE Recovery(id)'
  <2>1. Catalogued(id) /\ Attempted(id) /\ Leases(id)' = Leases(id)
    BY <1>1 DEF IInv, Recovery, Read, Leases
  <2>2. Catalogued(id)' /\ Attempted(id)'
    BY <1>1, <2>1 DEF Catalogued, Attempted
  <2> QED
    BY <1>1, <2>2, StaysOpen
<1> QED
  BY <1>1, <1>2, PhaseStep

-----------------------------------------------------------------------------
(* The invariant.                                                          *)

LEMMA StutterKept ==
  ASSUME IInv, UNCHANGED vars
  PROVE  IInv'
<1>1. UNCHANGED <<clock, disk, receipts, up, recovered, entries, expirations, trash_usage, holding,
                  pruner, calls, writers, held>>
  BY DEF vars, memory
<1>2. Typed' /\ Closed'
  BY <1>1 DEF IInv, Typed, Closed
<1>3. Holds'
  BY <1>1, HoldsSame DEF IInv
<1>4. \A k \in Ids : OnDisk(k)' /\ Recovery(k)'
  BY <1>1, Nowhere DEF IInv
<1>5. Pruning' /\ \A t \in Threads : Calling(t)'
  BY <1>1, PruningSame, CallsSame DEF IInv
<1> QED
  BY <1>2, <1>3, <1>4, <1>5 DEF IInv

LEMMA Initially == Init => IInv
<1> SUFFICES ASSUME Init PROVE IInv
  OBVIOUS
<1>1. Typed
  BY Nothings DEF Init, Typed
<1>2. Holds
  BY Nothings DEF Init, Holds, HoldsBegin, HoldsAttempt, HoldsClaim
<1>3. Pruning /\ Closed
  BY DEF Init, Pruning, Closed, NoPruner
<1>4. ASSUME NEW id \in Ids PROVE OnDisk(id) /\ Recovery(id)
  <2>1. disk[id] = NoBundle /\ entries[id] = NoEntry /\ writers[id] = Nobody /\ up = "up"
    BY DEF Init
  <2>2. Leases(id) = {}
    BY Identifiers DEF Init, Leases
  <2>3. OnDisk(id)
    BY <2>1, Nothings, Manifests DEF Init, OnDisk, Prepared, Gone
  <2>4. Catalogued(id)
    BY <2>1, <2>2, Nothings, FS_EmptySet DEF Init, Catalogued, Gone
  <2>5. Attempted(id)
    BY <2>1, Nothings DEF Attempted
  <2> QED
    BY <2>1, <2>3, <2>4, <2>5 DEF Recovery
<1>5. \A t \in Threads : Calling(t)
  BY Nothings DEF Init, Calling
<1> QED
  BY <1>1, <1>2, <1>3, <1>4, <1>5 DEF IInv

LEMMA RequestKept ==
  ASSUME IInv, NEW t \in Threads, Request(t)
  PROVE  IInv'
BY BeginCallKept, PruneCallKept, ReleaseLeaseKept, UpdateProvenanceKept, QuarantineKept,
   ReleaseWriterKept, PublishFailureKept, PinKept, ResumeKept, PublishSuccessCallKept, LeaseKept
DEF Request, Handle

LEMMA ProceedKept ==
  ASSUME IInv, Proceed
  PROVE  IInv'
BY BeginPinKept, BeginManifestKept, QuarantineManifestKept, FinalizeCommitKept,
   FinalizeRenameKept, PruneReceiptKept,
   PruneClaimKept, PruneUnclaimKept, PruneDeleteKept, FinalizeSuccessKept, PruneCandidatesKept,
   AllocateRefusedKept, AllocateKept, PruneClaimsKept, PruneSkipKept, PruneUnchargeKept,
   PruneEndKept, PruneRetryKept
DEF Proceed

LEMMA RestartKept ==
  ASSUME IInv, Restart
  PROVE  IInv'
BY StartKept, RecoverBundleKept, RecoverPreparedKept, RecoverAttemptKept, RecoverTrashKept,
   BundlesDoneKept, StagingDoneKept, TrashDoneKept
DEF Restart

LEMMA Inductive == IInv /\ [Next]_vars => IInv'
<1> SUFFICES ASSUME IInv, [Next]_vars PROVE IInv'
  OBVIOUS
<1>1. CASE UNCHANGED vars \/ AtRest
  BY <1>1, StutterKept DEF AtRest
<1>2. CASE Tick \/ Crash
  BY <1>2, TickKept, CrashKept
<1>3. ASSUME NEW t \in Threads, Request(t) PROVE IInv'
  BY <1>3, RequestKept
<1>4. ASSUME NEW id \in Ids, Write(id) PROVE IInv'
  BY <1>4, WriteKept
<1>5. CASE Proceed \/ Restart
  BY <1>5, ProceedKept, RestartKept
<1> QED
  BY <1>1, <1>2, <1>3, <1>4, <1>5 DEF Next

\* Whatever the order of calls, failing disk operations and crashes: memory
\* says of every bundle what the disk says as soon as recover() has read it,
\* what is half written is known to the owner of the mutex, and prune() works
\* on nothing but what it has claimed.
THEOREM StoreInvariant == Spec => []IInv
<1>1. Init => IInv
  BY Initially
<1>2. IInv /\ [Next]_vars => IInv'
  BY Inductive
<1> QED
  BY <1>1, <1>2, PTL DEF Spec

-----------------------------------------------------------------------------
(* What the invariant is for.                                              *)

\* recover() finds nothing it must refuse, whenever the process died and
\* whatever the disk did, as long as nobody rewrites the report of an attempt
\* whose outcome is committed; run StoreRewrite shows why that is needed.
THEOREM AlwaysRecoveryAccepts ==
  ASSUME ~Rewrites
  PROVE  Spec => []RecoveryAccepts
<1>1. IInv => RecoveryAccepts
  BY DEF IInv, Closed, RecoveryAccepts
<1> QED
  BY <1>1, StoreInvariant, PTL

\* Between two critical sections of an open store the catalogue agrees with
\* the disk, and where it does not after an error it protects more.
THEOREM AlwaysCatalogueMatchesDisk == Spec => []CatalogueMatchesDisk
<1>1. IInv => CatalogueMatchesDisk
  <2> SUFFICES ASSUME IInv, MutexFree
               PROVE  CatalogueMatchesDisk
    BY DEF CatalogueMatchesDisk
  <2>1. ASSUME NEW id \in Ids PROVE Catalogued(id) /\ Attempted(id)
    BY Opened DEF MutexFree
  <2> QED
    BY <2>1 DEF CatalogueMatchesDisk, Catalogued, Attempted, Gone
<1> QED
  BY <1>1, StoreInvariant, PTL

\* Published evidence is whole, and disappears only with a receipt on disk.
THEOREM AlwaysEvidenceAccounted == Spec => []EvidenceAccounted
<1>1. IInv => EvidenceAccounted
  BY DEF IInv, OnDisk, EvidenceAccounted, Gone
<1> QED
  BY <1>1, StoreInvariant, PTL

\* An attempt whose owner is gone is quarantined and pinned, or is a begin()
\* that failed half-way.
THEOREM AlwaysAbandonedIsQuarantined == Spec => []AbandonedIsQuarantined
<1>1. IInv => AbandonedIsQuarantined
  <2> SUFFICES ASSUME IInv, MutexFree
               PROVE  AbandonedIsQuarantined
    BY DEF AbandonedIsQuarantined
  <2>1. ASSUME NEW id \in Ids PROVE Catalogued(id) /\ Attempted(id)
    BY Opened DEF MutexFree
  <2> QED
    BY <2>1 DEF AbandonedIsQuarantined, Catalogued, Attempted
<1> QED
  BY <1>1, StoreInvariant, PTL

\* Only the rename of prune() takes a bundle out of bundles/.
LEMMA OnlyClaimed ==
  ASSUME IInv, [Next]_vars, NEW id \in Ids, disk[id].home = "bundles", disk'[id].home # "bundles"
  PROVE  \E result \in Results : PruneClaim(result)
<1> SUFFICES ASSUME \A result \in Results : ~PruneClaim(result) PROVE disk'[id].home = "bundles"
  OBVIOUS
<1>1. Typed
  BY DEF IInv
<1>2. ASSUME NEW k \in Ids, NEW result, NEW m, WriteManifest(k, m, result)
      PROVE  disk'[id].home = "bundles"
  BY <1>1, <1>2 DEF Typed, Bundle, WriteManifest
<1>3. ASSUME NEW k \in Ids, NEW result, NEW pinned, WritePin(k, pinned, result)
      PROVE  disk'[id].home = "bundles"
  BY <1>1, <1>3 DEF Typed, Bundle, WritePin
<1>4. ASSUME NEW k \in Ids, NEW result, NEW home, Move(k, home, result),
             home = "bundles" \/ disk[k].home # "bundles"
      PROVE  disk'[id].home = "bundles"
  BY <1>1, <1>4 DEF Typed, Bundle, Move
<1>5. CASE UNCHANGED vars \/ AtRest \/ Tick \/ Crash
  BY <1>5 DEF vars, AtRest, Tick, Crash
<1>6. ASSUME NEW k \in Ids, Write(k) PROVE disk'[id].home = "bundles"
  BY <1>1, <1>6 DEF Write, Typed, Bundle
<1>7. ASSUME NEW t \in Threads, Request(t) PROVE disk'[id].home = "bundles"
  <2>1. CASE (\E pinned \in BOOLEAN : BeginCall(t, pinned)) \/ PruneCall(t) \/ ReleaseLease(t)
    BY <2>1 DEF BeginCall, PruneCall, ReleaseLease
  <2>2. ASSUME NEW k \in Ids, Handle(t, k) PROVE disk'[id].home = "bundles"
    <3>1. CASE \/ Resume(t, k) \/ PublishSuccessCall(t, k) \/ PublishFailure(t, k)
               \/ Lease(t, k)
      BY <3>1 DEF Resume, PublishSuccessCall, PublishFailure, Lease
    <3>2. ASSUME NEW result \in Results,
                 \/ UpdateProvenance(t, k, result) \/ Quarantine(t, k, result)
                 \/ ReleaseWriter(t, k, result)
                 \/ \E pinned \in BOOLEAN : Pin(t, k, pinned, result)
          PROVE  disk'[id].home = "bundles"
      <4>1. CASE UpdateProvenance(t, k, result)
        BY <1>2, <4>1 DEF UpdateProvenance
      <4>2. CASE Quarantine(t, k, result)
        BY <1>3, <4>2 DEF Quarantine, QuarantineLocked
      <4>3. CASE ReleaseWriter(t, k, result)
        BY <1>3, <4>3 DEF ReleaseWriter, QuarantineLocked
      <4>4. CASE \E pinned \in BOOLEAN : Pin(t, k, pinned, result)
        BY <1>3, <4>4 DEF Pin
      <4> QED
        BY <3>2, <4>1, <4>2, <4>3, <4>4
    <3> QED
      BY <2>2, <3>1, <3>2 DEF Handle
  <2> QED
    BY <1>7, <2>1, <2>2 DEF Request
<1>8. CASE Proceed
  <2>1. ASSUME NEW result \in Results, BeginPin(result) PROVE disk'[id].home = "bundles"
    BY <1>3, <2>1, HolderIs DEF BeginPin
  <2>2. ASSUME NEW result \in Results, BeginManifest(result) \/ QuarantineManifest(result)
        PROVE  disk'[id].home = "bundles"
    BY <1>2, <2>2, HolderIs DEF BeginManifest, QuarantineManifest
  <2>3. ASSUME NEW result \in Results, FinalizeRename(result) PROVE disk'[id].home = "bundles"
    BY <1>4, <2>3, HolderIs DEF FinalizeRename
  <2>4. ASSUME NEW result \in Results, PruneDelete(result) PROVE disk'[id].home = "bundles"
    <3>1. pruner.deleting \in Ids /\ disk[pruner.deleting].home # "bundles"
      BY <2>4, PrunerIsOpen DEF PruneDelete, IInv, Pruning, Gone
    <3> QED
      BY <1>4, <2>4, <3>1 DEF PruneDelete
  <2>5. ASSUME NEW result \in Results, FinalizeCommit(result) PROVE disk'[id].home = "bundles"
    BY <1>2, <2>5, HolderIs DEF FinalizeCommit
  <2>6. ASSUME NEW t \in Threads, NEW k \in Ids, Allocate(t, k) PROVE disk'[id].home = "bundles"
    BY <1>1, <2>6, Nothings DEF Allocate, Typed, Bundle
  <2>7. CASE \/ \E t \in Threads : PruneCandidates(t) \/ AllocateRefused(t) \/ FinalizeSuccess(t)
             \/ \E result \in Results : PruneReceipt(result) \/ PruneUnclaim(result)
             \/ PruneClaims \/ PruneSkip \/ PruneUncharge \/ PruneEnd
             \/ \E k \in Ids : PruneRetry(k)
    BY <2>7 DEF PruneCandidates, AllocateRefused, FinalizeSuccess, PruneReceipt, PruneUnclaim,
                PruneClaims, PruneSkip, PruneUncharge, PruneEnd, PruneRetry, PrunerUnchanged
  <2> QED
    BY <1>8, <2>1, <2>2, <2>3, <2>4, <2>5, <2>6, <2>7 DEF Proceed
<1>9. CASE Restart
  <2>1. ASSUME NEW k \in Ids, NEW result \in Results, RecoverPrepared(k, result)
        PROVE  disk'[id].home = "bundles"
    BY <1>4, <2>1 DEF RecoverPrepared, Refuse
  <2>2. ASSUME NEW k \in Ids, NEW result \in Results, RecoverAttempt(k, result)
        PROVE  disk'[id].home = "bundles"
    BY <1>3, <2>2 DEF RecoverAttempt, Refuse
  <2>3. ASSUME NEW k \in Ids, NEW result \in Results, RecoverTrash(k, result)
        PROVE  disk'[id].home = "bundles"
    BY <1>4, <2>3 DEF RecoverTrash, Refuse, Recovering
  <2>4. CASE \/ Start \/ \E k \in Ids, result \in Results : RecoverBundle(k, result)
             \/ \E phase, next \in {"bundles", "staging", "trash", "up"} : NextPhase(phase, next)
    BY <2>4 DEF Start, RecoverBundle, Refuse, NextPhase
  <2> QED
    BY <1>9, <2>1, <2>2, <2>3, <2>4 DEF Restart
<1> QED
  BY <1>5, <1>6, <1>7, <1>8, <1>9 DEF Next

\* No bundle leaves bundles/ while it is pinned, leased or still its writer's,
\* whatever prune() saw when it chose its candidates.
THEOREM ProtectedIsNeverClaimed == Spec => ProtectedNeverClaimed
<1> DEFINE Step(id) ==
      disk[id].home = "bundles" /\ disk'[id].home # "bundles" =>
        disk[id].pin = "no" /\ ~Protected(entries[id]) /\ \A t \in Threads : held[t] # id
<1>1. ASSUME IInv, [Next]_vars, NEW id \in Ids PROVE Step(id)
  <2> SUFFICES ASSUME disk[id].home = "bundles", disk'[id].home # "bundles"
               PROVE  /\ disk[id].pin = "no" /\ ~Protected(entries[id])
                      /\ \A t \in Threads : held[t] # id
    OBVIOUS
  <2>1. PICK result \in Results : PruneClaim(result)
    BY <1>1, OnlyClaimed
  <2>2. holding.op = "claim" /\ Move(holding.id, "trash", result) /\ up = "up"
    BY <1>1, <2>1, HolderIs DEF PruneClaim
  <2>3. holding.id = id
    BY <1>1, <2>2, HolderIs DEF Move, Typed
  <2>4. ~Protected(entries[id])
    BY <1>1, <2>2, <2>3 DEF IInv, Holds, HoldsClaim
  <2>5. Catalogued(id) /\ OnDisk(id) /\ disk[id] \in Bundle /\ entries[id] \in Entry
    BY <1>1, <2>2, Opened
  <2>6. disk[id].pin = "no"
    BY <2>4, <2>5 DEF Catalogued, OnDisk, Whole, Protected, Bundle
  <2>7. Cardinality(Leases(id)) = 0
    BY <2>4, <2>5 DEF Catalogued, Protected
  <2>8. Leases(id) = {}
    BY <2>7, LeasesFinite, FS_EmptySet
  <2> QED
    BY <2>4, <2>6, <2>8 DEF Leases
<1>2. IInv /\ [Next]_vars => \A id \in Ids : Step(id)
  BY <1>1
<1> QED
  BY <1>2, StoreInvariant, PTL DEF Spec, ProtectedNeverClaimed
=============================================================================
