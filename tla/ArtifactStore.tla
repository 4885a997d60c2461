---------------------------- MODULE ArtifactStore ----------------------------
(***************************************************************************)
(* ArtifactStore (src/artifacts/Artifacts.cpp): evidence bundles on disk,  *)
(* the in-memory catalogue that guards them, and the recovery that rebuilds *)
(* the catalogue after the process died.                                   *)
(*                                                                         *)
(* Disk.  One record per bundle says in which directory it is (home) and   *)
(* what its pin.json and manifest.json hold; content stands for the bytes  *)
(* below raw/ and derived/.  atomic_json() and renameat() take effect at   *)
(* once or not at all, so each is one step, and the process may die        *)
(* between any two.  A step may also fail: "early" leaves the disk as it   *)
(* was, "late" has changed it when the error (of the final fsync) is       *)
(* raised.                                                                 *)
(*                                                                         *)
(* Memory.  A critical section with a single disk write is one action; the *)
(* longer ones leave what is still to be written in holding, and nobody    *)
(* else takes the mutex until it is empty.  prune() holds deletion_mutex   *)
(* while pruner has an owner, and the mutex only in bursts.                *)
(***************************************************************************)
EXTENDS Integers, FiniteSets, FiniteSetsExt

CONSTANTS
  Threads,
  MaxIds,       \* bound: how many bundles are ever begun
  MaxBytes,     \* options.max_bytes, 0 for no budget
  MaxAge,       \* options.max_age, 0 for no limit
  MaxContent,   \* bound: bytes an attempt writes
  Growth,       \* bytes a final manifest adds to the initial one
  MaxClock,     \* bound: last instant of options.clock
  MaxCrashes,   \* bound: how often the process dies
  MaxFaults,    \* bound: how many disk operations fail
  MaxCalls,     \* bound: calls in all, 0 for no bound
  Rewrites      \* whether callers rewrite a report after a failed publication

Ids    == 1..MaxIds
NoId   == 0
Nobody == "nobody"

ASSUME StoreAssumption ==
  /\ MaxIds \in Nat \ {0}
  /\ \A n \in {MaxBytes, MaxAge, MaxContent, Growth, MaxClock, MaxCrashes, MaxFaults,
              MaxCalls} : n \in Nat
  /\ Rewrites \in BOOLEAN
  /\ IsFiniteSet(Threads) /\ Nobody \notin Threads

VARIABLES
  clock,        \* options.clock()
  disk,         \* the bundle directories
  receipts,     \* expired/<id>.json
  up,           \* where the process is: "down", a loop of recover(), "up", "refused"
  recovered,    \* IDs the running loop of recover() is through with
  entries,      \* ArtifactStoreState::entries
  expirations,  \* ArtifactStoreState::expirations
  trash_usage,  \* ArtifactStoreState::trash_usage, 0 for no charge
  holding,      \* what the mutex's owner still has to write
  pruner,       \* prune(), under deletion_mutex
  calls,        \* where each thread is in a call that lets go of the mutex
  writers,      \* who holds the ArtifactWriter of each bundle
  held,         \* the ArtifactLease each thread holds
  made, crashes, faults

memory == <<up, recovered, entries, expirations, trash_usage, holding, pruner, calls, writers, held>>
vars   == <<clock, disk, receipts, memory, made, crashes, faults>>

NoManifest == [status |-> "none", quarantined |-> FALSE, completed |-> 0, files |-> 0]
Initial    == [NoManifest EXCEPT !.status = "staging"]
NoBundle   == [home |-> "none", pin |-> "none", manifest |-> NoManifest, content |-> 0]
NoEntry    == [known |-> FALSE, manifest |-> NoManifest, pinned |-> FALSE, staged |-> FALSE,
               leases |-> 0, writer_active |-> FALSE]
NotHolding == [op |-> "none", id |-> NoId, thread |-> Nobody, manifest |-> NoManifest]
NoPruner   == [owner |-> Nobody, phase |-> "none", todo |-> {}, retry |-> {}, time |-> 0,
               growth |-> 0, deleting |-> NoId]
Idle       == [at |-> "idle", next |-> "return", id |-> NoId, pinned |-> FALSE, completed |-> 0]

\* Mutant: a quarantined attempt passes for a finished one.
FinalMutant(manifest) == manifest.status \in {"complete", "failed"}

Final(manifest)    == manifest.status \in {"complete", "failed"} /\ ~manifest.quarantined
Quarantined(m)     == [m EXCEPT !.status = "failed", !.quarantined = TRUE]
ManifestBytes(m)   == IF Final(m) THEN 1 + Growth ELSE 1
Bytes(id)          == disk[id].content + ManifestBytes(disk[id].manifest)

\* A manifest that announces the end of an attempt still in staging.
Prepared(id) == disk[id].home = "staging" /\ Final(disk[id].manifest)

-----------------------------------------------------------------------------
(* Failing disk operations.                                                *)

Results  == IF faults < MaxFaults THEN {"ok", "early", "late"} ELSE {"ok"}
Lands(result)  == result # "early"
Throws(result) == result # "ok"
CountFault(result) == faults' = IF Throws(result) THEN faults + 1 ELSE faults

WriteManifest(id, manifest, result) ==
  /\ disk' = IF Lands(result) THEN [disk EXCEPT ![id].manifest = manifest] ELSE disk
  /\ CountFault(result)

WritePin(id, pinned, result) ==
  /\ disk' = IF Lands(result) THEN [disk EXCEPT ![id].pin = IF pinned THEN "yes" ELSE "no"]
             ELSE disk
  /\ CountFault(result)

Move(id, home, result) ==
  /\ disk' = IF Lands(result) THEN [disk EXCEPT ![id].home = home] ELSE disk
  /\ CountFault(result)

-----------------------------------------------------------------------------
(* The mutex and what it guards.                                           *)

MutexFree == up = "up" /\ holding = NotHolding
Free(t)   == MutexFree /\ calls[t] = Idle

\* Calls begin one at a time per thread, and at most MaxCalls of them.
Ask(t) ==
  /\ Free(t)
  /\ MaxCalls # 0 => made < MaxCalls
  /\ made' = IF MaxCalls = 0 THEN made ELSE made + 1

Owns(t, id) == writers[id] = t

Charge(id) == (IF entries[id].known THEN Bytes(id) ELSE 0) + trash_usage[id]
Usage      == MapThenSumSet(Charge, Ids)
Exceeds(bytes) == MaxBytes # 0 /\ Usage + bytes > MaxBytes

Hold(op, id, t, manifest) ==
  holding' = [op |-> op, id |-> id, thread |-> t, manifest |-> manifest]

\* Mutant: prune() forgets pins.
ProtectedMutant(e) == e.leases # 0 \/ e.writer_active

Protected(e) == e.pinned \/ e.leases # 0 \/ e.writer_active

Tick ==
  /\ clock < MaxClock
  /\ clock' = clock + 1
  /\ UNCHANGED <<disk, receipts, memory, made, crashes, faults>>

\* The processes of an attempt write while it is unfinished: for its writer,
\* after they escaped into quarantine, or when the server has died.  A caller
\* whose publication failed rewrites its report.
Write(id) ==
  /\ disk[id].home = "staging" /\ disk[id].manifest # NoManifest
  /\ disk[id].content < MaxContent
  /\ IF writers[id] # Nobody THEN calls[writers[id]] = Idle /\ holding.id # id
                             ELSE up # "up" \/ entries[id].manifest.quarantined
  /\ Prepared(id) => Rewrites /\ writers[id] # Nobody
  /\ disk' = [disk EXCEPT ![id].content = @ + 1]
  /\ UNCHANGED <<clock, receipts, memory, made, crashes, faults>>

-----------------------------------------------------------------------------
(* begin().                                                                *)

BeginCall(t, pinned) ==
  /\ Ask(t)
  /\ calls' = [calls EXCEPT ![t] = [Idle EXCEPT !.at = "prune", !.next = "allocate",
                                                !.pinned = pinned]]
  /\ UNCHANGED <<clock, disk, receipts, up, recovered, entries, expirations, trash_usage,
                 holding, pruner, writers, held, crashes, faults>>

\* The usage is looked at again under the mutex; then the directory and the
\* entry appear, and pin.json and manifest.json follow.
Allocate(t, id) ==
  /\ MutexFree /\ calls[t].at = "allocate"
  /\ ~Exceeds(0)
  /\ disk[id] = NoBundle /\ \A k \in 1..(id - 1) : disk[k] # NoBundle
  /\ disk' = [disk EXCEPT ![id].home = "staging"]
  /\ entries' = [entries EXCEPT ![id] = [NoEntry EXCEPT !.known = TRUE, !.manifest = Initial,
                                                        !.pinned = calls[t].pinned,
                                                        !.staged = TRUE]]
  /\ Hold("begin pin", id, t, Initial)
  /\ UNCHANGED <<clock, receipts, up, recovered, expirations, trash_usage, pruner, calls,
                 writers, held, made, crashes, faults>>

AllocateRefused(t) ==
  /\ MutexFree /\ calls[t].at = "allocate"
  /\ Exceeds(0) \/ \A id \in Ids : disk[id] # NoBundle
  /\ calls' = [calls EXCEPT ![t] = Idle]
  /\ UNCHANGED <<clock, disk, receipts, up, recovered, entries, expirations, trash_usage,
                 holding, pruner, writers, held, made, crashes, faults>>

BeginPin(result) ==
  /\ holding.op = "begin pin"
  /\ LET id == holding.id
         t  == holding.thread
     IN /\ WritePin(id, calls[t].pinned, result)
        /\ IF Throws(result)
           THEN holding' = NotHolding /\ calls' = [calls EXCEPT ![t] = Idle]
           ELSE holding' = [holding EXCEPT !.op = "begin manifest"] /\ UNCHANGED calls
  /\ UNCHANGED <<clock, receipts, up, recovered, entries, expirations, trash_usage, pruner,
                 writers, held, made, crashes>>

BeginManifest(result) ==
  /\ holding.op = "begin manifest"
  /\ LET id == holding.id
         t  == holding.thread
     IN /\ WriteManifest(id, holding.manifest, result)
        /\ holding' = NotHolding
        /\ calls' = [calls EXCEPT ![t] = Idle]
        /\ IF Throws(result)
           THEN UNCHANGED <<entries, writers>>
           ELSE /\ entries' = [entries EXCEPT ![id].writer_active = TRUE]
                /\ writers' = [writers EXCEPT ![id] = t]
  /\ UNCHANGED <<clock, receipts, up, recovered, expirations, trash_usage, pruner, held, made, crashes>>

-----------------------------------------------------------------------------
(* Writers.                                                                *)

\* manifest.json is rewritten from memory with another provenance.
UpdateProvenance(t, id, result) ==
  /\ Ask(t) /\ Owns(t, id) /\ entries[id].staged
  /\ WriteManifest(id, entries[id].manifest, result)
  /\ UNCHANGED <<clock, receipts, memory, crashes>>

\* quarantine_locked(): memory first, then pin.json, then manifest.json.
QuarantineLocked(id, writer_active, result) ==
  LET manifest == Quarantined(entries[id].manifest)
  IN /\ entries' = [entries EXCEPT ![id].pinned = TRUE, ![id].manifest = manifest,
                                   ![id].writer_active = writer_active]
     /\ WritePin(id, TRUE, result)
     /\ IF Throws(result) THEN UNCHANGED holding
                          ELSE Hold("quarantine", id, Nobody, manifest)

Quarantine(t, id, result) ==
  /\ Ask(t) /\ Owns(t, id) /\ entries[id].staged
  /\ QuarantineLocked(id, TRUE, result)
  /\ UNCHANGED <<clock, receipts, up, recovered, expirations, trash_usage, pruner, calls,
                 writers, held, crashes>>

\* The rest of quarantine_locked(); an error in recover() ends the process.
QuarantineManifest(result) ==
  /\ holding.op = "quarantine"
  /\ WriteManifest(holding.id, holding.manifest, result)
  /\ holding' = NotHolding
  /\ up' = IF up # "up" /\ Throws(result) THEN "down" ELSE up
  /\ UNCHANGED <<clock, receipts, recovered, entries, expirations, trash_usage, pruner, calls,
                 writers, held, made, crashes>>

\* Mutant: an attempt nobody published is left as it is.
ReleaseWriterMutant(t, id, result) ==
  /\ Ask(t) /\ Owns(t, id) /\ result = "ok"
  /\ writers' = [writers EXCEPT ![id] = Nobody]
  /\ entries' = [entries EXCEPT ![id].writer_active = FALSE]
  /\ UNCHANGED <<clock, disk, receipts, up, recovered, expirations, trash_usage, holding,
                 pruner, calls, held, crashes, faults>>

\* ~ArtifactWriter: an attempt nobody published is quarantined.
ReleaseWriter(t, id, result) ==
  /\ Ask(t) /\ Owns(t, id)
  /\ writers' = [writers EXCEPT ![id] = Nobody]
  /\ IF entries[id].staged /\ ~entries[id].manifest.quarantined
     THEN QuarantineLocked(id, FALSE, result)
     ELSE /\ entries' = [entries EXCEPT ![id].writer_active = FALSE]
          /\ result = "ok" /\ UNCHANGED <<disk, holding, faults>>
  /\ UNCHANGED <<clock, receipts, up, recovered, expirations, trash_usage, pruner, calls, held,
                 crashes>>

Resume(t, id) ==
  /\ Ask(t)
  /\ entries[id].known /\ entries[id].staged
  /\ entries[id].manifest.quarantined /\ ~entries[id].writer_active
  /\ entries' = [entries EXCEPT ![id].writer_active = TRUE]
  /\ writers' = [writers EXCEPT ![id] = t]
  /\ UNCHANGED <<clock, disk, receipts, up, recovered, expirations, trash_usage, holding,
                 pruner, calls, held, crashes, faults>>

-----------------------------------------------------------------------------
(* Publication.                                                            *)

\* prepare_locked(): a quarantined attempt, or one without its required
\* output, cannot succeed.
Publishable(id, success) ==
  /\ entries[id].staged
  /\ success => ~entries[id].manifest.quarantined /\ disk[id].content > 0

FinalManifest(id, success, completed) ==
  [status |-> IF success THEN "complete" ELSE "failed", quarantined |-> FALSE,
   completed |-> completed, files |-> disk[id].content]

\* publication_growth_locked()
PublicationGrowth(id) == (1 + Growth) - ManifestBytes(disk[id].manifest)

PublishSuccessCall(t, id) ==
  /\ Ask(t) /\ Owns(t, id) /\ Publishable(id, TRUE)
  /\ calls' = [calls EXCEPT ![t] = [Idle EXCEPT !.at = "prune", !.next = "finalize", !.id = id,
                                                !.completed = clock]]
  /\ UNCHANGED <<clock, disk, receipts, up, recovered, entries, expirations, trash_usage,
                 holding, pruner, writers, held, crashes, faults>>

\* finalize_locked() up to the manifest: what is to be committed.
Finalize(t, id, success, completed) ==
  Hold("commit", id, t, FinalManifest(id, success, completed))

\* Mutant: the budget is not looked at again after prune().
FinalizeSuccessMutant(t) ==
  /\ MutexFree /\ calls[t].at = "finalize"
  /\ Publishable(calls[t].id, TRUE)
  /\ Finalize(t, calls[t].id, TRUE, calls[t].completed)
  /\ calls' = [calls EXCEPT ![t] = Idle]
  /\ UNCHANGED <<clock, disk, receipts, up, recovered, entries, expirations, trash_usage, pruner,
                 writers, held, made, crashes, faults>>

\* Everything publish_success() looked at before pruning is looked at again.
\* The walk over the directories stands for one look: what the processes of
\* other attempts write during it only adds to what it finds.
FinalizeSuccess(t) ==
  /\ MutexFree /\ calls[t].at = "finalize"
  /\ LET id == calls[t].id
     IN IF Publishable(id, TRUE) /\ ~Exceeds(PublicationGrowth(id))
        THEN Finalize(t, id, TRUE, calls[t].completed)
        ELSE UNCHANGED holding
  /\ calls' = [calls EXCEPT ![t] = Idle]
  /\ UNCHANGED <<clock, disk, receipts, up, recovered, entries, expirations, trash_usage, pruner,
                 writers, held, made, crashes, faults>>

PublishFailure(t, id) ==
  /\ Ask(t) /\ Owns(t, id) /\ Publishable(id, FALSE)
  /\ Finalize(t, id, FALSE, clock)
  /\ UNCHANGED <<clock, disk, receipts, up, recovered, entries, expirations, trash_usage, pruner,
                 calls, writers, held, crashes, faults>>

\* The manifest commits the outcome; the processes of other attempts have
\* written since the usage was looked at.
FinalizeCommit(result) ==
  /\ holding.op = "commit"
  /\ WriteManifest(holding.id, holding.manifest, result)
  /\ holding' = IF Throws(result) THEN NotHolding ELSE [holding EXCEPT !.op = "finalize"]
  /\ UNCHANGED <<clock, receipts, up, recovered, entries, expirations, trash_usage, pruner,
                 calls, writers, held, made, crashes>>

\* renameat(), memory, and only then the fsyncs that may still fail.
FinalizeRename(result) ==
  /\ holding.op = "finalize"
  /\ LET id == holding.id
     IN /\ Move(id, "bundles", result)
        /\ entries' = IF Lands(result)
                      THEN [entries EXCEPT ![id].manifest = holding.manifest, ![id].staged = FALSE]
                      ELSE entries
  /\ holding' = NotHolding
  /\ UNCHANGED <<clock, receipts, up, recovered, expirations, trash_usage, pruner, calls,
                 writers, held, made, crashes>>

-----------------------------------------------------------------------------
(* Pins and leases.                                                        *)

\* Mutant: an error leaves memory as it was, whatever reached the disk.
PinMutant(t, id, pinned, result) ==
  /\ Ask(t) /\ entries[id].known
  /\ ~pinned => ~entries[id].manifest.quarantined
  /\ WritePin(id, pinned, result)
  /\ entries' = [entries EXCEPT ![id].pinned = IF Throws(result) THEN @ ELSE pinned]
  /\ UNCHANGED <<clock, receipts, up, recovered, expirations, trash_usage, holding, pruner,
                 calls, writers, held, crashes>>

\* An error leaves the bundle protected in memory, whatever reached the disk.
Pin(t, id, pinned, result) ==
  /\ Ask(t) /\ entries[id].known
  /\ ~pinned => ~entries[id].manifest.quarantined
  /\ WritePin(id, pinned, result)
  /\ entries' = [entries EXCEPT ![id].pinned = pinned \/ Throws(result)]
  /\ UNCHANGED <<clock, receipts, up, recovered, expirations, trash_usage, holding, pruner,
                 calls, writers, held, crashes>>

Lease(t, id) ==
  /\ Ask(t) /\ held[t] = NoId
  /\ entries[id].known /\ ~entries[id].staged
  /\ entries' = [entries EXCEPT ![id].leases = @ + 1]
  /\ held' = [held EXCEPT ![t] = id]
  /\ UNCHANGED <<clock, disk, receipts, up, recovered, expirations, trash_usage, holding,
                 pruner, calls, writers, crashes, faults>>

ReleaseLease(t) ==
  /\ Ask(t) /\ held[t] # NoId
  /\ entries' = [entries EXCEPT ![held[t]].leases = @ - 1]
  /\ held' = [held EXCEPT ![t] = NoId]
  /\ UNCHANGED <<clock, disk, receipts, up, recovered, expirations, trash_usage, holding,
                 pruner, calls, writers, crashes, faults>>

-----------------------------------------------------------------------------
(* prune(), under deletion_mutex.                                          *)

PruneCall(t) ==
  /\ Ask(t)
  /\ calls' = [calls EXCEPT ![t] = [Idle EXCEPT !.at = "prune"]]
  /\ UNCHANGED <<clock, disk, receipts, up, recovered, entries, expirations, trash_usage,
                 holding, pruner, writers, held, crashes, faults>>

PrunerUnchanged == <<disk, receipts, up, recovered, entries, expirations, trash_usage, holding,
                     calls, writers, held, made, crashes, faults>>

\* The candidates: what is published now, oldest first.
PruneCandidates(t) ==
  /\ MutexFree /\ calls[t].at = "prune" /\ pruner = NoPruner
  /\ pruner' = [NoPruner EXCEPT
       !.owner = t, !.phase = "claims",
       !.todo = {<<entries[id].manifest.completed, id>> :
                   id \in {k \in Ids : entries[k].known /\ ~entries[k].staged}},
       !.growth = IF calls[t].next = "finalize" THEN PublicationGrowth(calls[t].id) ELSE 0]
  /\ UNCHANGED <<clock, PrunerUnchanged>>

\* The clock is read without the mutex; earlier claims are retried first.
PruneClaims ==
  /\ MutexFree /\ pruner.phase = "claims"
  /\ pruner' = [pruner EXCEPT !.phase = "loop", !.time = clock,
                              !.retry = {id \in Ids : trash_usage[id] # 0}]
  /\ UNCHANGED <<clock, PrunerUnchanged>>

Oldest == CHOOSE c \in pruner.todo :
            \A d \in pruner.todo : c[1] < d[1] \/ (c[1] = d[1] /\ c[2] <= d[2])

PruneRetry(id) ==
  /\ pruner.phase = "loop" /\ pruner.deleting = NoId /\ id \in pruner.retry
  /\ pruner' = [pruner EXCEPT !.retry = @ \ {id}, !.deleting = id]
  /\ UNCHANGED <<clock, PrunerUnchanged>>

Considering ==
  /\ MutexFree /\ pruner.phase = "loop"
  /\ pruner.deleting = NoId /\ pruner.retry = {} /\ pruner.todo # {}

Aged(completed, time) == MaxAge # 0 /\ time >= completed /\ time - completed >= MaxAge

\* What may be deleted is decided under the mutex that claims it.
Claimable(id, completed) ==
  /\ entries[id].known /\ ~entries[id].staged /\ ~Protected(entries[id])
  /\ Aged(completed, pruner.time) \/ Exceeds(pruner.growth)

PruneSkip ==
  /\ Considering
  /\ ~Claimable(Oldest[2], Oldest[1])
  /\ pruner' = [pruner EXCEPT !.todo = @ \ {Oldest}]
  /\ UNCHANGED <<clock, PrunerUnchanged>>

\* Mutant: the bundle is claimed without a receipt.
PruneReceiptMutant(result) ==
  /\ Considering /\ result = "ok"
  /\ Claimable(Oldest[2], Oldest[1])
  /\ Hold("claim", Oldest[2], pruner.owner, NoManifest)
  /\ pruner' = [pruner EXCEPT !.todo = @ \ {Oldest}]
  /\ UNCHANGED <<clock, disk, receipts, up, recovered, entries, expirations, trash_usage, calls,
                 writers, held, made, crashes, faults>>

\* The receipt is on disk before the bundle leaves bundles/.
PruneReceipt(result) ==
  /\ Considering
  /\ LET id == Oldest[2]
     IN /\ Claimable(id, Oldest[1])
        /\ receipts' = IF Lands(result) THEN receipts \cup {id} ELSE receipts
        /\ IF Throws(result) THEN UNCHANGED holding ELSE Hold("claim", id, pruner.owner, NoManifest)
  /\ pruner' = [pruner EXCEPT !.todo = @ \ {Oldest}]
  /\ CountFault(result)
  /\ UNCHANGED <<clock, disk, up, recovered, entries, expirations, trash_usage, calls, writers,
                 held, made, crashes>>

\* The rename claims the bundle; the fsyncs after it only report.
PruneClaim(result) ==
  /\ holding.op = "claim"
  /\ LET id == holding.id
     IN /\ Move(id, "trash", result)
        /\ IF Lands(result)
           THEN /\ trash_usage' = [trash_usage EXCEPT ![id] = Bytes(id)]
                /\ expirations' = expirations \cup {id}
                /\ entries' = [entries EXCEPT ![id] = NoEntry]
                /\ pruner' = [pruner EXCEPT !.deleting = id]
                /\ holding' = NotHolding
           ELSE /\ holding' = [holding EXCEPT !.op = "unclaim"]
                /\ UNCHANGED <<trash_usage, expirations, entries, pruner>>
  /\ UNCHANGED <<clock, receipts, up, recovered, calls, writers, held, made, crashes>>

PruneUnclaim(result) ==
  /\ holding.op = "unclaim"
  /\ receipts' = IF Lands(result) THEN receipts \ {holding.id} ELSE receipts
  /\ holding' = NotHolding
  /\ CountFault(result)
  /\ UNCHANGED <<clock, disk, up, recovered, entries, expirations, trash_usage, pruner, calls,
                 writers, held, made, crashes>>

\* remove_tree() runs without the mutex.  When it fails the bytes stay charged.
PruneDelete(result) ==
  /\ pruner.phase = "loop" /\ pruner.deleting # NoId
  /\ Move(pruner.deleting, "deleted", result)
  /\ pruner' = IF Throws(result) THEN [pruner EXCEPT !.deleting = NoId]
                                 ELSE [pruner EXCEPT !.phase = "uncharge"]
  /\ UNCHANGED <<clock, receipts, up, recovered, entries, expirations, trash_usage, holding,
                 calls, writers, held, made, crashes>>

PruneUncharge ==
  /\ MutexFree /\ pruner.phase = "uncharge"
  /\ trash_usage' = [trash_usage EXCEPT ![pruner.deleting] = 0]
  /\ pruner' = [pruner EXCEPT !.phase = "loop", !.deleting = NoId]
  /\ UNCHANGED <<clock, disk, receipts, up, recovered, entries, expirations, holding, calls,
                 writers, held, made, crashes, faults>>

\* The caller goes on if what is left fits the budget.
PruneEnd ==
  /\ MutexFree /\ pruner.phase = "loop"
  /\ pruner.deleting = NoId /\ pruner.retry = {} /\ pruner.todo = {}
  /\ LET t == pruner.owner
         c == calls[t]
     IN calls' = [calls EXCEPT ![t] =
                    IF c.next = "return" \/ Exceeds(pruner.growth) THEN Idle
                    ELSE [c EXCEPT !.at = c.next]]
  /\ pruner' = NoPruner
  /\ UNCHANGED <<clock, disk, receipts, up, recovered, entries, expirations, trash_usage,
                 holding, writers, held, made, crashes, faults>>

-----------------------------------------------------------------------------
(* The process dies and is started again.                                  *)

Blank(phase) ==
  /\ up' = phase
  /\ recovered' = {} /\ entries' = [id \in Ids |-> NoEntry]
  /\ trash_usage' = [id \in Ids |-> 0]
  /\ holding' = NotHolding /\ pruner' = NoPruner
  /\ calls' = [t \in Threads |-> Idle]
  /\ writers' = [id \in Ids |-> Nobody] /\ held' = [t \in Threads |-> NoId]

Crash ==
  /\ up \notin {"down", "refused"} /\ crashes < MaxCrashes
  /\ crashes' = crashes + 1
  /\ Blank("down") /\ expirations' = {}
  /\ UNCHANGED <<clock, disk, receipts, made, faults>>

Start ==
  /\ up = "down"
  /\ Blank("bundles") /\ expirations' = receipts
  /\ UNCHANGED <<clock, disk, receipts, made, crashes, faults>>

\* recover() gives up: the store will not open until somebody repairs it.
Refuse(result) ==
  /\ result = "ok"
  /\ up' = "refused"
  /\ UNCHANGED <<clock, disk, receipts, recovered, entries, expirations, trash_usage, holding,
                 pruner, calls, writers, held, made, crashes, faults>>

Recovering(phase, home, id) ==
  /\ up = phase /\ holding = NotHolding
  /\ disk[id].home = home /\ id \notin recovered

Recover(phase, home) == \E id \in Ids : Recovering(phase, home, id)

Known(id, staged) ==
  [NoEntry EXCEPT !.known = TRUE, !.manifest = disk[id].manifest,
                  !.pinned = (disk[id].pin = "yes"), !.staged = staged]

\* What recover() demands of a bundle it publishes or finds published.
Whole(id) == disk[id].manifest.files = disk[id].content /\ disk[id].pin # "none"

RecoverBundle(id, result) ==
  /\ Recovering("bundles", "bundles", id)
  /\ IF ~Final(disk[id].manifest) \/ ~Whole(id)
     THEN Refuse(result)
     ELSE /\ entries' = [entries EXCEPT ![id] = Known(id, FALSE)]
          /\ recovered' = recovered \cup {id}
          /\ expirations' = expirations \ {id}
          /\ IF id \in expirations
             THEN /\ receipts' = IF Lands(result) THEN receipts \ {id} ELSE receipts
                  /\ up' = IF Throws(result) THEN "down" ELSE up
                  /\ CountFault(result)
             ELSE result = "ok" /\ UNCHANGED <<receipts, up, faults>>
          /\ UNCHANGED <<clock, disk, trash_usage, holding, pruner, calls, writers, held, made,
                         crashes>>

\* An outcome that was committed before the process died is published.
RecoverPrepared(id, result) ==
  /\ Recovering("staging", "staging", id) /\ Prepared(id)
  /\ IF id \in expirations \/ ~Whole(id)
     THEN Refuse(result)
     ELSE /\ Move(id, "bundles", result)
          /\ entries' = [entries EXCEPT ![id] = Known(id, FALSE)]
          /\ recovered' = recovered \cup {id}
          /\ up' = IF Throws(result) THEN "down" ELSE up
          /\ UNCHANGED <<clock, receipts, expirations, trash_usage, holding, pruner, calls,
                         writers, held, made, crashes>>

\* Every other attempt is pinned and quarantined.
RecoverAttempt(id, result) ==
  /\ Recovering("staging", "staging", id) /\ ~Prepared(id)
  /\ IF id \in expirations
     THEN Refuse(result)
     ELSE LET found    == IF disk[id].manifest.status = "none" THEN Initial ELSE disk[id].manifest
              manifest == Quarantined(found)
          IN /\ entries' = [entries EXCEPT ![id] = [Known(id, TRUE) EXCEPT !.pinned = TRUE,
                                                                          !.manifest = manifest]]
             /\ WritePin(id, TRUE, result)
             /\ IF Throws(result) THEN UNCHANGED holding
                                  ELSE Hold("quarantine", id, Nobody, manifest)
             /\ recovered' = recovered \cup {id}
             /\ up' = IF Throws(result) THEN "down" ELSE up
             /\ UNCHANGED <<clock, receipts, expirations, trash_usage, pruner, calls, writers,
                            held, made, crashes>>

\* A claimed deletion goes on; trash that cannot be removed stays charged.
RecoverTrash(id, result) ==
  /\ Recovering("trash", "trash", id)
  /\ IF id \notin expirations \/ entries[id].known
     THEN Refuse(result)
     ELSE /\ result # "late"
          /\ Move(id, "deleted", result)
          /\ trash_usage' = [trash_usage EXCEPT ![id] = IF Throws(result) THEN Bytes(id) ELSE 0]
          /\ recovered' = recovered \cup {id}
          /\ UNCHANGED <<clock, receipts, up, entries, expirations, holding, pruner, calls,
                         writers, held, made, crashes>>

NextPhase(phase, next) ==
  /\ up = phase /\ holding = NotHolding /\ ~Recover(phase, phase)
  /\ up' = next /\ recovered' = {}
  /\ UNCHANGED <<clock, disk, receipts, entries, expirations, trash_usage, holding, pruner,
                 calls, writers, held, made, crashes, faults>>

-----------------------------------------------------------------------------
Init ==
  /\ clock = 0
  /\ disk = [id \in Ids |-> NoBundle]
  /\ receipts = {}
  /\ up = "up" /\ recovered = {}
  /\ entries = [id \in Ids |-> NoEntry]
  /\ expirations = {}
  /\ trash_usage = [id \in Ids |-> 0]
  /\ holding = NotHolding /\ pruner = NoPruner
  /\ calls = [t \in Threads |-> Idle]
  /\ writers = [id \in Ids |-> Nobody] /\ held = [t \in Threads |-> NoId]
  /\ made = 0 /\ crashes = 0 /\ faults = 0

Handle(t, id) ==
  \/ \E result \in Results :
       \/ UpdateProvenance(t, id, result) \/ Quarantine(t, id, result)
       \/ ReleaseWriter(t, id, result)
       \/ \E pinned \in BOOLEAN : Pin(t, id, pinned, result)
  \/ Resume(t, id) \/ PublishSuccessCall(t, id) \/ PublishFailure(t, id) \/ Lease(t, id)

Request(t) ==
  \/ \E pinned \in BOOLEAN : BeginCall(t, pinned)
  \/ PruneCall(t) \/ ReleaseLease(t)
  \/ \E id \in Ids : Handle(t, id)

\* The rest of a call that has begun.
Proceed ==
  \/ \E result \in Results :
       \/ BeginPin(result) \/ BeginManifest(result) \/ QuarantineManifest(result)
       \/ FinalizeCommit(result) \/ FinalizeRename(result)
       \/ PruneReceipt(result) \/ PruneClaim(result) \/ PruneUnclaim(result)
       \/ PruneDelete(result)
  \/ \E t \in Threads : \/ PruneCandidates(t) \/ AllocateRefused(t) \/ FinalizeSuccess(t)
                         \/ \E id \in Ids : Allocate(t, id)
  \/ PruneClaims \/ PruneSkip \/ PruneUncharge \/ PruneEnd
  \/ \E id \in Ids : PruneRetry(id)

Restart ==
  \/ Start
  \/ \E id \in Ids, result \in Results :
       RecoverBundle(id, result) \/ RecoverPrepared(id, result)
         \/ RecoverAttempt(id, result) \/ RecoverTrash(id, result)
  \/ NextPhase("bundles", "staging") \/ NextPhase("staging", "trash") \/ NextPhase("trash", "up")

\* Every call the bound allows has been made and has returned.
AtRest ==
  /\ MaxCalls # 0 /\ made = MaxCalls
  /\ \A t \in Threads : Free(t)
  /\ UNCHANGED vars

Next ==
  \/ \E t \in Threads : Request(t)
  \/ \E id \in Ids : Write(id)
  \/ Proceed \/ Restart
  \/ Tick \/ Crash \/ AtRest

Spec == Init /\ [][Next]_vars

-----------------------------------------------------------------------------
(* Safety.                                                                 *)

\* Whenever the process died and whichever disk operation failed, recover()
\* finds nothing it must refuse: the store can be opened again.
RecoveryAccepts == up # "refused"

\* While nobody is in the middle of a critical section the catalogue says of
\* every bundle what the disk says, and never that it is less protected; after
\* an error memory may only be the more careful of the two.
CatalogueMatchesDisk ==
  MutexFree => \A id \in Ids :
    LET e == entries[id]
        d == disk[id]
    IN /\ e.known <=> d.home \in {"staging", "bundles"}
       /\ e.known => (e.staged <=> d.home = "staging")
       /\ e.known /\ d.pin = "yes" => e.pinned
       /\ d.home = "bundles" => e.manifest = d.manifest
       /\ d.home = "staging" /\ d.manifest.quarantined => e.manifest.quarantined \/ e.writer_active
       /\ id \in expirations <=> d.home \in {"trash", "deleted"}

\* No bundle leaves bundles/ while it is pinned on disk, in memory, leased or
\* still its writer's, whatever prune() saw when it chose its candidates.
ProtectedNeverClaimed ==
  [][\A id \in Ids :
       disk[id].home = "bundles" /\ disk'[id].home # "bundles" =>
         disk[id].pin = "no" /\ ~Protected(entries[id]) /\ \A t \in Threads : held[t] # id]_vars

\* Published evidence disappears only with a receipt on disk, and what is in
\* bundles/ is what its manifest inventories: an interrupted or quarantined
\* attempt never shows there.
EvidenceAccounted ==
  \A id \in Ids :
    /\ disk[id].home \in {"trash", "deleted"} => id \in receipts
    /\ disk[id].home = "bundles" =>
         /\ Final(disk[id].manifest) /\ Whole(id)
         /\ disk[id].manifest.status = "complete" => disk[id].content > 0

\* An attempt whose owner is gone is quarantined and pinned, so that it can be
\* resumed; only a begin() that failed half-way leaves one that waits for the
\* next start.
AbandonedIsQuarantined ==
  MutexFree => \A id \in Ids :
    entries[id].known /\ entries[id].staged /\ ~entries[id].writer_active =>
      \/ entries[id].manifest.quarantined /\ entries[id].pinned
      \/ disk[id].pin = "none" \/ disk[id].content = 0

Kept == {id \in Ids : disk[id].home \notin {"none", "deleted"}}

\* The bytes below staging/, bundles/ and trash/.
Stored == MapThenSumSet(Bytes, Kept)

\* The same without what other attempts have below raw/ and derived/.
Settled(id) ==
  MapThenSumSet(LAMBDA k : IF k # id /\ disk[k].home = "staging"
                           THEN ManifestBytes(disk[k].manifest) ELSE Bytes(k), Kept)

\* A success is decided only when all that is stored then, the trash of a
\* failed deletion and the bytes written by others while this one pruned
\* included, leaves room for the final manifest; and when that manifest
\* lands, nothing but what other attempts have written into staging since can
\* have taken the store over its budget.
SuccessWithinBudget ==
  [][/\ holding.op # "commit" /\ holding'.op = "commit" /\ holding'.manifest.status = "complete" =>
          MaxBytes = 0 \/ Stored + PublicationGrowth(holding'.id) <= MaxBytes
     /\ \A id \in Ids :
          disk[id].manifest.status # "complete" /\ disk'[id].manifest.status = "complete" =>
            MaxBytes = 0 \/ Settled(id)' <= MaxBytes]_vars
=============================================================================
