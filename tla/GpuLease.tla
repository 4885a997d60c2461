------------------------------ MODULE GpuLease ------------------------------
(***************************************************************************)
(* What JobCoordinator promises about its GPUs, without mailbox, threads   *)
(* or clock: jobs are numbered in the order they are accepted, one at a    *)
(* time holds each GPU, the oldest waiting job of a GPU is the next to     *)
(* start there, and a GPU is given back only by a job that ended and whose *)
(* processes are known to be gone.  A GPU whose holder ended otherwise is  *)
(* quarantined: no action gives it back (the promise of Jobs.hpp).         *)
(***************************************************************************)
EXTENDS Integers

CONSTANTS Gpus, MaxJobs

JobId == 1..MaxJobs
NoJob == 0
Reason == {"cancellation", "deadline", "shutdown"}

VARIABLES
  phase,   \* of each job: "absent", "waiting", "active", "ended"
  gpu,     \* the GPU each accepted job asked for
  reason,  \* why a job was stopped, "none" while nobody stopped it
  clean,   \* whether no process of the job can still be alive
  holder   \* the job that holds each GPU, or NoJob

vars == <<phase, gpu, reason, clean, holder>>

Init ==
  /\ phase = [j \in JobId |-> "absent"]
  /\ gpu = [j \in JobId |-> ""]
  /\ reason = [j \in JobId |-> "none"]
  /\ clean = [j \in JobId |-> TRUE]
  /\ holder = [g \in Gpus |-> NoJob]

Accept(j, g) ==
  /\ phase[j] = "absent"
  /\ \A i \in JobId : i < j => phase[i] # "absent"
  /\ phase' = [phase EXCEPT ![j] = "waiting"]
  /\ gpu' = [gpu EXCEPT ![j] = g]
  /\ UNCHANGED <<reason, clean, holder>>

\* One deadline sweep, cancellation or shutdown: waiting jobs end where they
\* are, active ones are only asked to stop, and the first reason stands.
Stop(waiting, active, r) ==
  /\ \A j \in waiting : phase[j] = "waiting"
  /\ \A j \in active : phase[j] = "active" /\ reason[j] = "none"
  /\ phase' = [j \in JobId |-> IF j \in waiting THEN "ended" ELSE phase[j]]
  /\ reason' = [j \in JobId |-> IF j \in waiting \cup active THEN r ELSE reason[j]]
  /\ UNCHANGED <<gpu, clean, holder>>

First(j) ==
  /\ phase[j] = "waiting"
  /\ holder[gpu[j]] = NoJob
  /\ \A i \in JobId : i < j /\ gpu[i] = gpu[j] => phase[i] # "waiting"

Start(j) ==
  /\ First(j)
  /\ phase' = [phase EXCEPT ![j] = "active"]
  /\ clean' = [clean EXCEPT ![j] = FALSE]
  /\ holder' = [holder EXCEPT ![gpu[j]] = j]
  /\ UNCHANGED <<gpu, reason>>

FailToStart(j) ==
  /\ First(j)
  /\ phase' = [phase EXCEPT ![j] = "ended"]
  /\ UNCHANGED <<gpu, reason, clean, holder>>

End(j, confirmed) ==
  /\ phase[j] = "active"
  /\ phase' = [phase EXCEPT ![j] = "ended"]
  /\ clean' = [clean EXCEPT ![j] = confirmed]
  /\ UNCHANGED <<gpu, reason, holder>>

GiveBack(j) ==
  /\ phase[j] = "ended" /\ clean[j]
  /\ holder[gpu[j]] = j
  /\ holder' = [holder EXCEPT ![gpu[j]] = NoJob]
  /\ UNCHANGED <<phase, gpu, reason, clean>>

Next ==
  \/ \E j \in JobId, g \in Gpus : Accept(j, g)
  \/ \E waiting, active \in SUBSET JobId, r \in Reason : Stop(waiting, active, r)
  \/ \E j \in JobId : Start(j) \/ FailToStart(j) \/ GiveBack(j)
  \/ \E j \in JobId, confirmed \in BOOLEAN : End(j, confirmed)

Spec == Init /\ [][Next]_vars
=============================================================================
