------------------------------- MODULE JobsMC -------------------------------
(***************************************************************************)
(* Small instances of Jobs for TLC.                                        *)
(***************************************************************************)
EXTENDS Jobs

CONSTANTS c1, c2, g1

Late == MaxClock + 1 \* a deadline outside the modelled time

Request(capture, gpu, deadline) ==
  [capture |-> capture, gpu |-> gpu, deadline |-> deadline, worker |-> TRUE]

Done(outcome, confirmed) ==
  [valid |-> TRUE, exception |-> FALSE, outcome |-> outcome, cleanup_confirmed |-> confirmed]

Unexpected(valid) ==
  [valid |-> valid, exception |-> valid, outcome |-> "succeeded", cleanup_confirmed |-> TRUE]

\* One contended GPU.  A deadline that passes while the job waits, runs or is
\* on its way through the mailbox, and a request that is refused.
ContentionRequests ==
  {Request("a", g1, Late), Request("b", g1, 1), [Request("c", g1, Late) EXCEPT !.worker = FALSE]}
ContentionCompletions == {Done("succeeded", TRUE), Unexpected(FALSE)}

\* A job that waits or runs into its deadline, in front of or behind another
\* one, and a callback that leaves the GPU quarantined.
LiveRequests == {Request("a", g1, 1), Request("b", g1, Late)}
LiveCompletions == {Done("succeeded", TRUE), Done("failed", FALSE)}

ClientSymmetry == Permutations(Clients)
=============================================================================
