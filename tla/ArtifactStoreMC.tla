--------------------------- MODULE ArtifactStoreMC ---------------------------
(* Instances of ArtifactStore for TLC.                                     *)
EXTENDS ArtifactStore, TLC

CONSTANTS t1, t2

ThreadSymmetry == Permutations(Threads)
=============================================================================
