----------------------------- MODULE SupervisorMC -----------------------------
(* Instances of Supervisor for TLC.                                        *)
EXTENDS Supervisor
===============================================================================
