----------------------------- MODULE HttpServerMC -----------------------------
(* Instances of HttpServer for TLC.                                        *)
EXTENDS HttpServer, TLC

CONSTANTS c1, c2, f1, f2

Message(kind) == [kind |-> kind, header |-> "none", revision |-> "older"]

Hello(revision) == [Message("initialize") EXCEPT !.revision = revision]

\* Two clients that agree on different revisions, one of them with the header
\* of a revision that may not be that of its session.
SessionRequests ==
  {Hello("2025-06-18"), Hello("older"), Message("initialized"), Message("tool"),
   Message("delete"), Message("get"), [Message("tool") EXCEPT !.header = "2025-06-18"]}

ConnSymmetry == Permutations(Conns)
FdSymmetry   == Permutations(Fds)
Symmetries   == ConnSymmetry \cup FdSymmetry
===============================================================================
