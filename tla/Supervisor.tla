----------------------------- MODULE Supervisor -----------------------------
(***************************************************************************)
(* run_process() (src/core/Process.cpp): one owned process tree, the       *)
(* private supervisor that is its child subreaper, and the caller that     *)
(* waits for the supervisor's report.                                      *)
(*                                                                         *)
(* The supervisor and the caller are single-threaded loops that poll every *)
(* poll_ms.  The processes of the tree fork, exit, are adopted and ignore  *)
(* signals between any two of their actions; neighbouring system calls are *)
(* one action where nothing that may happen in between changes what they   *)
(* return.  What a loop forgets from one round to the next is reset.       *)
(* Times are ticks; Prompt assumes that both loops come round between two  *)
(* ticks, which nothing else in the module does.                           *)
(***************************************************************************)
EXTENDS Integers, FiniteSets

CONSTANTS
  MaxProcs,  \* bound: processes the tree ever has; 1 is the target
  Kinds,     \* how processes take signals, a subset of AllKinds
  Timeout,   \* options.timeout
  Grace,     \* options.terminate_grace
  Budget,    \* kill_budget_ms
  Margin,    \* the caller's second on top of the supervisor's budget
  MaxClock,  \* bound: last instant
  Accidents, \* what befalls the caller and the supervisor, a subset of AllAccidents
  Prompt     \* whether both loops come round between two ticks

\* A meek process ends on SIGTERM, a deaf one on SIGKILL only, a stuck one
\* (uninterruptible, or with other privileges) on neither.
AllKinds     == {"meek", "deaf", "stuck"}
AllAccidents == {"caller dies", "supervisor dies", "supervisor hangs"}

\* Where execute() may fail before the program runs.
LaunchStages == {"process_group", "directory", "execute"}

ASSUME SupervisorAssumption ==
  /\ MaxProcs \in Nat \ {0}
  /\ Kinds # {} /\ Kinds \subseteq AllKinds
  /\ \A n \in {Timeout, Grace, Budget, Margin, MaxClock} : n \in Nat
  /\ Timeout # 0
  /\ Accidents \subseteq AllAccidents
  /\ Prompt \in BOOLEAN

Procs   == 1..MaxProcs
Target  == 1
TheSup  == 0         \* as a parent: the supervisor
Outside == MaxProcs + 1  \* as a parent: whoever adopts what the supervisor leaves
Never   == -1

VARIABLES
  clock,
  procs,   \* the process tree as the kernel keeps it
  exec,    \* what became of execute(): "pending", "done" or the stage that failed
  status,  \* how the target ended: "none", "code", "setup" (_exit(127)), "killed"
  stop,    \* the caller's stop token
  wire,    \* the socket pair: the stop byte and whether a report was sent
  sup,     \* supervise()
  report,  \* supervise()'s Report
  par,     \* run_process() after fork()
  fresh    \* the loops that came round since the last tick

vars == <<clock, procs, exec, status, stop, wire, sup, report, par, fresh>>

NoProc   == [state |-> "none", parent |-> TheSup, grouped |-> FALSE, kind |-> "meek",
             doomed |-> FALSE]
NoReport == [failure |-> "none", exit |-> "none", timed_out |-> FALSE, cancelled |-> FALSE,
             confirmed |-> FALSE]
NoResult == [NoReport EXCEPT !.failure = "supervisor"]
NewSup   == [pc |-> "setup", started |-> 0, now |-> 0, exited |-> FALSE, exec_open |-> TRUE,
             cleaning |-> FALSE, cleanup_started |-> 0, target_reaped |-> FALSE, sent |-> {},
             todo |-> {}, live |-> FALSE]
NewPar   == [pc |-> "recv", received |-> FALSE, cleanup_requested |-> Never, killed |-> FALSE,
             result |-> NoReport]
Buried   == [NoProc EXCEPT !.state = "gone"]

SupEnded  == sup.pc \in {"zombie", "reaped"}
Waiting   == par.pc \in {"recv", "observe"}
Live(p)   == procs[p].state = "live"
ChildrenOf(parent) ==
  {p \in Procs : procs[p].parent = parent /\ procs[p].state \in {"live", "zombie"}}

-----------------------------------------------------------------------------
(* The kernel.                                                             *)

\* A process whose parent ended is adopted by the nearest subreaper.
Ended(ps, reaper) ==
  [p \in Procs |->
     LET q      == procs[p]
         parent == IF q.parent \in ps THEN reaper ELSE q.parent
         state  == IF p \in ps THEN "zombie" ELSE q.state
     IN IF q.state \in {"none", "gone"} THEN q
        ELSE IF state = "zombie" /\ parent = Outside THEN Buried
        ELSE [q EXCEPT !.parent = parent, !.state = state, !.doomed = @ /\ p \notin ps]]

\* Mutant: the supervisor forgets to become a subreaper.
ReaperMutant == Outside

\* Who adopts the orphans: PR_SET_CHILD_SUBREAPER.
Reaper == IF SupEnded THEN Outside ELSE TheSup

End(ps) == procs' = Ended(ps, Reaper)

\* SIGTERM ends a meek process sooner or later, SIGKILL any but a stuck one now.
Signalled(ps, signal) ==
  IF signal = "KILL"
  THEN Ended({p \in ps : Live(p) /\ procs[p].kind # "stuck"}, TheSup)
  ELSE [p \in Procs |-> IF p \in ps /\ Live(p) /\ procs[p].kind = "meek"
                        THEN [procs[p] EXCEPT !.doomed = TRUE] ELSE procs[p]]

\* Signalled() may end the target.
StatusAfter(new) ==
  status' = IF Live(Target) /\ new[Target].state # "live" THEN "killed" ELSE status

KernelUnchanged == <<clock, stop, wire, sup, report, par, fresh>>

Exec ==
  /\ exec = "pending" /\ Live(Target) /\ exec' = "done"
  /\ UNCHANGED <<procs, status, KernelUnchanged>>

\* fail_launch() writes the stage; _exit(127) follows and a signal may come first.
LaunchFails(stage) ==
  /\ exec = "pending" /\ Live(Target) /\ exec' = stage
  /\ UNCHANGED <<procs, status, KernelUnchanged>>

\* A child starts in its parent's group or in a session of its own.
Fork(p, child, grouped, kind) ==
  /\ Live(p) /\ exec = "done"
  /\ procs[child] = NoProc /\ \A q \in 1..(child - 1) : procs[q] # NoProc
  /\ grouped => procs[p].grouped
  /\ procs' = [procs EXCEPT ![child] = [NoProc EXCEPT !.state = "live", !.parent = p,
                                                     !.grouped = grouped, !.kind = kind]]
  /\ UNCHANGED <<exec, status, KernelUnchanged>>

\* How the living target may end: of a signal or by itself.
Endings ==
  (IF procs[Target].doomed THEN {"killed"} ELSE {})
    \cup (IF exec = "pending" THEN {} ELSE IF exec = "done" THEN {"code"} ELSE {"setup"})

Exit(p) ==
  /\ Live(p) /\ End({p})
  /\ IF p = Target THEN status' \in Endings ELSE status' = status
  /\ UNCHANGED <<exec, KernelUnchanged>>

\* A process of the tree waits for a child of its own.
Wait(p) ==
  /\ procs[p].state = "zombie" /\ procs[p].parent \in Procs
  /\ procs' = [procs EXCEPT ![p] = Buried]
  /\ UNCHANGED <<exec, status, KernelUnchanged>>

\* Time passes while one of the two loops still runs.
Tick ==
  /\ clock < MaxClock
  /\ ~SupEnded /\ (Waiting \/ sup.pc # "hung")
  /\ Prompt => /\ sup.pc # "hung" => "supervisor" \in fresh
               /\ Waiting => "caller" \in fresh
  /\ clock' = clock + 1 /\ fresh' = {}
  /\ UNCHANGED <<procs, exec, status, stop, wire, sup, report, par>>

-----------------------------------------------------------------------------
(* supervise().                                                            *)

SupUnchanged == <<clock, exec, stop, par>>

\* The next round.
Again == [sup EXCEPT !.pc = "observe", !.now = 0, !.exited = FALSE, !.live = FALSE]

Remembered(failure) == IF report.failure = "none" THEN failure ELSE report.failure

SetupFails ==
  /\ sup.pc = "setup"
  /\ report' = [report EXCEPT !.failure = "setup", !.confirmed = TRUE]
  /\ sup' = [sup EXCEPT !.pc = "send"]
  /\ UNCHANGED <<procs, status, wire, fresh, SupUnchanged>>

\* The target's group is set by both; a supervisor that may not ends the launch.
\* No other process exists until the target's own call has succeeded.
Launch(kind, refused) ==
  /\ sup.pc = "setup"
  /\ procs' = [procs EXCEPT ![Target] = [NoProc EXCEPT !.state = "live", !.grouped = TRUE,
                                                      !.kind = kind]]
  /\ sup' = [sup EXCEPT !.pc = "observe", !.started = clock,
                        !.cleaning = refused, !.cleanup_started = IF refused THEN clock ELSE @]
  /\ report' = IF refused THEN [report EXCEPT !.failure = Remembered("process_group")] ELSE report
  /\ UNCHANGED <<status, wire, fresh, SupUnchanged>>

\* The clock and the target are looked at first; the target is not reaped.
Observe ==
  /\ sup.pc = "observe"
  /\ LET exited == ~sup.target_reaped /\ procs[Target].state = "zombie"
     IN /\ sup' = [sup EXCEPT !.pc = "decide", !.now = clock, !.exited = exited]
        /\ report' = IF exited THEN [report EXCEPT !.exit = status] ELSE report
  /\ UNCHANGED <<procs, status, wire, fresh, SupUnchanged>>

\* What reading the exec status pipe returns.
Pipe == CASE ~sup.exec_open                       -> "closed"
          [] sup.exec_open /\ exec \in LaunchStages -> "failure"
          [] sup.exec_open /\ exec = "done"       -> "end"
          [] sup.exec_open /\ exec = "pending"    -> IF Live(Target) THEN "empty" ELSE "end"

\* A stop byte, or the end of the caller, reads as a cancellation.
Decide ==
  /\ sup.pc = "decide"
  /\ LET failure   == IF Pipe = "failure" THEN Remembered(exec) ELSE report.failure
         over      == sup.exited \/ failure # "none"
         cancelled == ~sup.cleaning /\ ~over /\ (wire.stop \/ par.pc = "died")
         timed_out == ~sup.cleaning /\ ~over /\ ~cancelled /\ sup.now - sup.started >= Timeout
         cleaning  == sup.cleaning \/ over \/ cancelled \/ timed_out
     IN /\ report' = [report EXCEPT !.failure = failure,
                                    !.cancelled = @ \/ cancelled, !.timed_out = @ \/ timed_out]
        /\ sup' = IF cleaning
                  THEN [sup EXCEPT !.pc = "signal", !.exec_open = Pipe = "empty",
                                   !.cleaning = TRUE, !.started = 0,
                                   !.cleanup_started = IF sup.cleaning THEN @ ELSE sup.now]
                  ELSE [Again EXCEPT !.exec_open = Pipe = "empty"]
        /\ fresh' = IF cleaning THEN fresh ELSE fresh \cup {"supervisor"}
  /\ UNCHANGED <<procs, status, wire, SupUnchanged>>

Elapsed == sup.now - sup.cleanup_started
Signal  == IF Elapsed >= Grace THEN "KILL" ELSE "TERM"

\* kill(-target), once with each signal, and /proc/thread-self/children; what
\* is adopted later is not in the list.
SignalGroup ==
  /\ sup.pc = "signal"
  /\ LET due == ~sup.target_reaped /\ Signal \notin sup.sent
         new == IF due THEN Signalled({p \in Procs : procs[p].grouped}, Signal) ELSE procs
     IN /\ procs' = new /\ StatusAfter(new)
        /\ sup' = [sup EXCEPT !.pc = "sweep", !.sent = IF due THEN @ \cup {Signal} ELSE @,
                              !.todo = {p \in Procs : /\ new[p].parent = TheSup
                                                      /\ new[p].state \in {"live", "zombie"}}]
  /\ UNCHANGED <<wire, report, fresh, SupUnchanged>>

\* sweep_child(): a live child is signalled, a dead one reaped, but the target
\* is kept while its process group may still have to be signalled.
Sweep(p) ==
  /\ sup.pc = "sweep" /\ p \in sup.todo
  /\ LET new == IF Live(p) THEN Signalled({p}, Signal)
                ELSE IF p = Target THEN procs
                ELSE [procs EXCEPT ![p] = Buried]
     IN procs' = new /\ StatusAfter(new)
  /\ report' = IF p = Target /\ ~Live(p) THEN [report EXCEPT !.exit = status] ELSE report
  /\ sup' = [sup EXCEPT !.todo = @ \ {p}, !.live = @ \/ Live(p)]
  /\ UNCHANGED <<wire, fresh, SupUnchanged>>

\* The target goes last, when the sweep found nothing else alive.
ReapDue == ~sup.target_reaped /\ sup.exited /\ ~sup.live

Reaped == IF ReapDue THEN [procs EXCEPT ![Target] = Buried] ELSE procs

\* Only ECHILD confirms the cleanup.
Gone == (sup.target_reaped \/ ReapDue) /\ ChildrenOf(TheSup) \subseteq {Target}

\* Beyond its budget the cleanup is given up.
Confirm ==
  /\ sup.pc = "sweep" /\ sup.todo = {}
  /\ LET overdue == ~Gone /\ Elapsed >= Grace + Budget
     IN /\ procs' = Reaped
        /\ report' = [report EXCEPT !.confirmed = Gone,
                                    !.failure = IF overdue THEN Remembered("cleanup") ELSE @]
        /\ sup' = IF Gone \/ overdue THEN [sup EXCEPT !.pc = "send"]
                  ELSE [Again EXCEPT !.target_reaped = @ \/ ReapDue]
        /\ fresh' = IF Gone \/ overdue THEN fresh ELSE fresh \cup {"supervisor"}
  /\ UNCHANGED <<status, wire, SupUnchanged>>

\* What the supervisor leaves behind is adopted by somebody outside.
SupEnds(how) ==
  /\ procs' = Ended({TheSup}, Outside)
  /\ sup' = [NewSup EXCEPT !.pc = how]

\* send_report() is the last thing the supervisor does.
Send ==
  /\ sup.pc = "send"
  /\ wire' = [wire EXCEPT !.report = TRUE]
  /\ SupEnds("zombie")
  /\ UNCHANGED <<status, report, fresh, SupUnchanged>>

SupDies ==
  /\ "supervisor dies" \in Accidents
  /\ ~SupEnded /\ SupEnds("zombie")
  /\ UNCHANGED <<status, wire, report, fresh, SupUnchanged>>

SupHangs ==
  /\ "supervisor hangs" \in Accidents
  /\ ~SupEnded /\ sup.pc # "hung" /\ sup' = [NewSup EXCEPT !.pc = "hung"]
  /\ UNCHANGED <<procs, status, wire, report, fresh, SupUnchanged>>

-----------------------------------------------------------------------------
(* run_process() after fork().                                             *)

ParUnchanged == <<clock, exec, status, stop, report>>

Stop ==
  /\ Waiting /\ ~stop /\ stop' = TRUE
  /\ UNCHANGED <<clock, procs, exec, status, wire, sup, report, par, fresh>>

Recv ==
  /\ par.pc = "recv"
  /\ par' = [par EXCEPT !.pc = "observe", !.received = @ \/ wire.report]
  /\ UNCHANGED <<procs, wire, sup, fresh, ParUnchanged>>

\* Only the exit code of a failed execve() is taken back; 127 remains after the
\* other stages, and so does a signal.
Result ==
  IF report.failure = "execute" /\ report.exit # "killed" THEN [report EXCEPT !.exit = "none"]
  ELSE report

Returned(received) ==
  [NewPar EXCEPT !.pc = "returned", !.result = IF received THEN Result ELSE NoResult]

\* Mutant: what arrived between recv() and the supervisor's end is not read.
SeeEndMutant ==
  /\ par.pc = "observe" /\ sup.pc = "zombie"
  /\ sup' = [sup EXCEPT !.pc = "reaped"]
  /\ par' = Returned(par.received)
  /\ UNCHANGED <<procs, wire, fresh, ParUnchanged>>

\* The supervisor ended: its report may have arrived since the last recv().
SeeEnd ==
  /\ par.pc = "observe" /\ sup.pc = "zombie"
  /\ sup' = [sup EXCEPT !.pc = "reaped"]
  /\ par' = Returned(par.received \/ wire.report)
  /\ UNCHANGED <<procs, wire, fresh, ParUnchanged>>

\* When cleanup was asked for, or should have started by itself.
CleanupRequested ==
  IF par.cleanup_requested # Never THEN par.cleanup_requested
  ELSE IF (stop /\ ~wire.stop) \/ clock >= Timeout THEN clock
  ELSE Never

\* Mutant: the caller allows no more than the supervisor allows itself.
OverdueMutant == CleanupRequested # Never /\ clock - CleanupRequested >= Grace + Budget

Overdue == CleanupRequested # Never /\ clock - CleanupRequested >= Grace + Budget + Margin

\* The supervisor is alive: it is told to stop, and the round ends.
Control ==
  /\ par.pc = "observe" /\ ~SupEnded /\ ~Overdue
  /\ wire' = [wire EXCEPT !.stop = @ \/ stop]
  /\ par' = [par EXCEPT !.pc = "recv", !.cleanup_requested = CleanupRequested]
  /\ fresh' = fresh \cup {"caller"}
  /\ UNCHANGED <<procs, sup, ParUnchanged>>

\* The supervisor itself is killed; the caller never guesses at the group.
HardKill ==
  /\ par.pc = "observe" /\ ~SupEnded /\ Overdue
  /\ SupEnds("reaped")
  /\ par' = [Returned(FALSE) EXCEPT !.killed = TRUE]
  /\ UNCHANGED <<wire, fresh, ParUnchanged>>

CallerDies ==
  /\ "caller dies" \in Accidents /\ Waiting
  /\ par' = [NewPar EXCEPT !.pc = "died"]
  /\ UNCHANGED <<procs, wire, sup, fresh, ParUnchanged>>

-----------------------------------------------------------------------------
Init ==
  /\ clock = 0
  /\ procs = [p \in Procs |-> NoProc]
  /\ exec = "pending" /\ status = "none"
  /\ stop = FALSE
  /\ wire = [stop |-> FALSE, report |-> FALSE]
  /\ sup = NewSup /\ report = NoReport /\ par = NewPar
  /\ fresh = {}

Tree ==
  \/ Exec \/ (\E stage \in LaunchStages : LaunchFails(stage))
  \/ \E p, child \in Procs, grouped \in BOOLEAN, kind \in Kinds : Fork(p, child, grouped, kind)
  \/ \E p \in Procs : Exit(p) \/ Wait(p)

Supervise ==
  \/ SetupFails \/ (\E kind \in Kinds, refused \in BOOLEAN : Launch(kind, refused))
  \/ Observe \/ Decide \/ SignalGroup \/ (\E p \in Procs : Sweep(p)) \/ Confirm \/ Send

Run == Recv \/ SeeEnd \/ Control \/ HardKill

\* Everything has ended and nobody looks any more.
AtRest ==
  /\ ~Waiting /\ (SupEnded \/ sup.pc = "hung")
  /\ UNCHANGED vars

Next ==
  \/ Tree \/ Supervise \/ Run
  \/ Tick \/ Stop \/ SupDies \/ SupHangs \/ CallerDies \/ AtRest

Spec == Init /\ [][Next]_vars

\* Both loops go round, time passes, and a process SIGTERM is fatal to ends.
\* Nothing in the tree is obliged to do anything else.
FairSpec ==
  /\ Spec
  /\ WF_vars(Supervise) /\ WF_vars(Run) /\ WF_vars(Tick)
  /\ \A p \in Procs : WF_vars(procs[p].doomed /\ Exit(p))

-----------------------------------------------------------------------------
\* When cleanup is reported as confirmed no process of the tree is left, however
\* it forked, moved to another session or was orphaned during the cleanup.
ConfirmedMeansGone ==
  report.confirmed \/ par.result.confirmed => \A p \in Procs : procs[p].state \in {"none", "gone"}

\* The caller has the supervisor's report whenever one was sent, unless it killed
\* the supervisor.  A confirmed report says how the target really ended, and a
\* program that never ran is always reported with the stage of a launch that
\* failed, though its process ended with 127 like a program may (Process.cpp:345,
\* 612-640, 674-684).  The exit code itself is withheld for a failed execve() only.
ResultFaithful ==
  par.pc = "returned" /\ ~par.killed =>
    /\ wire.report <=> par.result # NoResult
    /\ par.result.confirmed /\ par.result.failure # "setup" =>
         /\ par.result.exit =
              IF par.result.failure = "execute" /\ status # "killed" THEN "none" ELSE status
         /\ exec \in LaunchStages => par.result.failure \in LaunchStages
         /\ par.result.failure \in {"directory", "execute"} => exec = par.result.failure

\* The supervisor is left to end the tree.  As long as both loops keep up the
\* caller kills only a supervisor that hangs: its deadline never overtakes a
\* cleanup the supervisor would have reported.  And the supervisor of a caller
\* that died ends the whole tree, unless it hangs or dies too, or a process
\* nothing can kill lets it run out of budget.
TreeEnds ==
  /\ [][~par.killed /\ par'.killed => sup.pc = "hung"]_vars
  /\ (par.pc = "died") ~> \/ \A p \in Procs : ~Live(p)
                          \/ sup.pc = "hung" \/ (SupEnded /\ ~wire.report)
                          \/ "stuck" \in Kinds /\ wire.report /\ ~report.confirmed

-----------------------------------------------------------------------------
(* The inductive invariant behind the first two.                           *)

ProcType ==
  [state : {"none", "live", "zombie", "gone"}, parent : 0..Outside, grouped : BOOLEAN,
   kind : AllKinds, doomed : BOOLEAN]

Statuses == {"none", "code", "setup", "killed"}

ReportType ==
  [failure : LaunchStages \cup {"none", "setup", "cleanup", "supervisor"}, exit : Statuses,
   timed_out : BOOLEAN, cancelled : BOOLEAN, confirmed : BOOLEAN]

SupType ==
  [pc : {"setup", "observe", "decide", "signal", "sweep", "send", "zombie", "reaped", "hung"},
   started : Nat, now : Nat, exited : BOOLEAN, exec_open : BOOLEAN, cleaning : BOOLEAN,
   cleanup_started : Nat, target_reaped : BOOLEAN, sent : SUBSET {"TERM", "KILL"},
   todo : SUBSET Procs, live : BOOLEAN]

ParType ==
  [pc : {"recv", "observe", "returned", "died"}, received : BOOLEAN,
   cleanup_requested : Nat \cup {Never}, killed : BOOLEAN, result : ReportType]

TypeOK ==
  /\ clock \in Nat
  /\ procs \in [Procs -> ProcType]
  /\ exec \in LaunchStages \cup {"pending", "done"} /\ status \in Statuses /\ stop \in BOOLEAN
  /\ wire \in [stop : BOOLEAN, report : BOOLEAN]
  /\ sup \in SupType /\ report \in ReportType /\ par \in ParType
  /\ fresh \subseteq {"supervisor", "caller"}

InLoop == sup.pc \in {"observe", "decide", "signal", "sweep"}
Left(p) == procs[p].state \in {"live", "zombie"}

\* p hangs from the supervisor or from a living process with a smaller number,
\* or is somebody else's.
Rooted(p) ==
  \/ procs[p].parent = TheSup /\ ~SupEnded
  \/ procs[p].parent \in 1..(p - 1) /\ Live(procs[p].parent)
  \/ procs[p].parent = Outside /\ SupEnded

\* Numbers are given out in order, and whoever is left is rooted.
TreeInv ==
  /\ \A p \in Procs : procs[p].state = "none" => procs[p] = NoProc
  /\ \A p, q \in Procs : p < q /\ procs[p].state = "none" => procs[q].state = "none"
  /\ \A p \in Procs : Left(p) => Rooted(p)

\* What the supervisor knows of the target is still so.
SupInv ==
  /\ sup.pc = "setup" => sup = NewSup /\ \A p \in Procs : procs[p].state = "none"
  /\ InLoop /\ sup.exited => procs[Target].state = "zombie"
  /\ InLoop /\ sup.target_reaped => procs[Target].state = "gone"
  /\ InLoop /\ (sup.exited \/ sup.target_reaped) => report.exit = status
  /\ \A p \in sup.todo : procs[p].state # "none"

\* An exec status that was read is final and remembered, and it is read before
\* the target is reaped.
ExecInv ==
  InLoop =>
    /\ report.failure \in LaunchStages \cup {"none"}
    /\ report.failure \in {"directory", "execute"} => exec = report.failure
    /\ ~sup.exec_open => /\ exec \in LaunchStages => report.failure # "none"
                         /\ exec # "pending" \/ ~Live(Target)
    /\ sup.target_reaped \/ (sup.exited /\ sup.pc \in {"signal", "sweep"}) => ~sup.exec_open

ReportInv ==
  /\ report.failure # "supervisor"
  /\ sup.pc = "setup" => report = NoReport
  /\ report.confirmed =>
       /\ ~InLoop /\ \A p \in Procs : ~Left(p)
       /\ report.failure # "setup" => /\ report.exit = status
                                      /\ exec \in LaunchStages => report.failure \in LaunchStages
                                      /\ report.failure \in {"directory", "execute"} => exec = report.failure

\* What the caller returned is what the supervisor sent.
WireInv ==
  /\ wire.report => SupEnded
  /\ par.received => wire.report
  /\ par.pc # "returned" => par.result = NoReport
  /\ par.pc = "returned" =>
       /\ SupEnded
       /\ par.result = IF wire.report /\ ~par.killed THEN Result ELSE NoResult

IInv == TypeOK /\ TreeInv /\ SupInv /\ ExecInv /\ ReportInv /\ WireInv
=============================================================================
