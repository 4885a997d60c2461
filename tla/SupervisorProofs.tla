--------------------------- MODULE SupervisorProofs ---------------------------
(***************************************************************************)
(* What Supervisor checks on two processes, for any number of them, any    *)
(* way they take signals and any times: a confirmed cleanup leaves nobody  *)
(* behind, and the result is what happened.                                *)
(*                                                                         *)
(* IInv (in Supervisor) is inductive.  The first property follows from the *)
(* shape of the tree: of those who are left the one with the least number  *)
(* hangs from the supervisor itself, so the supervisor would still have a  *)
(* child.                                                                  *)
(***************************************************************************)
EXTENDS Supervisor, WellFoundedInduction, TLAPS

-----------------------------------------------------------------------------
(* Numbers.                                                                *)

LEMMA Numbers ==
  /\ Procs \subseteq Nat /\ Target \in Procs /\ Outside \in Nat
  /\ TheSup \notin Procs /\ Outside \notin Procs /\ TheSup # Outside
  /\ \A p \in Procs : 1..(p - 1) \subseteq Procs
BY SupervisorAssumption DEF Procs, Target, TheSup, Outside

Less == {ss \in Nat \X Nat : ss[1] < ss[2]}

LEMMA Least ==
  ASSUME NEW S \in SUBSET Nat, S # {}
  PROVE  \E x \in S : \A y \in S : x <= y
<1>1. IsWellFoundedOn(Less, Nat)
  BY NatLessThanWellFounded DEF Less, OpToRel
<1>2. PICK x \in S : \A y \in S : ~(<<y, x>> \in Less)
  BY <1>1, WFMin
<1>3. ASSUME NEW y \in S PROVE x <= y
  <2>1. ~(<<y, x>> \in Less)
    BY <1>2
  <2>2. ~(y < x)
    BY <2>1 DEF Less
  <2> QED
    BY <2>2
<1> QED
  BY <1>3

-----------------------------------------------------------------------------
(* What a step may do to the tree.                                         *)

LEMMA NoProcType == NoProc \in ProcType /\ Buried \in ProcType /\ Buried.state = "gone"
<1>1. TheSup \in 0..Outside
  BY Numbers DEF TheSup
<1>2. NoProc \in ProcType
  BY <1>1 DEF NoProc, ProcType, AllKinds
<1>3. Buried \in ProcType /\ Buried.state = "gone"
  BY <1>2 DEF Buried, NoProc, ProcType
<1> QED
  BY <1>2, <1>3

LEMMA NoResultType ==
  /\ NoReport \in ReportType /\ NoResult \in ReportType
  /\ NoReport.confirmed = FALSE /\ NoResult.confirmed = FALSE
  /\ NoReport.failure = "none" /\ NoResult.failure = "supervisor"
BY DEF NoReport, NoResult, ReportType, Statuses

\* Ended() at one process.
LEMMA EndedAt ==
  ASSUME TypeOK, NEW ps, NEW reaper \in {TheSup, Outside}, NEW p \in Procs
  PROVE  LET new == Ended(ps, reaper)[p] IN
         /\ new \in ProcType
         /\ procs[p].state \in {"none", "gone"} => new = procs[p]
         /\ procs[p].state = "zombie" => new.state \in {"zombie", "gone"}
         /\ procs[p].state # "none" => new.state # "none"
         /\ new.state = "live" <=> Live(p) /\ p \notin ps
         /\ new.state = "gone" => procs[p].state = "gone" \/ reaper = Outside
                                  \/ procs[p].parent = Outside
         /\ new.state \in {"live", "zombie"} =>
              /\ Left(p)
              /\ new.parent = IF procs[p].parent \in ps THEN reaper ELSE procs[p].parent
<1> DEFINE q      == procs[p]
           parent == IF q.parent \in ps THEN reaper ELSE q.parent
           state  == IF p \in ps THEN "zombie" ELSE q.state
<1>1. q \in ProcType
  BY DEF TypeOK
<1>2. CASE q.state \in {"none", "gone"}
  <2>1. Ended(ps, reaper)[p] = q
    BY <1>2 DEF Ended
  <2> QED
    BY <2>1, <1>1, <1>2 DEF Live, ProcType
<1>3. CASE q.state \notin {"none", "gone"} /\ state = "zombie" /\ parent = Outside
  <2>1. Ended(ps, reaper)[p] = Buried
    BY <1>3 DEF Ended
  <2> QED
    BY <2>1, <1>1, <1>3, NoProcType DEF Live, ProcType
<1>4. CASE q.state \notin {"none", "gone"} /\ ~(state = "zombie" /\ parent = Outside)
  <2>1. Ended(ps, reaper)[p] = [q EXCEPT !.parent = parent, !.state = state,
                                         !.doomed = @ /\ p \notin ps]
    BY <1>4 DEF Ended
  <2>2. parent \in 0..Outside /\ state \in {"live", "zombie"}
    BY <1>1, <1>4, Numbers DEF ProcType, TheSup
  <2>3. (q.doomed /\ p \notin ps) \in BOOLEAN
    OBVIOUS
  <2>4. Ended(ps, reaper)[p] \in ProcType
    BY <2>1, <2>2, <2>3, <1>1 DEF ProcType
  <2>5. Ended(ps, reaper)[p].parent = parent /\ Ended(ps, reaper)[p].state = state
    BY <2>1, <1>1 DEF ProcType
  <2> QED
    BY <2>2, <2>4, <2>5, <1>1, <1>4 DEF Live, Left, ProcType
<1> QED
  BY <1>2, <1>3, <1>4

LEMMA EndedType ==
  ASSUME TypeOK, NEW ps, NEW reaper \in {TheSup, Outside}
  PROVE  Ended(ps, reaper) \in [Procs -> ProcType]
<1>1. \A p \in Procs : Ended(ps, reaper)[p] \in ProcType
  BY EndedAt
<1>2. Ended(ps, reaper) = [p \in Procs |-> Ended(ps, reaper)[p]]
  BY DEF Ended
<1> QED
  BY <1>1, <1>2

\* The first two parts of TreeInv survive when nobody is forgotten and nobody new.
LEMMA NumbersKept ==
  ASSUME TypeOK, TreeInv, procs' \in [Procs -> ProcType],
         \A p \in Procs : /\ procs[p].state = "none" => procs'[p] = procs[p]
                          /\ procs[p].state # "none" => procs'[p].state # "none"
  PROVE  /\ \A p \in Procs : procs'[p].state = "none" => procs'[p] = NoProc
         /\ \A p, q \in Procs : p < q /\ procs'[p].state = "none" => procs'[q].state = "none"
BY DEF TreeInv

\* Processes that end hand their children to the subreaper.
LEMMA EndedTree ==
  ASSUME TypeOK, TreeInv, NEW ps \in SUBSET Procs, procs' = Ended(ps, Reaper),
         SupEnded' = SupEnded
  PROVE  TreeInv'
<1>1. Reaper \in {TheSup, Outside}
  BY DEF Reaper
<1>2. procs' \in [Procs -> ProcType]
  BY <1>1, EndedType
<1>3. \A p \in Procs : /\ procs[p].state = "none" => procs'[p] = procs[p]
                       /\ procs[p].state # "none" => procs'[p].state # "none"
  BY <1>1, EndedAt
<1>4. ASSUME NEW p \in Procs, Left(p)'
      PROVE  \/ procs'[p].parent = TheSup /\ ~SupEnded
             \/ procs'[p].parent \in 1..(p - 1) /\ procs'[procs'[p].parent].state = "live"
             \/ procs'[p].parent = Outside /\ SupEnded
  <2>1. Left(p) /\ procs'[p].parent = IF procs[p].parent \in ps THEN Reaper ELSE procs[p].parent
    BY <1>1, <1>4, EndedAt DEF Left
  <2>2. CASE procs[p].parent \in ps
    BY <2>1, <2>2 DEF Reaper
  <2>3. CASE procs[p].parent \notin ps /\ procs[p].parent \in 1..(p - 1) /\ Live(procs[p].parent)
    <3>1. procs[p].parent \in Procs
      BY <2>3, Numbers
    <3>2. procs'[procs[p].parent].state = "live"
      BY <1>1, <3>1, <2>3, EndedAt
    <3> QED
      BY <2>1, <2>3, <3>2 DEF Live
  <2>4. CASE procs[p].parent \notin ps /\ ~(procs[p].parent \in 1..(p - 1) /\ Live(procs[p].parent))
    BY <2>1, <2>4 DEF TreeInv, Rooted
  <2> QED
    BY <2>2, <2>3, <2>4
<1>5. \A p \in Procs : Left(p)' => Rooted(p)'
  BY <1>4 DEF Rooted, Live
<1> QED
  BY <1>2, <1>3, <1>5, NumbersKept DEF TreeInv

\* The supervisor's children are adopted by somebody outside.
LEMMA AbandonedTree ==
  ASSUME TypeOK, TreeInv, ~SupEnded, procs' = Ended({TheSup}, Outside), SupEnded'
  PROVE  TreeInv'
<1>1. procs' \in [Procs -> ProcType]
  BY EndedType
<1>2. \A p \in Procs : /\ procs[p].state = "none" => procs'[p] = procs[p]
                       /\ procs[p].state # "none" => procs'[p].state # "none"
  BY EndedAt
<1>3. ASSUME NEW p \in Procs, Left(p)'
      PROVE  \/ procs'[p].parent \in 1..(p - 1) /\ procs'[procs'[p].parent].state = "live"
             \/ procs'[p].parent = Outside
  <2>1. Left(p) /\ procs'[p].parent = IF procs[p].parent = TheSup THEN Outside ELSE procs[p].parent
    BY <1>3, EndedAt DEF Left
  <2>2. CASE procs[p].parent = TheSup
    BY <2>1, <2>2
  <2>3. CASE procs[p].parent # TheSup
    <3>1. procs[p].parent \in 1..(p - 1) /\ Live(procs[p].parent)
      BY <2>1, <2>3 DEF TreeInv, Rooted
    <3>2. procs[p].parent \in Procs
      BY <3>1, Numbers
    <3>3. procs'[procs[p].parent].state = "live"
      BY <3>1, <3>2, EndedAt, Numbers
    <3> QED
      BY <2>1, <2>3, <3>1, <3>3 DEF Live
  <2> QED
    BY <2>2, <2>3
<1>4. \A p \in Procs : Left(p)' => Rooted(p)'
  BY <1>3 DEF Rooted, Live
<1> QED
  BY <1>1, <1>2, <1>4, NumbersKept DEF TreeInv

\* A dead process is reaped: it had no children any more.
LEMMA BuriedTree ==
  ASSUME TypeOK, TreeInv, NEW b \in Procs, procs[b].state \in {"zombie", "gone"},
         procs' = [procs EXCEPT ![b] = Buried], SupEnded' = SupEnded
  PROVE  TreeInv'
<1>1. procs' \in [Procs -> ProcType]
  BY NoProcType DEF TypeOK
<1>2. \A p \in Procs : procs'[p] = IF p = b THEN Buried ELSE procs[p]
  BY DEF TypeOK
<1>3. \A p \in Procs : /\ procs[p].state = "none" => procs'[p] = procs[p]
                       /\ procs[p].state # "none" => procs'[p].state # "none"
  BY <1>2, NoProcType
<1>4. \A p \in Procs : Left(p)' => p # b /\ Left(p)
  BY <1>2, NoProcType DEF Left
<1>5. \A p \in Procs : Live(p) => Live(p)'
  BY <1>2 DEF Live
<1>6. \A p \in Procs : Left(p)' => Rooted(p)'
  <2> SUFFICES ASSUME NEW p \in Procs, Left(p)' PROVE Rooted(p)'
    OBVIOUS
  <2>1. Rooted(p) /\ procs'[p].parent = procs[p].parent
    BY <1>2, <1>4 DEF TreeInv
  <2> QED
    BY <2>1, <1>5, Numbers DEF Rooted, Live
<1> QED
  BY <1>1, <1>3, <1>6, NumbersKept DEF TreeInv

\* Nothing but .doomed changes.
LEMMA SameTree ==
  ASSUME TypeOK, TreeInv, procs' \in [Procs -> ProcType], SupEnded' = SupEnded,
         \A p \in Procs : /\ procs[p].state = "none" => procs'[p] = procs[p]
                          /\ procs'[p].state = procs[p].state
                          /\ procs'[p].parent = procs[p].parent
  PROVE  TreeInv'
<1>1. \A p \in Procs : Left(p)' => Rooted(p)'
  <2> SUFFICES ASSUME NEW p \in Procs, Left(p)' PROVE Rooted(p)'
    OBVIOUS
  <2>1. Rooted(p)
    BY DEF TreeInv, Left
  <2>2. \A q \in 1..(p - 1) : procs'[q].state = procs[q].state
    BY Numbers
  <2> QED
    BY <2>1, <2>2 DEF Rooted, Live
<1> QED
  BY <1>1, NumbersKept DEF TreeInv
-----------------------------------------------------------------------------
(* Steps of the tree and signals.                                          *)

\* What is known of the target and of the exec status stays so.
Onward ==
  /\ \A p \in Procs : procs[p].state # "none" => procs'[p].state # "none"
  /\ ~Live(Target) => exec' = exec /\ status' = status /\ ~Live(Target)'
  /\ procs[Target].state = "zombie" /\ ~SupEnded => procs'[Target].state = "zombie"
  /\ procs[Target].state = "gone" => procs'[Target].state = "gone"
  /\ exec # "pending" => exec' = exec

\* The target is nobody's child but the supervisor's.
LEMMA TargetRooted ==
  ASSUME TypeOK, TreeInv, Left(Target)
  PROVE  \/ ~SupEnded /\ procs[Target].parent = TheSup
         \/ SupEnded /\ procs[Target].parent = Outside
<1>1. Rooted(Target)
  BY Numbers DEF TreeInv
<1>2. 1..(Target - 1) = {}
  BY DEF Target
<1> QED
  BY <1>1, <1>2 DEF Rooted

LEMMA EndedOnward ==
  ASSUME TypeOK, TreeInv, NEW ps \in SUBSET Procs, procs' = Ended(ps, Reaper),
         ~Live(Target) => exec' = exec /\ status' = status,
         exec # "pending" => exec' = exec
  PROVE  Onward
<1>1. Reaper \in {TheSup, Outside} /\ (~SupEnded => Reaper = TheSup)
  BY DEF Reaper
<1>2. \A p \in Procs : procs[p].state # "none" => procs'[p].state # "none"
  BY <1>1, EndedAt
<1>3. ~Live(Target) => procs'[Target].state # "live"
  BY <1>1, EndedAt, Numbers
<1>4. procs[Target].state = "zombie" /\ ~SupEnded => procs'[Target].state = "zombie"
  <2> SUFFICES ASSUME procs[Target].state = "zombie", ~SupEnded
               PROVE  procs'[Target].state = "zombie"
    OBVIOUS
  <2>1. procs[Target].parent = TheSup
    BY TargetRooted DEF Left
  <2>2. procs'[Target].state \in {"zombie", "gone"}
    BY <1>1, EndedAt, Numbers
  <2>3. procs'[Target].state # "gone"
    BY <1>1, <2>1, EndedAt, Numbers
  <2> QED
    BY <2>2, <2>3
<1>5. procs[Target].state = "gone" => procs'[Target].state = "gone"
  BY <1>1, EndedAt, Numbers
<1> QED
  BY <1>2, <1>3, <1>4, <1>5 DEF Onward, Live

LEMMA ForkStep ==
  ASSUME TypeOK, TreeInv, NEW p \in Procs, NEW child \in Procs, NEW grouped \in BOOLEAN,
         NEW kind \in Kinds, Fork(p, child, grouped, kind)
  PROVE  procs' \in [Procs -> ProcType] /\ TreeInv' /\ Onward
<1> DEFINE new == [NoProc EXCEPT !.state = "live", !.parent = p, !.grouped = grouped, !.kind = kind]
<1>1. /\ procs[p].state = "live" /\ procs[child] = NoProc
      /\ \A q \in 1..(child - 1) : procs[q] # NoProc
      /\ procs' = [procs EXCEPT ![child] = new]
      /\ exec = "done" /\ UNCHANGED <<exec, status, sup>>
  BY DEF Fork, KernelUnchanged, Live
<1>2. NoProc.state = "none"
  BY DEF NoProc
<1>3. child # p /\ p < child
  <2>1. child # p
    BY <1>1, <1>2
  <2>2. ~(child < p)
    BY <1>1, <1>2 DEF TreeInv
  <2> QED
    BY <2>1, <2>2, Numbers
<1>4. p \in 0..Outside /\ kind \in AllKinds
  BY SupervisorAssumption, Numbers DEF Procs, Outside
<1>5. new \in ProcType /\ new.state = "live" /\ new.parent = p
  BY <1>4 DEF NoProc, ProcType
<1>6. procs' \in [Procs -> ProcType]
  BY <1>1, <1>5 DEF TypeOK
<1>7. \A q \in Procs : procs'[q] = IF q = child THEN new ELSE procs[q]
  BY <1>1 DEF TypeOK
<1>8. \A q \in Procs : procs'[q].state = "none" => procs'[q] = NoProc
  BY <1>5, <1>7 DEF TreeInv
<1>9. ASSUME NEW q \in Procs, NEW r \in Procs, q < r, procs'[q].state = "none"
      PROVE  procs'[r].state = "none"
  <2>1. q # child /\ procs[q].state = "none"
    BY <1>5, <1>7, <1>9
  <2>2. procs[q] = NoProc
    BY <2>1 DEF TreeInv
  <2>3. q \notin 1..(child - 1)
    BY <1>1, <2>2
  <2>4. child < q
    BY <2>1, <2>3, Numbers DEF Procs
  <2>5. r # child
    BY <1>9, <2>4, Numbers
  <2>6. procs[r].state = "none"
    BY <1>9, <2>1 DEF TreeInv
  <2> QED
    BY <1>7, <2>5, <2>6
<1>10. ASSUME NEW q \in Procs, Left(q)'
       PROVE  Rooted(q)'
  <2>1. CASE q = child
    <3>1. p \in 1..(q - 1)
      BY <2>1, <1>3, Numbers DEF Procs
    <3>2. procs'[q].parent = p
      BY <2>1, <1>5, <1>7
    <3>3. procs'[p].state = "live"
      BY <1>1, <1>3, <1>7
    <3> QED
      BY <3>1, <3>2, <3>3 DEF Rooted, Live
  <2>2. CASE q # child
    <3>1. procs'[q] = procs[q] /\ Left(q)
      BY <2>2, <1>7, <1>10 DEF Left
    <3>2. Rooted(q)
      BY <3>1 DEF TreeInv
    <3>3. \A r \in 1..(q - 1) : Live(r) => procs'[r].state = "live"
      BY <1>5, <1>7, Numbers DEF Live
    <3> QED
      BY <1>1, <3>1, <3>2, <3>3 DEF Rooted, Live, SupEnded
  <2> QED
    BY <2>1, <2>2
<1>11. child # Target
  BY <1>3, Numbers DEF Target, Procs
<1>12. Onward
  BY <1>1, <1>5, <1>7, <1>11, Numbers DEF Onward, Live
<1> QED
  BY <1>6, <1>8, <1>9, <1>10, <1>12 DEF TreeInv

LEMMA TreeStep ==
  ASSUME TypeOK, TreeInv, Tree
  PROVE  TypeOK' /\ TreeInv' /\ Onward /\ UNCHANGED KernelUnchanged /\ \E p \in Procs : Left(p)
<1>1. CASE Exec
  <2>1. procs' = procs /\ UNCHANGED <<sup, status>> /\ Live(Target) /\ exec = "pending"
    BY <1>1 DEF Exec, KernelUnchanged
  <2>2. TypeOK'
    BY <1>1 DEF Exec, KernelUnchanged, TypeOK
  <2>3. TreeInv'
    BY <2>1, SameTree DEF TypeOK, SupEnded
  <2>4. Onward
    BY <2>1 DEF Onward, Live
  <2> QED
    BY <1>1, <2>1, <2>2, <2>3, <2>4, Numbers DEF Exec, KernelUnchanged, Live, Left
<1>2. ASSUME NEW stage \in LaunchStages, LaunchFails(stage)
      PROVE  TypeOK' /\ TreeInv' /\ Onward /\ UNCHANGED KernelUnchanged /\ Left(Target)
  <2>1. procs' = procs /\ UNCHANGED <<sup, status>> /\ Live(Target) /\ exec = "pending"
    BY <1>2 DEF LaunchFails, KernelUnchanged
  <2>2. TypeOK'
    BY <1>2 DEF LaunchFails, KernelUnchanged, TypeOK
  <2>3. TreeInv'
    BY <2>1, SameTree DEF TypeOK, SupEnded
  <2>4. Onward
    BY <2>1 DEF Onward, Live
  <2> QED
    BY <1>2, <2>1, <2>2, <2>3, <2>4 DEF LaunchFails, KernelUnchanged, Live, Left
<1>3. ASSUME NEW p \in Procs, NEW child \in Procs, NEW grouped \in BOOLEAN, NEW kind \in Kinds,
             Fork(p, child, grouped, kind)
      PROVE  TypeOK' /\ TreeInv' /\ Onward /\ UNCHANGED KernelUnchanged /\ Left(p)
  <2>1. procs' \in [Procs -> ProcType] /\ TreeInv' /\ Onward
    BY <1>3, ForkStep
  <2>2. TypeOK'
    BY <1>3, <2>1 DEF Fork, KernelUnchanged, TypeOK
  <2> QED
    BY <1>3, <2>1, <2>2 DEF Fork, KernelUnchanged, Live, Left
<1>4. ASSUME NEW p \in Procs, Exit(p)
      PROVE  TypeOK' /\ TreeInv' /\ Onward /\ UNCHANGED KernelUnchanged /\ Left(p)
  <2>1. /\ procs' = Ended({p}, Reaper) /\ UNCHANGED <<sup, exec>> /\ Live(p)
        /\ {p} \in SUBSET Procs
        /\ ~Live(Target) => status' = status
    BY <1>4 DEF Exit, End, KernelUnchanged
  <2>2. procs' \in [Procs -> ProcType]
    BY <2>1, EndedType DEF Reaper
  <2>3. status' \in Statuses
    BY <1>4 DEF Exit, Endings, TypeOK, Statuses
  <2>4. TypeOK'
    BY <1>4, <2>2, <2>3 DEF Exit, KernelUnchanged, TypeOK
  <2>5. SupEnded' = SupEnded
    BY <2>1 DEF SupEnded
  <2>6. TreeInv'
    BY <2>1, <2>5, EndedTree
  <2>7. Onward
    BY <2>1, EndedOnward
  <2> QED
    BY <1>4, <2>1, <2>4, <2>6, <2>7 DEF Exit, KernelUnchanged, Live, Left
<1>5. ASSUME NEW p \in Procs, Wait(p)
      PROVE  TypeOK' /\ TreeInv' /\ Onward /\ UNCHANGED KernelUnchanged /\ Left(p)
  <2>1. /\ procs[p].state = "zombie" /\ procs[p].parent \in Procs
        /\ procs' = [procs EXCEPT ![p] = Buried]
        /\ UNCHANGED <<exec, status, KernelUnchanged>>
    BY <1>5 DEF Wait
  <2>2. procs' \in [Procs -> ProcType]
    BY <2>1, NoProcType DEF TypeOK
  <2>3. TypeOK'
    BY <2>1, <2>2 DEF KernelUnchanged, TypeOK
  <2>4. SupEnded' = SupEnded
    BY <2>1 DEF SupEnded, KernelUnchanged
  <2>5. TreeInv'
    BY <2>1, <2>4, BuriedTree
  <2>6. p # Target
    <3>1. Left(p)
      BY <2>1 DEF Left
    <3> QED
      BY <2>1, <3>1, TargetRooted, Numbers
  <2>7. \A q \in Procs : procs'[q] = IF q = p THEN Buried ELSE procs[q]
    BY <2>1 DEF TypeOK
  <2>8. Onward
    BY <2>1, <2>6, <2>7, NoProcType, Numbers DEF Onward, Live
  <2> QED
    BY <2>1, <2>3, <2>5, <2>8 DEF Left, KernelUnchanged
<1> QED
  BY <1>1, <1>2, <1>3, <1>4, <1>5, Numbers DEF Tree
-----------------------------------------------------------------------------
(* The tree moves while the loops look away.                               *)

LEMMA TreeInvariant ==
  ASSUME IInv, Tree
  PROVE  IInv'
<1> USE DEF IInv
<1>1. /\ TypeOK' /\ TreeInv' /\ Onward /\ \E p \in Procs : Left(p)
      /\ UNCHANGED <<sup, report, wire, par>>
  BY TreeStep DEF KernelUnchanged
<1>2. InLoop' = InLoop /\ SupEnded' = SupEnded /\ Result' = Result /\ (InLoop => ~SupEnded)
  BY <1>1 DEF InLoop, SupEnded, Result
<1>3. SupInv'
  <2>1. sup.pc # "setup"
    BY <1>1 DEF SupInv, Left
  <2>2. InLoop /\ sup.exited => procs'[Target].state = "zombie"
    BY <1>1, <1>2 DEF SupInv, Onward
  <2>3. InLoop /\ sup.target_reaped => procs'[Target].state = "gone"
    BY <1>1 DEF SupInv, Onward
  <2>4. InLoop /\ (sup.exited \/ sup.target_reaped) => report.exit = status'
    <3>1. InLoop /\ (sup.exited \/ sup.target_reaped) => ~Live(Target) /\ report.exit = status
      BY DEF SupInv, Live
    <3> QED
      BY <1>1, <3>1 DEF Onward
  <2>5. sup.todo \subseteq Procs
    BY DEF TypeOK, SupType
  <2>6. \A p \in sup.todo : procs'[p].state # "none"
    BY <1>1, <2>5 DEF SupInv, Onward
  <2> QED
    BY <1>1, <1>2, <2>1, <2>2, <2>3, <2>4, <2>6 DEF SupInv
<1>4. ExecInv'
  <2>1. /\ exec # "pending" => exec' = exec
        /\ ~Live(Target) => exec' = exec /\ ~Live(Target)'
    BY <1>1 DEF Onward
  <2> QED
    BY <1>1, <1>2, <2>1 DEF ExecInv
<1>5. ~report.confirmed
  BY <1>1 DEF ReportInv
<1>6. ReportInv'
  BY <1>1, <1>5 DEF ReportInv
<1>7. WireInv'
  BY <1>1, <1>2 DEF WireInv
<1> QED
  BY <1>1, <1>3, <1>4, <1>6, <1>7

-----------------------------------------------------------------------------
(* The supervisor's steps.                                                 *)

\* Nothing was sent and nothing returned while the supervisor goes on.
LEMMA WireStays ==
  ASSUME WireInv, ~SupEnded, par' = par, wire'.report => SupEnded'
  PROVE  WireInv'
BY DEF WireInv

LEMMA SameProcs ==
  ASSUME TreeInv, procs' = procs, ~SupEnded, ~SupEnded'
  PROVE  TreeInv'
BY DEF TreeInv, Rooted, Left, Live

LEMMA LoopFacts ==
  ASSUME IInv, InLoop
  PROVE  ~SupEnded /\ ~report.confirmed /\ sup.pc # "setup"
BY DEF IInv, ReportInv, InLoop, SupEnded

LEMMA SetupFailsStep ==
  ASSUME IInv, SetupFails
  PROVE  IInv'
<1>1. /\ sup = NewSup /\ report = NoReport /\ \A p \in Procs : procs[p].state = "none"
      /\ procs' = procs /\ status' = status /\ wire' = wire /\ fresh' = fresh
      /\ clock' = clock /\ exec' = exec /\ stop' = stop /\ par' = par
      /\ report' = [report EXCEPT !.failure = "setup", !.confirmed = TRUE]
      /\ sup' = [sup EXCEPT !.pc = "send"]
  BY DEF IInv, SupInv, ReportInv, SetupFails, SupUnchanged
<1>2. sup' \in SupType /\ sup'.pc = "send" /\ sup'.todo = {}
  BY <1>1 DEF IInv, TypeOK, SupType, NewSup
<1>3. report' \in ReportType /\ report'.failure = "setup"
  BY <1>1 DEF IInv, TypeOK, ReportType
<1>4. TypeOK'
  BY <1>1, <1>2, <1>3 DEF IInv, TypeOK
<1>5. ~SupEnded /\ ~SupEnded' /\ ~InLoop'
  BY <1>1, <1>2 DEF SupEnded, InLoop, NewSup
<1>6. TreeInv'
  BY <1>1, <1>5, SameProcs DEF IInv
<1>7. SupInv' /\ ExecInv'
  BY <1>2, <1>5 DEF SupInv, ExecInv
<1>8. ReportInv'
  BY <1>1, <1>2, <1>3, <1>5 DEF ReportInv, Left
<1>9. WireInv'
  BY <1>1, <1>5, WireStays DEF IInv, WireInv
<1> QED
  BY <1>4, <1>6, <1>7, <1>8, <1>9 DEF IInv

LEMMA LaunchStep ==
  ASSUME IInv, NEW kind \in Kinds, NEW refused \in BOOLEAN, Launch(kind, refused)
  PROVE  IInv'
<1> DEFINE new == [NoProc EXCEPT !.state = "live", !.grouped = TRUE, !.kind = kind]
<1>1. /\ sup = NewSup /\ report = NoReport /\ \A p \in Procs : procs[p].state = "none"
      /\ procs' = [procs EXCEPT ![Target] = new]
      /\ status' = status /\ wire' = wire /\ fresh' = fresh
      /\ clock' = clock /\ exec' = exec /\ stop' = stop /\ par' = par
      /\ sup' = [sup EXCEPT !.pc = "observe", !.started = clock,
                            !.cleaning = refused, !.cleanup_started = IF refused THEN clock ELSE @]
      /\ report' = IF refused THEN [report EXCEPT !.failure = "process_group"] ELSE report
  BY DEF IInv, SupInv, ReportInv, Launch, SupUnchanged, Remembered, NoReport
<1>2. new \in ProcType /\ new.state = "live" /\ new.parent = TheSup
  <2>1. kind \in AllKinds
    BY SupervisorAssumption
  <2> QED
    BY <2>1, NoProcType DEF NoProc, ProcType
<1>3. procs' \in [Procs -> ProcType]
  BY <1>1, <1>2 DEF IInv, TypeOK
<1>4. /\ sup' \in SupType /\ sup'.pc = "observe" /\ sup'.exited = FALSE
      /\ sup'.target_reaped = FALSE /\ sup'.exec_open = TRUE /\ sup'.todo = {}
  BY <1>1 DEF IInv, TypeOK, SupType, NewSup
<1>4a. report' \in ReportType /\ report'.failure \in {"none", "process_group"} /\ ~report'.confirmed
  BY <1>1, NoResultType DEF ReportType, LaunchStages
<1>5. TypeOK'
  BY <1>1, <1>3, <1>4, <1>4a DEF IInv, TypeOK
<1>6. ~SupEnded /\ ~SupEnded'
  BY <1>1, <1>4 DEF SupEnded, NewSup
<1>7. TreeInv'
  <2>1. \A p \in Procs : procs'[p] = IF p = Target THEN new ELSE procs[p]
    BY <1>1 DEF IInv, TypeOK
  <2>2. \A p \in Procs : procs'[p].state = "none" => procs'[p] = NoProc
    BY <1>2, <2>1 DEF IInv, TreeInv
  <2>3. \A p, q \in Procs : p < q /\ procs'[p].state = "none" => procs'[q].state = "none"
    <3>1. \A p, q \in Procs : p < q => q # Target
      BY Numbers DEF Procs, Target
    <3> QED
      BY <1>1, <2>1, <3>1
  <2>4. \A p \in Procs : Left(p)' => Rooted(p)'
    BY <1>1, <1>2, <1>6, <2>1 DEF Left, Rooted
  <2> QED
    BY <2>2, <2>3, <2>4 DEF TreeInv
<1>8. SupInv'
  BY <1>4 DEF SupInv
<1>9. ExecInv'
  BY <1>1, <1>4, <1>4a DEF ExecInv, LaunchStages
<1>10. ReportInv'
  BY <1>1, <1>4, <1>4a DEF ReportInv
<1>11. WireInv'
  BY <1>1, <1>6, WireStays DEF IInv, WireInv
<1> QED
  BY <1>5, <1>7, <1>8, <1>9, <1>10, <1>11 DEF IInv

LEMMA ObserveStep ==
  ASSUME IInv, Observe
  PROVE  IInv'
<1> DEFINE exited == ~sup.target_reaped /\ procs[Target].state = "zombie"
<1>1. /\ sup.pc = "observe"
      /\ procs' = procs /\ status' = status /\ wire' = wire /\ fresh' = fresh
      /\ clock' = clock /\ exec' = exec /\ stop' = stop /\ par' = par
      /\ sup' = [sup EXCEPT !.pc = "decide", !.now = clock, !.exited = exited]
      /\ report' = IF exited THEN [report EXCEPT !.exit = status] ELSE report
  BY DEF Observe, SupUnchanged
<1>2. InLoop /\ ~SupEnded /\ ~report.confirmed
  BY <1>1, LoopFacts DEF InLoop
<1>3. /\ sup' \in SupType /\ sup'.pc = "decide" /\ sup'.exited = exited
      /\ sup'.target_reaped = sup.target_reaped /\ sup'.exec_open = sup.exec_open
      /\ sup'.todo = sup.todo
  <2>1. exited \in BOOLEAN
    OBVIOUS
  <2> QED
    BY <1>1, <2>1 DEF IInv, TypeOK, SupType
<1>4. /\ report' \in ReportType /\ report'.failure = report.failure
      /\ report'.confirmed = report.confirmed
      /\ report'.exit = IF exited THEN status ELSE report.exit
  BY <1>1 DEF IInv, TypeOK, ReportType
<1>5. TypeOK'
  BY <1>1, <1>3, <1>4 DEF IInv, TypeOK
<1>6. ~SupEnded' /\ InLoop'
  BY <1>3 DEF SupEnded, InLoop
<1>7. TreeInv'
  BY <1>1, <1>2, <1>6, SameProcs DEF IInv
<1>8. SupInv'
  BY <1>1, <1>2, <1>3, <1>4 DEF IInv, SupInv
<1>9. ExecInv'
  BY <1>1, <1>2, <1>3, <1>4 DEF IInv, ExecInv, Live
<1>10. ReportInv'
  BY <1>2, <1>3, <1>4 DEF IInv, ReportInv
<1>11. WireInv'
  BY <1>1, <1>2, WireStays DEF IInv, WireInv
<1> QED
  BY <1>5, <1>7, <1>8, <1>9, <1>10, <1>11 DEF IInv

LEMMA PipeFacts ==
  ASSUME TypeOK
  PROVE  /\ Pipe = "failure" <=> sup.exec_open /\ exec \in LaunchStages
         /\ Pipe = "empty" <=> sup.exec_open /\ exec = "pending" /\ Live(Target)
BY DEF Pipe, TypeOK, SupType, LaunchStages

LEMMA DecideStep ==
  ASSUME IInv, Decide
  PROVE  IInv'
<1> DEFINE failure   == IF Pipe = "failure" THEN Remembered(exec) ELSE report.failure
           over      == sup.exited \/ failure # "none"
           cancelled == ~sup.cleaning /\ ~over /\ (wire.stop \/ par.pc = "died")
           timed_out == ~sup.cleaning /\ ~over /\ ~cancelled /\ sup.now - sup.started >= Timeout
           cleaning  == sup.cleaning \/ over \/ cancelled \/ timed_out
<1>1. /\ sup.pc = "decide"
      /\ procs' = procs /\ status' = status /\ wire' = wire
      /\ clock' = clock /\ exec' = exec /\ stop' = stop /\ par' = par
      /\ report' = [report EXCEPT !.failure = failure, !.cancelled = @ \/ cancelled,
                                  !.timed_out = @ \/ timed_out]
      /\ sup' = IF cleaning
                THEN [sup EXCEPT !.pc = "signal", !.exec_open = Pipe = "empty",
                                 !.cleaning = TRUE, !.started = 0,
                                 !.cleanup_started = IF sup.cleaning THEN @ ELSE sup.now]
                ELSE [Again EXCEPT !.exec_open = Pipe = "empty"]
      /\ fresh' = IF cleaning THEN fresh ELSE fresh \cup {"supervisor"}
  BY DEF Decide, SupUnchanged
<1>2. InLoop /\ ~SupEnded /\ ~report.confirmed
  BY <1>1, LoopFacts DEF InLoop
<1> HIDE DEF over, cancelled, timed_out, cleaning
<1>3. /\ failure \in LaunchStages \cup {"none"}
      /\ failure \in {"directory", "execute"} => exec = failure
      /\ sup.exec_open /\ exec \in LaunchStages => failure # "none"
      /\ report.failure # "none" => failure # "none"
  BY <1>2, PipeFacts DEF IInv, ExecInv, Remembered, LaunchStages
<1>4. /\ sup' \in SupType /\ sup'.pc \in {"signal", "observe"}
      /\ sup'.target_reaped = sup.target_reaped /\ sup'.exec_open = (Pipe = "empty")
      /\ sup'.todo = sup.todo /\ (sup'.exited => sup.exited)
  <2>1. (Pipe = "empty") \in BOOLEAN /\ sup \in SupType
    BY DEF IInv, TypeOK
  <2>2. CASE cleaning
    BY <1>1, <2>1, <2>2 DEF SupType
  <2>3. CASE ~cleaning
    BY <1>1, <2>1, <2>3 DEF SupType, Again
  <2> QED
    BY <2>2, <2>3
<1> HIDE DEF failure
<1>5. /\ report' \in ReportType /\ report'.failure = failure
      /\ report'.confirmed = report.confirmed /\ report'.exit = report.exit
  <2>1. report \in ReportType
    BY DEF IInv, TypeOK
  <2> QED
    BY <1>1, <1>3, <2>1 DEF ReportType
<1>6. TypeOK'
  BY <1>1, <1>4, <1>5 DEF IInv, TypeOK
<1>7. ~SupEnded' /\ InLoop'
  BY <1>4 DEF SupEnded, InLoop
<1>8. TreeInv'
  BY <1>1, <1>2, <1>7, SameProcs DEF IInv
<1>9. SupInv'
  BY <1>1, <1>2, <1>4, <1>5 DEF IInv, SupInv
<1>10. ExecInv'
  <2>1. sup'.exec_open <=> sup.exec_open /\ exec = "pending" /\ Live(Target)
    BY <1>4, PipeFacts DEF IInv
  <2>2. ~sup'.exec_open => /\ exec \in LaunchStages => failure # "none"
                           /\ exec # "pending" \/ ~Live(Target)
    BY <1>2, <1>3, <2>1 DEF IInv, ExecInv
  <2>3. sup.exited => ~Live(Target)
    BY <1>2 DEF IInv, SupInv, Live
  <2>4. sup'.target_reaped \/ (sup'.exited /\ sup'.pc \in {"signal", "sweep"}) => ~sup'.exec_open
    BY <1>2, <1>4, <2>1, <2>3 DEF IInv, ExecInv
  <2>5. exec' = exec /\ procs' = procs
    BY <1>1
  <2>6. /\ report'.failure \in LaunchStages \cup {"none"}
        /\ report'.failure \in {"directory", "execute"} => exec' = report'.failure
    BY <1>3, <1>5, <2>5
  <2>7. ~sup'.exec_open => /\ exec' \in LaunchStages => report'.failure # "none"
                           /\ exec' # "pending" \/ procs'[Target].state # "live"
    BY <1>5, <2>2, <2>5 DEF Live
  <2> QED
    BY <2>4, <2>6, <2>7 DEF ExecInv, Live
<1>11. ReportInv'
  BY <1>2, <1>3, <1>4, <1>5 DEF IInv, ReportInv, LaunchStages
<1>12. WireInv'
  BY <1>1, <1>2, WireStays DEF IInv, WireInv
<1> QED
  BY <1>6, <1>8, <1>9, <1>10, <1>11, <1>12 DEF IInv
\* A signal, and what it does to the target's status.
LEMMA SignalledStep ==
  ASSUME TypeOK, TreeInv, ~SupEnded, ~SupEnded', NEW ps \in SUBSET Procs, NEW signal,
         procs' = Signalled(ps, signal), StatusAfter(procs'), exec' = exec
  PROVE  procs' \in [Procs -> ProcType] /\ status' \in Statuses /\ TreeInv' /\ Onward
<1>1. status' \in Statuses /\ (~Live(Target) => status' = status)
  BY DEF StatusAfter, TypeOK, Statuses
<1>2. CASE signal = "KILL"
  <2> DEFINE killed == {p \in ps : Live(p) /\ procs[p].kind # "stuck"}
  <2>1. procs' = Ended(killed, TheSup) /\ Reaper = TheSup
    BY <1>2 DEF Signalled, Reaper
  <2>2. killed \in SUBSET Procs
    OBVIOUS
  <2>3. procs' \in [Procs -> ProcType]
    BY <2>1, EndedType
  <2>4. Onward
    BY <1>1, <2>1, <2>2, EndedOnward
  <2> HIDE DEF killed
  <2>5. SupEnded' = SupEnded
    BY DEF SupEnded
  <2>6. TreeInv'
    BY <2>1, <2>2, <2>5, EndedTree
  <2> QED
    BY <1>1, <2>3, <2>4, <2>6
<1>3. CASE signal # "KILL"
  <2>1. \A p \in Procs : \/ procs'[p] = procs[p]
                         \/ Live(p) /\ procs'[p] = [procs[p] EXCEPT !.doomed = TRUE]
    BY <1>3 DEF Signalled
  <2>2. \A p \in Procs : /\ procs'[p] \in ProcType
                         /\ procs'[p].state = procs[p].state /\ procs'[p].parent = procs[p].parent
                         /\ ~Live(p) => procs'[p] = procs[p]
    <3> SUFFICES ASSUME NEW p \in Procs
                 PROVE  /\ procs'[p] \in ProcType
                        /\ procs'[p].state = procs[p].state /\ procs'[p].parent = procs[p].parent
                        /\ ~Live(p) => procs'[p] = procs[p]
      OBVIOUS
    <3>1. procs[p] \in ProcType
      BY DEF TypeOK
    <3>2. CASE procs'[p] = procs[p]
      BY <3>1, <3>2
    <3>3. CASE Live(p) /\ procs'[p] = [procs[p] EXCEPT !.doomed = TRUE]
      BY <3>1, <3>3 DEF ProcType
    <3> QED
      BY <2>1, <3>2, <3>3
  <2>3. procs' = [p \in Procs |-> procs'[p]]
    BY <1>3 DEF Signalled
  <2>4. procs' \in [Procs -> ProcType]
    BY <2>2, <2>3
  <2>5. SupEnded' = SupEnded
    BY DEF SupEnded
  <2>6. TreeInv'
    BY <2>2, <2>4, <2>5, SameTree DEF Live
  <2>7. Onward
    BY <1>1, <2>2, Numbers DEF Onward, Live
  <2> QED
    BY <1>1, <2>4, <2>6, <2>7
<1> QED
  BY <1>2, <1>3

\* The loop's own knowledge survives a step that is Onward and learns nothing new.
LEMMA LoopKept ==
  ASSUME IInv, InLoop, Onward, exec' = exec,
         sup'.target_reaped = sup.target_reaped, sup'.exited = sup.exited,
         sup'.exec_open = sup.exec_open, sup.pc \in {"signal", "sweep"}, sup'.pc = "sweep",
         report'.failure = report.failure, report'.confirmed = report.confirmed,
         report'.exit \in {report.exit, status}, report'.exit # report.exit => ~Live(Target),
         \A p \in sup'.todo : procs'[p].state # "none"
  PROVE  SupInv' /\ ExecInv' /\ ReportInv'
<1>1. ~SupEnded /\ ~report.confirmed /\ report.failure # "supervisor"
  BY LoopFacts DEF IInv, ReportInv
<1>2. sup.exited => procs'[Target].state = "zombie"
  BY <1>1 DEF IInv, SupInv, Onward
<1>3. sup.target_reaped => procs'[Target].state = "gone"
  BY DEF IInv, SupInv, Onward
<1>4. sup.exited \/ sup.target_reaped => report'.exit = status'
  <2>1. sup.exited \/ sup.target_reaped => ~Live(Target) /\ report.exit = status
    BY DEF IInv, SupInv, Live
  <2> QED
    BY <2>1 DEF Onward
<1>5. SupInv'
  BY <1>2, <1>3, <1>4 DEF SupInv
<1>6. ExecInv'
  <2>1. ~Live(Target) => ~Live(Target)'
    BY DEF Onward
  <2> QED
    BY <2>1 DEF IInv, ExecInv
<1>7. ReportInv'
  BY <1>1 DEF ReportInv
<1> QED
  BY <1>5, <1>6, <1>7

LEMMA SignalGroupStep ==
  ASSUME IInv, SignalGroup
  PROVE  IInv'
<1> DEFINE due     == ~sup.target_reaped /\ Signal \notin sup.sent
           grouped == {p \in Procs : procs[p].grouped}
           listed  == {p \in Procs : /\ procs'[p].parent = TheSup
                                     /\ procs'[p].state \in {"live", "zombie"}}
<1>1. /\ sup.pc = "signal"
      /\ procs' = IF due THEN Signalled(grouped, Signal) ELSE procs
      /\ StatusAfter(procs')
      /\ wire' = wire /\ report' = report /\ fresh' = fresh
      /\ clock' = clock /\ exec' = exec /\ stop' = stop /\ par' = par
      /\ sup' = [sup EXCEPT !.pc = "sweep", !.sent = IF due THEN @ \cup {Signal} ELSE @,
                            !.todo = listed]
  BY DEF SignalGroup, SupUnchanged
<1>2. InLoop /\ ~SupEnded
  BY <1>1, LoopFacts DEF InLoop
<1>3. /\ sup' \in SupType /\ sup'.pc = "sweep" /\ sup'.exited = sup.exited
      /\ sup'.target_reaped = sup.target_reaped /\ sup'.exec_open = sup.exec_open
      /\ sup'.todo = listed
  <2>1. Signal \in {"TERM", "KILL"} /\ listed \in SUBSET Procs
    BY DEF Signal
  <2>2. sup \in SupType
    BY DEF IInv, TypeOK
  <2> QED
    BY <1>1, <2>1, <2>2 DEF SupType
<1>4. ~SupEnded'
  BY <1>3 DEF SupEnded
<1>5. procs' \in [Procs -> ProcType] /\ status' \in Statuses /\ TreeInv' /\ Onward
  <2>1. CASE due
    <3>1. procs' = Signalled(grouped, Signal) /\ grouped \in SUBSET Procs
      BY <1>1, <2>1
    <3> HIDE DEF grouped
    <3> QED
      BY <1>1, <1>2, <1>4, <3>1, SignalledStep DEF IInv
  <2>2. CASE ~due
    <3>1. procs' = procs
      BY <1>1, <2>2
    <3>2. status' = status
      BY <1>1, <3>1 DEF StatusAfter, Live
    <3>3. TreeInv'
      BY <1>2, <1>4, <3>1, SameProcs DEF IInv
    <3>4. Onward
      BY <1>1, <3>1, <3>2 DEF Onward, Live
    <3> QED
      BY <3>1, <3>2, <3>3, <3>4 DEF IInv, TypeOK
  <2> QED
    BY <2>1, <2>2
<1>6. TypeOK'
  BY <1>1, <1>3, <1>5 DEF IInv, TypeOK
<1>7. SupInv' /\ ExecInv' /\ ReportInv'
  <2>1. \A p \in sup'.todo : procs'[p].state # "none"
    BY <1>3
  <2> QED
    BY <1>1, <1>2, <1>3, <1>5, <2>1, LoopKept
<1>8. WireInv'
  BY <1>1, <1>2, WireStays DEF IInv, WireInv
<1> QED
  BY <1>5, <1>6, <1>7, <1>8 DEF IInv

LEMMA SweepStep ==
  ASSUME IInv, NEW p \in Procs, Sweep(p)
  PROVE  IInv'
<1>1. /\ sup.pc = "sweep" /\ p \in sup.todo
      /\ procs' = IF Live(p) THEN Signalled({p}, Signal)
                  ELSE IF p = Target THEN procs ELSE [procs EXCEPT ![p] = Buried]
      /\ StatusAfter(procs')
      /\ wire' = wire /\ fresh' = fresh
      /\ clock' = clock /\ exec' = exec /\ stop' = stop /\ par' = par
      /\ report' = IF p = Target /\ ~Live(p) THEN [report EXCEPT !.exit = status] ELSE report
      /\ sup' = [sup EXCEPT !.todo = @ \ {p}, !.live = @ \/ Live(p)]
  BY DEF Sweep, SupUnchanged
<1>2. InLoop /\ ~SupEnded
  BY <1>1, LoopFacts DEF InLoop
<1>3. /\ sup' \in SupType /\ sup'.pc = "sweep" /\ sup'.exited = sup.exited
      /\ sup'.target_reaped = sup.target_reaped /\ sup'.exec_open = sup.exec_open
      /\ sup'.todo = sup.todo \ {p}
  <2>1. sup \in SupType /\ (sup.live \/ Live(p)) \in BOOLEAN
    BY DEF IInv, TypeOK
  <2> QED
    BY <1>1, <2>1 DEF SupType
<1>4. /\ report' \in ReportType /\ report'.failure = report.failure
      /\ report'.confirmed = report.confirmed /\ report'.exit \in {report.exit, status}
      /\ report'.exit # report.exit => ~Live(Target)
  BY <1>1 DEF IInv, TypeOK, ReportType
<1>5. ~SupEnded'
  BY <1>3 DEF SupEnded
<1>6. procs' \in [Procs -> ProcType] /\ status' \in Statuses /\ TreeInv' /\ Onward
  <2>1. CASE Live(p)
    <3>1. procs' = Signalled({p}, Signal) /\ {p} \in SUBSET Procs
      BY <1>1, <2>1
    <3> QED
      BY <1>1, <1>2, <1>5, <3>1, SignalledStep DEF IInv
  <2>2. CASE ~Live(p) /\ p = Target
    <3>1. procs' = procs
      BY <1>1, <2>2
    <3>2. status' = status
      BY <1>1, <3>1 DEF StatusAfter, Live
    <3>3. TreeInv'
      BY <1>2, <1>5, <3>1, SameProcs DEF IInv
    <3>4. Onward
      BY <1>1, <3>1, <3>2 DEF Onward, Live
    <3> QED
      BY <3>1, <3>2, <3>3, <3>4 DEF IInv, TypeOK
  <2>3. CASE ~Live(p) /\ p # Target
    <3>1. procs' = [procs EXCEPT ![p] = Buried]
      BY <1>1, <2>3
    <3>2. procs[p].state \in {"zombie", "gone"}
      BY <1>1, <2>3 DEF IInv, SupInv, TypeOK, ProcType, Live
    <3>3. \A q \in Procs : procs'[q] = IF q = p THEN Buried ELSE procs[q]
      BY <3>1 DEF IInv, TypeOK
    <3>4. procs' \in [Procs -> ProcType]
      BY <3>1, NoProcType DEF IInv, TypeOK
    <3>5. procs'[Target] = procs[Target]
      BY <2>3, <3>3, Numbers
    <3>6. status' = status
      BY <1>1, <3>5 DEF StatusAfter, Live
    <3>7. SupEnded' = SupEnded
      BY <1>2, <1>5 DEF SupEnded
    <3>8. TreeInv'
      BY <3>1, <3>2, <3>7, BuriedTree DEF IInv
    <3>9. Onward
      BY <1>1, <3>3, <3>5, <3>6, NoProcType DEF Onward, Live
    <3> QED
      BY <3>4, <3>6, <3>8, <3>9 DEF IInv, TypeOK
  <2> QED
    BY <2>1, <2>2, <2>3
<1>7. TypeOK'
  BY <1>1, <1>3, <1>4, <1>6 DEF IInv, TypeOK
<1>8. SupInv' /\ ExecInv' /\ ReportInv'
  <2>1. \A q \in sup'.todo : procs'[q].state # "none"
    <3>1. sup.todo \subseteq Procs
      BY DEF IInv, TypeOK, SupType
    <3> QED
      BY <1>3, <1>6, <3>1 DEF IInv, SupInv, Onward
  <2> QED
    BY <1>1, <1>2, <1>3, <1>4, <1>6, <2>1, LoopKept
<1>9. WireInv'
  BY <1>1, <1>2, WireStays DEF IInv, WireInv
<1> QED
  BY <1>6, <1>7, <1>8, <1>9 DEF IInv
\* The last sweep: the target is reaped, and ECHILD proves that nobody is left.
LEMMA NobodyLeft ==
  ASSUME TypeOK, TreeInv, ~SupEnded, ~Live(Target), ChildrenOf(TheSup) \subseteq {Target}
  PROVE  \A p \in Procs : Left(p) => p = Target
<1> DEFINE Others == {p \in Procs : Left(p) /\ p # Target}
<1> SUFFICES ASSUME Others # {} PROVE FALSE
  OBVIOUS
<1>1. Others \in SUBSET Nat
  BY Numbers
<1>2. PICK p \in Others : \A q \in Others : p <= q
  <2> HIDE DEF Others
  <2> QED
    BY <1>1, Least
<1>3. p \in Procs /\ Left(p) /\ p # Target
  BY <1>2
<1>4. procs[p].parent # TheSup
  BY <1>3 DEF ChildrenOf, Left
<1>5. procs[p].parent \in 1..(p - 1) /\ Live(procs[p].parent)
  BY <1>3, <1>4 DEF TreeInv, Rooted
<1>6. procs[p].parent \in Procs
  BY <1>3, <1>5, Numbers
<1>7. procs[p].parent \in Others
  BY <1>5, <1>6 DEF Left, Live
<1>8. p <= procs[p].parent
  BY <1>2, <1>7
<1>9. p \in Nat
  BY <1>3, Numbers
<1> QED
  BY <1>5, <1>8, <1>9

LEMMA ConfirmStep ==
  ASSUME IInv, Confirm
  PROVE  IInv'
<1> DEFINE overdue == ~Gone /\ Elapsed >= Grace + Budget
<1>1. /\ sup.pc = "sweep" /\ procs' = Reaped
      /\ report' = [report EXCEPT !.confirmed = Gone,
                                  !.failure = IF overdue THEN Remembered("cleanup") ELSE @]
      /\ sup' = IF Gone \/ overdue THEN [sup EXCEPT !.pc = "send"]
                ELSE [Again EXCEPT !.target_reaped = @ \/ ReapDue]
      /\ fresh' = IF Gone \/ overdue THEN fresh ELSE fresh \cup {"supervisor"}
      /\ status' = status /\ wire' = wire
      /\ clock' = clock /\ exec' = exec /\ stop' = stop /\ par' = par
  BY DEF Confirm, SupUnchanged
<1>2. InLoop /\ ~SupEnded /\ ~report.confirmed
  BY <1>1, LoopFacts DEF InLoop
<1>3. ReapDue => procs[Target].state = "zombie" /\ report.exit = status /\ ~sup.exec_open
  BY <1>1, <1>2 DEF IInv, SupInv, ExecInv, ReapDue
<1>4. sup.target_reaped => procs[Target].state = "gone" /\ report.exit = status /\ ~sup.exec_open
  BY <1>1, <1>2 DEF IInv, SupInv, ExecInv
<1>5. /\ procs' \in [Procs -> ProcType]
      /\ \A p \in Procs : procs'[p] = IF ReapDue /\ p = Target THEN Buried ELSE procs[p]
  BY <1>1, NoProcType DEF IInv, TypeOK, Reaped
<1>6. Gone \in BOOLEAN /\ ReapDue \in BOOLEAN /\ overdue \in BOOLEAN
  BY DEF Gone, ReapDue
<1> HIDE DEF overdue
<1>7. /\ sup' \in SupType /\ sup'.pc \in {"send", "observe"} /\ sup'.todo = sup.todo
      /\ sup'.pc = "observe" =>
           /\ ~Gone /\ ~overdue /\ sup'.exited = FALSE /\ sup'.exec_open = sup.exec_open
           /\ sup'.target_reaped = (sup.target_reaped \/ ReapDue)
  <2>1. sup \in SupType
    BY DEF IInv, TypeOK
  <2>2. CASE Gone \/ overdue
    BY <1>1, <2>1, <2>2 DEF SupType
  <2>3. CASE ~(Gone \/ overdue)
    BY <1>1, <1>6, <2>1, <2>3 DEF SupType, Again
  <2> QED
    BY <2>2, <2>3
<1>8. /\ report' \in ReportType /\ report'.confirmed = Gone /\ report'.exit = report.exit
      /\ report'.failure = IF overdue THEN Remembered("cleanup") ELSE report.failure
      /\ report'.failure \in LaunchStages \cup {"none", "cleanup"}
  <2>1. report \in ReportType /\ report.failure \in LaunchStages \cup {"none"}
    BY <1>2 DEF IInv, TypeOK, ExecInv
  <2>2. Remembered("cleanup") \in LaunchStages \cup {"cleanup"}
    BY <2>1 DEF Remembered
  <2> QED
    BY <1>1, <1>6, <2>1, <2>2 DEF ReportType
<1>9. TypeOK'
  <2>1. fresh' \subseteq {"supervisor", "caller"}
    BY <1>1 DEF IInv, TypeOK
  <2> QED
    BY <1>1, <1>5, <1>7, <1>8, <2>1 DEF IInv, TypeOK
<1>10. ~SupEnded'
  BY <1>7 DEF SupEnded
<1>11. TreeInv'
  <2>1. CASE ReapDue
    <3>1. procs' = [procs EXCEPT ![Target] = Buried]
      BY <1>1, <2>1 DEF Reaped
    <3>2. SupEnded' = SupEnded
      BY <1>2, <1>10 DEF SupEnded
    <3> QED
      BY <1>3, <2>1, <3>1, <3>2, BuriedTree, Numbers DEF IInv
  <2>2. CASE ~ReapDue
    BY <1>1, <1>2, <1>10, <2>2, SameProcs DEF IInv, Reaped
  <2> QED
    BY <2>1, <2>2
<1>12. sup.target_reaped \/ ReapDue => procs'[Target].state = "gone"
  BY <1>4, <1>5, NoProcType, Numbers
<1>13. SupInv'
  <2>1. InLoop' => sup'.pc = "observe"
    BY <1>7 DEF InLoop
  <2>2. \A p \in sup'.todo : procs'[p].state # "none"
    <3>1. sup.todo \subseteq Procs
      BY DEF IInv, TypeOK, SupType
    <3> QED
      BY <1>5, <1>7, <3>1, NoProcType DEF IInv, SupInv
  <2>3. sup'.pc # "setup"
    BY <1>7
  <2>4. InLoop' /\ sup'.target_reaped => report'.exit = status' /\ procs'[Target].state = "gone"
    BY <1>1, <1>3, <1>4, <1>7, <1>8, <1>12, <2>1
  <2>5. InLoop' => ~sup'.exited
    BY <1>7, <2>1
  <2> QED
    BY <2>2, <2>3, <2>4, <2>5 DEF SupInv
<1>14. ExecInv'
  <2> SUFFICES ASSUME InLoop' PROVE ExecInv'
    BY DEF ExecInv
  <2>1. sup'.pc = "observe"
    BY <1>7 DEF InLoop
  <2>2. report'.failure = report.failure /\ exec' = exec
    BY <1>1, <1>7, <1>8, <2>1
  <2>3. ~Live(Target) => procs'[Target].state # "live"
    BY <1>5, NoProcType, Numbers DEF Live
  <2>4. sup'.target_reaped => ~sup'.exec_open
    BY <1>3, <1>4, <1>7, <2>1
  <2>5. sup'.exec_open = sup.exec_open
    BY <1>7, <2>1
  <2> QED
    BY <1>2, <2>1, <2>2, <2>3, <2>4, <2>5 DEF IInv, ExecInv, Live
<1>15. ReportInv'
  <2>1. ASSUME Gone
        PROVE  /\ \A p \in Procs : ~Left(p)'
               /\ report'.exit = status'
               /\ exec' \in LaunchStages => report'.failure \in LaunchStages
               /\ report'.failure \in {"directory", "execute"} => exec' = report'.failure
    <3>1. sup.target_reaped \/ ReapDue
      BY <2>1 DEF Gone
    <3>2. \A p \in Procs : Left(p) => p = Target
      BY <1>2, <1>3, <1>4, <2>1, <3>1, NobodyLeft DEF IInv, Gone, Live
    <3>3. \A p \in Procs : ~Left(p)'
      BY <1>5, <1>12, <3>1, <3>2 DEF Left
    <3>4. ~overdue /\ report'.failure = report.failure /\ exec' = exec
      BY <1>1, <1>8, <2>1 DEF overdue
    <3>5. /\ exec \in LaunchStages => report.failure \in LaunchStages
          /\ report.failure \in {"directory", "execute"} => exec = report.failure
      BY <1>2, <1>3, <1>4, <3>1 DEF IInv, ExecInv
    <3> QED
      BY <1>1, <1>3, <1>4, <1>8, <3>1, <3>3, <3>4, <3>5
  <2>2. Gone => ~InLoop'
    BY <1>7 DEF InLoop
  <2>3. report'.failure # "supervisor" /\ sup'.pc # "setup"
    BY <1>7, <1>8 DEF LaunchStages
  <2> QED
    BY <1>8, <2>1, <2>2, <2>3 DEF ReportInv
<1>16. WireInv'
  BY <1>1, <1>2, WireStays DEF IInv, WireInv
<1> QED
  BY <1>9, <1>11, <1>13, <1>14, <1>15, <1>16 DEF IInv
\* Send, a death and a hard kill end the supervisor alike.
LEMMA EndStep ==
  ASSUME IInv, ~SupEnded, NEW how \in {"zombie", "reaped"}, SupEnds(how),
         exec' = exec, status' = status, report' = report
  PROVE  /\ procs' \in [Procs -> ProcType] /\ sup' \in SupType /\ SupEnded'
         /\ TreeInv' /\ SupInv' /\ ExecInv' /\ ReportInv'
<1>1. procs' = Ended({TheSup}, Outside) /\ sup' = [NewSup EXCEPT !.pc = how]
  BY DEF SupEnds
<1>2. procs' \in [Procs -> ProcType]
  BY <1>1, EndedType DEF IInv
<1>3. sup' \in SupType /\ sup'.pc = how /\ sup'.todo = {}
  BY <1>1 DEF NewSup, SupType
<1>4. SupEnded' /\ ~InLoop' /\ sup'.pc # "setup"
  BY <1>3 DEF SupEnded, InLoop
<1>5. TreeInv'
  BY <1>1, <1>4, AbandonedTree DEF IInv
<1>6. SupInv' /\ ExecInv'
  BY <1>3, <1>4 DEF SupInv, ExecInv
<1>7. \A p \in Procs : Left(p)' => Left(p)
  BY <1>1, EndedAt DEF IInv, Left
<1>8. ReportInv'
  BY <1>4, <1>7 DEF IInv, ReportInv
<1> QED
  BY <1>2, <1>3, <1>4, <1>5, <1>6, <1>8

LEMMA SendStep ==
  ASSUME IInv, Send
  PROVE  IInv'
<1>1. /\ sup.pc = "send" /\ SupEnds("zombie") /\ wire' = [wire EXCEPT !.report = TRUE]
      /\ status' = status /\ report' = report /\ fresh' = fresh
      /\ clock' = clock /\ exec' = exec /\ stop' = stop /\ par' = par
  BY DEF Send, SupUnchanged
<1>2. ~SupEnded
  BY <1>1 DEF SupEnded
<1>3. /\ procs' \in [Procs -> ProcType] /\ sup' \in SupType /\ SupEnded'
      /\ TreeInv' /\ SupInv' /\ ExecInv' /\ ReportInv'
  BY <1>1, <1>2, EndStep
<1>4. TypeOK'
  BY <1>1, <1>3 DEF IInv, TypeOK
<1>5. WireInv'
  BY <1>1, <1>2, <1>3, WireStays DEF IInv
<1> QED
  BY <1>3, <1>4, <1>5 DEF IInv

LEMMA SupDiesStep ==
  ASSUME IInv, SupDies
  PROVE  IInv'
<1>1. /\ ~SupEnded /\ SupEnds("zombie") /\ wire' = wire
      /\ status' = status /\ report' = report /\ fresh' = fresh
      /\ clock' = clock /\ exec' = exec /\ stop' = stop /\ par' = par
  BY DEF SupDies, SupUnchanged
<1>2. /\ procs' \in [Procs -> ProcType] /\ sup' \in SupType /\ SupEnded'
      /\ TreeInv' /\ SupInv' /\ ExecInv' /\ ReportInv'
  BY <1>1, EndStep
<1>3. TypeOK'
  BY <1>1, <1>2 DEF IInv, TypeOK
<1>4. WireInv'
  BY <1>1, <1>2, WireStays DEF IInv
<1> QED
  BY <1>2, <1>3, <1>4 DEF IInv

LEMMA SupHangsStep ==
  ASSUME IInv, SupHangs
  PROVE  IInv'
<1>1. /\ ~SupEnded /\ sup' = [NewSup EXCEPT !.pc = "hung"] /\ wire' = wire
      /\ procs' = procs /\ status' = status /\ report' = report /\ fresh' = fresh
      /\ clock' = clock /\ exec' = exec /\ stop' = stop /\ par' = par
  BY DEF SupHangs, SupUnchanged
<1>2. sup' \in SupType /\ sup'.pc = "hung" /\ sup'.todo = {}
  BY <1>1 DEF NewSup, SupType
<1>3. ~SupEnded' /\ ~InLoop' /\ sup'.pc # "setup"
  BY <1>2 DEF SupEnded, InLoop
<1>4. TypeOK'
  BY <1>1, <1>2 DEF IInv, TypeOK
<1>5. TreeInv'
  BY <1>1, <1>3, SameProcs DEF IInv
<1>6. SupInv' /\ ExecInv'
  BY <1>2, <1>3 DEF SupInv, ExecInv
<1>7. ReportInv'
  BY <1>1, <1>3 DEF IInv, ReportInv, Left
<1>8. WireInv'
  BY <1>1, WireStays DEF IInv, WireInv
<1> QED
  BY <1>4, <1>5, <1>6, <1>7, <1>8 DEF IInv

-----------------------------------------------------------------------------
(* The caller's steps, and the clock.                                      *)

\* Nothing of this happens to the tree or to the supervisor.
LEMMA OutsideStep ==
  ASSUME IInv, procs' = procs, exec' = exec, status' = status, sup' = sup, report' = report
  PROVE  TreeInv' /\ SupInv' /\ ExecInv' /\ ReportInv' /\ SupEnded' = SupEnded /\ Result' = Result
<1>1. SupEnded' = SupEnded /\ InLoop' = InLoop /\ Result' = Result
  BY DEF SupEnded, InLoop, Result
<1>2. TreeInv'
  BY <1>1 DEF IInv, TreeInv, Rooted, Left, Live
<1>3. SupInv'
  BY <1>1 DEF IInv, SupInv
<1>4. ExecInv'
  BY <1>1 DEF IInv, ExecInv, Live
<1>5. ReportInv'
  BY <1>1 DEF IInv, ReportInv, Left
<1> QED
  BY <1>1, <1>2, <1>3, <1>4, <1>5

LEMMA ResultFacts ==
  ASSUME TypeOK
  PROVE  /\ Result \in ReportType
         /\ Result.confirmed = report.confirmed /\ Result.failure = report.failure
         /\ Result.exit = IF report.failure = "execute" /\ report.exit # "killed" THEN "none" ELSE report.exit
<1>1. report \in ReportType
  BY DEF TypeOK
<1> QED
  BY <1>1 DEF Result, ReportType, Statuses

LEMMA ReturnedFacts ==
  ASSUME TypeOK, NEW received
  PROVE  /\ Returned(received) \in ParType /\ Returned(received).pc = "returned"
         /\ Returned(received).received = FALSE /\ Returned(received).killed = FALSE
         /\ Returned(received).result = IF received THEN Result ELSE NoResult
<1>1. (IF received THEN Result ELSE NoResult) \in ReportType
  BY ResultFacts, NoResultType
<1>2. NewPar \in ParType /\ NewPar.received = FALSE /\ NewPar.killed = FALSE
  BY NoResultType DEF NewPar, ParType, Never
<1> QED
  BY <1>1, <1>2 DEF Returned, ParType

LEMMA RecvStep ==
  ASSUME IInv, Recv
  PROVE  IInv'
<1>1. /\ par.pc = "recv" /\ par' = [par EXCEPT !.pc = "observe", !.received = @ \/ wire.report]
      /\ procs' = procs /\ wire' = wire /\ sup' = sup /\ fresh' = fresh
      /\ clock' = clock /\ exec' = exec /\ status' = status /\ stop' = stop /\ report' = report
  BY DEF Recv, ParUnchanged
<1>2. /\ par' \in ParType /\ par'.pc = "observe" /\ par'.result = par.result
      /\ par'.received = (par.received \/ wire.report)
  <2>1. par \in ParType /\ wire.report \in BOOLEAN
    BY DEF IInv, TypeOK
  <2> QED
    BY <1>1, <2>1 DEF ParType
<1>3. TypeOK'
  BY <1>1, <1>2 DEF IInv, TypeOK
<1>4. TreeInv' /\ SupInv' /\ ExecInv' /\ ReportInv' /\ SupEnded' = SupEnded
  BY <1>1, OutsideStep
<1>5. WireInv'
  BY <1>1, <1>2, <1>4 DEF IInv, WireInv
<1> QED
  BY <1>3, <1>4, <1>5 DEF IInv

LEMMA SeeEndStep ==
  ASSUME IInv, SeeEnd
  PROVE  IInv'
<1>1. /\ par.pc = "observe" /\ sup.pc = "zombie" /\ sup' = [sup EXCEPT !.pc = "reaped"]
      /\ par' = Returned(par.received \/ wire.report)
      /\ procs' = procs /\ wire' = wire /\ fresh' = fresh
      /\ clock' = clock /\ exec' = exec /\ status' = status /\ stop' = stop /\ report' = report
  BY DEF SeeEnd, ParUnchanged
<1>2. sup' \in SupType /\ sup'.pc = "reaped" /\ sup'.todo = sup.todo
  BY <1>1 DEF IInv, TypeOK, SupType
<1>3. SupEnded /\ SupEnded' /\ ~InLoop' /\ sup'.pc # "setup"
  BY <1>1, <1>2 DEF SupEnded, InLoop
<1>4. /\ par' \in ParType /\ par'.pc = "returned" /\ par'.received = FALSE /\ par'.killed = FALSE
      /\ par'.result = IF wire.report THEN Result ELSE NoResult
  <2>1. par.received \/ wire.report <=> wire.report
    BY DEF IInv, WireInv
  <2> QED
    BY <1>1, <2>1, ReturnedFacts DEF IInv
<1>5. TypeOK'
  BY <1>1, <1>2, <1>4 DEF IInv, TypeOK
<1>6. TreeInv'
  BY <1>1, <1>3 DEF IInv, TreeInv, Rooted, Left, Live
<1>7. SupInv' /\ ExecInv'
  BY <1>1, <1>2, <1>3 DEF IInv, SupInv, ExecInv
<1>8. ReportInv'
  BY <1>1, <1>3 DEF IInv, ReportInv, Left
<1>9. WireInv'
  <2>1. Result' = Result
    BY <1>1 DEF Result
  <2> QED
    BY <1>1, <1>3, <1>4, <2>1 DEF WireInv
<1> QED
  BY <1>5, <1>6, <1>7, <1>8, <1>9 DEF IInv

LEMMA ControlStep ==
  ASSUME IInv, Control
  PROVE  IInv'
<1>1. /\ par.pc = "observe" /\ wire' = [wire EXCEPT !.stop = @ \/ stop]
      /\ par' = [par EXCEPT !.pc = "recv", !.cleanup_requested = CleanupRequested]
      /\ procs' = procs /\ sup' = sup /\ fresh' = fresh \cup {"caller"}
      /\ clock' = clock /\ exec' = exec /\ status' = status /\ stop' = stop /\ report' = report
  BY DEF Control, ParUnchanged
<1>2. CleanupRequested \in Nat \cup {Never}
  BY DEF CleanupRequested, IInv, TypeOK, ParType
<1>3. par' \in ParType /\ par'.pc = "recv" /\ par'.result = par.result /\ par'.received = par.received
  BY <1>1, <1>2 DEF IInv, TypeOK, ParType
<1>4. wire' \in [stop : BOOLEAN, report : BOOLEAN] /\ wire'.report = wire.report
  <2>1. wire \in [stop : BOOLEAN, report : BOOLEAN] /\ (wire.stop \/ stop) \in BOOLEAN
    BY DEF IInv, TypeOK
  <2> QED
    BY <1>1, <2>1
<1>5. TypeOK'
  <2>1. fresh' \subseteq {"supervisor", "caller"}
    BY <1>1 DEF IInv, TypeOK
  <2> QED
    BY <1>1, <1>3, <1>4, <2>1 DEF IInv, TypeOK
<1>6. TreeInv' /\ SupInv' /\ ExecInv' /\ ReportInv' /\ SupEnded' = SupEnded
  BY <1>1, OutsideStep
<1>7. WireInv'
  BY <1>1, <1>3, <1>4, <1>6 DEF IInv, WireInv
<1> QED
  BY <1>5, <1>6, <1>7 DEF IInv

LEMMA HardKillStep ==
  ASSUME IInv, HardKill
  PROVE  IInv'
<1>1. /\ par.pc = "observe" /\ ~SupEnded /\ SupEnds("reaped")
      /\ par' = [Returned(FALSE) EXCEPT !.killed = TRUE]
      /\ wire' = wire /\ fresh' = fresh
      /\ clock' = clock /\ exec' = exec /\ status' = status /\ stop' = stop /\ report' = report
  BY DEF HardKill, ParUnchanged
<1>2. /\ procs' \in [Procs -> ProcType] /\ sup' \in SupType /\ SupEnded'
      /\ TreeInv' /\ SupInv' /\ ExecInv' /\ ReportInv'
  BY <1>1, EndStep
<1>3. /\ par' \in ParType /\ par'.pc = "returned" /\ par'.received = FALSE
      /\ par'.killed = TRUE /\ par'.result = NoResult
  BY <1>1, ReturnedFacts DEF IInv, ParType
<1>4. TypeOK'
  BY <1>1, <1>2, <1>3 DEF IInv, TypeOK
<1>5. WireInv'
  <2>1. par'.result = IF wire'.report /\ ~par'.killed THEN Result' ELSE NoResult
    BY <1>3
  <2> QED
    BY <1>2, <1>3, <2>1 DEF WireInv
<1> QED
  BY <1>2, <1>4, <1>5 DEF IInv

LEMMA CallerDiesStep ==
  ASSUME IInv, CallerDies
  PROVE  IInv'
<1>1. /\ par' = [NewPar EXCEPT !.pc = "died"] /\ wire' = wire
      /\ procs' = procs /\ sup' = sup /\ fresh' = fresh
      /\ clock' = clock /\ exec' = exec /\ status' = status /\ stop' = stop /\ report' = report
  BY DEF CallerDies, ParUnchanged
<1>2. par' \in ParType /\ par'.pc = "died" /\ par'.result = NoReport /\ par'.received = FALSE
  BY <1>1, NoResultType DEF NewPar, ParType, Never
<1>3. TypeOK'
  BY <1>1, <1>2 DEF IInv, TypeOK
<1>4. TreeInv' /\ SupInv' /\ ExecInv' /\ ReportInv' /\ SupEnded' = SupEnded
  BY <1>1, OutsideStep
<1>5. WireInv'
  BY <1>1, <1>2, <1>4 DEF IInv, WireInv
<1> QED
  BY <1>3, <1>4, <1>5 DEF IInv

\* The clock, the stop token and steps that change nothing.
LEMMA ClockStep ==
  ASSUME IInv, Tick \/ Stop \/ UNCHANGED vars
  PROVE  IInv'
<1>1. /\ procs' = procs /\ exec' = exec /\ status' = status /\ sup' = sup
      /\ wire' = wire /\ report' = report /\ par' = par
      /\ clock' \in Nat /\ stop' \in BOOLEAN /\ fresh' \subseteq {"supervisor", "caller"}
  <2>1. clock \in Nat /\ stop \in BOOLEAN /\ fresh \subseteq {"supervisor", "caller"}
    BY DEF IInv, TypeOK
  <2>2. CASE Tick
    BY <2>1, <2>2 DEF Tick
  <2>3. CASE Stop
    BY <2>1, <2>3 DEF Stop
  <2>4. CASE UNCHANGED vars
    BY <2>1, <2>4 DEF vars
  <2> QED
    BY <2>2, <2>3, <2>4
<1>2. TypeOK'
  BY <1>1 DEF IInv, TypeOK
<1>3. TreeInv' /\ SupInv' /\ ExecInv' /\ ReportInv' /\ SupEnded' = SupEnded /\ Result' = Result
  BY <1>1, OutsideStep
<1>4. WireInv'
  BY <1>1, <1>3 DEF IInv, WireInv
<1> QED
  BY <1>2, <1>3, <1>4 DEF IInv

-----------------------------------------------------------------------------
(* The invariant and the properties.                                       *)

LEMMA Initially == Init => IInv
<1> SUFFICES ASSUME Init PROVE IInv
  OBVIOUS
<1>1. /\ clock = 0 /\ procs = [p \in Procs |-> NoProc] /\ exec = "pending" /\ status = "none"
      /\ stop = FALSE /\ wire = [stop |-> FALSE, report |-> FALSE] /\ fresh = {}
      /\ sup = NewSup /\ report = NoReport /\ par = NewPar
  BY DEF Init
<1>2. sup \in SupType /\ sup.pc = "setup" /\ sup.todo = {}
  BY <1>1 DEF NewSup, SupType
<1>3. par \in ParType /\ par.pc = "recv" /\ par.received = FALSE /\ par.result = NoReport
  BY <1>1, NoResultType DEF NewPar, ParType, Never
<1>4. TypeOK
  BY <1>1, <1>2, <1>3, NoProcType, NoResultType DEF TypeOK, Statuses
<1>5. \A p \in Procs : procs[p] = NoProc /\ procs[p].state = "none"
  BY <1>1 DEF NoProc
<1>6. TreeInv
  BY <1>5 DEF TreeInv, Left
<1>7. SupInv /\ ExecInv
  BY <1>1, <1>2, <1>5 DEF SupInv, ExecInv, InLoop
<1>8. ReportInv
  BY <1>1, NoResultType DEF ReportInv
<1>9. WireInv
  BY <1>1, <1>3 DEF WireInv
<1> QED
  BY <1>4, <1>6, <1>7, <1>8, <1>9 DEF IInv

LEMMA Inductive == IInv /\ [Next]_vars => IInv'
<1> SUFFICES ASSUME IInv, [Next]_vars PROVE IInv'
  OBVIOUS
<1>1. CASE Tree
  BY <1>1, TreeInvariant
<1>2. CASE Supervise
  BY <1>2, SetupFailsStep, LaunchStep, ObserveStep, DecideStep, SignalGroupStep, SweepStep,
     ConfirmStep, SendStep DEF Supervise
<1>3. CASE Run
  BY <1>3, RecvStep, SeeEndStep, ControlStep, HardKillStep DEF Run
<1>4. CASE SupDies \/ SupHangs \/ CallerDies
  BY <1>4, SupDiesStep, SupHangsStep, CallerDiesStep
<1>5. CASE Tick \/ Stop \/ AtRest \/ UNCHANGED vars
  BY <1>5, ClockStep DEF AtRest
<1> QED
  BY <1>1, <1>2, <1>3, <1>4, <1>5 DEF Next

\* The inductive invariant of run_process() and supervise(): how the tree hangs
\* together, what the loops have learnt of it and what was reported.
THEOREM SupervisorInvariant == Spec => []IInv
<1> QED
  BY Initially, Inductive, PTL DEF Spec

\* A confirmed cleanup, in the supervisor's report or in the caller's result,
\* means that no process of the tree is left, for any number of processes.
THEOREM ConfirmedIsGone == Spec => []ConfirmedMeansGone
<1>1. IInv => ConfirmedMeansGone
  <2> SUFFICES ASSUME IInv, report.confirmed \/ par.result.confirmed, NEW p \in Procs
               PROVE  procs[p].state \in {"none", "gone"}
    BY DEF ConfirmedMeansGone
  <2>1. par.result.confirmed => report.confirmed
    BY ResultFacts, NoResultType DEF IInv, WireInv
  <2>2. ~Left(p)
    BY <2>1 DEF IInv, ReportInv
  <2> QED
    BY <2>2 DEF IInv, TypeOK, ProcType, Left
<1> QED
  BY <1>1, SupervisorInvariant, PTL

\* The caller's result is the supervisor's report; a confirmed one says how the
\* target ended, and names a failed stage of the launch whenever the program
\* never ran, be it setpgid(), fchdir() or execve() that failed.
THEOREM ResultIsFaithful == Spec => []ResultFaithful
<1>1. IInv => ResultFaithful
  <2> SUFFICES ASSUME IInv, par.pc = "returned", ~par.killed PROVE ResultFaithful
    BY DEF ResultFaithful
  <2>1. par.result = IF wire.report THEN Result ELSE NoResult
    BY DEF IInv, WireInv
  <2>2. Result # NoResult
    BY ResultFacts, NoResultType DEF IInv, ReportInv
  <2>3. wire.report <=> par.result # NoResult
    BY <2>1, <2>2 DEF IInv, TypeOK
  <2>4. ASSUME par.result.confirmed, par.result.failure # "setup"
        PROVE  /\ par.result.exit = IF par.result.failure = "execute" /\ status # "killed" THEN "none" ELSE status
               /\ exec \in LaunchStages => par.result.failure \in LaunchStages
               /\ par.result.failure \in {"directory", "execute"} => exec = par.result.failure
    <3>1. par.result = Result
      BY <2>1, <2>4, NoResultType
    <3>2. report.confirmed /\ report.failure # "setup"
      BY <2>4, <3>1, ResultFacts DEF IInv
    <3>3. /\ report.exit = status
          /\ exec \in LaunchStages => report.failure \in LaunchStages
          /\ report.failure \in {"directory", "execute"} => exec = report.failure
      BY <3>2 DEF IInv, ReportInv
    <3> QED
      BY <3>1, <3>3, ResultFacts DEF IInv
  <2> QED
    BY <2>3, <2>4 DEF ResultFaithful
<1> QED
  BY <1>1, SupervisorInvariant, PTL
=============================================================================
