---------------------------- MODULE ProfileMarkers ----------------------------
(***************************************************************************)
(* The association of the rows of two exports of one profile               *)
(* (src/src/inspection/ProfileMarkers.cpp): event rows tell a hierarchy by *)
(* their indentation and have a duration, regime rows tell a flat path and *)
(* have counters.  A path is a sequence of names, as a name has no slash.  *)
(*                                                                         *)
(* A trace is what the profiler exported: headers, whether they have the   *)
(* qualified form; events, rows [name, spelled, indent, measured, marker]; *)
(* regimes, rows [path, shaped, marker]; columns, the names of the         *)
(* counters.  The marker of a row is the range it was measured on: its     *)
(* duration and its counters stand for it.                                 *)
(***************************************************************************)
EXTENDS Integers, Sequences, FiniteSets

LOCAL INSTANCE SequencesExt

CONSTANTS
  MaxDepth, \* nested markers (32 in the code)
  MaxRows   \* rows of a table

ASSUME BoundsAssumption == MaxDepth \in Nat /\ MaxRows \in Nat

HeadersOk(t) ==
  /\ Len(t.events) <= MaxRows /\ Len(t.regimes) <= MaxRows
  /\ t.headers /\ t.columns # <<>>

\* The level of the last row plus one: the stack of open names.
OpenLevels(t, row) == IF row = 1 THEN 0 ELSE t.events[row - 1].indent + 1

EventRowOk(t, row) ==
  LET e == t.events[row]
  IN e.measured /\ e.spelled /\ e.indent < MaxDepth /\ e.indent <= OpenLevels(t, row)

\* stack.resize(indent), then the name of the row.
EventPaths(t) ==
  FoldLeft(LAMBDA paths, e :
             Append(paths, Append(IF paths = <<>> THEN <<>> ELSE SubSeq(Last(paths), 1, e.indent), e.name)),
           <<>>, t.events)

RegimeRows(t, path) == {row \in DOMAIN t.regimes : t.regimes[row].path = path}

Unassociated(status) == [status |-> status, rows |-> <<>>]

AssociationMutant(t, paths, row) ==
  LET regimes == RegimeRows(t, paths[row])
  IN [path |-> paths[row], available |-> Cardinality(regimes) = 1, regime |-> CHOOSE r \in regimes : TRUE]
\* The mutant relies on the regimes for uniqueness.

\* A row is associated when its path occurs once in each export.
Association(t, paths, row) ==
  LET events  == {other \in DOMAIN paths : paths[other] = paths[row]}
      regimes == RegimeRows(t, paths[row])
  IN [path |-> paths[row],
      available |-> Cardinality(events) = 1 /\ Cardinality(regimes) = 1,
      regime |-> CHOOSE r \in regimes : \A other \in regimes : r <= other]

CorrelateMarkers(t) ==
  IF ~HeadersOk(t) THEN Unassociated("unsupported")
  ELSE IF t.events = <<>> \/ t.regimes = <<>> THEN Unassociated("unavailable")
  ELSE IF \/ \E row \in DOMAIN t.regimes : ~t.regimes[row].shaped
          \/ \E row \in DOMAIN t.events : ~EventRowOk(t, row) THEN Unassociated("unsupported")
  ELSE LET paths == EventPaths(t)
       IN IF \E row \in DOMAIN paths : RegimeRows(t, paths[row]) = {} THEN Unassociated("unavailable")
          ELSE [status |-> "available", rows |-> [row \in DOMAIN paths |-> Association(t, paths, row)]]

\* The counter of a name for an event row: the row's regime, and the one
\* column of that name.
CounterOf(t, row, name) ==
  LET table   == CorrelateMarkers(t)
      columns == {k \in DOMAIN t.columns : t.columns[k] = name}
  IN IF /\ table.status = "available" /\ table.rows[row].available
        /\ Cardinality(columns) = 1
     THEN [available |-> TRUE, marker |-> t.regimes[table.rows[row].regime].marker,
           column |-> CHOOSE k \in columns : TRUE]
     ELSE [available |-> FALSE]
================================================================================
