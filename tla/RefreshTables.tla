--------------------------- MODULE RefreshTables ---------------------------
(***************************************************************************)
(* The tables the refresh job replaces, their row counts and the row-count *)
(* floor: what the job (Refresh) and its contract (RefreshContract) share. *)
(***************************************************************************)
EXTENDS Naturals

CONSTANTS
  Jobs,        \* executions of `python -m ingestion.refresh`
  CoreTables,  \* the tables load.py replaces
  T25Tables,   \* the table load_t25.py replaces
  RowCounts,   \* row counts a table or a built CSV may have
  Absent       \* the count of a table that does not exist

ASSUME TableAssumptions ==
  /\ CoreTables \intersect T25Tables = {}
  /\ T25Tables # {}
  /\ RowCounts \subseteq Nat /\ 0 \in RowCounts
  /\ Absent \notin Nat

Tables == CoreTables \union T25Tables

\* int(rows * FLOOR_RATIO), FLOOR_RATIO = 0.9: the fewest rows a rebuilt table may have.
Floor(n) == (n * 9) \div 10

\* Mutant: the T2.5 file is left out of CSV_OUTPUTS.
ClearsFloorCoreOnly(csv, before) == \A t \in CoreTables : csv[t] >= Floor(before[t])

\* validate_outputs: every CSV holds at least its floor.
ClearsFloor(csv, before) == \A t \in Tables : csv[t] >= Floor(before[t])

\* A job that has not read the row counts yet.
Unread == [t \in Tables |-> Absent]

\* What one load transaction does: DROP, CREATE and COPY of the tables in T.
Replace(rows, T, csv) == [t \in Tables |-> IF t \in T THEN csv[t] ELSE rows[t]]
============================================================================
