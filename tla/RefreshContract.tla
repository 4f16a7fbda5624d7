-------------------------- MODULE RefreshContract --------------------------
(***************************************************************************)
(* What the scheduled refresh promises its readers, with no retries, no    *)
(* connections and no exception handlers in sight: the data tables are     *)
(* replaced only by a job, core first and T2.5 second, from files that     *)
(* cleared the floor of the counts that job observed, table by table and   *)
(* with no snapshot over them all, and the verdict it                      *)
(* records is true of what it committed (ingestion/refresh.py:9-14, ADR-005 *)
(* "Safety: validate before load, because load destroys").                 *)
(***************************************************************************)
EXTENDS RefreshTables

VARIABLES
  rows,       \* rows[t]: what table t holds
  before,     \* before[j]: the counts job j has observed
  built,      \* built[j]: the files job j has built
  committed,  \* committed[j]: the load transactions of j that have committed
  verdict     \* verdict[j]: what the ledger says of j

contractVars == <<rows, before, built, committed, verdict>>

ContractInit ==
  /\ rows \in [Tables -> RowCounts \union {Absent}]
  /\ before = [j \in Jobs |-> Unread]
  /\ built \in [Jobs -> [Tables -> RowCounts]]
  /\ committed = [j \in Jobs |-> {}]
  /\ verdict = [j \in Jobs |-> "pending"]

\* Each table is counted on its own, when it exists; the others may be replaced between.
Observe(j, t) ==
  /\ verdict[j] = "pending" /\ committed[j] = {}
  /\ before[j][t] = Absent /\ rows[t] # Absent
  /\ before' = [before EXCEPT ![j][t] = rows[t]]
  /\ UNCHANGED <<rows, built, committed, verdict>>

\* Counts that were not completed are thrown away, never topped up later.
Forget(j) ==
  /\ verdict[j] = "pending" /\ committed[j] = {}
  /\ \E t \in Tables : before[j][t] = Absent
  /\ before' = [before EXCEPT ![j] = Unread]
  /\ UNCHANGED <<rows, built, committed, verdict>>

\* Files may be built any number of times before the first of them is loaded.
ChooseFiles(j) ==
  /\ verdict[j] = "pending" /\ committed[j] = {}
  /\ \E csv \in [Tables -> RowCounts] : built' = [built EXCEPT ![j] = csv]
  /\ UNCHANGED <<rows, before, committed, verdict>>

ReplaceCore(j) ==
  /\ verdict[j] = "pending" /\ committed[j] = {}
  /\ \A t \in Tables : before[j][t] # Absent
  /\ ClearsFloor(built[j], before[j])
  /\ rows' = Replace(rows, CoreTables, built[j])
  /\ committed' = [committed EXCEPT ![j] = {"core"}]
  /\ UNCHANGED <<before, built, verdict>>

ReplaceT25(j) ==
  /\ verdict[j] = "pending" /\ committed[j] = {"core"}
  /\ rows' = Replace(rows, T25Tables, built[j])
  /\ committed' = [committed EXCEPT ![j] = {"core", "t25"}]
  /\ UNCHANGED <<before, built, verdict>>

\* A verdict may be downgraded to "failed" - the recorder overwrites one whose
\* acknowledgements it lost - but never upgraded.
Conclude(j, status) ==
  /\ \/ verdict[j] = "pending"
     \/ verdict[j] # "pending" /\ status = "failed"
  /\ status = "success" => committed[j] = {"core", "t25"}
  /\ status = "no_change" => committed[j] = {}
  /\ verdict' = [verdict EXCEPT ![j] = status]
  /\ UNCHANGED <<rows, before, built, committed>>

ContractNext ==
  \E j \in Jobs :
    \/ \E t \in Tables : Observe(j, t)
    \/ Forget(j)
    \/ ChooseFiles(j)
    \/ ReplaceCore(j)
    \/ ReplaceT25(j)
    \/ \E status \in {"success", "no_change", "failed"} : Conclude(j, status)

ContractSpec == ContractInit /\ [][ContractNext]_contractVars
============================================================================
