------------------------------ MODULE Refresh ------------------------------
(***************************************************************************)
(* The scheduled-ingestion job (ingestion/refresh.py: run, RunRecorder,    *)
(* run_builders, validate_outputs, run_load) with its two loaders          *)
(* (ingestion/load.py, ingestion/load_t25.py), run by any number of        *)
(* possibly overlapping executions against one Postgres.                   *)
(*                                                                         *)
(* Every statement of the recorder travels on a connection of its own and  *)
(* is retried when that connection drops; a drop may come before the       *)
(* statement takes effect or after it (a lost acknowledgement). A job may  *)
(* also be killed between any two steps.                                   *)
(*                                                                         *)
(* Tables are abstracted to their row counts and to whether the T2.5 views *)
(* exist; which years they hold is module RefreshYears'.                   *)
(***************************************************************************)
EXTENDS RefreshTables

CONSTANTS
  Airports,    \* the core table whose emptiness alone asks for a rebuild
  Flaky,       \* bound: the jobs whose connections may drop
  MaxDrops,    \* bound: connections such a job loses
  MaxCrashes   \* bound: jobs killed

ASSUME JobAssumptions ==
  /\ Airports \in CoreTables
  /\ Flaky \subseteq Jobs
  /\ MaxDrops \in Nat
  /\ MaxCrashes \in Nat

VARIABLES
  pc,         \* pc[j]: the call job j is about to make, or how it ended
  tries,      \* tries[j]: attempts of that call that have failed
  drops,      \* drops[j]: connections j has lost so far
  crashes,    \* jobs killed so far
  rid,        \* rid[j]: which of j's INSERTs gave the row id j works with (0: none)
  intent,     \* intent[j]: the status j means to close its row with
  handler,    \* handler[j]: is a raise caught by run's outer handler ("body"), or are we in it
  ledger,     \* data_refresh_runs: the status of the row made by attempt k of j's INSERT
  before,     \* before[j]: rows_before, as far as it has been counted
  built,      \* built[j]: the row counts of CSV_OUTPUTS
  rows,       \* rows[t]: the row count of table t in Postgres
  views,      \* do v_carrier_concentration and v_roi_proxy exist
  committed,  \* history - committed[j]: the load transactions of j that committed
  overlapped  \* history - overlapped[j]: another job loaded since j began to count

control == <<pc, tries, intent, handler>>
tables  == <<rows, views, committed, overlapped>>
refreshVars == <<control, drops, crashes, rid, ledger, before, built, tables>>

Ended == {"exit0", "exit1", "killed"}
Calls == {"schema", "open", "counts", "probe", "build", "validate", "load", "load25",
          "recount", "period", "close"}
\* Calls that open a connection of their own.
Connecting == Calls \ {"build", "validate"}
Terminal == {"success", "no_change", "failed"}
Inserts == 1 .. 2
OwnRow(j) == <<j, rid[j]>>

\* Mutant: close_run left with the default single retry.
AttemptsOneRetry(call) == IF call \in {"schema", "load", "load25"} THEN 1 ELSE 2

\* RunRecorder._run: retries + 1 attempts; main and the loaders connect once.
Attempts(call) ==
  IF call \in {"schema", "load", "load25"} THEN 1 ELSE IF call = "close" THEN 3 ELSE 2

Init ==
  /\ pc = [j \in Jobs |-> "schema"]
  /\ tries = [j \in Jobs |-> 0]
  /\ drops = [j \in Jobs |-> 0]
  /\ crashes = 0
  /\ rid = [j \in Jobs |-> 0]
  /\ intent = [j \in Jobs |-> "failed"]
  /\ handler = [j \in Jobs |-> "body"]
  /\ ledger = [r \in Jobs \X Inserts |-> "none"]
  /\ before = [j \in Jobs |-> Unread]
  /\ built = [j \in Jobs |-> [t \in Tables |-> 0]]
  /\ rows \in [Tables -> RowCounts \union {Absent}]
  \* load.py creates the core tables together; load_t25.py needs them.
  /\ (\E t \in CoreTables : rows[t] = Absent) => rows = Unread
  /\ views \in BOOLEAN
  /\ (\E t \in Tables : rows[t] = Absent) => ~views
  /\ committed = [j \in Jobs |-> {}]
  /\ overlapped = [j \in Jobs |-> FALSE]

----------------------------------------------------------------------------
\* The call returned: on to the next one.
Goto(j, call) ==
  /\ pc' = [pc EXCEPT ![j] = call]
  /\ tries' = [tries EXCEPT ![j] = 0]

\* Mutant: once the tables are counted, the outer handler starts over from the probe.
RaiseStartsOver(j) ==
  /\ Goto(j, IF pc[j] \in {"schema", "open", "counts"} THEN "exit1" ELSE "probe")
  /\ UNCHANGED <<intent, handler>>

\* The call raised. Before open_run returns nothing catches it; inside run's try
\* its `except Exception` closes the row as failed; a raise in there ends the job.
Raise(j) ==
  IF pc[j] \in {"schema", "open"} \/ handler[j] = "outer"
  THEN Goto(j, "exit1") /\ UNCHANGED <<intent, handler>>
  ELSE /\ Goto(j, "close")
       /\ intent' = [intent EXCEPT ![j] = "failed"]
       /\ handler' = [handler EXCEPT ![j] = "outer"]

\* The connection of the current attempt dropped: try again, or give up.
Dropped(j) ==
  /\ j \in Flaky /\ drops[j] < MaxDrops
  /\ drops' = [drops EXCEPT ![j] = @ + 1]
  /\ IF tries[j] + 1 < Attempts(pc[j])
     THEN tries' = [tries EXCEPT ![j] = @ + 1] /\ UNCHANGED <<pc, intent, handler>>
     ELSE Raise(j)

\* ... before its statement took effect.
Drop(j) ==
  /\ pc[j] \in Connecting
  /\ Dropped(j)
  \* The counts of an attempt are its own: the next one starts with none.
  /\ before' = IF pc[j] = "counts" THEN [before EXCEPT ![j] = Unread] ELSE before
  /\ UNCHANGED <<crashes, rid, ledger, built, tables>>

\* main: CREATE TABLE IF NOT EXISTS data_refresh_runs.
ApplySchema(j) ==
  /\ pc[j] = "schema"
  /\ Goto(j, "open")
  /\ UNCHANGED <<intent, handler, drops, crashes, rid, ledger, before, built, tables>>

\* open_run: each attempt that reaches the server inserts a row of its own.
OpenRun(j) ==
  /\ pc[j] = "open"
  /\ ledger' = [ledger EXCEPT ![<<j, tries[j] + 1>>] = "running"]
  /\ \/ /\ rid' = [rid EXCEPT ![j] = tries[j] + 1]
        /\ Goto(j, "counts")
        /\ UNCHANGED <<intent, handler, drops>>
     \/ /\ Dropped(j)
        /\ UNCHANGED rid
  /\ UNCHANGED <<crashes, before, built, tables>>

\* table_counts: one SELECT COUNT(*) per table, each with a snapshot of its own because
\* the connection is autocommit, so that another job may load between two of them. It
\* raises on a table that does not exist. The order of TABLES is one of those allowed.
CountTables(j) ==
  /\ pc[j] = "counts"
  /\ \E t \in Tables :
       /\ before[j][t] = Absent
       /\ \/ /\ rows[t] = Absent
             /\ Raise(j)
             /\ before' = [before EXCEPT ![j] = Unread]
             /\ UNCHANGED overlapped
          \/ /\ rows[t] # Absent
             /\ before' = [before EXCEPT ![j][t] = rows[t]]
             /\ overlapped' = [overlapped EXCEPT ![j] = before[j] # Unread /\ overlapped[j]]
             /\ IF \E u \in Tables \ {t} : before[j][u] = Absent
                THEN UNCHANGED <<pc, tries>> ELSE Goto(j, "probe")
             /\ UNCHANGED <<intent, handler>>
  /\ UNCHANGED <<drops, crashes, rid, ledger, built, rows, views, committed>>

\* coverage, probe_sources and any_changed. An empty airports table is always a
\* change; the years that decide otherwise are module RefreshYears'.
Probe(j) ==
  /\ pc[j] = "probe"
  /\ \/ /\ Goto(j, "build")
        /\ UNCHANGED <<intent, handler>>
     \/ /\ before[j][Airports] # 0
        /\ intent' = [intent EXCEPT ![j] = "no_change"]
        /\ Goto(j, "period")
        /\ UNCHANGED handler
  /\ UNCHANGED <<drops, crashes, rid, ledger, before, built, tables>>

\* run_builders: the files it leaves, complete or not, or BuildFailed.
Build(j) ==
  /\ pc[j] = "build"
  /\ \E csv \in [Tables -> RowCounts] : built' = [built EXCEPT ![j] = csv]
  /\ \/ Goto(j, "validate")
     \/ Goto(j, "close")
  /\ UNCHANGED <<intent, handler, drops, crashes, rid, ledger, before, tables>>

\* Mutant: a validation that only warns.
ValidateWarnOnly(j) ==
  /\ pc[j] = "validate"
  /\ Goto(j, "load")
  /\ UNCHANGED <<intent, handler, drops, crashes, rid, ledger, before, built, tables>>

\* validate_outputs, or ValidationFailed.
Validate(j) ==
  /\ pc[j] = "validate"
  /\ Goto(j, IF ClearsFloor(built[j], before[j]) THEN "load" ELSE "close")
  /\ UNCHANGED <<intent, handler, drops, crashes, rid, ledger, before, built, tables>>

\* A load transaction of j commits; its acknowledgement arrives or is lost.
Commit(j, load, T, next) ==
  /\ rows' = Replace(rows, T, built[j])
  /\ committed' = [committed EXCEPT ![j] = @ \union {load}]
  /\ overlapped' = [k \in Jobs |-> overlapped[k] \/ k # j]
  /\ \/ Goto(j, next) /\ UNCHANGED <<intent, handler, drops>>
     \/ Dropped(j)
  /\ UNCHANGED <<crashes, rid, ledger, before, built>>

\* Mutant: run_load calls load.main only.
LoadCoreOnly(j) ==
  /\ pc[j] = "load"
  /\ Commit(j, "core", CoreTables, "recount")
  /\ views' = FALSE

\* load.main: DROP ... CASCADE of bts_t100 takes the T2.5 views with it.
LoadCore(j) ==
  /\ pc[j] = "load"
  /\ Commit(j, "core", CoreTables, "load25")
  /\ views' = FALSE

\* Mutant: load_t25.main applies its COPY without views_t25.sql.
LoadT25NoViews(j) ==
  /\ pc[j] = "load25"
  /\ Commit(j, "t25", T25Tables, "recount")
  /\ UNCHANGED views

\* load_t25.main.
LoadT25(j) ==
  /\ pc[j] = "load25"
  /\ Commit(j, "t25", T25Tables, "recount")
  /\ views' = TRUE

\* table_counts after the load: rows_after.
Recount(j) ==
  /\ pc[j] = "recount"
  /\ intent' = [intent EXCEPT ![j] = "success"]
  /\ Goto(j, "period")
  /\ UNCHANGED <<handler, drops, crashes, rid, ledger, before, built, tables>>

\* latest_period, on the way to close_run("no_change") or close_run("success").
ReadPeriod(j) ==
  /\ pc[j] = "period"
  /\ Goto(j, "close")
  /\ UNCHANGED <<intent, handler, drops, crashes, rid, ledger, before, built, tables>>

\* Anything but a connection error: a bug in the probe, a builder that cannot be
\* imported, a COPY that violates a constraint, a missing CSV. The transaction it
\* happens in is rolled back.
Fault(j) ==
  /\ pc[j] \in {"probe", "build", "validate", "load", "load25"}
  /\ Raise(j)
  /\ UNCHANGED <<drops, crashes, rid, ledger, before, built, tables>>

\* close_run: UPDATE ... WHERE id = rid; after BuildFailed, ValidationFailed or the
\* outer handler the exception goes on to run_and_exit_code.
CloseRun(j) ==
  /\ pc[j] = "close"
  /\ ledger' = [ledger EXCEPT ![OwnRow(j)] = intent[j]]
  /\ \/ /\ Goto(j, IF intent[j] = "failed" THEN "exit1" ELSE "exit0")
        /\ UNCHANGED <<intent, handler, drops>>
     \/ Dropped(j)
  /\ UNCHANGED <<crashes, rid, before, built, tables>>

\* The container is stopped: out of memory, task timeout, node loss.
Crash(j) ==
  /\ pc[j] \in Calls
  /\ crashes < MaxCrashes
  /\ crashes' = crashes + 1
  /\ Goto(j, "killed")
  /\ UNCHANGED <<intent, handler, drops, rid, ledger, before, built, tables>>

Step(j) ==
  \/ ApplySchema(j) \/ OpenRun(j) \/ CountTables(j) \/ Probe(j) \/ Build(j) \/ Validate(j)
  \/ LoadCore(j) \/ LoadT25(j) \/ Recount(j) \/ ReadPeriod(j) \/ CloseRun(j)
  \/ Drop(j) \/ Fault(j)

Next == \E j \in Jobs : Step(j) \/ Crash(j)

Spec == Init /\ [][Next]_refreshVars

\* Some job that has not ended goes on: it is a process of its own whose connects time out.
FairSpec == Spec /\ WF_refreshVars(\E j \in Jobs : Step(j))

----------------------------------------------------------------------------
TypeOK ==
  /\ pc \in [Jobs -> Calls \union Ended]
  /\ tries \in [Jobs -> 0 .. 2]
  /\ drops \in [Jobs -> 0 .. MaxDrops]
  /\ crashes \in 0 .. MaxCrashes
  /\ rid \in [Jobs -> {0} \union Inserts]
  /\ intent \in [Jobs -> Terminal]
  /\ handler \in [Jobs -> {"body", "outer"}]
  /\ ledger \in [Jobs \X Inserts -> {"none", "running"} \union Terminal]
  /\ before \in [Jobs -> [Tables -> RowCounts \union {Absent}]]
  /\ built \in [Jobs -> [Tables -> RowCounts]]
  /\ rows \in [Tables -> RowCounts \union {Absent}]
  /\ views \in BOOLEAN
  /\ committed \in [Jobs -> SUBSET {"core", "t25"}]
  /\ overlapped \in [Jobs -> BOOLEAN]

\* A row tells the truth about the database: `success` only if both loads of its
\* job committed, `no_change` only if neither did (close_run's callers in run).
RowsTellWhatCommitted ==
  \A j \in Jobs, k \in Inserts :
    /\ ledger[<<j, k>>] = "success" => committed[j] = {"core", "t25"}
    /\ ledger[<<j, k>>] = "no_change" => committed[j] = {}

\* The exit code Cloud Run sees and the row agree for every job that lost at most
\* two connections: close_run's three attempts outlast them, whatever call they
\* hit. Without a lost connection no row of the job is left running either.
ExitAgreesWithRow ==
  \A j \in Jobs :
    /\ pc[j] = "exit0" => ledger[OwnRow(j)] \in {"success", "no_change"}
    /\ pc[j] = "exit1" /\ rid[j] # 0 /\ drops[j] <= 2 => ledger[OwnRow(j)] = "failed"
    /\ pc[j] \in {"exit0", "exit1"} /\ drops[j] = 0 =>
         \A k \in Inserts : ledger[<<j, k>>] # "running"

\* "a later failure can never roll back an already-recorded fact" (refresh.py:451),
\* as long as the job lost at most two connections: a third lost acknowledgement
\* makes run's outer handler overwrite the verdict it had recorded.
RecordedFactsStay ==
  [][\A j \in Jobs, k \in Inserts :
       ledger[<<j, k>>] \in Terminal /\ drops'[j] <= 2
         => ledger'[<<j, k>>] = ledger[<<j, k>>]]_refreshVars

\* Every job comes to an end: no retry loop, and no handler that re-enters itself.
RunTerminates == <>(\A j \in Jobs : pc[j] \in Ended)

\* No load leaves a table below the floor of what that table held just before,
\* unless another job loaded since this one began to count (validate_outputs).
FloorHoldsAlone ==
  [][\A t \in Tables :
       rows[t] # Absent /\ rows'[t] < Floor(rows[t])
         => \E j \in Jobs : overlapped[j] /\ committed'[j] # committed[j]]_refreshVars

\* When a row turns `success`, Postgres serves exactly the files that job built,
\* T2.5 views included, unless another job loaded in between.
SuccessIsServed ==
  [][\A j \in Jobs, k \in Inserts :
       ledger[<<j, k>>] # "success" /\ ledger'[<<j, k>>] = "success" /\ ~overlapped[j]
         => views /\ rows = built[j]]_refreshVars

----------------------------------------------------------------------------
(* The inductive invariant behind these properties, one part per concern.   *)

\* Where a job stands fixes what it has, what it means to record and what it committed.
StageInv(j) ==
  /\ pc[j] \in {"schema", "open"} => rid[j] = 0
  /\ pc[j] \in (Calls \ {"schema", "open"}) \union {"exit0"} => rid[j] # 0
  /\ pc[j] \in Calls \ {"period", "close"} => intent[j] = "failed" /\ handler[j] = "body"
  /\ pc[j] = "period" => intent[j] # "failed" /\ handler[j] = "body"
  /\ handler[j] = "outer" => intent[j] = "failed"
  /\ pc[j] \in {"schema", "open"} => before[j] = Unread
  /\ pc[j] = "counts" => \E t \in Tables : before[j][t] = Absent
  /\ pc[j] \in {"schema", "open", "counts", "probe", "build", "validate", "load"} => committed[j] = {}
  /\ pc[j] = "load25" => committed[j] = {"core"}
  /\ pc[j] = "recount" => committed[j] = {"core", "t25"}
  /\ pc[j] \in {"period", "close"} =>
       /\ intent[j] = "success" => committed[j] = {"core", "t25"}
       /\ intent[j] = "no_change" => committed[j] = {}

\* Failed attempts are lost connections, and a call has attempts left.
RetryInv(j) ==
  /\ tries[j] <= drops[j]
  /\ pc[j] \in Calls => tries[j] < Attempts(pc[j])

\* The row a job works with is running until close_run, then `intent`; only a close_run
\* that lost three acknowledgements hands another verdict to the outer handler.
LedgerInv(j) ==
  /\ \A k \in Inserts : k # rid[j] =>
       /\ ledger[<<j, k>>] \in {"none", "running"}
       /\ drops[j] = 0 => ledger[<<j, k>>] = "none"
  /\ pc[j] \in Calls \ {"schema", "open", "close"} => ledger[OwnRow(j)] = "running"
  /\ pc[j] = "close" => \/ ledger[OwnRow(j)] \in {"running", intent[j]}
                        \/ handler[j] = "outer" /\ drops[j] >= 3

\* What a job knows of the tables, as long as no other job loaded.
TablesInv(j) ==
  /\ pc[j] \in Calls \ {"schema", "open", "counts", "close"} => before[j] \in [Tables -> RowCounts]
  /\ pc[j] \in {"load", "load25"} => ClearsFloor(built[j], before[j])
  /\ ~overlapped[j] =>
       /\ pc[j] = "counts" => \A t \in Tables : before[j][t] \in {Absent, rows[t]}
       /\ pc[j] \in {"probe", "build", "validate", "load"} => rows = before[j]
       /\ pc[j] = "load25" => rows = Replace(before[j], CoreTables, built[j])
       /\ pc[j] = "recount" \/ (pc[j] \in {"period", "close"} /\ intent[j] = "success")
            => rows = built[j] /\ views

\* Inductive: holds initially, is preserved by every step and implies the invariants above.
RefreshInv ==
  /\ TypeOK
  /\ RowsTellWhatCommitted
  /\ ExitAgreesWithRow
  /\ \A j \in Jobs : StageInv(j) /\ RetryInv(j) /\ LedgerInv(j) /\ TablesInv(j)

\* The verdict a reader sees on the row a job works with.
Verdict == [j \in Jobs |->
  IF rid[j] # 0 /\ ledger[OwnRow(j)] \in Terminal THEN ledger[OwnRow(j)] ELSE "pending"]

\* The job implements its contract: whatever is retried, lost or killed, tables are
\* replaced only core-first, by files that cleared the floor, and verdicts are true.
Contract == INSTANCE RefreshContract WITH verdict <- Verdict
ImplementsContract == Contract!ContractSpec
============================================================================
