----------------------------- MODULE Freshness -----------------------------
(***************************************************************************)
(* What the public /freshness line says while scheduled and hand-started   *)
(* refreshes open, work on, close and abandon their rows                   *)
(* (services/agent/repository/postgres.py: refresh_status;                 *)
(* services/agent/main.py: _freshness_body; ingestion/refresh.py: run).    *)
(* A refresh is reduced to what its row and the data show of it: module    *)
(* Refresh has its retries and its floor.                                  *)
(***************************************************************************)
EXTENDS Naturals

CONSTANTS
  Jobs,        \* the refreshes, each with its row once it has opened it
  LastTick,    \* bound: time stops
  Stale,       \* STALE_RUNNING_SECONDS
  NewestPeriod \* bound: periods that publish while we watch

ASSUME FreshnessAssumptions ==
  /\ LastTick \in Nat \ {0} /\ NewestPeriod \in Nat \ {0} /\ Stale \in Nat \ {0}

VARIABLES
  now,     \* the database clock; every stamp takes a tick of its own
  period,  \* the newest month in the core tables
  pc,      \* pc[j]: what j does next
  noted,   \* noted[j]: the latest_period j has read for its row
  row,     \* row[j]: its row of data_refresh_runs
  good,    \* the answer of Q_LAST_SUCCESSFUL_REFRESH a reader holds before its second query
  shown,   \* the body /freshness last returned
  overtaken \* history - overtaken[j]: another refresh has loaded since j read latest_period

freshVars == <<now, period, pc, noted, row, good, shown, overtaken>>

None == 0
NoRow == [status |-> "none", started |-> None, finished |-> None, period |-> None]
Idle == [finished |-> None, period |-> None, at |-> None]
Unknown == [success |-> None, period |-> None, status |-> "unknown", started |-> None]
GoodStatus == {"success", "no_change"}

Init ==
  /\ now = 1
  /\ period = 1
  /\ pc = [j \in Jobs |-> "open"]
  /\ noted = [j \in Jobs |-> None]
  /\ row = [j \in Jobs |-> NoRow]
  /\ good = Idle
  /\ shown = Unknown
  /\ overtaken = [j \in Jobs |-> FALSE]

----------------------------------------------------------------------------
Goto(j, next) == pc' = [pc EXCEPT ![j] = next]
Stamp == now < LastTick /\ now' = now + 1

\* Time passes.
Tick ==
  /\ Stamp
  /\ UNCHANGED <<period, pc, noted, row, good, shown, overtaken>>

\* open_run.
OpenRun(j) ==
  /\ pc[j] = "open"
  /\ Stamp
  /\ row' = [row EXCEPT ![j] = [NoRow EXCEPT !.status = "running", !.started = now']]
  /\ Goto(j, "probe")
  /\ UNCHANGED <<period, noted, good, shown, overtaken>>

\* The probe finds something to load or nothing, or it, a builder or the floor fails.
Probe(j) ==
  /\ pc[j] = "probe"
  /\ \E next \in {"load", "note_no_change", "close_failed"} : Goto(j, next)
  /\ UNCHANGED <<now, period, noted, row, good, shown, overtaken>>

\* load.main commits; load_t25.main is still to come.
LoadCore(j) ==
  /\ pc[j] = "load"
  /\ Stamp
  /\ period' \in {p \in {period, period + 1} : p <= NewestPeriod}
  /\ overtaken' = [k \in Jobs |-> overtaken[k] \/ k # j]
  /\ Goto(j, "load25")
  /\ UNCHANGED <<noted, row, good, shown>>

\* load_t25.main commits, or raises into run's outer handler.
LoadT25(j) ==
  /\ pc[j] = "load25"
  /\ Goto(j, "note_success") \/ Goto(j, "close_failed")
  /\ UNCHANGED <<now, period, noted, row, good, shown, overtaken>>

\* Mutant: close_run("no_change") without a latest_period, as it once was.
NotePeriodOnSuccess(j) ==
  \/ /\ pc[j] = "note_no_change"
     /\ Goto(j, "close_no_change")
     /\ UNCHANGED <<now, period, noted, row, good, shown, overtaken>>
  \/ /\ pc[j] = "note_success"
     /\ noted' = [noted EXCEPT ![j] = period]
     /\ overtaken' = [overtaken EXCEPT ![j] = FALSE]
     /\ Goto(j, "close_success")
     /\ UNCHANGED <<now, period, row, good, shown>>

\* latest_period, on both paths that are not a failure.
NotePeriod(j) ==
  /\ \/ pc[j] = "note_no_change" /\ Goto(j, "close_no_change")
     \/ pc[j] = "note_success" /\ Goto(j, "close_success")
  /\ noted' = [noted EXCEPT ![j] = period]
  /\ overtaken' = [overtaken EXCEPT ![j] = FALSE]
  /\ UNCHANGED <<now, period, row, good, shown>>

Closing == [close_success |-> "success", close_no_change |-> "no_change", close_failed |-> "failed"]

\* close_run.
CloseRun(j) ==
  /\ pc[j] \in DOMAIN Closing
  /\ Stamp
  /\ row' = [row EXCEPT ![j] = [@ EXCEPT !.status = Closing[pc[j]], !.finished = now',
                                         !.period = noted[j]]]
  /\ Goto(j, "over")
  /\ UNCHANGED <<period, noted, good, shown, overtaken>>

\* The container dies between two steps.
Die(j) ==
  /\ pc[j] \notin {"open", "over", "dead"}
  /\ Goto(j, "dead")
  /\ UNCHANGED <<now, period, noted, row, good, shown, overtaken>>

----------------------------------------------------------------------------
\* Mutant: newest by start.
LatestGoodByStart ==
  LET rows == {row[j] : j \in {k \in Jobs : row[k].status \in GoodStatus}}
  IN IF rows = {} THEN NoRow ELSE CHOOSE r \in rows : \A q \in rows : q.started <= r.started

\* Q_LAST_SUCCESSFUL_REFRESH.
LatestGood ==
  LET rows == {row[j] : j \in {k \in Jobs : row[k].status \in GoodStatus}}
  IN IF rows = {} THEN NoRow ELSE CHOOSE r \in rows : \A q \in rows : q.finished <= r.finished

\* Mutant: a running row is current however old it is.
VisibleForever(r) == r.status # "none"

\* The WHERE of Q_LAST_REFRESH_RUN.
Visible(r) ==
  /\ r.status # "none"
  /\ r.status # "running" \/ r.started + Stale > now

\* Q_LAST_REFRESH_RUN.
LatestRun ==
  LET rows == {row[j] : j \in {k \in Jobs : Visible(row[k])}}
  IN IF rows = {} THEN NoRow ELSE CHOOSE r \in rows : \A q \in rows : q.started <= r.started

\* refresh_status' first query.
ReadGood ==
  /\ good = Idle
  /\ LET r == LatestGood IN good' = [finished |-> r.finished, period |-> r.period, at |-> now]
  /\ UNCHANGED <<now, period, pc, noted, row, shown, overtaken>>

\* Its second query, on a connection and a snapshot of its own, and _freshness_body.
ReadLast ==
  /\ good # Idle
  /\ LET r == LatestRun
     IN shown' = [success |-> good.finished, period |-> good.period, started |-> r.started,
                  status |-> IF r = NoRow THEN "unknown" ELSE r.status]
  /\ good' = Idle
  /\ UNCHANGED <<now, period, pc, noted, row, overtaken>>

\* Either query fails: everything is null.
ReadFails ==
  /\ good # Idle
  /\ shown' = Unknown
  /\ good' = Idle
  /\ UNCHANGED <<now, period, pc, noted, row, overtaken>>

Next ==
  \/ Tick
  \/ \E j \in Jobs : OpenRun(j) \/ Probe(j) \/ LoadCore(j) \/ LoadT25(j) \/ NotePeriod(j)
                     \/ CloseRun(j) \/ Die(j)
  \/ ReadGood \/ ReadLast \/ ReadFails

Spec == Init /\ [][Next]_freshVars

----------------------------------------------------------------------------
Stamps == 0 .. LastTick
Periods == 0 .. NewestPeriod
Statuses == {"none", "running", "success", "no_change", "failed"}

TypeOK ==
  /\ now \in Stamps
  /\ overtaken \in [Jobs -> BOOLEAN]
  /\ period \in Periods
  /\ pc \in [Jobs -> {"open", "probe", "load", "load25", "note_success", "note_no_change",
                      "over", "dead"} \union DOMAIN Closing]
  /\ noted \in [Jobs -> Periods]
  /\ row \in [Jobs -> [status : Statuses, started : Stamps, finished : Stamps, period : Periods]]
  /\ good \in [finished : Stamps, period : Periods, at : Stamps]
  /\ shown \in [success : Stamps, period : Periods, started : Stamps,
                status : (Statuses \ {"none"}) \union {"unknown"}]

\* A body is at least as new as the moment its first query ran: no refresh that had
\* closed well by then is missing from last_successful_refresh, however runs overlap.
SuccessIsCurrent ==
  [][good # Idle /\ good' = Idle /\ shown' # Unknown =>
       \A j \in Jobs : row[j].status \in GoodStatus /\ row[j].finished <= good.at =>
         row[j].finished <= shown'.success]_freshVars

\* A run that died is forgotten after Stale ticks and never shadows what older runs did;
\* one that is younger than that is never hidden (base.py: "as if it does not exist").
RunShownIsCurrent ==
  [][good # Idle /\ good' = Idle /\ shown' # Unknown =>
       /\ shown'.status = "running" => now < shown'.started + Stale
       /\ \A j \in Jobs : row[j].status \in GoodStatus \union {"failed"} =>
            row[j].started <= shown'.started
       /\ \A j \in Jobs : pc[j] \notin {"open", "over", "dead"} /\ now < row[j].started + Stale =>
            row[j].started <= shown'.started]_freshVars

\* The newest row that closed well names the newest month of the data, whether its run
\* loaded or found nothing to load and whatever failed or died before it (run:
\* "latest_period belongs on EVERY terminal path"). Nothing but a load that another
\* refresh commits after that run has read latest_period puts it out of date.
QuietRunTellsVintage ==
  \A j \in Jobs :
    row[j].status \in GoodStatus /\ LatestGood = row[j] /\ ~overtaken[j]
      => LatestGood.period = period

\* "the site keeps showing the true vintage of the data it actually holds" (ADR-005:138-139),
\* asked only while every run is over and none has died.
TrueVintage ==
  (\A j \in Jobs : pc[j] \in {"open", "over"}) /\ LatestGood # NoRow => LatestGood.period = period
============================================================================
