---------------------------- MODULE RefreshYears ----------------------------
(***************************************************************************)
(* The scheduled refresh over the years: which years it believes it needs  *)
(* (bts_year_window, faa_year_window), which it finds missing (coverage,   *)
(* probe_sources), what its builders bring home and what a load leaves in  *)
(* Neon. One weekly run at a time; retries, rows and overlapping runs are  *)
(* module Refresh's.                                                       *)
(*                                                                         *)
(* A year of a source is abstracted to how many of its parts (months, or   *)
(* filings) there are: 0 .. FullYear. The last part is December.           *)
(***************************************************************************)
EXTENDS Naturals, FiniteSetsExt, Functions

CONSTANTS
  LastYear,  \* bound: years 1 .. LastYear, year 1 being FIRST_BTS_YEAR = FIRST_FAA_YEAR
  FullYear,  \* parts of a complete year
  MaxFaults  \* bound: faults (failed downloads, HEADs, statements, kills) overall

ASSUME YearAssumptions ==
  /\ LastYear \in Nat \ {0, 1}
  /\ FullYear \in Nat \ {0, 1}
  /\ MaxFaults \in Nat

Sources == {"t100", "ontime", "faa"}
Bts == {"t100", "ontime"}
Years == 1 .. LastYear
Parts == 0 .. FullYear

VARIABLES
  due,      \* due[s]: the newest year in the window of s (BTS: t100 and ontime alike)
  posted,   \* posted[s][y]: parts of year y that publisher s offers
  neon,     \* neon[s][y]: parts of year y in the table of s
  csv,      \* csv[s][y]: parts of year y in the CSV of s
  views,    \* do the T2.5 views exist
  env,      \* env[s]: INGEST_YEARS and INGEST_FAA_YEARS of the run, the years to build
  phase,    \* where the weekly run is: "idle" between runs
  outcome,  \* how the last run ended
  faults,   \* faults so far
  faulty    \* history: has the current run met a fault

yearsVars == <<due, posted, neon, csv, views, env, phase, outcome, faults, faulty>>

Total(years) == FoldFunction(LAMBDA a, b : a + b, 0, years)
Floor(n) == (n * 9) \div 10

\* Mutant: a window that keeps the two newest years only.
WindowNewestTwo(s) == {y \in Years : y <= due[s] /\ y + 2 > due[s]}

\* bts_year_window and faa_year_window: from the first year to the newest due.
Window(s) == {y \in Years : y <= due[s]}

\* coverage: SELECT DISTINCT year sees a year as soon as one row of it exists.
Covered(s) == {y \in Years : neon[s][y] > 0}

\* A run's container starts with an empty disk and leaves nothing behind.
NoFiles == [s \in Sources |-> [y \in Years |-> 0]]

NoYears == [s \in Sources |-> {}]

\* The run is over, and its container with files and environment.
End(status) ==
  /\ phase' = "idle"
  /\ outcome' = status
  /\ csv' = NoFiles /\ env' = NoYears
  /\ faulty' = FALSE

Init ==
  /\ \E faa \in {1, 2} : due = [s \in Sources |-> IF s = "faa" THEN faa ELSE 2]
  \* The hand-run build that came first loaded every year that was due.
  /\ posted = [s \in Sources |-> [y \in Years |->
       IF y <= due[s] THEN FullYear ELSE IF s = "faa" THEN 0 ELSE FullYear - 1]]
  /\ neon = [s \in Sources |-> [y \in Years |-> IF y <= due[s] THEN FullYear ELSE 0]]
  /\ csv = NoFiles /\ env = NoYears
  /\ views = TRUE
  /\ phase = "idle"
  /\ outcome = "success"
  /\ faults = 0
  /\ faulty = FALSE

----------------------------------------------------------------------------
\* January: one more fiscal year is two years back (FAA_LAG_YEARS).
January ==
  /\ due["faa"] < due["ontime"]
  /\ due' = [due EXCEPT !["faa"] = @ + 1]
  /\ UNCHANGED <<posted, neon, csv, views, env, phase, outcome, faults, faulty>>

\* March: December of last year is three months back (BTS_LAG_MONTHS).
March ==
  /\ due["faa"] = due["ontime"] /\ due["ontime"] < LastYear
  /\ due' = [s \in Sources |-> IF s \in Bts THEN due[s] + 1 ELSE due[s]]
  /\ UNCHANGED <<posted, neon, csv, views, env, phase, outcome, faults, faulty>>

\* A publisher adds to a year that is due or due next: December (months come in order),
\* or an airport's filing.
Publish(s, y) ==
  /\ posted[s][y] < FullYear /\ y <= due[s] + 1
  /\ s \in Bts => \A x \in 1 .. (y - 1) : posted[s][x] = FullYear
  /\ posted' = [posted EXCEPT ![s][y] = @ + 1]
  /\ UNCHANGED <<due, neon, csv, views, env, phase, outcome, faults, faulty>>

Fault == faults < MaxFaults /\ faults' = faults + 1
NoFault == UNCHANGED faults

\* Mutant: FAA filings cannot ask for a rebuild.
AnyChangedBtsOnly(missing) == missing["t100"] # {} \/ missing["ontime"] # {}

\* any_changed over the missing years (a populated airports table never asks).
AnyChanged(missing) == \E s \in Sources : missing[s] # {}

\* A run starts: apply_year_windows tells the builders which years to build.
StartRun ==
  /\ phase = "idle"
  /\ env' = [s \in Sources |-> Window(s)]
  /\ phase' = "probe"
  /\ UNCHANGED <<due, posted, neon, csv, views, outcome, faults, faulty>>

\* probe_sources: the window of its own moment minus coverage per source, the BTS part of
\* it withdrawn when a HEAD of the oldest missing year's December is refused. A fault may
\* hide any of the tables from coverage, which swallows the error of each statement on its
\* own (one times out) or of all that follow (the connection is gone); refuse the HEAD
\* although the file is there (5xx, 403); or make the HEAD itself fail, which decides nothing.
Probe ==
  /\ phase = "probe"
  /\ \E hidden \in SUBSET Sources, head \in {"true", "refused", "none"} :
       LET gap == [s \in Sources |-> Window(s) \ (IF s \in hidden THEN {} ELSE Covered(s))]
           asked == IF gap["ontime"] # {} THEN gap["ontime"] ELSE gap["t100"]
           refused == /\ asked # {}
                      /\ \/ head = "refused"
                         \/ head = "true" /\ posted["ontime"][Min(asked)] < FullYear
           missing == [s \in Sources |-> IF s \in Bts /\ refused THEN {} ELSE gap[s]]
       IN /\ head # "true" => asked # {}
          /\ IF hidden = {} /\ head = "true" THEN NoFault ELSE Fault
          /\ IF AnyChanged(missing)
             THEN /\ phase' = "build"
                  /\ faulty' = (hidden # {} \/ head # "true")
                  /\ UNCHANGED <<csv, env, outcome>>
             ELSE End("no_change")
  /\ UNCHANGED <<due, posted, neon, views>>

\* What one failing download leaves out of the on-time build: months of a year, which are
\* printed as MISSING and skipped.
OntimeShortfalls == {[posted EXCEPT !["ontime"][y] = n] : y \in env["ontime"], n \in Parts}

\* ... and of the T-100 build: a year whose zip is incomplete, skipped with a warning.
T100Shortfalls == {[posted EXCEPT !["t100"][y] = 0] : y \in env["t100"]}

\* A fiscal year nobody has filed for: the page that comes back may not parse.
NotFiled(y) == posted["faa"][y] = 0

\* run_builders: every year of the environment is built from what its publisher offers
\* now, December or not: the probe's verdict on single years goes no further.
Build ==
  /\ phase = "build"
  /\ \/ \E c \in {posted} \union OntimeShortfalls \union T100Shortfalls :
          /\ \A y \in Years : c["ontime"][y] <= posted["ontime"][y]
          /\ IF c = posted THEN NoFault /\ UNCHANGED faulty ELSE Fault /\ faulty' = TRUE
          /\ csv' = [s \in Sources |-> [y \in Years |-> IF y \in env[s] THEN c[s][y] ELSE 0]]
          /\ phase' = "validate"
          /\ UNCHANGED <<env, outcome>>
     \/ /\ \E y \in env["faa"] : NotFiled(y)
        /\ End("failed")
        /\ NoFault
  /\ UNCHANGED <<due, posted, neon, views>>

ClearsFloor(s) == Total(csv[s]) >= Floor(Total(neon[s]))

\* validate_outputs: totals of whole tables, not of years.
Validate ==
  /\ phase = "validate"
  /\ IF \A s \in Sources : ClearsFloor(s)
     THEN phase' = "load" /\ UNCHANGED <<outcome, csv, env, faulty>>
     ELSE End("failed")
  /\ UNCHANGED <<due, posted, neon, views, faults>>

\* load.main.
LoadCore ==
  /\ phase = "load"
  /\ neon' = [s \in Sources |-> IF s \in Bts THEN csv[s] ELSE neon[s]]
  /\ views' = FALSE
  /\ phase' = "load25"
  /\ UNCHANGED <<due, posted, csv, env, outcome, faults, faulty>>

\* load_t25.main.
LoadT25 ==
  /\ phase = "load25"
  /\ neon' = [neon EXCEPT !["faa"] = csv["faa"]]
  /\ views' = TRUE
  /\ End("success")
  /\ UNCHANGED <<due, posted, faults>>

\* The run dies or a step of it raises; nothing of the step is left.
Abort ==
  /\ phase # "idle"
  /\ Fault
  /\ End("failed")
  /\ UNCHANGED <<due, posted, neon, views>>

WeeklyRun == StartRun \/ Probe \/ Build \/ Validate \/ LoadCore \/ LoadT25

Next ==
  \/ January \/ March
  \/ \E s \in Sources, y \in Years : Publish(s, y)
  \/ WeeklyRun
  \/ Abort

Spec == Init /\ [][Next]_yearsVars

\* The scheduler fires every week, time passes, and what is due is published in the end.
FairSpec ==
  /\ Spec
  /\ WF_yearsVars(January \/ March)
  /\ \A s \in Sources, y \in Years : WF_yearsVars(Publish(s, y))
  /\ WF_yearsVars(WeeklyRun)

----------------------------------------------------------------------------
TypeOK ==
  /\ due \in [Sources -> 0 .. LastYear]
  /\ posted \in [Sources -> [Years -> Parts]]
  /\ neon \in [Sources -> [Years -> Parts]]
  /\ csv \in [Sources -> [Years -> Parts]]
  /\ views \in BOOLEAN
  /\ env \in [Sources -> SUBSET Years]
  /\ phase \in {"idle", "probe", "build", "validate", "load", "load25"}
  /\ outcome \in {"success", "no_change", "failed"}
  /\ faults \in 0 .. MaxFaults
  /\ faulty \in BOOLEAN

\* A load shrinks a year only in a run that met a fault: the floor looks at totals, so it
\* is window, coverage and builders together that keep the years that are there.
LossNeedsFault ==
  [][\A s \in Sources, y \in Years : neon'[s][y] < neon[s][y] => faulty]_yearsVars

\* After any number of faults, the weekly runs catch up for good with every due year of
\* every source (ADR-005 "The window has to move"), whatever floor, veto or failed
\* builder stood in the way on the way there.
CatchesUp ==
  <>[](\A s \in Sources : due[s] = LastYear /\ Window(s) \subseteq Covered(s))

\* "A year is admitted only once its December has published" (refresh.py:80-81).
CompleteYearsOnly == \A s \in Bts : \A y \in Years : neon[s][y] \in {0, FullYear}

============================================================================
