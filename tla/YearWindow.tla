----------------------------- MODULE YearWindow -----------------------------
(***************************************************************************)
(* The moving year window of the scheduled refresh (ingestion/refresh.py:  *)
(* _shift_months, bts_year_window, faa_year_window, apply_year_windows)    *)
(* under a calendar that moves while the job runs when it pleases, or not  *)
(* for months. Days do not matter: the window is computed from the month.  *)
(***************************************************************************)
EXTENDS Integers

CONSTANTS
  StartYear,  \* the calendar starts in any month of this year
  EndYear     \* bound: and stops at the end of this one

FirstYear == 2023     \* FIRST_BTS_YEAR, FIRST_FAA_YEAR
BtsLagMonths == 3
FaaLagYears == 2

ASSUME CalendarAssumptions ==
  /\ StartYear \in Nat /\ EndYear \in Nat
  /\ FirstYear < StartYear /\ StartYear <= EndYear

VARIABLES
  today,  \* date.today(), to the month
  bts,    \* INGEST_YEARS as the last run published it
  faa     \* INGEST_FAA_YEARS as the last run published it

windowVars == <<today, bts, faa>>

Months == 1 .. 12
Month(y, m) == [year |-> y, month |-> m]

\* Mutant: months counted from one on the way back as on the way in.
ShiftMonthsOffByOne(d, months) ==
  LET total == d.year * 12 + d.month + months
  IN Month(total \div 12, (total % 12) + 1)

\* _shift_months.
ShiftMonths(d, months) ==
  LET total == d.year * 12 + (d.month - 1) + months
  IN Month(total \div 12, (total % 12) + 1)

\* bts_year_window: complete calendar years whose December is a lag behind today.
NewestComplete(d) ==
  LET publishedThrough == ShiftMonths(d, -BtsLagMonths)
  IN IF publishedThrough.month = 12 THEN publishedThrough.year ELSE publishedThrough.year - 1
BtsYears(d) == FirstYear .. NewestComplete(d)

\* Mutant: fiscal years up to the last one that ended.
FaaYearsEager(d) == FirstYear .. (d.year - 1)

\* faa_year_window.
FaaYears(d) == FirstYear .. (d.year - FaaLagYears)

WindowInit ==
  /\ today \in {Month(StartYear, m) : m \in Months}
  /\ bts = BtsYears(today)
  /\ faa = FaaYears(today)

\* A month goes by.
Tick ==
  /\ \/ today.month < 12 /\ today' = [today EXCEPT !.month = @ + 1]
     \/ today.month = 12 /\ today.year < EndYear /\ today' = Month(today.year + 1, 1)
  /\ UNCHANGED <<bts, faa>>

\* Mutant: the years a builder already has in its environment stay (the hardcoded tuple).
ApplyYearWindowsDefault ==
  /\ bts' = IF bts = {} THEN BtsYears(today) ELSE bts
  /\ faa' = IF faa = {} THEN FaaYears(today) ELSE faa
  /\ UNCHANGED today

\* A run starts: apply_year_windows.
ApplyYearWindows ==
  /\ bts' = BtsYears(today)
  /\ faa' = FaaYears(today)
  /\ UNCHANGED today

WindowNext == Tick \/ ApplyYearWindows

WindowSpec == WindowInit /\ [][WindowNext]_windowVars

\* Time passes and the job runs every week, more often than the month changes.
FairWindowSpec == WindowSpec /\ WF_windowVars(Tick) /\ WF_windowVars(ApplyYearWindows)

----------------------------------------------------------------------------
\* Is d on or after e?
NotBefore(d, e) == d.year > e.year \/ (d.year = e.year /\ d.month >= e.month)

\* What the windows are meant to be: a BTS year from 1 March of the next year on (its
\* December is three months old), a fiscal year from 1 January two years later on.
BtsDue(y) == FirstYear <= y /\ NotBefore(today, Month(y + 1, 3))
FaaDue(y) == FirstYear <= y /\ NotBefore(today, Month(y + 2, 1))

CandidateYears == (FirstYear - 1) .. EndYear

\* No window runs ahead of the calendar, however old the last run is.
NeverEarly ==
  /\ \A y \in CandidateYears : y \in bts => BtsDue(y)
  /\ \A y \in CandidateYears : y \in faa => FaaDue(y)

\* A run publishes every year that is due, and the two windows never drift more than one
\* year apart: a scheduled run can always rebuild the BTS and FAA years together.
RunPublishesAllDue ==
  [][bts' # bts \/ faa' # faa =>
       /\ bts' = {y \in CandidateYears : BtsDue(y)}
       /\ faa' = {y \in CandidateYears : FaaDue(y)}
       /\ faa' \subseteq bts' /\ \A y \in bts' : y - 1 \in faa' \/ y = FirstYear]_windowVars

\* "The window has to move, or the schedule is theatre" (ADR-005): at the end of the
\* calendar the job has admitted every year but the last two, and the last but one for BTS.
WindowMoves ==
  <>[](bts = FirstYear .. (EndYear - 1) /\ faa = FirstYear .. (EndYear - 2))
============================================================================
