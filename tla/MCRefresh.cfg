\* Two jobs that may overlap (weekly schedule and a manual run). One of them may lose three
\* connections, as many as close_run has attempts; either may be killed.
SPECIFICATION FairSpec
CONSTANTS
  CoreTables = {airports}
  T25Tables = {airport_financials}
  Airports = airports
  Absent = absent
  j1 = j1
  j2 = j2
  Jobs <- MCJobs
  Flaky <- MCFlaky
  RowCounts = {0, 2}
  MaxDrops = 3
  MaxCrashes = 1
INVARIANT RefreshInv
PROPERTIES RecordedFactsStay FloorHoldsAlone SuccessIsServed ImplementsContract RunTerminates
CHECK_DEADLOCK FALSE
