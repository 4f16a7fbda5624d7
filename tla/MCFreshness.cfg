\* Three refreshes that may overlap or die, two periods, and a reader.
SPECIFICATION Spec
CONSTANTS
  Jobs = {j1, j2, j3}
  LastTick = 6
  Stale = 2
  NewestPeriod = 2
SYMMETRY JobSymmetry
INVARIANTS QuietRunTellsVintage
PROPERTIES SuccessIsCurrent RunShownIsCurrent
CHECK_DEADLOCK FALSE
