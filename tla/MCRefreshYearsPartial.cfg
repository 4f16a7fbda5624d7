\* No fault at all: a filing asks for the rebuild that takes an unfinished year along.
SPECIFICATION Spec
CONSTANTS
  LastYear = 3
  FullYear = 2
  MaxFaults = 0
INVARIANT CompleteYearsOnly
CHECK_DEADLOCK FALSE
