\* Two questions on one thread, in turn or overlapping, each with up to one tool round.
SPECIFICATION FairSpec
CONSTANTS
  Turns = {q1, q2}
  MaxRounds = 1
  MaxTroubles = 2
INVARIANTS StreamGrammar RowAgreesWithStream CapIsPerTurn DanglingCallsHaveACause DoneIsRemembered
PROPERTIES HistoryGrows HealthyTurnsAnswer
CHECK_DEADLOCK FALSE
