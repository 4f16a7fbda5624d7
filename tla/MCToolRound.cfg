\* Two calls at a time over a pool of one connection, one load and two troubles.
SPECIFICATION FairSpec
CONSTANTS
  Calls = 2
  Questions <- MCQuestions
  PoolSize = 1
  MaxLoads = 1
  MaxTroubles = 2
INVARIANTS RoundInv NothingBeyondVintage OneFailureIsHidden SourcesFailAlone ChipsTellTheirResult
PROPERTIES EveryCallIsAnswered
CHECK_DEADLOCK FALSE
