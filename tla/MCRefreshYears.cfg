\* Three years, one fault wherever it hurts, and a calendar that moves under the runs.
SPECIFICATION FairSpec
CONSTANTS
  LastYear = 3
  FullYear = 2
  MaxFaults = 1
PROPERTIES LossNeedsFault CatchesUp
CHECK_DEADLOCK FALSE
