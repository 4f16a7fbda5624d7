\* Every month of ten years.
SPECIFICATION FairWindowSpec
CONSTANTS
  StartYear = 2024
  EndYear = 2033
INVARIANT NeverEarly
PROPERTIES RunPublishesAllDue WindowMoves
CHECK_DEADLOCK FALSE
