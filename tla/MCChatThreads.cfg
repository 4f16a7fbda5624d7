\* Three questions over three threads in one tab.
SPECIFICATION Spec
CONSTANTS
  Turns = {q1, q2, q3}
  Threads = {t1, t2, t3}
INVARIANTS TranscriptsAreWhole ScreenIsStored AnswersSettle InputUnlocks
CHECK_DEADLOCK FALSE
