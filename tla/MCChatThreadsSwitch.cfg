\* One question, and a new thread opened before its answer is complete.
SPECIFICATION Spec
CONSTANTS
  Turns = {q1}
  Threads = {t1, t2}
INVARIANT SwitchingBackShowsTranscript
CHECK_DEADLOCK FALSE
