\* Two threads at a time, two messages and one that follows, and one restart.
CONSTANTS
  Threads = {t1, t2}
  MaxMsg = 3
  MaxStart = 1
SPECIFICATION LiveSpec
INVARIANTS
  TypeOK
  FileAgrees
  OneAnswerPerCommand
  ActsOnOwnUnlessMet
PROPERTIES
  ThreadEnds
\* The client may stop for good.
CHECK_DEADLOCK FALSE
