\* Three pages, so that two late answers can fill the queue and one more page
\* meets it, and two handler threads, so that answers may overtake each other.
CONSTANTS
  Pages = {p1, p2, p3}
  Workers = {w1, w2}
  Cap = 2
  NULL = NULL
SPECIFICATION FairSpec
INVARIANTS
  TypeOK
PROPERTIES
  ShiftedForGood
  CloggedForever
  SentPageEnds
  ChannelKept
\* Every page ends some time.
CHECK_DEADLOCK FALSE
