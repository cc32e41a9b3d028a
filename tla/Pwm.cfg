\* At most two threads inside the drivers, and once in all does one meet another.
CONSTANTS
  Threads = {t1, t2}
  MaxMeet = 1
  FanTexts <- MCFanTexts
  NUL = NUL
SPECIFICATION Spec
SYMMETRY MCSymmetry
INVARIANTS
  AsTold
  ClockFirst
  TextObeyed
