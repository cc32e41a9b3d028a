\* One greenhouse and one request are enough.
CONSTANTS
  Handlers = {h1}
  Fds <- MCFds
  Addrs = {a1, a2}
  Tids = {t1, t2}
  NULL = NULL
  MaxReq = 1
  Cap = 2
SYMMETRY MCSymmetry
SPECIFICATION Spec
INVARIANT
  AnswerMatches
\* The server may exit.
CHECK_DEADLOCK FALSE
