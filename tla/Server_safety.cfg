\* Two connections, so that descriptors, heap chunks and thread identifiers
\* are reused, and two requests.
CONSTANTS
  Handlers = {h1, h2}
  Fds <- MCFds
  Addrs = {a1, a2}
  Tids = {t1, t2}
  NULL = NULL
  MaxReq = 2
  Cap = 2
SYMMETRY MCSymmetry
SPECIFICATION Spec
INVARIANTS
  TypeOK
  Mutex
  MissingNodeBranchDead
  LeaksExplained
PROPERTIES
  WedgedForever
\* The server may exit.
CHECK_DEADLOCK FALSE
