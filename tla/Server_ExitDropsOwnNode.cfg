\* Two connections that share or reuse a descriptor.
CONSTANTS
  Handlers = {h1, h2}
  Fds <- MCFds
  Addrs = {a1, a2}
  Tids = {t1, t2}
  NULL = NULL
  MaxReq = 1
  Cap = 2
SYMMETRY MCSymmetry
SPECIFICATION Spec
PROPERTY
  ExitDropsOwnNode
\* The server may exit.
CHECK_DEADLOCK FALSE
