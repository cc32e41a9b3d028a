\* Three chunks, so that a chunk is used again while a node stays; two greenhouses' descriptors.
CONSTANTS
  Chunks = {c1, c2, c3}
  Fds = {3, 4}
  Names = {admin, guest}
  Admin = admin
  NULL = NULL
SPECIFICATION Spec
INVARIANTS
  ListSound
  AnswerExplained
PROPERTIES
  ListStores
  SearchEnds
