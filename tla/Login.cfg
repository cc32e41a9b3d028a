\* Two login pages of any of two users, two register pages, a queue of two messages.
CONSTANTS
  Pages = {p1, p2}
  Users = {admin, guest}
  Admin = admin
  Registrars = {r1, r2}
  Names = {guest}
  Cap = 2
  NULL = NULL
SPECIFICATION AccountsSpec
INVARIANTS
  TypeOK
  NoMoreThanAsked
  OneAccountPerName
PROPERTIES
  OnlyForeignAdd
  LoginEnds
\* Every page may end.
CHECK_DEADLOCK FALSE
