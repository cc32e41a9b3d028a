\* One command at a time, at any moment of the automatic control, any number
\* of times; the readings call for everything or for nothing.
CONSTANTS
  Ctrls = {c1}
  HoldLevels <- MCHoldLevels
  CmdForms <- MCCmdForms
SPECIFICATION FairSpec
INVARIANTS
  TypeOK
  StatusAgrees
  ManualHolds
PROPERTIES
  HoldResumes
