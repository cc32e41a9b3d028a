\* One command at work; room for two nested calls of close_device.
CONSTANTS
  Workers = {w1}
  Lights <- MCLights
  Dark <- MCDark
  Tails <- MCTails
  MaxDepth = 2
SPECIFICATION LifeSpec
INVARIANTS
  OffUnlessLate
  CrashExplained
PROPERTIES
  LampsExplained
