\* Every subject, two files open at one time.
CONSTANTS
  MaxOpen = 2
SPECIFICATION LifecycleSpec
INVARIANTS
  LeftExplained
PROPERTIES
  FaultExplained
