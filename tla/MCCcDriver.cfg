SPECIFICATION FairSpec
CONSTANTS
  Sources = {"a.c", "b.c", "c.s", "d.o", "x"}
  Kind <- MCKind
  Base <- MCBase
  NONE = NONE
  Cap = 1
  Scenarios <- DriverScenarios
INVARIANTS
  SuccessMeansWhole
  CleanAfterExit
PROPERTIES
  DriverEnds
