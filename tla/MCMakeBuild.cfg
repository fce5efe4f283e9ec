SPECIFICATION FairSpec
CONSTANTS
  Names = {"prog", "a", "b", "h", "x", "o", "c", "y", "z", "t", "u", "g"}
  Rules = {".c.o", ".y.o"}
  NONE = NONE
  Makefiles <- MCMakefiles
  Scenarios <- MCScenarios
  MaxRounds = 2
INVARIANTS
  BuildInv
  ExitStatusHonest
  UpToDateOnce
  SignalsHandled
PROPERTIES
  MakeEnds
