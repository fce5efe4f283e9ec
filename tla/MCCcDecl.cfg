CONSTANTS
    Names = {"x", "y"}
    Tags = {"S"}
    NR_BLOCK = 3
    NR_DECLARATORS = 4
    Menu <- MCMenu
    Enumerators = {"x"}
    Functions <- MCFunctions
    MaxLen = 5
    Allowed <- MCAllowed
SPECIFICATION Spec
CHECK_DEADLOCK FALSE
INVARIANTS
  DeclAccepted
  MeaningAsInC
  TableExact
