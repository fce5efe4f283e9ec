CONSTANTS
    TUINT_MAX = 1048575
    maxaddr = 6
    NR_INPUTS = 3
    MaxErrors = 2
    optab <- MCoptab
    LocalNames = {".x", ".s"}
    Attributes <- MCAttributes
    Text <- MCText
    CommandLines <- MCCommandLines
    Files = {"a", "b", "i"}
    Menu <- MCMenu
    Codes <- MCCodes
    MaxLines = 3
SPECIFICATION Spec
INVARIANTS
  AssembledAsWritten
  RefusedRightly
  OutputSound
PROPERTIES
  AsEnds
