CONSTANTS
    Arches = {"z80", "amd64"}
    Width <- MCWidth
    SizeType <- MCSizeType
    DiffType <- MCDiffType
    TINTBits = 5
    HostIntBits = 4
    Variables <- MCVariables
    Literals <- MCLiterals
    Enumerator = 2
    Functions <- MCFunctions
    CastTypes <- MCCastTypes
    BinaryOps <- MCBinaryOps
    UnaryOps <- MCUnaryOps
    AssignOps <- MCAssignOps
    STACKSIZ = 4
    MaxTokens = 5
    Fits <- Fit
    IntAddress = 3
SPECIFICATION Spec
CHECK_DEADLOCK FALSE
INVARIANTS
  TypedAsInC
  ComputedAsInC
  CodeReadBack
