SPECIFICATION Spec
CONSTANTS
  Names <- MCNames
  NoName = "-"
  STR = "str"
  JUNK = "junk"
  Lines <- MCLines
  Predefined <- MCPredefined
  NR_COND = 3
  NR_MACROARG = 4
  MaxLines = 4
INVARIANTS
  TextAsInC
  InputsAgree
PROPERTIES
  Terminates
