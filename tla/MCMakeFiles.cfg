SPECIFICATION MCSpec
CONSTANTS
  Macros = {"X", "SHELL"}
  Builtin = {"X", "SHELL"}
  Words <- MCWords
  EMPTY = ""
  BUILTIN = "builtin"
  Values <- OneWord
  UNSET = UNSET
  Options = {"-e", "-r"}
  BadOptions = {"-g"}
  MaxArgs = 2
  MaxAssigns = 2
  MaxLevel = 2
  Targets = {"a", "b", "c"}
  DotNames = {".c", ".o"}
  Recipes <- MCRecipes
  NONE = NONE
  MaxLines = 20
  Includes <- MCIncludes
  DefaultRules <- MCDefaults
  MaxDepth = 5
CHECK_DEADLOCK FALSE
INVARIANTS
  DatabaseAsRead
  MacroPrecedenceButHidden
  SubMakeAgrees
  ReadAsWritten
