SPECIFICATION Spec
CONSTANTS
    MaxStmts = 4
    Quota <- MCQuota
    Conds = {"cmp", "or", "notand", "zero"}
    Exprs = {"call", "set", "land", "comma"}
    Names = {"a"}
    Values = {0, 1}
    NR_BLOCK = 3
    NR_SWITCH = 3
    Targets = {"qbe", "z80"}
CHECK_DEADLOCK FALSE
INVARIANTS
  AcceptedRightly
  CodeOfFunction
