SPECIFICATION Spec
CONSTANTS
  Names = {"a", "b", "c", "long"}
  BadNames = {"long"}
  NULL = NULL
  MaxVersion = 2
  Archives <- MCArchives
  Files <- MCFiles
  Commands <- MCCommands
INVARIANTS
  ResultAsAsked
  NothingLostOrLeft
