SPECIFICATION Spec
CONSTANTS
  Contents <- MCContents
  Commands <- MCCommands
  MaxCommands = 2
  MaxFaults = 1
INVARIANTS
  StripKeepsObject
  FilesKept
  IndexFindsDefinitions
  ReadAsInFile
