\* Malloc for TLC: a heap of eight units grown three at a time; requests of one,
\* two and three payload units, zero, and one past the guard of malloc().
SPECIFICATION FairSpec
CONSTANTS
  HDR = 2
  NALLOC = 3
  SIZE = 64
  Limit = 8
  Requests = {0, 1, 3, 5, 63}
INVARIANTS
  Inv
PROPERTIES
  CallReturns
  ImplementsAllocator
