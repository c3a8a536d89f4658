SPECIFICATION FairSpec
CONSTANTS
  Coroutines = {1, 2, 3}
  MaxFiles = 3
  MaxLength = 5
  Contents <- MCContents
  IntMax = 3
INVARIANTS NoStrayPointer OneSorterPerFile ResultIsRight
PROPERTIES ImplementsRoundRobin ProgramEnds
CHECK_DEADLOCK FALSE
