SPECIFICATION FairSpec
CONSTANTS
  Coroutines = {1, 2, 3}
  Files = {f1, f2}
  MaxArgs = 4
  Contents <- MCContents
  IntMax = 3
INVARIANTS NoStrayJump  ResultIsRight
PROPERTIES ImplementsRounds ProgramEnds
CHECK_DEADLOCK FALSE
