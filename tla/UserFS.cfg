SPECIFICATION Spec
CONSTANTS
  Names = {m, n}
  Files = {f1, f2, f3}
  NoFile = NoFile
  TableStep = 2
  MaxOpens = 4
SYMMETRY Symmetry
INVARIANTS ListIsSound FilesLiveWhileUsed
PROPERTY ImplementsOpenFiles
CHECK_DEADLOCK FALSE
