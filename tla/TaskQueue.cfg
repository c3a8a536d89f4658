SPECIFICATION QueueSpec
CONSTANTS
  Tasks = {t1, t2, t3, t4}
  NoTask = NoTask
  Pushers = {p1}
  Poppers = {c1, c2}
  MaxTasks = 3
INVARIANTS PointersSpellQueue QueueBounded
PROPERTY ImplementsFifo
SYMMETRY Symmetry
