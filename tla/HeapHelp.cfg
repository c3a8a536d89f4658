SPECIFICATION Spec
CONSTANTS
  b1 = b1
  b2 = b2
  t1 = t1
  t2 = t2
  s1 = s1
  Threads = {t1, t2}
  Main = t1
  Blocks = {b1, b2}
  StaticBlocks = {s1}
  NoBlock = NoBlock
  report_limit = 1
  MaxDebts = 1
SYMMETRY MCSymmetry
INVARIANTS RecordsMatchBlocks CountIsHeld NoFalseAlarm ReportIsRight
CHECK_DEADLOCK FALSE
