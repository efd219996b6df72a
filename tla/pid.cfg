SPECIFICATION Spec
CONSTANTS
  idle = idle
  t1 = t1
  t2 = t2
  t3 = t3
  t4 = t4
  NULL = NULL
  W = 2
  Threads = {idle, t1, t2, t3, t4}
  Idle = idle
SYMMETRY Symmetric
INVARIANT IdleKeepsZero
CHECK_DEADLOCK FALSE
