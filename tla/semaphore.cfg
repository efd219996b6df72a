SPECIFICATION SemSpec
CONSTANTS
  idle = idle
  reaper = reaper
  w1 = w1
  w2 = w2
  w3 = w3
  s1 = s1
  NULL = NULL
  Tasks = {idle, reaper, w1, w2, w3}
  Idle = idle
  Reaper = reaper
  Workers = {w1, w2, w3}
  Sems = {s1}
  W = 1
  InitPrio = 0
  DaemonPrio = 0
  Levels = {0}
  Durations = {}
  Calls = {"fork", "exit"}
  TickMod = 2
  MaxCount = 1
SYMMETRY Symmetric
INVARIANTS SemTypeOK CountExact WaitersExact
PROPERTIES ImplementsSemaphore
