SPECIFICATION Spec
CONSTANTS
  idle = idle
  reaper = reaper
  w1 = w1
  w2 = w2
  w3 = w3
  NULL = NULL
  Tasks = {idle, reaper, w1}
  Idle = idle
  Reaper = reaper
  Workers = {w1}
  Sems = {}
  W = 2
  InitPrio = 0
  DaemonPrio = 1
  Levels = {0}
  Durations = {1}
  Calls = {"sleep"}
  TickMod = 4
INVARIANTS InterruptsReturn
