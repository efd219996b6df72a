SPECIFICATION ClockSpec
CONSTANTS
  idle = idle
  reaper = reaper
  w1 = w1
  w2 = w2
  w3 = w3
  NULL = NULL
  Tasks = {idle, reaper, w1, w2}
  Idle = idle
  Reaper = reaper
  Workers = {w1, w2}
  Sems = {}
  W = 2
  InitPrio = 0
  DaemonPrio = 1
  Levels = {0, 1}
  Durations = {1, 2}
  Calls = {"fork", "sleep"}
  TickMod = 4
PROPERTIES SleeperWakes RoundRobin
