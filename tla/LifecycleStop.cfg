\* Two connections, signals, errors and ticks at every point.
CONSTANTS
  c1 = c1  c2 = c2
  Connections = {c1, c2}
SPECIFICATION FairSpec
INVARIANTS TypeOK ExitAfterGoroutines WaitNeverInVain
PROPERTIES StopEndsProcess
CHECK_DEADLOCK FALSE
