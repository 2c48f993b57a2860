\* Two writers: failures, crashes and lost replies at every step, under the
\* scheduling of the goroutine.
CONSTANTS
  w1 = w1  w2 = w2  c1 = c1  c2 = c2  c3 = c3
  Writers = {w1, w2}
  Contents = {c1, c2, c3}
  InitialContent = c1
  RepliesLost = TRUE
SPECIFICATION FairSpec
INVARIANTS TypeOK
PROPERTIES CoverageLostOnlyByRace ViewCatchesUp ShutdownCompletes ImplementsGoroutine GoroutineIsFair
