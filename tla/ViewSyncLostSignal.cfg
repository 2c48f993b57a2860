\* A change signalled while a requested refresh runs.
CONSTANTS
  w1 = w1  w2 = w2  c1 = c1  c2 = c2  c3 = c3
  Writers = {w1}
  Contents = {c1, c2}
  InitialContent = c1
  RepliesLost = FALSE
SPECIFICATION Spec
PROPERTIES SignalNeverLost
