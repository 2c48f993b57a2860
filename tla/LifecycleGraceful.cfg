\* One request under way when a signal comes.
CONSTANTS
  c1 = c1  c2 = c2
  Connections = {c1}
SPECIFICATION Spec
PROPERTY ShutdownIsGraceful
CHECK_DEADLOCK FALSE
