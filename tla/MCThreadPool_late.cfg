\* A build with NDEBUG.
SPECIFICATION Spec
CONSTANTS
  a = a b = b c = c d = d None = None
  Worker = {w1, w2}
  Client = {c1}
  Task = {a, b, d}
  Spawned <- MCSpawned
  Builds = {TRUE}
PROPERTY ClosedWhenStopped
