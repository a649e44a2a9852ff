\* Both builds.  Three workers, two clients, four tasks, one of them enqueued by another.
SPECIFICATION FairSpec
CONSTANTS
  a = a b = b c = c d = d None = None
  Worker = {w1, w2, w3}
  Client = {c1, c2}
  Task = {a, b, c, d}
  Spawned <- MCSpawned
  Builds = {TRUE, FALSE}
INVARIANTS TypeOK StartedInOrder JoinedMeansRun NoIdleWhileWork
PROPERTY WorkEnds
