\* Two processes of one thread each; one file operation may fail.
SPECIFICATION Spec
CONSTANTS
  p1 = p1 p2 = p2 t1 = t1 t2 = t2 n = n nn = nn other = other
  EmptyIsid = Empty NullIsid = Null Absent = Absent None = None
  Fragment <- MCFragment
  Joined <- MCJoined
  Proc = {p1, p2}
  Thread = {t1, t2}
  Home <- MCHome
  Isid = {n, nn, other, Empty, Null}
  Delivers = {n}
  Queries = {n, nn, Empty}
  MaxLines = 2
  MaxFaults = 1
SYMMETRY MCSwap
INVARIANTS TypeOK NoFalseRefusal RecordedIsRefused CachedIsRefused SentIsRecorded
