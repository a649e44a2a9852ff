\* SingleCase: three processes, two of them with two threads, one failing call at a time;
\* only p1 is scheduled fairly.
\* MainLog: two threads with up to two lines each, two packages, a write that fails.
\* Shell: pipes for two of up to four writes.  FieldAccess: three threads.
SPECIFICATION PartsSpec
CONSTANTS
  p = p q = q r = r
  p1 = p1 p2 = p2 q1 = q1 q2 = q2 r1 = r1
  Proc = {p, q, r}
  Thread = {p1, p2, q1, q2, r1}
  Home <- MCHome
  Me = p1
  None = None
  MaxErrors = 1
  LogThread = {p1, p2}
  MaxLoads = 2
  MaxHooks <- MCMaxHooks
  MaxLines = 2
  MaxFaults = 1
  MaxWrites = 4
  Capacity = 2
  FieldThread = {p1, p2, q1}
INVARIANTS PartsTypeOK Exclusive LockIsOwed OutputArrives FieldIsShared
PROPERTIES RefusedForAReason PartsEnd
CHECK_DEADLOCK FALSE
