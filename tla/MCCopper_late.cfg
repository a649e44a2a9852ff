SPECIFICATION Spec
CONSTANTS
  A = A
  B = B
  t1 = t1
  t2 = t2
  t3 = t3
  Chan = {A, B}
  Void = {A}
  Cap <- MCCap
  Thread = {t1, t2, t3}
  Requests <- MCRequests
  NoThread = NoThread
  Unit = Unit
  MaxCalls <- MCMaxCalls
INVARIANT UnavailableMeansUndone
CHECK_DEADLOCK FALSE
