SPECIFICATION FairSpec
CONSTANTS
  A = A
  B = B
  t1 = t1
  t2 = t2
  t3 = t3
  Chan = {A, B}
  Void = {B}
  Cap <- MCCap
  Thread = {t1, t2, t3}
  Requests <- MCRequests
  NoThread = NoThread
  Unit = Unit
  MaxCalls <- MCMaxCalls
INVARIANTS TypeOK StatusIsTrue NoDanglingOp NobodyWaitsInVain
PROPERTIES CallEnds ImplementsChannel
CHECK_DEADLOCK FALSE
