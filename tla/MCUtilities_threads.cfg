\* Three tasks and two waiters; two faulting threads and two calls of initWithSignals.
\* The parts with fairness, and what must happen in them.
SPECIFICATION PartsSpec
CONSTANTS
  t1 = t1 t2 = t2 t3 = t3 w1 = w1 w2 = w2
  Task = {t1, t2, t3}
  Waiter = {w1, w2}
  Main = Main
  Faulty = {t1, t2}
  SignalOf <- MCSignalOf
  MaxInits = 2
  MaxReports = 2
  WhiteLists <- MCWhiteLists
  Logger = {t1}
  MaxAdapts = 2
  MaxText = 5
  MaxPattern = 2
  MaxQuery = 7
  MaxLoops = 32
  PartsChosen = {"group", "crash"}
INVARIANTS PartsTypeOK WaitMeansDone SleepIsExplained CrashReportIsGenuine
PROPERTIES PartsEnd
CHECK_DEADLOCK FALSE
