\* A thread that removes a tree beside one that makes or goes through it, with every call
\* of the system free to fail; a thread that logs while two adapters come and go and the
\* tag is set; texts of five characters, with queries of seven, which have two pairs.
SPECIFICATION PartsSpec
CONSTANTS
  t1 = t1 t2 = t2 t3 = t3 w1 = w1 w2 = w2
  Task = {t1, t2, t3}
  Waiter = {w1, w2}
  Main = Main
  Faulty = {t1, t2}
  SignalOf <- MCSignalOf
  MaxInits = 2
  MaxReports = 2
  WhiteLists <- MCWhiteLists
  Logger = {t1}
  MaxAdapts = 2
  MaxText = 5
  MaxPattern = 2
  MaxQuery = 7
  MaxLoops = 32
  PartsChosen = {"tree", "native", "strings"}
INVARIANTS PartsTypeOK TreeIsKept NativeLinesArrive StringsResults
PROPERTIES TreeAnswersAreTrue
CHECK_DEADLOCK FALSE
