SPECIFICATION FairSpec
CONSTANTS
  a = a
  b = b
  telegram = telegram
  keeper = keeper
  Players = {a, b}
  Nobody = Nobody
  Texts = {"q"}
  Cost = 1
  MostPalle = 1
  Threads = {telegram, keeper}
  Free = Free
  Missing = Missing
  Half = Half
  Old = Old
  Wanted = {"play", "add", "delete", "reset", "reset all"}
  MaxServed = 3
  MaxFaults = 2
  MaxCrashes = 1
  MaxTime = 1
INVARIANTS
  TypeOK
  DocumentsAgree
PROPERTIES
  NothingResetWithoutACopy
  AtomicTransactions
  MutexIsReleased
CHECK_DEADLOCK FALSE
