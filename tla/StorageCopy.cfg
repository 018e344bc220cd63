SPECIFICATION Spec
CONSTANTS
  a = a
  b = b
  telegram = telegram
  keeper = keeper
  Players = {a, b}
  Nobody = Nobody
  Texts = {"q"}
  Cost = 1
  MostPalle = 1
  Threads = {telegram, keeper}
  Free = Free
  Missing = Missing
  Half = Half
  Old = Old
  Wanted = {"play", "reset", "reset all"}
  MaxServed = 3
  MaxFaults = 0
  MaxCrashes = 0
  MaxTime = 1
INVARIANT EveryResetKeepsItsCopy
CHECK_DEADLOCK FALSE
