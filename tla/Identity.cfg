SPECIFICATION Spec
CONSTANTS
  t1 = t1
  t2 = t2
  i1 = i1
  i2 = i2
  alice = alice
  bob = bob
  None = None
  Telegrams = {t1, t2}
  Ircs = {i1, i2}
  Names = {alice, bob}
  Scenarios <- MCScenarios
  DaysNeeded = 2
  Reward = 1
INVARIANTS
  TypeOK
  TablesAgree
  PalleFollowThePlayer
CHECK_DEADLOCK FALSE
