SPECIFICATION FairSpec
CONSTANTS
  a = a
  b = b
  c = c
  Players = {a, c}
  Newcomers = {c}
  Nobody = Nobody
  Legs = {1}
  Loads = {"ice", "nuke"}
  Gifts = {}
  Road = 1
  SaltShares = {0}
  BalloonAttempts = 2
  CooldownSeconds = 1
  FrozenSeconds = 1
  NewcomerSeconds = 2
  MaxTime = 3
  MaxLate = 0
  MaxRaids = 1
  Movers = {a}
INVARIANT NoBlowOnItsWayToANewcomer
PROPERTIES
  BalloonWearsWhereItGuards
  EveryRideEnds
CHECK_DEADLOCK FALSE
