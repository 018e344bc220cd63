SPECIFICATION Spec
CONSTANTS
  a = a
  b = b
  c = c
  Players = {a, b}
  Newcomers = {}
  Nobody = Nobody
  Legs = {2}
  Loads = {}
  Gifts = {}
  Road = 2
  SaltShares = {0, 100}
  BalloonAttempts = 2
  CooldownSeconds = 0
  FrozenSeconds = 0
  NewcomerSeconds = 2
  MaxTime = 4
  MaxLate = 0
  MaxRaids = 1
  Movers = {}
PROPERTY HomewardRideKeepsItsEnd
CHECK_DEADLOCK FALSE
