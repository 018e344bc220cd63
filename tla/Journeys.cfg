SPECIFICATION Spec
CONSTANTS
  a = a
  b = b
  c = c
  Players = {a, b}
  Newcomers = {}
  Nobody = Nobody
  Legs = {1, 2}
  Loads = {"present", "nuke"}
  Gifts = {1}
  Road = 2
  SaltShares = {0, 100}
  BalloonAttempts = 2
  CooldownSeconds = 0
  FrozenSeconds = 0
  NewcomerSeconds = 2
  MaxTime = 4
  MaxLate = 1
  MaxRaids = 2
  Movers = {}
SYMMETRY Veterans
INVARIANTS
  TypeOK
  HolderIsNotAway
  NoSecondPaidTwice
  PalleAccounted
  NobodyBothGivesAndRobs
PROPERTY NobodyComesHomeLater
CHECK_DEADLOCK FALSE
