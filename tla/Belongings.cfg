SPECIFICATION Spec
CONSTANTS
  a = a
  b = b
  Players = {a, b}
  Nobody = Nobody
  Kinds = {"balloon", "bolt", "lobster", "pirate", "bomb", "nuke", "seed", "toy"}
  ForSale = {"toy"}
  Dowries <- MCDowries
  HouseLimit = 2
  Room = 3
  CarriedLimit = 2
  BoltPercent = 10
  MaxActs = 3
  MaxBorn = 1
INVARIANTS
  TypeOK
  ChildrenInTheirSlots
  RoomToComeHome
  HousesWithinTheLimit
  HoldCountsItsBolts
PROPERTIES
  BalloonsStay
  EmojiOnlyChangeHands
CHECK_DEADLOCK FALSE
