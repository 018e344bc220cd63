SPECIFICATION FairSpec
CONSTANTS
  alice = alice
  bob = bob
  Nicks = {alice, bob}
  RegistrationSeconds = 2
  WhoisSeconds = 1
  Never = Never
  MaxTime = 5
  MaxSaid = 2
  MaxLeft = 1
  MaxLost = 1
INVARIANTS
  TypeOK
  AskedIsAwaited
  NobodyIsOvertaken
PROPERTIES
  AnsweredIsVouchedFor
  ToldSparingly
  EveryCommandIsSettled
CHECK_DEADLOCK FALSE
