SPECIFICATION FairSpec
CONSTANTS
  Scenarios <- MCScenarios
  Batch = 1
  Cap = 2
INVARIANTS
  TypeOK
  WaitingIsTheLatest
  NothingOldIsTold
  ChannelHearsInOrder
  GroupHearsAfterTheChannel
  SentinelRemembers
PROPERTIES
  OldUpdatesAreLeftAlone
  NewsGoesOnceTried
  EveryUpdateIsSettled
  StopEndsEverything
CHECK_DEADLOCK FALSE
