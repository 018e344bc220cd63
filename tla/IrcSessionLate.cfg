SPECIFICATION Spec
CONSTANTS
  alice = alice
  bob = bob
  Nicks = {alice}
  RegistrationSeconds = 2
  WhoisSeconds = 2
  Never = Never
  MaxTime = 7
  MaxSaid = 3
  MaxLeft = 0
  MaxLost = 0
PROPERTY AReplyReleasesWhoeverWaits
CHECK_DEADLOCK FALSE
