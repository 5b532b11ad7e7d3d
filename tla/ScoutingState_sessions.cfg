\* Two people sharing a browser: signing in and out, a device list, retries.
CONSTANTS
  alice = alice
  bob = bob
  p1 = p1
  p2 = p2
  p3 = p3
  Account = {alice, bob}
  Player = {p1, p2, p3}
  ServerLists <- OneEach
  DeviceList <- OnDevice
  Unknown = Unknown
  Nobody = Nobody
  NoToken = NoToken
  NoFavorites = NoFavorites
  MaxEpoch = 4
  MaxAttempt = 1
  MaxWrites = 2
  MaxOtherTab = 0
SPECIFICATION Spec
INVARIANTS
  NoBleed
  DeviceKept
  TokensAreFresh
  PendingIsWorkedOn
  FailuresStayReported
\* The bounds let the scout stop.
CHECK_DEADLOCK FALSE
