\* One account, signed into twice; toggles of two players, another tab's save, responses in any order.
CONSTANTS
  alice = alice
  bob = bob
  p1 = p1
  p2 = p2
  p3 = p3
  Account = {alice}
  Player = {p1, p2}
  ServerLists <- TwoOnServer
  DeviceList <- NothingSaved
  Unknown = Unknown
  Nobody = Nobody
  NoToken = NoToken
  NoFavorites = NoFavorites
  MaxEpoch = 3
  MaxAttempt = 0
  MaxWrites = 3
  MaxOtherTab = 1
SPECIFICATION FairSpec
INVARIANTS
  LastIntentWins
  AccountModeIsCanonical
PROPERTIES
  WritesSettle
  LoadsSettle
\* The bounds let the scout stop.
CHECK_DEADLOCK FALSE
