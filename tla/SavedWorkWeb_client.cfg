\* A device collection, a sign-in and a retry, two writes, lost and late responses.
CONSTANTS
  alice = alice
  f1 = f1
  f2 = f2
  oldName = oldName
  newName = newName
  Unknown = Unknown
  Nothing = Nothing
  Account = {alice}
  Content = {f1, f2}
  Storable = {f1, f2}
  Label = {oldName, newName}
  Stored <- AnyEnvelope
  AccountItems <- One
  Limit = 2
  MaxEpoch = 3
  MaxAttempt = 1
  MaxWrites = 2
  MaxRefused = 1
SPECIFICATION FairSpec
INVARIANTS
  ScreenIsConfirmed
  DeviceKept
  SuccessIsHeld
\* The bounds let the scout stop.
PROPERTIES
  CallersReleased
CHECK_DEADLOCK FALSE
