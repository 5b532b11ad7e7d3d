\* A guest saves one item more than the collection may hold, and signs in.
CONSTANTS
  alice = alice
  f1 = f1
  f2 = f2
  oldName = oldName
  newName = newName
  Unknown = Unknown
  Nothing = Nothing
  Account = {alice}
  Content = {f1, f2}
  Storable = {f1, f2}
  Label = {oldName, newName}
  Stored <- NothingStored
  AccountItems <- Empty
  Limit = 1
  MaxEpoch = 1
  MaxAttempt = 1
  MaxWrites = 2
  MaxRefused = 0
SPECIFICATION Spec
INVARIANT DeviceKept
\* The bounds let the scout stop.
CHECK_DEADLOCK FALSE
