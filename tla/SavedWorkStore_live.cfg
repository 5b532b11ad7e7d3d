\* Two concurrent requests of any kind; f0 cannot be stored.
CONSTANTS
  c1 = c1
  c2 = c2
  c3 = c3
  f0 = f0
  f1 = f1
  f2 = f2
  f3 = f3
  old = old
  new = new
  ClientId = {c1, c2, c3}
  Fingerprint = {f0, f1, f2, f3}
  Label = {old, new}
  Item <- Items
  DeviceList <- Lists
  ValidPrint = {f1, f2, f3}
  Start <- Starts
  MaxItems = 2
  MaxAttempts = 2
  NoRow = NoRow
  Request = {r1, r2}
SPECIFICATION FairSpec
PROPERTIES
  EveryRequestAnswered
\* All requests may have been answered.
CHECK_DEADLOCK FALSE
