CONSTANTS
  p1 = p1
  p2 = p2
  p3 = p3
  junk = junk
  Player = {p1, p2, p3}
  Holder = Holder
  Stored <- mcStored
  DISMISSAL_WINDOW = 2
  MaxNow = 3
  MaxEvents = 5
SPECIFICATION DeviceFairSpec
INVARIANT
  DeviceListsSurvive
PROPERTIES
  OfferIsEarned
  ExitsEnd
\* The bounds let the scout stop.
CHECK_DEADLOCK FALSE
