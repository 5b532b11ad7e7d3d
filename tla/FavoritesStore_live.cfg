\* Two requests: two merges in opposite orders can wait for one another.
CONSTANTS
  p1 = p1
  p2 = p2
  p3 = p3
  Player = {p1, p2, p3}
  KnownPlayer = {p1, p2}
  Request = {r1, r2}
  GuestList <- Mixed
  MaxAttempts = 2
  NoAccount = NoAccount
SPECIFICATION FairSpec
PROPERTIES
  EveryRequestAnswered
  GuestOrderKept
\* All requests may have been answered.
CHECK_DEADLOCK FALSE
