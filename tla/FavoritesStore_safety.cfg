\* Three concurrent requests of any kind; p3 has no row in players.
CONSTANTS
  p1 = p1
  p2 = p2
  p3 = p3
  Player = {p1, p2, p3}
  KnownPlayer = {p1, p2}
  Request = {r1, r2, r3}
  GuestList <- Mixed
  MaxAttempts = 2
  NoAccount = NoAccount
SPECIFICATION Spec
SYMMETRY Symmetry
INVARIANTS
  OneAccountRow
  ReadsWriteNothing
  ChangeLedger
  ReportsExplained
PROPERTIES
  ContractHolds
\* All requests may have been answered.
CHECK_DEADLOCK FALSE
