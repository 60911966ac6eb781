SPECIFICATION Spec
CONSTANTS
  s1 = s1
  s2 = s2
  s3 = s3
  a = a
  b = b
  Senders = {s1, s2, s3}
  Accounts = {a, b}
  AccountOf <- MCAccountOf
  Windows <- MCWindows
  Settings <- MCSettings
  NewLimits <- MCRemoved
  MaxClock = 2
  MaxSends = 3
  MaxStolen = 1
SYMMETRY MCSymmetry
INVARIANTS
  TypeOK
  WithinLimits
  SlotsMatchReservations
PROPERTY
  PutOffWithinWindow
