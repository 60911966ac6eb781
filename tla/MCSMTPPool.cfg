SPECIFICATION FairSpec
CONSTANTS
  Workers = {w1, w2, w3}
  MaxPerAccount = 2
  TTL = 0
  MaxClock = 1
  MaxUses = 2
CHECK_DEADLOCK FALSE
INVARIANTS
  TypeOK
  ActiveIsAccurate
  WithinMaxPerAccount
PROPERTY
  EveryAcquireEnds
