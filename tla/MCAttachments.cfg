SPECIFICATION FairSpec
CONSTANTS
  f1 = f1
  f2 = f2
  f3 = f3
  f4 = f4
  t1 = t1
  t2 = t2
  m1 = m1
  m2 = m2
  m3 = m3
  NoKey = NoKey
  NoTenant = NoTenant
  Files = {f1, f2, f3, f4}
  Size <- MCSize
  Subdir <- MCSubdir
  Tenants = {t1, t2}
  Protocol <- MCProtocol
  Large <- MCLarge
  Mails <- MCMails
  MaxParts = 2
  Msgs = {m1, m2, m3}
  PayloadTenant <- MCPayloadTenant
  Threshold = 3
  MemoryMax = 2
  DiskMax = 4
  LargeLimit = 2
  MaxFetches = 2
  MaxTroubles = 1
INVARIANTS
  TypeOK
  MemoryIsAccounted
  DiskWithinLimit
  BuiltMailIsRight
  OthersFailNoFetch
PROPERTY
  EveryBuildEnds
CHECK_DEADLOCK FALSE
