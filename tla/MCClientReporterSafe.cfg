SPECIFICATION Spec
CONSTANTS
  t1 = t1
  t2 = t2
  m1 = m1
  m2 = m2
  Nobody = Nobody
  Tenants = {t1, t2}
  Msgs = {m1, m2}
  TenantOf <- MCTenantOf
  InitMode <- MCAllUrl
  NewModes = {}
  Askers = {t1}
  GlobalURL = FALSE
  StartActive = TRUE
  Stamps = {0}
  BatchSize = 2
  MaxEvents = 2
  MaxFaults = 1
INVARIANTS
  TypeOK
  ReceivedTwiceOnlyIfExcused
  RunNowIsHonoured
PROPERTIES
  ImplementsReports
  RetentionLosesNothing
