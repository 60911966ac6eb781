SPECIFICATION FairSpec
CONSTANTS
  t1 = t1
  t2 = t2
  m1 = m1
  m2 = m2
  Nobody = Nobody
  Tenants = {t1}
  Msgs = {m1}
  TenantOf <- MCTenantOf
  InitMode <- MCAllUrl
  NewModes = {"url", "inactive", "missing"}
  Askers = {t1}
  GlobalURL = FALSE
  StartActive = TRUE
  Stamps = {0, 1}
  BatchSize = 1
  MaxEvents = 2
  MaxFaults = 1
INVARIANTS
  ReceivedInOrder
PROPERTIES
  EveryEventReported
