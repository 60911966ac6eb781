SPECIFICATION Spec
CONSTANTS
  m1 = m1
  m2 = m2
  b1 = b1
  a1 = a1
  a2 = a2
  NoBatch = NoBatch
  Msgs = {m1}
  Clients = {c1}
  Batches = {b1}
  BatchOf <- MCBatchOf
  AccountOf <- MCOneAccount
  Suspendable = {}
  Priorities = {2}
  Kinds = {"valid"}
  Schedules = {"null"}
  FetchLimit = 1
  AccountBatch = 1
  MaxConcurrent = 1
  MaxPerAccount = 1
  MaxRetries = 2
  MaxPk = 1
  MaxSubmits = 1
  MaxDefers = 0
  MaxFaults = 0
INVARIANT
  RetriedUntilMaxRetries
