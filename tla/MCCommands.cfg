SPECIFICATION Spec
CONSTANTS
    t1 = t1
    t2 = t2
    a1 = a1
    m1 = m1
    m2 = m2
    b1 = b1
    c1 = c1
    c2 = c2
    Tenants = {t1, t2}
    AccountIds = {a1}
    Ids = {m1}
    Codes = {b1}
    Calls = {c1, c2}
    Existing = {t1, t2}
    MaxPk = 5
    MaxKeys = 2
    QueueSize = 1
    MaxCalls = 2
    MaxFaults = 1
    Ops <- AllOps
    Submissions <- MCSubmissions
INVARIANTS TypeOK TenantRowIsSerial LogReplays DoneHasOutcome NoOrphans NoCallStuck
PROPERTIES TenantIsolation
CHECK_DEADLOCK FALSE
SYMMETRY Symmetric
