\* Crashes, expired leases, retries and reclaims of two domain checks by two workers.
SPECIFICATION Spec
CONSTANTS
  Jobs = {j1, j2}
  Entities = {domain}
  Workers = {w1, w2}
  Callers = {}
  Syncs = {}
  Tokens = {t1, t2, t3, t4, t5}
  MaxAttempts = 2
  MaxFaults = 1
  NoToken = NoToken
  NoEntity = NoEntity
  j1 = j1
  j2 = j2
  w1 = w1
  w2 = w2
  t1 = t1
  t2 = t2
  t3 = t3
  t4 = t4
  t5 = t5
  reminder = reminder
  sms = sms
  domain = domain
  cleanup = cleanup
  Kind <- MCKind
SYMMETRY Symmetric
INVARIANTS
  TypeOK
  AttemptsAccounted
  ClaimIsExclusive
PROPERTIES
  ImplementsContract
CHECK_DEADLOCK FALSE
