\* Access transitions, deletion and an unlocked caller around two fair workers.
SPECIFICATION FairSpec
CONSTANTS
  Jobs = {j1}
  Entities = {reminder, cleanup}
  Workers = {w1, w2}
  Callers = {c1}
  Syncs = {s1}
  Tokens = {t1, t2, t3}
  MaxAttempts = 1
  MaxFaults = 1
  NoToken = NoToken
  NoEntity = NoEntity
  j1 = j1
  j2 = j2
  w1 = w1
  w2 = w2
  t1 = t1
  t2 = t2
  t3 = t3
  t4 = t4
  t5 = t5
  reminder = reminder
  sms = sms
  domain = domain
  cleanup = cleanup
  Kind <- MCKind

  
PROPERTIES
  JobsSettle
CHECK_DEADLOCK FALSE
