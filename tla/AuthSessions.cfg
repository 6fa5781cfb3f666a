\* One account and two handlers at a time.
SPECIFICATION Spec
CONSTANTS
  Clients = {a, b}
  MaxAttempts = 2
  MaxFailures = 2
  MaxSessions = 2
  MaxTokens = 3
  MaxCodes = 2
  MaxPasswords = 2
  MaxSuspensions = 1
CONSTRAINT FewConcerns
SYMMETRY Interchangeable
INVARIANTS
  TypeOK
  SpentOnce
  OldSessionsEnd
CHECK_DEADLOCK FALSE
