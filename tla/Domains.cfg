\* A host is attached, replaced and replaced again while checks overlap, or is moved to
\* another provider and back.
SPECIFICATION OneSpec
CONSTANTS
  Hosts = {1, 2, 3}
  Checkers = {c1, c2}
  c1 = c1
  c2 = c2
  None = None
  Legacy = Legacy
  Target = Target
  Current = Legacy
  MaxAdds = 3
  MaxOperations = 3
  MaxFailures = 1
  MaxChanges = 1
INVARIANT DomainsTypeOK
PROPERTIES
  
  CutoverCompletes
CHECK_DEADLOCK FALSE
