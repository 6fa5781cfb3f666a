\* Two calls that may overlap, one request, one other decision and one fault.
SPECIFICATION FairSpec
CONSTANTS
  Founders = {owner}
  Invited = {guest}
  Purges = {p1, p2}
  Requests = {r1}
  NoRoot = NoRoot
  MaxFaults = 1
  owner = owner
  guest = guest
  p1 = p1
  p2 = p2
  r1 = r1
  r2 = r2
INVARIANTS
  TypeOK
  RetryFinds
  
PROPERTIES
  PurgeEnds
CHECK_DEADLOCK FALSE
