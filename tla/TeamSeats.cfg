SPECIFICATION Spec
CONSTANTS
  Owner = Owner
  People = {a, b}
  None = None
  Limits = {1, 3}
  Grants <- MCGrants
  MaxEdits = 2

INVARIANTS
  TypeOK
  SeatsWithinLimit
PROPERTIES
  SuspensionHolds
ACTION_CONSTRAINT FewRoles
CONSTRAINT FewOverlaps
SYMMETRY Symmetric
CHECK_DEADLOCK FALSE
