\* A fair worker whose transactions may fail, and everyone who changes the subscription.
SPECIFICATION FairSpec
CONSTANTS
  Plans = {0, 1, 2}
  Requests = {r1}
  Payments = {k1}
  Grants = {g1}
  Callers = {c1}
  Workers = {w1}
  Cycle = 2
  TrialGrace = 1
  PaidGrace = 1
  Operations = {"request", "withdraw", "cancel", "setCancellation", "trial", "assignTrial", "schedule", "override", "cancelScheduled", "reconcile"}
  MaxEdits = 1
  MaxTime = 4
  MaxFaults = 1
  None = None
  r1 = r1
  r2 = r2
  k1 = k1
  k2 = k2
  k3 = k3
  g1 = g1
  g2 = g2
  c1 = c1
  c2 = c2
  w1 = w1
  w2 = w2
INVARIANTS
  TypeOK
PROPERTIES
  AccessEnds
  ScheduleSettles
CHECK_DEADLOCK FALSE
