\* Requests with their payments and the schedule, direct payments with an override, or two workers.
SPECIFICATION Spec
CONSTANTS
  Plans = {0, 1, 2}
  Requests = {r1, r2}
  Payments = {k1, k2}
  Grants = {g1}
  Callers = {c1, c2}
  Workers = {w1, w2}
  Cycle = 2
  TrialGrace = 1
  PaidGrace = 1
  Operations = {"request", "withdraw", "cancelScheduled", "direct", "override", "reconcile"}
  MaxEdits = 1
  MaxTime = 4
  MaxFaults = 0
  None = None
  r1 = r1
  r2 = r2
  k1 = k1
  k2 = k2
  k3 = k3
  g1 = g1
  g2 = g2
  c1 = c1
  c2 = c2
  w1 = w1
  w2 = w2
SYMMETRY Interchangeable
CONSTRAINT OneConcern
INVARIANTS
  QuoteHonoured
  ScheduleStands
PROPERTIES
  PaidTimeKept
  
CHECK_DEADLOCK FALSE
