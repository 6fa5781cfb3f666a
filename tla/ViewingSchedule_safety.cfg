\* Two requests compete for two viewings, or two workers remind of one or copy it to a
\* gateway that is late.
SPECIFICATION Spec
CONSTANTS
  Viewings = {v1, v2}
  Agents = {a1}
  Properties = {q1}
  Windows <- Overlapping
  Requests = {r1, r2}
  Keys = {k1}
  Workers = {w1, w2}
  Scan = Scan
  NoOne = NoOne
  NoTx = NoTx
  NoJob = NoJob
  ReminderLead = 1
  MaxVersion = 2
  MaxTime = 2
  Taken = {"reminder", "sync", "delete"}
  MaxFaults = 1
  v1 = v1
  v2 = v2
  a1 = a1
  a2 = a2
  q1 = q1
  q2 = q2
  r1 = r1
  r2 = r2
  k1 = k1
  w1 = w1
  w2 = w2
SYMMETRY Interchangeable
CONSTRAINT OneConcern
INVARIANTS
  TypeOK
  NoDoubleBooking
  
  CalendarAgrees
CHECK_DEADLOCK FALSE
