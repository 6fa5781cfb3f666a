\* A capture and an import, and everything that changes the allowance.
SPECIFICATION FairSpec
CONSTANTS
  c1 = c1
  i1 = i1
  Requests = {c1, i1}
  Wants <- MCWants
  None = None
  Models = {"credits", "capacity", "pipeline"}
  Totals = {1, 2}
  TopupSize = 1
  AddonSize = 1
  MaxLeads = 3
  MaxPeriods = 2
  MaxSlots = 2
  MaxFaults = 1
CONSTRAINT Few
INVARIANTS
  TypeOK
  LedgerBalances
  
PROPERTIES
  ReservationsSettle
CHECK_DEADLOCK FALSE
