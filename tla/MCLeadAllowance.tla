--------------------------- MODULE MCLeadAllowance ---------------------------
EXTENDS LeadAllowance

CONSTANTS c1, i1
MCWants == [r \in Requests |-> IF r = c1 THEN 1 ELSE 2]

Moved == tenant.now > 1 \/ Len(tenant.periods) > 1
Settling == {r \in Requests : res[r] # None /\ res[r].late}

\* Bound: the first plan allows two leads; what the allowance is made of changes
\* in one way at a time, and no process dies while something is bought; the
\* add-on is followed across a period with a capture alone; across periods one
\* reservation runs late, and no lead is deleted.
FewChanges ==
  /\ tenant.periods[1].total = 2
  /\ addon.status # "none" => topup.status = "none" /\ faults = 0
  /\ topup.status \in {"pending", "cancelled", "rejected"} => ~Moved
  /\ topup.status # "none" => tenant.now = 1 /\ faults = 0
  /\ addon.status # "none" /\ Moved => res[i1] = None /\ work[c1].pc # "releasing"
  /\ addon.status \in {"cancelled", "rejected"} => stale = None
  /\ Moved => Cardinality(Settling) <= 1 /\ Existing = DOMAIN leads

\* Bound: one lead is deleted, and a reader reconciles while no process dies, no
\* reservation is late and nothing is bought.
FewReaders ==
  /\ Cardinality(DOMAIN leads \ Existing) <= 1
  /\ reader # None => faults = 0 /\ Settling = {} /\ topup.status = "none" /\ addon.status = "none"
  /\ Existing # DOMAIN leads => faults = 0 /\ Cardinality(Settling) <= 1 /\ topup.status = "none" /\ addon.status = "none"

Few == FewChanges /\ FewReaders
=============================================================================
