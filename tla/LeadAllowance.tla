---------------------------- MODULE LeadAllowance ----------------------------
(***************************************************************************)
(* How many leads a tenant may hold: benefit periods, top-ups and the      *)
(* recurring add-on that make up the allowance, the reservations that a    *)
(* new lead must hold, and the leads that a smaller allowance locks        *)
(* (modules lead, entitlement, leadTopupGrant, leadPurchaseRequest,        *)
(* leadAddonSubscription).                                                 *)
(*                                                                         *)
(* A tenant has one of three models: "credits" of a paid period, counted   *)
(* down for good; a live "capacity" of accessible leads; or, without any   *)
(* benefit period, the "pipeline" limit of its plan.                       *)
(*                                                                         *)
(* Handlers under withLeadQuotaGuard are transactions that all write the   *)
(* organization first: each is one step.  A lead is inserted and its       *)
(* reservation consumed outside of it, in steps that a crash can separate, *)
(* and a reader of leads reconciles the locks without a transaction.       *)
(*                                                                         *)
(* Left out: duplicates merged into an existing lead (no lead is created), *)
(* the price and tax of add-ons, administrators' overrides, and a tenant   *)
(* that moves from one model to another.                                   *)
(***************************************************************************)
EXTENDS Integers, FiniteSets, Sequences, FiniteSetsExt, Functions

CONSTANTS
  Requests,    \* captures and imports, each confirmed once
  Wants,       \* how many leads each would create: one makes it a capture
  None,
  Models,      \* the tenants to consider
  Totals,      \* leads a plan allows
  TopupSize,   \* leads of the top-up
  AddonSize,   \* leads of the recurring add-on
  MaxLeads, MaxPeriods, MaxSlots,  \* bounds
  MaxFaults    \* bound: crashes, lost consumptions and lost releases

ASSUME WantsAssumption ==
  Wants \in [Requests -> Nat \ {0}] /\ IsFiniteSet(Requests)
ASSUME TotalsAssumption ==
  /\ Models \subseteq {"credits", "capacity", "pipeline"}
  /\ Totals \subseteq Nat /\ Totals # {} /\ {TopupSize, AddonSize} \subseteq Nat
ASSUME BoundsAssumption ==
  /\ {MaxLeads, MaxFaults} \subseteq Nat
  /\ MaxPeriods \in Nat \ {0} /\ MaxSlots \in Nat \ {0}

VARIABLES
  tenant,  \* its model, the billing period under way (now), its benefit
           \* periods, the units its limit has lost since (cut)
  res,     \* the reservation of each request, or None
  work,    \* what each request is doing, and how many rows it has tried
  leads,   \* in the order they were created
  topup,   \* the purchase request
  addon,   \* the recurring add-on
  stale,   \* a handler that has read the add-on and will save it, or None
  reader,  \* a reader that is reconciling the locks, or None
  faults

vars == <<tenant, res, work, leads, topup, addon, stale, reader, faults>>

Period(slot, total) == [slot |-> slot, total |-> total, topup |-> 0, used |-> 0]

Init ==
  /\ \E model \in Models, total \in Totals :
       tenant = [model |-> model, now |-> 1, periods |-> <<Period(1, total)>>, cut |-> 0]
  /\ res = [r \in Requests |-> None]
  /\ work = [r \in Requests |-> [pc |-> "idle", tried |-> 0, returned |-> FALSE]]
  /\ leads = <<>>
  /\ topup = [status |-> "none", period |-> 1]
  /\ addon = [status |-> "none", until |-> 0]
  /\ stale = None /\ reader = None /\ faults = 0

-----------------------------------------------------------------------------
(* The allowance. *)

Periods == DOMAIN tenant.periods
ActiveStatuses == {"active", "cancel_at_period_end"}

\* activeBenefitPeriod: the latest of those that hold now.
Active(t) == {i \in DOMAIN t.periods : t.periods[i].slot = t.now}
Current(t) == IF Active(t) = {} THEN 0 ELSE Max(Active(t))

\* getActiveSummary
Recurring(t, a) == IF a.status \in ActiveStatuses /\ a.until >= t.now THEN AddonSize ELSE 0

\* What a reservation may use up.  Without a period, nothing.
Limit(t, a) ==
  IF Current(t) = 0 THEN 0
  ELSE LET p == t.periods[Current(t)] IN p.total + p.topup + Recurring(t, a)

\* What readers reconcile the locks to: a plan's capacity outlives the period,
\* and only a capacity grows with what was added to it.
ReadLimit(t, a) ==
  LET plan == t.periods[IF Current(t) = 0 THEN Len(t.periods) ELSE Current(t)].total
  IN  IF t.model # "capacity" THEN plan
      ELSE IF Current(t) = 0 THEN plan + Recurring(t, a) ELSE Limit(t, a)

Existing == {n \in DOMAIN leads : leads[n].state # "gone"}
Accessible == {n \in DOMAIN leads : leads[n].state = "open"}
Reserved == {r \in Requests : res[r] # None /\ res[r].status = "reserved"}
Outstanding(v) == v.granted - v.consumed - v.released

\* outstandingLeadReservationUnits
Covered(v, p) == ~v.late /\ v.period = p
Held(p) == {r \in Reserved : Covered(res[r], p)}

\* Mutant: units that are reserved and not used yet are not counted.
UnitsUsed(p) == SumFunction([r \in Held(p) |-> res[r].consumed])

HeldUnits(p) == SumFunction([r \in Held(p) |-> Outstanding(res[r])])

\* reconcileLeadCapacity: the newest leads stay open.
Newest(limit) == {n \in Existing : Cardinality({k \in Existing : k > n}) < limit}
Reconciled(limit) ==
  LET locked == Existing \ Accessible
      target == IF limit < Cardinality(Existing) THEN Cardinality(Existing) - limit ELSE 0
  IN  IF Cardinality(locked) = target THEN leads
      ELSE [n \in DOMAIN leads |->
              IF n \notin Existing THEN leads[n]
              ELSE [leads[n] EXCEPT !.state = IF n \in Newest(limit) THEN "open" ELSE "locked"]]
OpenIn(ls) == Cardinality({n \in DOMAIN ls : ls[n].state = "open"})

\* What a change of the tenant and its add-on takes from the limit is added to
\* `cut`; the credits of a new period start afresh.
Ceiling(t, a) == IF t.model = "capacity" THEN ReadLimit(t, a) ELSE Limit(t, a)
Becomes(t, a) ==
  LET before == Ceiling(tenant, addon)
      after == Ceiling(t, a)
      lost == IF after < before THEN before - after ELSE 0
      afresh == t.model = "credits" /\ Current(t) # Current(tenant)
  IN  /\ tenant' = [t EXCEPT !.cut = IF afresh THEN 0 ELSE @ + lost]
      /\ addon' = a

-----------------------------------------------------------------------------
(* Reservations. *)

Goes(r, pc) == work' = [work EXCEPT ![r].pc = pc]
Failing == faults < MaxFaults /\ faults' = faults + 1

\* reserveLeadAllowance, which createLead asks for one lead and an import's
\* confirm, that takes what there is, for all of its rows.
Reserve(r) ==
  LET p == Current(tenant)
      limit == Limit(tenant, addon)
      reconciled == IF tenant.model = "capacity" THEN Reconciled(limit) ELSE leads
      used == CASE tenant.model = "credits" -> tenant.periods[p].used
                [] tenant.model = "capacity" -> OpenIn(reconciled) + HeldUnits(p)
                [] tenant.model = "pipeline" -> Cardinality(Existing) + HeldUnits(p)
      available == IF used < limit THEN limit - used ELSE 0
      granted == IF Wants[r] = 1 \/ Wants[r] <= available THEN Wants[r] ELSE available
  IN  /\ work[r].pc = "idle"
      /\ p # 0
      /\ available > 0
      /\ res' = [res EXCEPT ![r] = [granted |-> granted, consumed |-> 0, released |-> 0,
                                    status |-> "reserved", late |-> FALSE, period |-> p]]
      /\ tenant' = IF tenant.model = "credits" THEN [tenant EXCEPT !.periods[p].used = @ + granted]
                   ELSE [tenant EXCEPT !.cut = 0]
      /\ leads' = reconciled
      /\ Goes(r, "making")
      /\ UNCHANGED <<topup, addon, stale, reader, faults>>

MoreRows(r) == work[r].tried < res[r].granted
NextRow(r) == IF Wants[r] > 1 THEN "making" ELSE "done"

\* Lead.create in createLeadWithOutcome.  A reservation that is late, or of an
\* earlier period, keeps no room for the lead any more.
CreateLead(r) ==
  /\ work[r].pc = "making" /\ MoreRows(r) /\ Len(leads) < MaxLeads
  /\ leads' = Append(leads, [by |-> r, state |-> "open", late |-> res[r].late])
  /\ tenant' = IF tenant.model = "credits" \/ Covered(res[r], Current(tenant)) THEN tenant
               ELSE [tenant EXCEPT !.cut = @ + 1]
  /\ work' = [work EXCEPT ![r].pc = "made", ![r].tried = @ + 1]
  /\ UNCHANGED <<res, topup, addon, stale, reader, faults>>

\* The row is a duplicate or invalid: nothing is persisted.
CreateFails(r) ==
  /\ work[r].pc = "making" /\ MoreRows(r)
  /\ work' = [work EXCEPT ![r].pc = IF Wants[r] > 1 THEN "making" ELSE "releasing",
                          ![r].tried = @ + 1]
  /\ UNCHANGED <<tenant, res, leads, topup, addon, stale, reader, faults>>

\* Mutant: whatever is used up counts as consumed.
Finalized(v) == IF v.consumed + v.released < v.granted THEN v ELSE [v EXCEPT !.status = "finalized"]

Settled(v) ==
  IF v.consumed + v.released < v.granted THEN v
  ELSE [v EXCEPT !.status = IF v.consumed > 0 THEN "finalized" ELSE "released"]

\* consumeLeadAllowanceReservation.  It counts the unit and then saves the
\* status, so a crash may leave a reservation that is used up "reserved"; an
\* error is logged and swallowed.
Consume(r) ==
  LET v == [res[r] EXCEPT !.consumed = @ + 1]
  IN  /\ work[r].pc = "made"
      /\ IF res[r].status = "reserved" /\ Outstanding(res[r]) >= 1
           THEN \/ res' = [res EXCEPT ![r] = Settled(v)] /\ Goes(r, NextRow(r)) /\ UNCHANGED faults
                \/ Settled(v) # v /\ Failing /\ res' = [res EXCEPT ![r] = v] /\ Goes(r, "done")
           ELSE UNCHANGED <<res, faults>> /\ Goes(r, NextRow(r))
      /\ UNCHANGED <<tenant, leads, topup, addon, stale, reader>>

ConsumeLost(r) ==
  /\ work[r].pc = "made" /\ Failing
  /\ Goes(r, NextRow(r))
  /\ UNCHANGED <<tenant, res, leads, topup, addon, stale, reader>>

RowsTried(r) ==
  /\ work[r].pc = "making" /\ ~MoreRows(r)
  /\ Goes(r, "releasing")
  /\ UNCHANGED <<tenant, res, leads, topup, addon, stale, reader, faults>>

\* Mutant: units go back to the period under way.
ReturnedNow(t, r, units) ==
  IF t.model # "credits" \/ Current(t) = 0 THEN t
  ELSE [t EXCEPT !.periods[Current(t)].used = IF units <= @ THEN @ - units ELSE @]

\* Units go back to the period that they were taken from.
Returned(t, r, units) ==
  IF t.model # "credits" THEN t
  ELSE [t EXCEPT !.periods[res[r].period].used = IF units <= @ THEN @ - units ELSE @]

Created(r) == Cardinality({n \in DOMAIN leads : leads[n].by = r})

\* releaseLeadAllowanceReservation: what is not consumed goes back, the units
\* of leads whose consumption was lost included (returned).
Release(r) ==
  LET v == res[r]
      units == Outstanding(v)
  IN  /\ work[r].pc = "releasing"
      /\ IF v.status = "reserved" /\ units > 0
           THEN /\ tenant' = Returned(tenant, r, units)
                /\ res' = [res EXCEPT ![r] = Settled([v EXCEPT !.released = @ + units])]
           ELSE UNCHANGED <<tenant, res>>
      /\ work' = [work EXCEPT ![r].pc = "done",
                              ![r].returned = v.status = "reserved" /\ Created(r) > v.consumed]
      /\ UNCHANGED <<leads, topup, addon, stale, reader, faults>>

\* The process dies, or the release fails.
Crash(r) ==
  /\ work[r].pc \in {"making", "made", "releasing"}
  /\ Failing /\ Goes(r, "done")
  /\ UNCHANGED <<tenant, res, leads, topup, addon, stale, reader>>

\* Thirty minutes after the reservation.
ReservationExpires(r) ==
  /\ r \in Reserved /\ ~res[r].late
  /\ res' = [res EXCEPT ![r].late = TRUE]
  /\ UNCHANGED <<tenant, work, leads, topup, addon, stale, reader, faults>>

Linked(r) == {n \in Existing : leads[n].by = r}

\* A lead whose consumption was lost still counts.
ConsumedUnits(r) ==
  LET linked == Cardinality(Linked(r))
  IN  IF linked <= res[r].consumed THEN res[r].consumed
      ELSE IF linked <= res[r].granted THEN linked ELSE res[r].granted

\* Mutant: a reservation with nothing left to return is passed over.
Unfinished(r) == r \in Reserved /\ res[r].late /\ Outstanding(res[r]) > 0

Stale(r) == r \in Reserved /\ res[r].late

\* cleanupStaleLeadAllowanceReservations, for one reservation.
Cleanup(r) ==
  LET consumed == ConsumedUnits(r)
      left == res[r].granted - res[r].released
      units == IF consumed <= left THEN left - consumed ELSE 0
  IN  /\ Stale(r)
      /\ tenant' = Returned(tenant, r, units)
      /\ res' = [res EXCEPT ![r].consumed = consumed, ![r].released = @ + units,
                            ![r].status = IF consumed > 0 THEN "finalized" ELSE "released"]
      /\ UNCHANGED <<work, leads, topup, addon, stale, reader, faults>>

-----------------------------------------------------------------------------
(* Leads that exist. *)

\* deleteLead; a lead leaves the pipeline in other ways too.
DeleteLead(n) ==
  /\ n \in Accessible
  /\ leads' = [leads EXCEPT ![n].state = "gone"]
  /\ UNCHANGED <<tenant, res, work, topup, addon, stale, reader, faults>>

Reads(v) == reader' = v /\ UNCHANGED <<tenant, res, work, topup, addon, stale, faults>>

\* ensureCurrentLeadCapacity: a reader finds that the number of locked leads is
\* not what it should be, ...
ReadCounts ==
  LET limit == ReadLimit(tenant, addon)
  IN  /\ tenant.model = "capacity" /\ reader = None
      /\ Reconciled(limit) # leads
      /\ Reads([step |-> "find", limit |-> limit, ids |-> {}]) /\ UNCHANGED leads

\* ... finds the leads that stay open, ...
FindNewest ==
  /\ reader # None /\ reader.step = "find"
  /\ Reads([reader EXCEPT !.step = "lock", !.ids = Newest(reader.limit)]) /\ UNCHANGED leads

\* ... locks the others, ...
LockOthers ==
  /\ reader # None /\ reader.step = "lock"
  /\ leads' = [n \in DOMAIN leads |-> IF n \in Existing \ reader.ids
                                       THEN [leads[n] EXCEPT !.state = "locked"] ELSE leads[n]]
  /\ Reads([reader EXCEPT !.step = "unlock"])

\* ... and unlocks those.
UnlockFound ==
  /\ reader # None /\ reader.step = "unlock"
  /\ leads' = [n \in DOMAIN leads |-> IF n \in Existing \cap reader.ids
                                       THEN [leads[n] EXCEPT !.state = "open"] ELSE leads[n]]
  /\ Reads(None)

\* releaseSubscriptionLeadLocks, in the other models.
ReleaseLocks ==
  /\ tenant.model # "capacity" /\ Existing # Accessible
  /\ leads' = [n \in DOMAIN leads |-> IF n \in Existing THEN [leads[n] EXCEPT !.state = "open"]
                                       ELSE leads[n]]
  /\ UNCHANGED <<tenant, res, work, topup, addon, stale, reader, faults>>

-----------------------------------------------------------------------------
(* What the allowance is made of.  A tenant without benefit periods (the     *)
(* pipeline model) can buy nothing.                                          *)

NotPipeline == tenant.model # "pipeline"
Paid == NotPipeline /\ Current(tenant) # 0
Unmoved == UNCHANGED <<res, work, reader, faults>>

\* The billing period ends; the next one may have been paid for.
PeriodPasses ==
  /\ NotPipeline /\ tenant.now < MaxSlots
  /\ Becomes([tenant EXCEPT !.now = @ + 1], addon)
  /\ UNCHANGED <<leads, topup, stale>> /\ Unmoved

\* renewForSubscriptionPeriod
Renewed(slot) ==
  IF addon.status \notin ActiveStatuses \/ addon.until >= slot THEN addon
  ELSE IF addon.status = "active" THEN [addon EXCEPT !.until = slot]
  ELSE [addon EXCEPT !.status = "cancelled"]

\* A renewal is confirmed: the next period, or one that starts now.
ConfirmRenewal == \E total \in Totals :
  LET paid == {tenant.periods[i].slot : i \in Periods}
      slot == IF tenant.now \in paid THEN tenant.now + 1 ELSE tenant.now
  IN  /\ NotPipeline /\ Len(tenant.periods) < MaxPeriods
      /\ slot \notin paid /\ slot <= MaxSlots
      /\ Becomes([tenant EXCEPT !.periods = Append(@, Period(slot, total))], Renewed(slot))
      /\ UNCHANGED <<leads, topup, stale>> /\ Unmoved

\* An upgrade in the middle of the period: a new benefit period, to which the
\* top-ups are rebound (rebindActiveGrants).
ConfirmUpgrade == \E total \in Totals :
  LET p == Current(tenant)
      rebound == [tenant EXCEPT !.periods = Append([@ EXCEPT ![p].topup = 0],
                    [Period(tenant.now, total) EXCEPT !.topup = tenant.periods[p].topup])]
  IN  /\ Paid /\ Len(tenant.periods) < MaxPeriods
      /\ Becomes(rebound, addon)
      /\ UNCHANGED <<leads, topup, stale>> /\ Unmoved

Asks(status) == topup' = [topup EXCEPT !.status = status]
                /\ UNCHANGED <<tenant, leads, addon, stale>> /\ Unmoved

\* createRequest; the one before has been decided.
RequestTopup ==
  /\ Paid /\ topup.status \in {"none", "cancelled", "rejected"}
  /\ topup' = [status |-> "pending", period |-> Current(tenant)]
  /\ UNCHANGED <<tenant, leads, addon, stale>> /\ Unmoved

\* cancelRequest, reject, and reconcileExpiredPending
CancelTopup == topup.status = "pending" /\ Asks("cancelled")
RejectTopup == topup.status = "pending" /\ Asks("rejected")

ApproveTopup ==
  LET t == [tenant EXCEPT !.periods[topup.period].topup = @ + TopupSize]
  IN  /\ Paid /\ topup.status = "pending" /\ topup.period = Current(tenant)
      /\ topup' = [topup EXCEPT !.status = "approved"]
      /\ Becomes(t, addon)
      /\ leads' = IF tenant.model = "capacity" THEN Reconciled(ReadLimit(t, addon)) ELSE leads
      /\ UNCHANGED stale /\ Unmoved

\* createSubscription; until is the period of the quote.  Bound: one add-on.
RequestAddon ==
  /\ Paid /\ addon.status = "none"
  /\ addon' = [status |-> "pending_payment", until |-> Current(tenant)]
  /\ UNCHANGED <<tenant, leads, topup, stale>> /\ Unmoved

\* activateWrites; it reconciles the locks whatever the model.
ActivateAddon ==
  LET a == [status |-> "active", until |-> tenant.now]
  IN  /\ Paid /\ addon.status = "pending_payment" /\ addon.until = Current(tenant)
      /\ Becomes(tenant, a)
      /\ leads' = Reconciled(ReadLimit(tenant, a))
      /\ UNCHANGED <<topup, stale>> /\ Unmoved

\* cancel, the rejection in decide, and applyDueLifecycle read the add-on ...
ReadAddon ==
  /\ stale = None
  /\ stale' \in
       (IF addon.status = "pending_payment" THEN {"cancelled", "rejected"} ELSE {})
       \cup (IF addon.status = "active" THEN {"cancel_at_period_end"} ELSE {})
       \cup (IF addon.status \in ActiveStatuses /\ addon.until < tenant.now
               THEN {IF addon.status = "active" THEN "payment_failed" ELSE "cancelled"} ELSE {})
  /\ UNCHANGED <<tenant, leads, topup, addon>> /\ Unmoved

\* ... and save its status, whatever became of it.  applyDueLifecycle goes on to
\* reconcile the locks like a reader.
SaveAddon ==
  /\ stale # None
  /\ Becomes(tenant, [addon EXCEPT !.status = stale])
  /\ stale' = None
  /\ UNCHANGED <<leads, topup>> /\ Unmoved

-----------------------------------------------------------------------------
RequestStep(r) ==
  \/ Reserve(r) \/ CreateLead(r) \/ CreateFails(r) \/ Consume(r) \/ ConsumeLost(r)
  \/ RowsTried(r) \/ Release(r) \/ Crash(r)

LeadStep ==
  \/ \E n \in DOMAIN leads : DeleteLead(n)
  \/ ReadCounts \/ FindNewest \/ LockOthers \/ UnlockFound \/ ReleaseLocks

AllowanceStep ==
  \/ PeriodPasses \/ ConfirmRenewal \/ ConfirmUpgrade
  \/ RequestTopup \/ CancelTopup \/ RejectTopup \/ ApproveTopup
  \/ RequestAddon \/ ActivateAddon \/ ReadAddon \/ SaveAddon

Next ==
  \/ \E r \in Requests : RequestStep(r) \/ ReservationExpires(r) \/ Cleanup(r)
  \/ LeadStep \/ AllowanceStep

Spec == Init /\ [][Next]_vars

\* Time passes, and the worker's batches come round for as long as it runs.
FairSpec == Spec /\ \A r \in Requests : WF_vars(ReservationExpires(r)) /\ WF_vars(Cleanup(r))

-----------------------------------------------------------------------------
(* Properties. *)

Reservations == [granted : Nat \ {0}, consumed : Nat, released : Nat,
  status : {"reserved", "finalized", "released"}, late : BOOLEAN, period : 1..MaxPeriods]
ASSUME NoneAssumption == None \notin Reservations

\* Types; and a reservation never counts more units than it was granted, is
\* finalized only for a lead and released only without one.
TypeOK ==
  /\ tenant \in [model : Models, now : 1..MaxSlots, cut : Nat,
                  periods : Seq([slot : 1..MaxSlots, total : Totals, topup : Nat, used : Nat])]
  /\ res \in [Requests -> Reservations \cup {None}]
  /\ work \in [Requests -> [pc : {"idle", "making", "made", "releasing", "done"},
                            tried : Nat, returned : BOOLEAN]]
  /\ leads \in Seq([by : Requests, state : {"open", "locked", "gone"}, late : BOOLEAN])
  /\ Len(leads) <= MaxLeads /\ faults \in 0..MaxFaults
  /\ \A r \in Requests : res[r] # None =>
       /\ res[r].consumed + res[r].released <= res[r].granted
       /\ res[r].status = "finalized" => res[r].consumed > 0
       /\ res[r].status = "released" => res[r].consumed = 0

\* No lead exists for which no unit is kept, unless its reservation was late
\* when it was made or an import gave back the unit of a lost consumption: a
\* cleanup after a crash finds the leads that were made.
LeadsArePaidFor ==
  \A r \in Requests : res[r] # None /\ ~work[r].returned =>
    Cardinality({n \in Linked(r) : ~leads[n].late}) <= res[r].granted - res[r].released

\* The credits a period says are used are those that the reservations made in
\* it have taken and not given back, however confirmations, releases, cleanups,
\* crashes and new periods come about; and what was not given back pays the leads.
LedgerBalances ==
  /\ LeadsArePaidFor
  /\ tenant.model = "credits" =>
       \A p \in Periods : tenant.periods[p].used =
         SumFunction([r \in {q \in Requests : res[q] # None /\ res[q].period = p} |->
                        res[r].granted - res[r].released])

\* Units that are granted and for which no lead has been made.
Unused(r) ==
  LET taken == Created(r) + res[r].released
  IN  IF taken < res[r].granted THEN res[r].granted - taken ELSE 0

\* The credits used, or the leads that exist (locked ones included, so that a
\* reader's locks free no room) together with those still to be made under
\* reservations that hold, never exceed the limit, but for what the limit has
\* lost and for leads made under a late reservation or one of an earlier period.
WithinAllowance ==
  LET p == Current(tenant)
  IN  IF tenant.model = "credits"
        THEN p # 0 => tenant.periods[p].used <= Limit(tenant, addon) + tenant.cut
        ELSE Cardinality(Existing) + SumFunction([r \in Held(p) |-> Unused(r)])
               <= Ceiling(tenant, addon) + tenant.cut

\* No reservation stays open for ever, whoever died while holding it.
ReservationsSettle == \A r \in Requests : r \in Reserved ~> r \notin Reserved
=============================================================================
