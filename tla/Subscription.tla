----------------------------- MODULE Subscription -----------------------------
(***************************************************************************)
(* The subscription of one tenant: the fields of its organization document *)
(* that module/subscription, subscriptionPayment, billing and platformAdmin *)
(* write, the change requests and payments that lead to them, and the      *)
(* benefit periods that payments buy.  A transaction writes the            *)
(* organization, so a concurrent write aborts it: it is one step.  What    *)
(* the code does outside a transaction is a read and a later write by a    *)
(* caller, with anything in between; a caller that never writes has        *)
(* crashed or was refused.  Amounts, features, add-ons, notices and audit  *)
(* records are left out; a plan version is a plan of its own, and every    *)
(* billing cycle has the same length.                                      *)
(***************************************************************************)
EXTENDS Naturals, FiniteSets

CONSTANTS
  Plans,       \* by rank; Trial is the lowest
  Requests, Payments,
  Grants,      \* references of the periods an administrator gives away
  Callers,     \* handlers, of all replicas
  Workers,     \* lifecycle workers and request-time reconciliations
  None,
  Cycle, TrialGrace, PaidGrace,  \* lengths, in units of the clock
  Operations,  \* bound: the operations that are called
  MaxEdits,    \* bound: cancellations, changes of the trial, overrides
  MaxTime,     \* bound: the clock
  MaxFaults    \* bound: scheduled changes that fail to be applied

Trial == 0
Paid == Plans \ {Trial}

ASSUME PlansAssumption == Plans \subseteq Nat /\ Trial \in Plans
ASSUME LengthsAssumption == Cycle \in Nat \ {0} /\ TrialGrace \in Nat /\ PaidGrace \in Nat
ASSUME NoneAssumption == None \notin Requests \cup Payments \cup Grants \cup Nat
ASSUME ReferencesAssumption == Payments \cap Grants = {}
ASSUME BoundsAssumption == MaxEdits \in Nat /\ MaxTime \in Nat /\ MaxFaults \in Nat

VARIABLES
  org,       \* organization.subscription
  periods,   \* subscriptionbenefitperiods
  requests,  \* subscriptionchangerequests
  payments,  \* subscriptionpayments
  caller,    \* what each caller has read and is about to do
  now,
  edits, faults

vars == <<org, periods, requests, payments, caller, now, edits, faults>>

Entitled == {"active", "grace", "cancel_at_period_end"}
OpenStatuses == {"pending_payment", "payment_submitted", "scheduled"}
NoChange == [plan |-> None, at |-> 0, request |-> None]
NoQuote == [from |-> None, to |-> None, change |-> "none", end |-> None, keeps |-> FALSE]
Absent == [status |-> "absent", quote |-> NoQuote]
Unpaid == [status |-> "absent", request |-> None, quote |-> NoQuote]
Idle == [op |-> "idle"]
Processes == Callers \cup Workers

\* A tenant on trial, or one that has just paid for its first cycle.
Init ==
  /\ \E p \in Plans :
       /\ org = [plan |-> p, status |-> IF p = Trial THEN "trialing" ELSE "active",
                 end |-> Cycle, graceEnd |-> None, revision |-> 0, scheduled |-> NoChange]
       /\ periods = IF p = Trial THEN {}
                    ELSE {[by |-> None, plan |-> p, change |-> "new_subscription",
                           start |-> 0, end |-> Cycle, voided |-> FALSE]}
  /\ requests = [r \in Requests |-> Absent]
  /\ payments = [k \in Payments |-> Unpaid]
  /\ caller = [c \in Processes |-> Idle]
  /\ now = 0
  /\ edits = 0
  /\ faults = 0

Running(c, step) == caller' = [caller EXCEPT ![c] = step]
Starts(c, op) == caller[c] = Idle /\ op \in Operations

-----------------------------------------------------------------------------
(* Quotes.                                                                 *)

\* The period the current plan is in, the latest to start if there are several.
Current == {p \in periods : /\ p.plan = org.plan /\ ~p.voided
                            /\ p.start <= now /\ now < p.end
                            /\ \A q \in periods : q.plan = org.plan /\ ~q.voided
                                 /\ q.start <= now /\ now < q.end => q.start <= p.start}

\* quote: what a change to plan p is, and the end of the cycle it was quoted in.
Quote(p) ==
  LET end == IF Current = {} THEN org.end ELSE (CHOOSE x \in Current : TRUE).end
      covered == org.plan # Trial /\ org.status \in Entitled /\ end > now
      change == IF ~covered THEN "new_subscription"
                ELSE CASE p = org.plan -> "renewal"
                       [] p < org.plan -> "downgrade"
                       [] p > org.plan -> "upgrade"
  IN [from |-> org.plan, to |-> p, change |-> change,
      end |-> IF covered THEN end ELSE None, keeps |-> covered]

\* Mutant: the end of the quoted cycle is not compared.
SamePlan(q) == org.plan = q.from

\* assertSnapshotApplicable.
Applicable(q) == org.plan = q.from /\ (q.keeps => org.end = q.end /\ org.end > now)

-----------------------------------------------------------------------------
(* Change requests.                                                        *)

\* createChangeRequest up to its quote: the plan is not the current one, and
\* nothing is open.
AskForPlan(c, p) ==
  /\ Starts(c, "request")
  /\ ~(org.plan = p /\ org.status \in Entitled)
  /\ org.scheduled = NoChange
  /\ \A r \in Requests : requests[r].status \notin OpenStatuses
  /\ Running(c, [op |-> "request", plan |-> p])
  /\ UNCHANGED <<org, periods, requests, payments, now, edits, faults>>

\* The quote and the insertion; the unique index is on the tenant and the status.
CreateRequest(c, r) ==
  /\ caller[c].op = "request"
  /\ org.scheduled = NoChange
  /\ requests[r].status = "absent"
  /\ \A s \in Requests : requests[s].status # "pending_payment"
  /\ requests' = [requests EXCEPT ![r] = [status |-> "pending_payment",
                                          quote |-> Quote(caller[c].plan)]]
  /\ Running(c, Idle)
  /\ UNCHANGED <<org, periods, payments, now, edits, faults>>

\* cancelChangeRequest reads, and saves the status whatever it has become.
AskToWithdraw(c, r) ==
  /\ Starts(c, "withdraw")
  /\ requests[r].status = "pending_payment"
  /\ Running(c, [op |-> "withdraw", request |-> r])
  /\ UNCHANGED <<org, periods, requests, payments, now, edits, faults>>

Withdraw(c) ==
  /\ caller[c].op = "withdraw"
  /\ requests' = [requests EXCEPT ![caller[c].request].status = "cancelled"]
  /\ Running(c, Idle)
  /\ UNCHANGED <<org, periods, payments, now, edits, faults>>

-----------------------------------------------------------------------------
(* Payments.                                                               *)

NoneUnderReview(r) ==
  \A k \in Payments : payments[k].request = r => payments[k].status # "pending"

\* recordPayment for a request, in a transaction.
RecordPayment(k, r) ==
  /\ payments[k] = Unpaid
  /\ requests[r].status \in {"pending_payment", "payment_submitted"}
  /\ NoneUnderReview(r)
  /\ \A s \in Requests \ {r} : requests[s].status # "payment_submitted"
  /\ payments' = [payments EXCEPT ![k] = [status |-> "pending", request |-> r,
                                          quote |-> requests[r].quote]]
  /\ requests' = [requests EXCEPT ![r].status = "payment_submitted"]
  /\ UNCHANGED <<org, periods, caller, now, edits, faults>>

\* recordPayment without one: a renewal or a direct change, quoted on the spot.
RecordDirectPayment(k, p) ==
  /\ "direct" \in Operations
  /\ payments[k] = Unpaid
  /\ org.scheduled = NoChange
  /\ payments' = [payments EXCEPT ![k] = [status |-> "pending", request |-> None,
                                          quote |-> Quote(p)]]
  /\ UNCHANGED <<org, periods, requests, caller, now, edits, faults>>

\* decidePayment, rejected: the request waits for another payment.
RejectPayment(k) ==
  LET r == payments[k].request
      waits == r # None /\ requests[r].status = "payment_submitted"
  IN /\ payments[k].status = "pending"
     /\ payments' = [payments EXCEPT ![k].status = "rejected"]
     /\ waits => \A s \in Requests : requests[s].status # "pending_payment"
     /\ requests' = IF waits THEN [requests EXCEPT ![r].status = "pending_payment"]
                    ELSE requests
     /\ UNCHANGED <<org, periods, caller, now, edits, faults>>

Period(by, plan, change, start, end) ==
  [by |-> by, plan |-> plan, change |-> change, start |-> start, end |-> end, voided |-> FALSE]

\* scheduleDowngradeOnOrganization: the same schedule again changes nothing.
Schedulable(s) == s.at > now /\ (org.scheduled = NoChange \/ org.scheduled = s)
Scheduling(s) == IF org.scheduled = s THEN org
                 ELSE [org EXCEPT !.scheduled = s, !.revision = @ + 1]

\* An immediate change of plan: every sign of the end of the old cycle is reset.
Activated(plan, end) ==
  [org EXCEPT !.plan = plan, !.status = "active", !.end = end, !.graceEnd = None,
              !.revision = @ + 1]

\* Mutant: a renewal is activated although a change of plan is scheduled.
AnySchedule == TRUE

NothingScheduled == org.scheduled = NoChange

\* decidePayment, confirmed, of a change that waits for the end of the cycle.
ConfirmDowngrade(k) ==
  LET q == payments[k].quote
      r == payments[k].request
      s == [plan |-> q.to, at |-> org.end, request |-> r]
  IN /\ payments[k].status = "pending"
     /\ Applicable(q)
     /\ q.change = "downgrade" /\ org.end > now
     /\ Schedulable(s)
     /\ org' = Scheduling(s)
     /\ periods' = periods \cup {Period(k, q.to, q.change, org.end, org.end + Cycle)}
     /\ payments' = [payments EXCEPT ![k].status = "confirmed"]
     /\ requests' = IF r = None THEN requests
                    ELSE [requests EXCEPT ![r].status = "scheduled"]
     /\ UNCHANGED <<caller, now, edits, faults>>

\* A renewal continues the cycle, any other change begins now.
StartOf(q) == IF q.change = "renewal" /\ org.end > now THEN org.end ELSE now

\* decidePayment, confirmed, of an immediate change: an upgrade within the cycle
\* keeps its end, a renewal or a new subscription adds a cycle.
ConfirmPayment(k) ==
  LET q == payments[k].quote
      r == payments[k].request
      midCycle == q.change = "upgrade" /\ q.keeps /\ org.end > now
      end == IF midCycle THEN org.end ELSE StartOf(q) + Cycle
  IN /\ payments[k].status = "pending"
     /\ Applicable(q)
     /\ ~(q.change = "downgrade" /\ org.end > now)
     /\ NothingScheduled
     /\ org' = Activated(q.to, end)
     /\ periods' = periods \cup {Period(k, q.to, q.change, StartOf(q), end)}
     /\ payments' = [payments EXCEPT ![k].status = "confirmed"]
     /\ requests' = IF r = None THEN requests
                    ELSE [requests EXCEPT ![r].status = "approved"]
     /\ UNCHANGED <<caller, now, edits, faults>>

-----------------------------------------------------------------------------
(* The scheduled change.                                                   *)

Unscheduled == [org EXCEPT !.scheduled = NoChange, !.revision = @ + 1]

Bought == {p \in periods : /\ p.plan = org.scheduled.plan /\ ~p.voided
                           /\ p.start = org.scheduled.at}

\* cancelScheduledChange: the period bought ahead is voided.  If there are several
\* the code takes the one created last, here any of them.
CancelScheduledChange ==
  LET r == org.scheduled.request
  IN /\ "cancelScheduled" \in Operations
     /\ org.scheduled # NoChange /\ org.scheduled.at > now
     /\ r # None => requests[r].status = "scheduled"
     /\ org' = Unscheduled
     /\ \/ Bought = {} /\ UNCHANGED periods
        \/ \E p \in Bought :
             periods' = (periods \ {p}) \cup {[p EXCEPT !.voided = TRUE]}
     /\ requests' = IF r = None THEN requests
                    ELSE [requests EXCEPT ![r].status = "cancelled"]
     /\ UNCHANGED <<payments, caller, now, edits, faults>>

\* Mutant: a subscription that had lapsed keeps its status.
StatusKept ==
  [org EXCEPT !.plan = org.scheduled.plan, !.end = org.scheduled.at + Cycle,
              !.graceEnd = None, !.scheduled = NoChange, !.revision = @ + 1]

\* The update of applyDueChange; the filter repeats what the transaction has read.
Applied ==
  [org EXCEPT !.plan = org.scheduled.plan, !.status = "active",
              !.end = org.scheduled.at + Cycle, !.graceEnd = None,
              !.scheduled = NoChange, !.revision = @ + 1]

\* reconcileSubscriptions, and the request-time reconciliation: the clock is read
\* once, the change that is due is applied, the organization is read, and the
\* boundary is crossed.
Reconcile(c) ==
  /\ Starts(c, "reconcile")
  /\ Running(c, [op |-> "due", at |-> now])
  /\ UNCHANGED <<org, periods, requests, payments, now, edits, faults>>

Due(c) == org.scheduled # NoChange /\ org.scheduled.at <= caller[c].at

\* The request behind the change must still be open.
Upheld ==
  LET r == org.scheduled.request
  IN r # None => requests[r].status \in {"scheduled", "applied"}

ApplyDueChange(c) ==
  LET r == org.scheduled.request
  IN /\ caller[c].op = "due" /\ Due(c) /\ Upheld
     /\ org' = Applied
     /\ requests' = IF r = None THEN requests ELSE [requests EXCEPT ![r].status = "applied"]
     /\ Running(c, [op |-> "read", at |-> caller[c].at])
     /\ UNCHANGED <<periods, payments, now, edits, faults>>

\* Mutant: the boundary is looked at whether or not a change is due.
Passes(c) == TRUE

\* Nothing is due, or applying it was refused, which processDueChanges only reports.
NothingToApply(c) == ~Due(c) \/ ~Upheld

PassDueChange(c) ==
  /\ caller[c].op = "due"
  /\ NothingToApply(c)
  /\ Running(c, [op |-> "read", at |-> caller[c].at])
  /\ UNCHANGED <<org, periods, requests, payments, now, edits, faults>>

\* The transaction fails, which processDueChanges only reports.
DueChangeFails(c) ==
  /\ caller[c].op = "due" /\ Due(c) /\ Upheld
  /\ faults < MaxFaults /\ faults' = faults + 1
  /\ Running(c, [op |-> "read", at |-> caller[c].at])
  /\ UNCHANGED <<org, periods, requests, payments, now, edits>>

ReadOrganization(c) ==
  /\ caller[c].op = "read"
  /\ Running(c, [op |-> "cross", at |-> caller[c].at, read |-> org])
  /\ UNCHANGED <<org, periods, requests, payments, now, edits, faults>>

-----------------------------------------------------------------------------
(* The boundary of a cycle.                                                *)

Grace(plan) == IF plan = Trial THEN TrialGrace ELSE PaidGrace

\* Mutant: a cancelled subscription is forgotten.
StaysCancelled(s, t) ==
  CASE s.status = "grace" -> s.graceEnd > t
    [] s.status \in {"trialing", "active"} -> s.end > t
    [] OTHER -> TRUE

\* boundaryTransition: the status and end of grace of a subscription s at time t.
Stays(s, t) ==
  CASE s.status = "grace" -> s.graceEnd > t
    [] s.status \in {"trialing", "active", "cancel_at_period_end"} -> s.end > t
    [] OTHER -> TRUE

\* Grace is counted from the end of the cycle, however late the worker is.
GraceEnd(s, t) == s.end + Grace(s.plan)

Crossed(s, t) ==
  LET graced == /\ s.status \in {"trialing", "active"}
                /\ Grace(s.plan) > 0
                /\ GraceEnd(s, t) > t
  IN [status |-> IF graced THEN "grace" ELSE "expired",
      graceEnd |-> IF graced THEN GraceEnd(s, t) ELSE None]

\* Mutant: only the status is compared.
SameStatus(s) == org.status = s.status

\* The filter of applyBoundaryTransition.
Unchanged(s) == org.status = s.status /\ org.revision = s.revision

\* applyBoundaryTransition, by compare and set.
Cross(c) ==
  LET s == caller[c].read
      to == Crossed(s, caller[c].at)
  IN /\ caller[c].op = "cross"
     /\ org' = IF Stays(s, caller[c].at) \/ ~Unchanged(s) THEN org
               ELSE [org EXCEPT !.status = to.status, !.graceEnd = to.graceEnd,
                                !.revision = @ + 1]
     /\ Running(c, Idle)
     /\ UNCHANGED <<periods, requests, payments, now, edits, faults>>

-----------------------------------------------------------------------------
(* What owners and administrators change.                                  *)

\* billing's cancelSubscription reads the document it will save.
CancelSubscription(c) ==
  /\ Starts(c, "cancel")
  /\ edits < MaxEdits /\ edits' = edits + 1
  /\ org.plan # Trial /\ org.scheduled = NoChange
  /\ org.status = "active" /\ org.end > now
  /\ Running(c, [op |-> "save", to |-> "cancel_at_period_end", read |-> org])
  /\ UNCHANGED <<org, periods, requests, payments, now, faults>>

\* The administrator's setCancellation.
SetCancellation(c, to) ==
  /\ Starts(c, "setCancellation")
  /\ edits < MaxEdits /\ edits' = edits + 1
  /\ org.plan # Trial
  /\ org.status \in {"active", "cancel_at_period_end"}
  /\ to \in {"active", "cancel_at_period_end"}
  /\ Running(c, [op |-> "save", to |-> to, read |-> org])
  /\ UNCHANGED <<org, periods, requests, payments, now, faults>>

\* Their save writes the fields that differ from what was read, the revision always.
Save(c) ==
  /\ caller[c].op = "save"
  /\ org' = [org EXCEPT !.status = IF caller[c].to = caller[c].read.status THEN @
                                   ELSE caller[c].to,
                        !.revision = caller[c].read.revision + 1]
  /\ Running(c, Idle)
  /\ UNCHANGED <<periods, requests, payments, now, edits, faults>>

\* changeTenantSubscription puts a tenant on trial, whatever it has paid for.
ChangeTenantSubscription(end) ==
  /\ "assignTrial" \in Operations
  /\ edits < MaxEdits /\ edits' = edits + 1
  /\ org.scheduled = NoChange /\ end > now
  /\ org' = [org EXCEPT !.plan = Trial, !.status = "trialing", !.end = end, !.graceEnd = None]
  /\ UNCHANGED <<periods, requests, payments, caller, now, faults>>

\* manageTenantTrial, a transaction that also leaves the revision as it is.
ManageTenantTrial(status, end) ==
  /\ "trial" \in Operations
  /\ edits < MaxEdits /\ edits' = edits + 1
  /\ org.plan = Trial /\ org.scheduled = NoChange
  /\ \/ status = "trialing" /\ end > now
     \/ status = "expired" /\ end = now
  /\ org' = [org EXCEPT !.status = status, !.end = end,
                        !.graceEnd = IF status = "trialing" THEN None ELSE @]
  /\ UNCHANGED <<periods, requests, payments, caller, now, faults>>

\* scheduleNoChargeDowngrade takes the boundary from a read before its transaction.
PrepareDowngrade(c, p) ==
  /\ Starts(c, "schedule")
  /\ org.plan # Trial /\ p < org.plan /\ org.end > now
  /\ Running(c, [op |-> "schedule", plan |-> p, at |-> org.end])
  /\ UNCHANGED <<org, periods, requests, payments, now, edits, faults>>

UnusedGrant(g) == \A p \in periods : p.by # g

ScheduleDowngrade(c, g) ==
  LET s == [plan |-> caller[c].plan, at |-> caller[c].at, request |-> None]
  IN /\ caller[c].op = "schedule"
     /\ UnusedGrant(g)
     /\ Schedulable(s)
     /\ org' = Scheduling(s)
     /\ periods' = periods \cup {Period(g, s.plan, "downgrade", s.at, s.at + Cycle)}
     /\ Running(c, Idle)
     /\ UNCHANGED <<requests, payments, now, edits, faults>>

\* Mutant: the override starts a cycle of its own.
NewCycle == now + Cycle

\* A cycle that is running keeps its boundary.
KeptCycle == IF org.plan # Trial /\ org.end > now /\ org.status \in Entitled THEN org.end
             ELSE now + Cycle

\* applyNoChargePlanOverride keeps the boundary of a cycle that is running, and adds
\* a benefit period unless the plan has one already.
OverridePlan(g, p) ==
  /\ "override" \in Operations
  /\ edits < MaxEdits /\ edits' = edits + 1
  /\ UnusedGrant(g)
  /\ org.scheduled = NoChange
  /\ org' = Activated(p, KeptCycle)
  /\ periods' = IF org.plan = p /\ Current # {} THEN periods
                ELSE periods \cup {Period(g, p, "override", now, KeptCycle)}
  /\ UNCHANGED <<requests, payments, caller, now, faults>>

\* A call that is refused, or whose process dies before it writes.
GiveUp(c) ==
  /\ caller[c].op \in {"request", "withdraw", "save", "schedule"}
  /\ Running(c, Idle)
  /\ UNCHANGED <<org, periods, requests, payments, now, edits, faults>>

Tick ==
  /\ now < MaxTime
  /\ now' = now + 1
  /\ UNCHANGED <<org, periods, requests, payments, caller, edits, faults>>

-----------------------------------------------------------------------------
RequestStep ==
  \E c \in Callers :
    \/ \E p \in Paid : AskForPlan(c, p)
    \/ \E r \in Requests : CreateRequest(c, r) \/ AskToWithdraw(c, r)
    \/ Withdraw(c)

PaymentStep ==
  \E k \in Payments :
    \/ \E r \in Requests : RecordPayment(k, r)
    \/ \E p \in Paid : RecordDirectPayment(k, p)
    \/ RejectPayment(k)
    \/ ConfirmDowngrade(k)
    \/ ConfirmPayment(k)

ReconcileStep(c) ==
  \/ ApplyDueChange(c) \/ PassDueChange(c) \/ DueChangeFails(c)
  \/ ReadOrganization(c) \/ Cross(c)

EditStep ==
  \/ \E c \in Callers :
       \/ CancelSubscription(c)
       \/ \E to \in {"active", "cancel_at_period_end"} : SetCancellation(c, to)
       \/ Save(c)
       \/ \E p \in Paid : PrepareDowngrade(c, p)
       \/ \E g \in Grants : ScheduleDowngrade(c, g)
  \/ \E g \in Grants, p \in Paid : OverridePlan(g, p)
  \/ \E end \in now .. now + Cycle :
       \/ ManageTenantTrial("trialing", end)
       \/ ManageTenantTrial("expired", end)
       \/ ChangeTenantSubscription(end)
  \/ CancelScheduledChange

Next ==
  \/ RequestStep
  \/ PaymentStep
  \/ EditStep
  \/ \E w \in Workers : Reconcile(w) \/ ReconcileStep(w)
  \/ \E c \in Callers : GiveUp(c)
  \/ Tick

Spec == Init /\ [][Next]_vars

\* The lifecycle worker runs again and again, and time passes.
Fairness ==
  /\ WF_vars(Tick)
  /\ \A w \in Workers : WF_vars(Reconcile(w)) /\ WF_vars(ReconcileStep(w))

FairSpec == Spec /\ Fairness

-----------------------------------------------------------------------------
(* Properties.                                                             *)

Statuses == {"trialing", "active", "grace", "cancel_at_period_end", "expired"}
Quotes == [from : Plans \cup {None}, to : Plans \cup {None},
           change : {"none", "new_subscription", "renewal", "downgrade", "upgrade"},
           end : Nat \cup {None}, keeps : BOOLEAN]
Subscriptions == [plan : Plans, status : Statuses, end : Nat, graceEnd : Nat \cup {None},
                  revision : Nat,
                  scheduled : [plan : Paid, at : Nat, request : Requests \cup {None}]
                                \cup {NoChange}]

\* Every document has the shape its schema declares, and a subscription in grace
\* has an end of grace, which the comparison of boundaryTransition relies on.
TypeOK ==
  /\ org \in Subscriptions
  /\ org.status = "grace" => org.graceEnd \in Nat
  /\ periods \subseteq [by : Payments \cup Grants \cup {None}, plan : Paid,
                        change : {"new_subscription", "renewal", "downgrade", "upgrade",
                                  "override"},
                        start : Nat, end : Nat, voided : BOOLEAN]
  /\ requests \in [Requests -> [status : {"absent", "approved", "applied", "cancelled"}
                                            \cup OpenStatuses,
                                quote : Quotes]]
  /\ payments \in [Payments -> [status : {"absent", "pending", "confirmed", "rejected"},
                                request : Requests \cup {None}, quote : Quotes]]
  /\ DOMAIN caller = Processes
  /\ now \in 0 .. MaxTime /\ edits \in 0 .. MaxEdits /\ faults \in 0 .. MaxFaults

Covered == org.plan # Trial /\ org.status \in Entitled /\ org.end > now
Lapses == org'.status \in {"grace", "expired"} /\ org'.status # org.status

\* A scheduled change begins when the current cycle ends, and the period it was
\* paid for is still there: a renewal, an upgrade or a cancellation in the
\* meantime can neither move the cycle away from it nor void its period.
ScheduleStands ==
  org.scheduled # NoChange =>
    org.scheduled.at = org.end /\ \E p \in Bought : p.end = org.end + Cycle

\* Time that is paid for is not taken back by a change of plan, an override, a late
\* worker or a late review; only a payment that was quoted after the subscription had
\* lapsed, and confirmed after it was renewed, can do that.
PaidTimeKept ==
  [][Covered /\ org'.end < org.end =>
       \E k \in Payments : ConfirmPayment(k) /\ ~payments[k].quote.keeps]_vars

\* A change request is charged once, through rejections, new attempts and a
\* withdrawal that comes late.
OneChargePerRequest ==
  \A r \in Requests :
    Cardinality({k \in Payments : payments[k].request = r
                                    /\ payments[k].status = "confirmed"}) <= 1

\* What a payment bought is what its quote said when it was recorded, however long
\* it waited for the review and whatever was confirmed before it: a renewal and a
\* downgrade take the cycle after the quoted one, an upgrade the rest of it; and
\* the same change is not charged again.
QuoteHonoured ==
  /\ \A k \in Payments, p \in periods :
       p.by = k /\ payments[k].quote.keeps =>
         IF payments[k].quote.change = "upgrade" THEN p.end = payments[k].quote.end
         ELSE p.start = payments[k].quote.end /\ p.end = p.start + Cycle
  /\ OneChargePerRequest

\* A worker or request that is behind cannot take away a subscription renewed since,
\* as long as every write in between raises the revision; and "Apply paid deferred
\* downgrades before expiry/grace logic sees the old period boundary": the tenant who
\* paid ahead does not lapse in between, unless the request was withdrawn.
LapsesOnDue == [][Lapses => org.end <= now /\ (org.scheduled = NoChange \/ ~Upheld)]_vars

\* A scheduled change that is due is applied at last, unless its request was withdrawn.
ScheduleSettles ==
  LET due == org.scheduled # NoChange /\ org.scheduled.at <= now /\ Upheld IN due ~> ~due

\* Access ends: a subscription that is not renewed expires when its grace is over,
\* whatever was cancelled, revived or extended while the worker was at it.
AccessEnds ==
  LET over == org.end + Grace(org.plan) <= now
  IN over ~> ~over \/ org.status = "expired"

===============================================================================
