-------------------------- MODULE SubscriptionProofs --------------------------
(***************************************************************************)
(* What holds of a subscription for every number of plans, requests,       *)
(* payments, callers and workers and every length of a cycle.  IInv says   *)
(* what was bought by whom, where the scheduled change stands, and what a  *)
(* worker between its steps still knows of the organization.               *)
(*                                                                         *)
(* Two operations that a property does not survive are left out where the  *)
(* theorem says so: an administrator's downgrade, scheduled on a boundary  *)
(* that was read before (scheduleNoChargeDowngrade), and the writes that   *)
(* do not raise the revision.                                              *)
(***************************************************************************)
EXTENDS Subscription, FiniteSetTheorems, TLAPS

-----------------------------------------------------------------------------
(* The inductive invariant. *)

Changes == {"renewal", "downgrade", "upgrade"}
QuoteRecord ==
  {NoQuote}
  \cup [from : Plans, to : Paid, change : {"new_subscription"}, end : {None}, keeps : {FALSE}]
  \cup [from : Plans, to : Paid, change : Changes, end : Nat, keeps : {TRUE}]
PeriodRecord ==
  [by : Payments \cup Grants \cup {None}, plan : Paid,
   change : {"new_subscription", "override"} \cup Changes,
   start : Nat, end : Nat, voided : BOOLEAN]
RequestRecord ==
  [status : {"absent", "approved", "applied", "cancelled"} \cup OpenStatuses, quote : QuoteRecord]
PaymentRecord ==
  [status : {"absent", "pending", "confirmed", "rejected"}, request : Requests \cup {None},
   quote : QuoteRecord]
StepRecord ==
  {Idle}
  \cup [op : {"request"}, plan : Paid]
  \cup [op : {"withdraw"}, request : Requests]
  \cup [op : {"due", "read"}, at : Nat]
  \cup [op : {"cross"}, at : Nat, read : Subscriptions]
  \cup [op : {"save"}, to : {"active", "cancel_at_period_end"}, read : Subscriptions]
  \cup [op : {"schedule"}, plan : Paid, at : Nat]

\* Every write raises the revision, and a change that is due is applied.
Careful ==
  /\ Operations \cap {"cancel", "setCancellation", "trial", "assignTrial", "schedule"} = {}
  /\ MaxFaults = 0

\* The end of grace is that of no earlier cycle.
Graced(o) == o.status = "grace" => o.graceEnd \in Nat /\ (Careful => o.graceEnd >= o.end)

Shape ==
  /\ org \in Subscriptions /\ Graced(org)
  /\ periods \subseteq PeriodRecord
  /\ requests \in [Requests -> RequestRecord]
  /\ payments \in [Payments -> PaymentRecord]
  /\ caller \in [Processes -> StepRecord]
  /\ now \in 0 .. MaxTime /\ edits \in 0 .. MaxEdits /\ faults \in 0 .. MaxFaults

\* No second payment is under review or confirmed for a request.
Single(k, j) ==
  k # j /\ payments[k].request # None /\ payments[k].request = payments[j].request =>
    ~({payments[k].status, payments[j].status} \subseteq {"pending", "confirmed"})

\* A request that is paid for does not ask for a payment again.
Charged(k) ==
  payments[k].status = "confirmed" /\ payments[k].request # None =>
    requests[payments[k].request].status \notin {"absent", "pending_payment", "payment_submitted"}

\* What a confirmed payment has bought.
Honoured(p) ==
  p.by \in Payments =>
    LET q == payments[p.by].quote IN
    /\ payments[p.by].status = "confirmed"
    /\ q.keeps => IF q.change = "upgrade" THEN p.end = q.end
                  ELSE p.start = q.end /\ p.end = p.start + Cycle

\* Who saves or schedules, calls an operation that does.
Called(s) ==
  /\ s.op = "save" => Operations \cap {"cancel", "setCancellation"} # {}
  /\ s.op = "schedule" => "schedule" \in Operations

BoundaryKept == "schedule" \notin Operations

Stands == BoundaryKept => ScheduleStands

\* A worker's clock is behind, what it read is the organization unless the revision was
\* raised since, and once it has looked, no change is due by its clock.
Known(s) ==
  /\ s.op \in {"due", "read", "cross"} => s.at <= now
  /\ Careful /\ s.op = "cross" =>
       /\ s.read.revision <= org.revision
       /\ s.read.revision = org.revision => s.read = org
  /\ Careful /\ s.op \in {"read", "cross"} =>
       ~(org.scheduled # NoChange /\ org.scheduled.at <= s.at /\ Upheld)

IInv ==
  /\ Shape
  /\ \A k, j \in Payments : Single(k, j)
  /\ \A k \in Payments : Charged(k)
  /\ \A p \in periods : Honoured(p)
  /\ Stands
  /\ \A c \in Processes : Called(caller[c]) /\ Known(caller[c])

-----------------------------------------------------------------------------
(* What the documents hold. *)

\* The fields of a subscription.
LEMMA OrgFields ==
  ASSUME NEW o \in Subscriptions
  PROVE  /\ o.plan \in Plans /\ o.plan \in Nat /\ o.status \in Statuses
         /\ o.end \in Nat /\ o.graceEnd \in Nat \cup {None} /\ o.revision \in Nat
         /\ o.scheduled # NoChange => /\ o.scheduled.plan \in Paid /\ o.scheduled.at \in Nat
                                      /\ o.scheduled.request \in Requests \cup {None}
  BY PlansAssumption DEF Subscriptions

\* The fields of what a caller is about to do.
LEMMA StepFields ==
  ASSUME NEW s \in StepRecord
  PROVE  /\ s.op \in {"idle", "request", "withdraw", "due", "read", "cross", "save", "schedule"}
         /\ s.op = "idle" => s = Idle
         /\ s.op = "request" => s.plan \in Paid
         /\ s.op = "withdraw" => s.request \in Requests
         /\ s.op \in {"due", "read", "cross", "schedule"} => s.at \in Nat
         /\ s.op = "cross" => s.read \in Subscriptions
         /\ s.op = "save" => /\ s.to \in {"active", "cancel_at_period_end"}
                             /\ s.read \in Subscriptions
         /\ s.op = "schedule" => s.plan \in Paid
  BY DEF StepRecord, Idle

\* The fields of a quote; one that keeps the cycle says when it ends.
LEMMA QuoteFields ==
  ASSUME NEW q \in QuoteRecord
  PROVE  /\ q.keeps \in BOOLEAN
         /\ q.keeps => q.end \in Nat /\ q.change \in Changes
         /\ q.from \in Plans => q.to \in Paid /\ q.change \in {"new_subscription"} \cup Changes
<1>1. CASE q = NoQuote
  BY <1>1, PlansAssumption, NoneAssumption DEF NoQuote
<1>2. CASE q \in [from : Plans, to : Paid, change : {"new_subscription"}, end : {None}, keeps : {FALSE}]
  BY <1>2
<1>3. CASE q \in [from : Plans, to : Paid, change : Changes, end : Nat, keeps : {TRUE}]
  BY <1>3
<1> QED BY <1>1, <1>2, <1>3 DEF QuoteRecord

\* quote returns a quote.
LEMMA QuoteShape ==
  ASSUME Shape, NEW p \in Paid
  PROVE  Quote(p) \in QuoteRecord
<1>1. org.plan \in Plans /\ org.plan \in Nat /\ org.end \in Nat /\ now \in Nat /\ p \in Nat
  BY OrgFields, PlansAssumption, BoundsAssumption DEF Shape, Paid
<1> DEFINE end == IF Current = {} THEN org.end ELSE (CHOOSE x \in Current : TRUE).end
           covered == org.plan # Trial /\ org.status \in Entitled /\ end > now
           change == IF ~covered THEN "new_subscription"
                     ELSE CASE p = org.plan -> "renewal"
                            [] p < org.plan -> "downgrade"
                            [] p > org.plan -> "upgrade"
<1>2. end \in Nat
  <2>1. CASE Current = {}
    BY <2>1, <1>1
  <2>2. CASE Current # {}
    <3>1. (CHOOSE x \in Current : TRUE) \in Current
      BY <2>2
    <3>2. (CHOOSE x \in Current : TRUE) \in PeriodRecord
      BY <3>1 DEF Current, Shape
    <3> QED BY <2>2, <3>2 DEF PeriodRecord
  <2> QED BY <2>1, <2>2
<1>3. Quote(p) = [from |-> org.plan, to |-> p, change |-> change,
                  end |-> IF covered THEN end ELSE None, keeps |-> covered]
  BY DEF Quote
<1> HIDE DEF end
<1>4. CASE covered
  <2>1. change \in Changes
    BY <1>4, <1>1 DEF Changes
  <2> HIDE DEF change
  <2>2. Quote(p) = [from |-> org.plan, to |-> p, change |-> change, end |-> end, keeps |-> TRUE]
    BY <1>4, <1>3
  <2> QED BY <2>2, <1>1, <1>2, <2>1 DEF QuoteRecord
<1>5. CASE ~covered
  <2>1. change = "new_subscription"
    BY <1>5
  <2> HIDE DEF change
  <2>2. Quote(p) = [from |-> org.plan, to |-> p, change |-> "new_subscription",
                    end |-> None, keeps |-> FALSE]
    BY <1>5, <1>3, <2>1
  <2> QED BY <2>2, <1>1 DEF QuoteRecord
<1> QED BY <1>4, <1>5

-----------------------------------------------------------------------------
(* Callers and workers. *)

\* What a step may do to the organization: it raises the revision, and a change that
\* comes to be due was due before.
OrgFrame == Careful => org' = org \/ org'.revision > org.revision
DueFrame ==
  \/ org'.scheduled = NoChange
  \/ org'.scheduled.at > now
  \/ org'.scheduled = org.scheduled /\ (Upheld' => Upheld)
Frame ==
  /\ now \in Nat /\ now' \in Nat /\ now <= now'
  /\ org \in Subscriptions /\ org' \in Subscriptions
  /\ OrgFrame /\ DueFrame

\* Who does nothing knows as much as before.
LEMMA OthersKnow ==
  ASSUME IInv, Frame, NEW c \in Processes, caller'[c] = caller[c]
  PROVE  Called(caller'[c]) /\ Known(caller[c])'
<1> DEFINE s == caller[c]
<1>1. s \in StepRecord /\ Called(s) /\ Known(s)
  BY DEF IInv, Shape
<1>2. caller'[c] = s
  OBVIOUS
<1> HIDE DEF s
<1>3. s.op \in {"due", "read", "cross"} => s.at \in Nat /\ s.at <= now'
  BY <1>1, StepFields DEF Known, Frame
<1>4. ASSUME Careful, s.op = "cross"
      PROVE  s.read.revision <= org'.revision /\ (s.read.revision = org'.revision => s.read = org')
  <2>1. s.read.revision \in Nat /\ org.revision \in Nat /\ org'.revision \in Nat
    BY <1>4, <1>1, StepFields, OrgFields DEF Frame
  <2> QED BY <2>1, <1>1, <1>4 DEF Known, Frame, OrgFrame
<1>5. ASSUME Careful, s.op \in {"read", "cross"}
      PROVE  ~(org'.scheduled # NoChange /\ org'.scheduled.at <= s.at /\ Upheld')
  <2>1. CASE org'.scheduled = NoChange
    BY <2>1
  <2>2. CASE org'.scheduled.at > now
    <3>1. s.at \in Nat /\ s.at <= now
      BY <1>5, <1>1, StepFields DEF Known
    <3>2. org'.scheduled # NoChange => org'.scheduled.at \in Nat
      BY OrgFields DEF Frame
    <3> QED BY <2>2, <3>1, <3>2 DEF Frame
  <2>3. CASE org'.scheduled = org.scheduled /\ (Upheld' => Upheld)
    BY <2>3, <1>1, <1>5 DEF Known
  <2> QED BY <2>1, <2>2, <2>3 DEF Frame, DueFrame
<1>6. Called(caller'[c])
  BY <1>1, <1>2
<1> QED BY <1>2, <1>3, <1>4, <1>5, <1>6 DEF Known

\* A step that leaves the callers alone, or lets one end, leaves each with what it knows.
LEMMA NobodyMoves ==
  ASSUME IInv, Frame, caller' = caller
  PROVE  caller' \in [Processes -> StepRecord]
         /\ \A c \in Processes : Called(caller'[c]) /\ Known(caller[c])'
  BY OthersKnow DEF IInv, Shape

\* One process moves on, knowing what it read; the others know what they knew.
LEMMA OneMoves ==
  ASSUME IInv, Frame, NEW c \in Processes, NEW s \in StepRecord, Running(c, s), Called(s),
         Known(s)'
  PROVE  caller' \in [Processes -> StepRecord]
         /\ \A d \in Processes : Called(caller'[d]) /\ Known(caller[d])'
<1>1. caller \in [Processes -> StepRecord] /\ caller' = [caller EXCEPT ![c] = s]
  BY DEF IInv, Shape, Running
<1>2. caller' \in [Processes -> StepRecord] /\ caller'[c] = s
      /\ \A d \in Processes : d # c => caller'[d] = caller[d]
  BY <1>1
<1>3. Called(caller'[c]) /\ Known(caller[c])'
  BY <1>2 DEF Known
<1> QED BY <1>2, <1>3, OthersKnow

\* Who ends knows nothing.
LEMMA OneEnds ==
  ASSUME IInv, Frame, NEW c \in Processes, Running(c, Idle)
  PROVE  caller' \in [Processes -> StepRecord]
         /\ \A d \in Processes : Called(caller'[d]) /\ Known(caller[d])'
<1>1. Idle \in StepRecord /\ Called(Idle) /\ Known(Idle)'
  BY DEF StepRecord, Idle, Called, Known
<1> QED BY <1>1, OneMoves

-----------------------------------------------------------------------------
(* The parts of the invariant that a step leaves alone. *)

Open == {"absent", "pending_payment", "payment_submitted"}

\* No payment is recorded or decided, and no request that was paid for is opened.
LEMMA ChargesKept ==
  ASSUME IInv, payments' = payments,
         \A r \in Requests : requests'[r].status \in Open => requests[r].status \in Open
  PROVE  \A k, j \in Payments : Single(k, j)' /\ Charged(k)'
<1>1. \A k \in Payments : payments[k].request \in Requests \cup {None}
  BY DEF IInv, Shape, PaymentRecord
<1> QED BY <1>1 DEF IInv, Single, Charged, Open

\* No period is bought, and no confirmed payment is changed.
LEMMA PeriodsKept ==
  ASSUME IInv,
         \A k \in Payments : payments[k].status = "confirmed" => payments'[k] = payments[k],
         \A p \in periods' : p.by \in Payments =>
           \E o \in periods : p.by = o.by /\ p.start = o.start /\ p.end = o.end
  PROVE  \A p \in periods' : Honoured(p)'
<1> SUFFICES ASSUME NEW p \in periods', p.by \in Payments PROVE Honoured(p)'
  BY DEF Honoured
<1>1. PICK o \in periods : p.by = o.by /\ p.start = o.start /\ p.end = o.end
  OBVIOUS
<1>2. Honoured(o)
  BY DEF IInv
<1> QED BY <1>1, <1>2 DEF Honoured

\* The boundary and the scheduled change stay where they are, and no period is lost.
LEMMA ScheduleKept ==
  ASSUME IInv, org'.end = org.end, org'.scheduled = org.scheduled, periods \subseteq periods'
  PROVE  Stands'
  BY DEF IInv, Stands, BoundaryKept, ScheduleStands, Bought

\* Nothing is scheduled.
LEMMA NothingStands ==
  ASSUME org'.scheduled = NoChange
  PROVE  Stands'
  BY DEF Stands, ScheduleStands

\* Only a caller has moved.
LEMMA CallerMoves ==
  ASSUME IInv, UNCHANGED <<org, periods, requests, payments, now>>,
         edits' \in 0 .. MaxEdits, faults' \in 0 .. MaxFaults,
         NEW c \in Processes, NEW s \in StepRecord, Running(c, s), Called(s), Known(s)
  PROVE  IInv'
<1>1. Frame
  BY OrgFields, BoundsAssumption DEF IInv, Shape, Frame, OrgFrame, DueFrame, Upheld
<1>2. Known(s)'
  BY DEF Known, Upheld
<1>3. caller' \in [Processes -> StepRecord] /\ \A d \in Processes : Called(caller'[d]) /\ Known(caller[d])'
  BY <1>1, <1>2, OneMoves
<1>4. Shape'
  BY <1>3 DEF IInv, Shape
<1>5. \A k, j \in Payments : Single(k, j)' /\ Charged(k)'
  BY ChargesKept
<1>6. \A p \in periods' : Honoured(p)'
  BY PeriodsKept
<1>7. Stands'
  BY ScheduleKept
<1> QED BY <1>3, <1>4, <1>5, <1>6, <1>7 DEF IInv, Called

-----------------------------------------------------------------------------
(* Callers that begin, read or give up. *)

\* A caller that is about to request a plan, withdraw a request, save or schedule knows
\* nothing of the clock.
LEMMA NoClock ==
  ASSUME NEW s, s.op \in {"idle", "request", "withdraw", "save", "schedule"}
  PROVE  Known(s)
  BY DEF Known

\* A caller reads what its later steps rest on.
LEMMA BeginStep ==
  ASSUME IInv, NEW c \in Callers,
         \/ \E p \in Paid : AskForPlan(c, p) \/ PrepareDowngrade(c, p)
         \/ \E r \in Requests : AskToWithdraw(c, r)
         \/ CancelSubscription(c)
         \/ \E to \in {"active", "cancel_at_period_end"} : SetCancellation(c, to)
         \/ GiveUp(c)
  PROVE  IInv'
<1>1. c \in Processes
  BY DEF Processes
<1>2. org \in Subscriptions /\ org.end \in Nat /\ edits \in 0 .. MaxEdits /\ faults \in 0 .. MaxFaults
  BY OrgFields DEF IInv, Shape
<1>3. ASSUME NEW p \in Paid, AskForPlan(c, p) PROVE IInv'
  <2>1. PICK s : s = [op |-> "request", plan |-> p]
    OBVIOUS
  <2>2. s \in StepRecord /\ Called(s) /\ Known(s)
    BY <2>1, NoClock DEF StepRecord, Called
  <2> QED BY <1>1, <1>2, <1>3, <2>1, <2>2, CallerMoves DEF AskForPlan
<1>4. ASSUME NEW p \in Paid, PrepareDowngrade(c, p) PROVE IInv'
  <2>1. PICK s : s = [op |-> "schedule", plan |-> p, at |-> org.end]
    OBVIOUS
  <2>2. s \in StepRecord /\ Called(s) /\ Known(s)
    BY <1>2, <1>4, <2>1, NoClock DEF StepRecord, Called, PrepareDowngrade, Starts
  <2> QED BY <1>1, <1>2, <1>4, <2>1, <2>2, CallerMoves DEF PrepareDowngrade
<1>5. ASSUME NEW r \in Requests, AskToWithdraw(c, r) PROVE IInv'
  <2>1. PICK s : s = [op |-> "withdraw", request |-> r]
    OBVIOUS
  <2>2. s \in StepRecord /\ Called(s) /\ Known(s)
    BY <2>1, NoClock DEF StepRecord, Called
  <2> QED BY <1>1, <1>2, <1>5, <2>1, <2>2, CallerMoves DEF AskToWithdraw
<1>6. ASSUME NEW to \in {"active", "cancel_at_period_end"},
             Running(c, [op |-> "save", to |-> to, read |-> org]),
             Operations \cap {"cancel", "setCancellation"} # {},
             edits < MaxEdits, edits' = edits + 1, faults' = faults,
             UNCHANGED <<org, periods, requests, payments, now>>
      PROVE  IInv'
  <2>1. PICK s : s = [op |-> "save", to |-> to, read |-> org]
    OBVIOUS
  <2>2. s \in StepRecord /\ Called(s) /\ Known(s)
    BY <1>2, <1>6, <2>1, NoClock DEF StepRecord, Called
  <2>3. edits' \in 0 .. MaxEdits
    BY <1>2, <1>6, BoundsAssumption
  <2> QED BY <1>1, <1>2, <1>6, <2>1, <2>2, <2>3, CallerMoves
<1>7. CASE CancelSubscription(c)
  BY <1>6, <1>7 DEF CancelSubscription, Starts
<1>8. ASSUME NEW to \in {"active", "cancel_at_period_end"}, SetCancellation(c, to) PROVE IInv'
  BY <1>6, <1>8 DEF SetCancellation, Starts
<1>9. CASE GiveUp(c)
  <2>1. Idle \in StepRecord /\ Called(Idle) /\ Known(Idle)
    BY NoClock DEF StepRecord, Called, Idle
  <2> QED BY <1>1, <1>2, <1>9, <2>1, CallerMoves DEF GiveUp
<1> QED BY <1>3, <1>4, <1>5, <1>7, <1>8, <1>9

\* A worker that begins, passes or fails to apply what is due, or reads the organization.
LEMMA WorkerStep ==
  ASSUME IInv, NEW c \in Workers,
         Reconcile(c) \/ PassDueChange(c) \/ DueChangeFails(c) \/ ReadOrganization(c)
  PROVE  IInv'
<1>1. c \in Processes
  BY DEF Processes
<1>2. /\ org \in Subscriptions /\ org.revision \in Nat /\ now \in Nat
      /\ edits \in 0 .. MaxEdits /\ faults \in 0 .. MaxFaults
  BY OrgFields, BoundsAssumption DEF IInv, Shape
<1>3. caller[c] \in StepRecord /\ Known(caller[c])
  BY <1>1 DEF IInv, Shape
<1>4. CASE Reconcile(c)
  <2>1. PICK s : s = [op |-> "due", at |-> now]
    OBVIOUS
  <2>2. s \in StepRecord /\ Called(s) /\ Known(s)
    BY <1>2, <2>1 DEF StepRecord, Called, Known
  <2> QED BY <1>1, <1>2, <1>4, <2>1, <2>2, CallerMoves DEF Reconcile
<1>5. CASE PassDueChange(c)
  <2>1. PICK s : s = [op |-> "read", at |-> caller[c].at]
    OBVIOUS
  <2>2. caller[c].at \in Nat
    BY <1>3, <1>5, StepFields DEF PassDueChange
  <2>3. s \in StepRecord /\ Called(s) /\ Known(s)
    BY <1>3, <1>5, <2>1, <2>2 DEF StepRecord, Called, Known, PassDueChange, NothingToApply, Due
  <2> QED BY <1>1, <1>2, <1>5, <2>1, <2>3, CallerMoves DEF PassDueChange
<1>6. CASE DueChangeFails(c)
  <2>1. PICK s : s = [op |-> "read", at |-> caller[c].at]
    OBVIOUS
  <2>2. caller[c].at \in Nat
    BY <1>3, <1>6, StepFields DEF DueChangeFails
  <2>3. ~Careful
    BY <1>2, <1>6, BoundsAssumption DEF DueChangeFails, Careful
  <2>4. s \in StepRecord /\ Called(s) /\ Known(s)
    BY <1>3, <1>6, <2>1, <2>2, <2>3 DEF StepRecord, Called, Known, DueChangeFails
  <2>5. faults' \in 0 .. MaxFaults
    BY <1>2, <1>6, BoundsAssumption DEF DueChangeFails
  <2> QED BY <1>1, <1>2, <1>6, <2>1, <2>4, <2>5, CallerMoves DEF DueChangeFails
<1>7. CASE ReadOrganization(c)
  <2>1. PICK s : s = [op |-> "cross", at |-> caller[c].at, read |-> org]
    OBVIOUS
  <2>2. caller[c].at \in Nat
    BY <1>3, <1>7, StepFields DEF ReadOrganization
  <2>3. s \in StepRecord /\ Called(s) /\ Known(s)
    BY <1>2, <1>3, <1>7, <2>1, <2>2 DEF StepRecord, Called, Known, ReadOrganization
  <2> QED BY <1>1, <1>2, <1>7, <2>1, <2>3, CallerMoves DEF ReadOrganization
<1> QED BY <1>4, <1>5, <1>6, <1>7

-----------------------------------------------------------------------------
(* Requests and payments. *)

\* The organization and the clock are untouched, and no request behind a scheduled
\* change comes back.
LEMMA StillFrame ==
  ASSUME IInv, org' = org, now' = now, Upheld' => Upheld
  PROVE  Frame
  BY BoundsAssumption DEF IInv, Shape, Frame, OrgFrame, DueFrame

\* The fields of a payment and of the request behind it.
LEMMA PaymentFields ==
  ASSUME IInv, NEW k \in Payments
  PROVE  /\ payments[k] \in PaymentRecord
         /\ payments[k].quote \in QuoteRecord
         /\ payments[k].request \in Requests \cup {None}
         /\ payments[k].status \in {"absent", "pending", "confirmed", "rejected"}
  BY DEF IInv, Shape, PaymentRecord

\* A request for a change of plan is made, with its quote.
LEMMA CreateRequestStep ==
  ASSUME IInv, NEW c \in Callers, NEW r \in Requests, CreateRequest(c, r)
  PROVE  IInv'
<1>1. c \in Processes /\ caller[c] \in StepRecord
  BY DEF Processes, IInv, Shape
<1>2. Quote(caller[c].plan) \in QuoteRecord
  BY <1>1, StepFields, QuoteShape DEF CreateRequest, IInv
<1>3. [status |-> "pending_payment", quote |-> Quote(caller[c].plan)] \in RequestRecord
  BY <1>2 DEF RequestRecord, OpenStatuses
<1>4. requests \in [Requests -> RequestRecord] /\ requests' \in [Requests -> RequestRecord]
      /\ requests'[r].status = "pending_payment" /\ requests[r].status = "absent"
      /\ \A s \in Requests \ {r} : requests'[s] = requests[s]
  BY <1>3 DEF CreateRequest, IInv, Shape
<1>5. \A k, j \in Payments : Single(k, j)' /\ Charged(k)'
  BY <1>4, ChargesKept DEF CreateRequest, Open
<1>6. org \in Subscriptions
  BY DEF IInv, Shape
<1>7. Upheld' => Upheld
  BY <1>4, <1>6, OrgFields DEF CreateRequest, Upheld, NoChange
<1>8. Frame
  BY <1>7, StillFrame DEF CreateRequest
<1>9. caller' \in [Processes -> StepRecord] /\ \A d \in Processes : Called(caller'[d]) /\ Known(caller[d])'
  BY <1>1, <1>8, OneEnds DEF CreateRequest
<1>10. \A p \in periods' : Honoured(p)'
  BY PeriodsKept DEF CreateRequest
<1>11. Stands'
  BY ScheduleKept DEF CreateRequest
<1>12. Shape'
  BY <1>4, <1>9 DEF CreateRequest, IInv, Shape, Graced
<1> QED BY <1>5, <1>9, <1>10, <1>11, <1>12 DEF IInv, Called

\* A request is withdrawn.
LEMMA WithdrawStep ==
  ASSUME IInv, NEW c \in Callers, Withdraw(c)
  PROVE  IInv'
<1>1. c \in Processes /\ caller[c] \in StepRecord
  BY DEF Processes, IInv, Shape
<1>2. PICK r \in Requests : r = caller[c].request
  BY <1>1, StepFields DEF Withdraw
<1>3. requests \in [Requests -> RequestRecord] /\ requests' = [requests EXCEPT ![r].status = "cancelled"]
  BY <1>2 DEF Withdraw, IInv, Shape
<1>4. requests' \in [Requests -> RequestRecord] /\ requests'[r].status = "cancelled"
      /\ \A s \in Requests \ {r} : requests'[s] = requests[s]
  BY <1>3 DEF RequestRecord
<1>5. \A k, j \in Payments : Single(k, j)' /\ Charged(k)'
  BY <1>4, ChargesKept DEF Withdraw, Open
<1>6. org \in Subscriptions
  BY DEF IInv, Shape
<1>7. Upheld' => Upheld
  BY <1>4, <1>6, OrgFields DEF Withdraw, Upheld, NoChange
<1>8. Frame
  BY <1>7, StillFrame DEF Withdraw
<1>9. caller' \in [Processes -> StepRecord] /\ \A d \in Processes : Called(caller'[d]) /\ Known(caller[d])'
  BY <1>1, <1>8, OneEnds DEF Withdraw
<1>10. \A p \in periods' : Honoured(p)'
  BY PeriodsKept DEF Withdraw
<1>11. Stands'
  BY ScheduleKept DEF Withdraw
<1>12. Shape'
  BY <1>4, <1>9 DEF Withdraw, IInv, Shape, Graced
<1> QED BY <1>5, <1>9, <1>10, <1>11, <1>12 DEF IInv, Called

\* A payment is recorded for review.
LEMMA RecordStep ==
  ASSUME IInv, NEW k \in Payments,
         \/ \E r \in Requests : RecordPayment(k, r)
         \/ \E p \in Paid : RecordDirectPayment(k, p)
  PROVE  IInv'
<1>1. payments \in [Payments -> PaymentRecord] /\ requests \in [Requests -> RequestRecord]
      /\ org \in Subscriptions
  BY DEF IInv, Shape
<1>2. payments[k].status = "absent"
  BY DEF RecordPayment, RecordDirectPayment, Unpaid
<1>3. UNCHANGED <<org, periods, caller, now, edits, faults>>
  BY DEF RecordPayment, RecordDirectPayment
<1>4. \E q \in QuoteRecord, r \in Requests \cup {None} :
        payments' = [payments EXCEPT ![k] = [status |-> "pending", request |-> r, quote |-> q]]
  <2>1. ASSUME NEW r \in Requests, RecordPayment(k, r)
        PROVE  requests[r].quote \in QuoteRecord /\ payments' = [payments EXCEPT ![k] =
                 [status |-> "pending", request |-> r, quote |-> requests[r].quote]]
    BY <1>1, <2>1 DEF RecordPayment, RequestRecord
  <2>2. ASSUME NEW p \in Paid, RecordDirectPayment(k, p)
        PROVE  Quote(p) \in QuoteRecord /\ payments' = [payments EXCEPT ![k] =
                 [status |-> "pending", request |-> None, quote |-> Quote(p)]]
    BY <2>2, QuoteShape DEF RecordDirectPayment, IInv
  <2> QED BY <2>1, <2>2
<1>5. PICK q \in QuoteRecord, r \in Requests \cup {None} :
        payments' = [payments EXCEPT ![k] = [status |-> "pending", request |-> r, quote |-> q]]
  BY <1>4
<1>6. /\ payments'[k] = [status |-> "pending", request |-> r, quote |-> q]
      /\ \A j \in Payments \ {k} : payments'[j] = payments[j]
      /\ payments' \in [Payments -> PaymentRecord]
  BY <1>1, <1>5 DEF PaymentRecord
<1>7. ASSUME RecordPayment(k, r), r \in Requests
      PROVE  /\ requests' \in [Requests -> RequestRecord] /\ (Upheld' => Upheld)
             /\ \A j, l \in Payments : Single(j, l)' /\ Charged(j)'
  <2>1. /\ requests' \in [Requests -> RequestRecord]
        /\ requests'[r].status = "payment_submitted" /\ requests[r].status \in {"pending_payment", "payment_submitted"}
        /\ \A s \in Requests \ {r} : requests'[s] = requests[s]
    BY <1>1, <1>7 DEF RecordPayment, RequestRecord, OpenStatuses
  <2>2. ASSUME NEW j \in Payments, payments[j].request = r
        PROVE  payments[j].status \notin {"pending", "confirmed"}
    <3>1. payments[j].status # "pending"
      BY <1>7, <2>2 DEF RecordPayment, NoneUnderReview
    <3>2. payments[j].status # "confirmed"
      BY <1>7, <2>1, <2>2, NoneAssumption DEF IInv, Charged
    <3> QED BY <3>1, <3>2
  <2>3. \A j, l \in Payments : Single(j, l)'
    BY <1>6, <2>2 DEF IInv, Single
  <2>4. \A j \in Payments : Charged(j)'
    BY <1>6, <2>1, PaymentFields DEF IInv, Charged
  <2>5. Upheld' => Upheld
    BY <1>1, <1>3, <2>1, OrgFields DEF Upheld, NoChange
  <2> QED BY <2>1, <2>3, <2>4, <2>5
<1>8. ASSUME \E p \in Paid : RecordDirectPayment(k, p)
      PROVE  /\ requests' \in [Requests -> RequestRecord] /\ (Upheld' => Upheld)
             /\ \A j, l \in Payments : Single(j, l)' /\ Charged(j)'
  <2>1. requests' = requests /\ r = None
    BY <1>1, <1>6, <1>8 DEF RecordDirectPayment
  <2>2. \A j, l \in Payments : Single(j, l)'
    BY <1>6, <2>1 DEF IInv, Single
  <2>3. \A j \in Payments : Charged(j)'
    BY <1>6, <2>1 DEF IInv, Charged
  <2>4. Upheld' => Upheld
    BY <1>3, <2>1 DEF Upheld
  <2> QED BY <1>1, <2>1, <2>2, <2>3, <2>4
<1>9. \/ RecordPayment(k, r) /\ r \in Requests
      \/ \E p \in Paid : RecordDirectPayment(k, p)
  <2>1. ASSUME NEW s \in Requests, RecordPayment(k, s) PROVE s = r
    BY <1>1, <1>6, <2>1 DEF RecordPayment
  <2> QED BY <2>1
<1>10. /\ requests' \in [Requests -> RequestRecord] /\ (Upheld' => Upheld)
       /\ \A j, l \in Payments : Single(j, l)' /\ Charged(j)'
  BY <1>7, <1>8, <1>9
<1>11. Frame
  BY <1>3, <1>10, StillFrame
<1>12. caller' \in [Processes -> StepRecord] /\ \A d \in Processes : Called(caller'[d]) /\ Known(caller[d])'
  BY <1>3, <1>11, NobodyMoves
<1>13. \A p \in periods' : Honoured(p)'
  BY <1>2, <1>3, <1>6, PeriodsKept
<1>14. Stands'
  BY <1>3, ScheduleKept
<1>15. Shape'
  BY <1>3, <1>6, <1>10, <1>12 DEF IInv, Shape, Graced
<1> QED BY <1>10, <1>12, <1>13, <1>14, <1>15 DEF IInv, Called

\* A payment is rejected.
LEMMA RejectStep ==
  ASSUME IInv, NEW k \in Payments, RejectPayment(k)
  PROVE  IInv'
<1> DEFINE r == payments[k].request
           waits == r # None /\ requests[r].status = "payment_submitted"
<1>1. payments \in [Payments -> PaymentRecord] /\ requests \in [Requests -> RequestRecord]
      /\ org \in Subscriptions /\ r \in Requests \cup {None}
  BY PaymentFields DEF IInv, Shape
<1>2. /\ payments' \in [Payments -> PaymentRecord]
      /\ payments[k].status = "pending" /\ payments'[k].status = "rejected"
      /\ payments'[k].request = payments[k].request
      /\ \A j \in Payments \ {k} : payments'[j] = payments[j]
  BY <1>1 DEF RejectPayment, PaymentRecord
<1>3. UNCHANGED <<org, periods, caller, now, edits, faults>>
  BY DEF RejectPayment
<1>4. /\ requests' \in [Requests -> RequestRecord]
      /\ \A s \in Requests :
           \/ requests'[s] = requests[s]
           \/ requests'[s].status = "pending_payment" /\ requests[s].status = "payment_submitted"
  <2>1. CASE waits
    BY <1>1, <2>1 DEF RejectPayment, RequestRecord, OpenStatuses
  <2>2. CASE ~waits
    BY <1>1, <2>2 DEF RejectPayment
  <2> QED BY <2>1, <2>2
<1> HIDE DEF r, waits
<1>5. \A j, l \in Payments : Single(j, l)'
  BY <1>2 DEF IInv, Single
<1>6. \A j \in Payments : Charged(j)'
  <2> SUFFICES ASSUME NEW j \in Payments, payments'[j].status = "confirmed", payments'[j].request # None
               PROVE  requests'[payments'[j].request].status
                        \notin {"absent", "pending_payment", "payment_submitted"}
    BY DEF Charged
  <2>1. j # k /\ payments'[j] = payments[j] /\ payments[j].request \in Requests
    BY <1>2, PaymentFields
  <2>2. requests[payments[j].request].status \notin {"absent", "pending_payment", "payment_submitted"}
    BY <2>1 DEF IInv, Charged
  <2> QED BY <1>4, <2>1, <2>2
<1>7. Upheld' => Upheld
  <2>1. org.scheduled # NoChange => org.scheduled.request \in Requests \cup {None}
    BY <1>1, OrgFields
  <2>2. org.scheduled = NoChange => Upheld
    BY DEF Upheld, NoChange
  <2> QED BY <1>3, <1>4, <2>1, <2>2 DEF Upheld
<1>8. Frame
  BY <1>3, <1>7, StillFrame
<1>9. caller' \in [Processes -> StepRecord] /\ \A d \in Processes : Called(caller'[d]) /\ Known(caller[d])'
  BY <1>3, <1>8, NobodyMoves
<1>10. \A p \in periods' : Honoured(p)'
  BY <1>2, <1>3, PeriodsKept
<1>11. Stands'
  BY <1>3, ScheduleKept
<1>12. Shape'
  BY <1>2, <1>3, <1>4, <1>9 DEF IInv, Shape, Graced
<1> QED BY <1>5, <1>6, <1>9, <1>10, <1>11, <1>12 DEF IInv, Called

\* Payment k, that was under review, is confirmed, and its request gets a status that
\* asks for no payment.
LEMMA Confirmed ==
  ASSUME IInv, NEW k \in Payments, payments[k].status = "pending",
         payments' = [payments EXCEPT ![k].status = "confirmed"],
         NEW st \in {"scheduled", "approved"},
         requests' = IF payments[k].request = None THEN requests
                     ELSE [requests EXCEPT ![payments[k].request].status = st]
  PROVE  /\ payments' \in [Payments -> PaymentRecord] /\ requests' \in [Requests -> RequestRecord]
         /\ payments'[k].status = "confirmed" /\ payments'[k].quote = payments[k].quote
         /\ \A j \in Payments \ {k} : payments'[j] = payments[j]
         /\ \A j, l \in Payments : Single(j, l)' /\ Charged(j)'
<1> DEFINE r == payments[k].request
<1>1. payments \in [Payments -> PaymentRecord] /\ requests \in [Requests -> RequestRecord]
      /\ r \in Requests \cup {None}
  BY PaymentFields DEF IInv, Shape
<1>2. /\ payments' \in [Payments -> PaymentRecord]
      /\ payments'[k].status = "confirmed" /\ payments'[k].quote = payments[k].quote
      /\ payments'[k].request = r
      /\ \A j \in Payments \ {k} : payments'[j] = payments[j]
  BY <1>1 DEF PaymentRecord
<1>3. /\ requests' \in [Requests -> RequestRecord]
      /\ r # None => requests'[r].status = st
      /\ \A s \in Requests : s # r => requests'[s] = requests[s]
  BY <1>1 DEF RequestRecord, OpenStatuses
<1> HIDE DEF r
<1>4. \A j, l \in Payments : Single(j, l)'
  <2> SUFFICES ASSUME NEW j \in Payments, NEW l \in Payments PROVE Single(j, l)'
    OBVIOUS
  <2>1. /\ payments'[j].request = payments[j].request /\ payments'[l].request = payments[l].request
        /\ payments'[j].status \in {"pending", "confirmed"} => payments[j].status \in {"pending", "confirmed"}
        /\ payments'[l].status \in {"pending", "confirmed"} => payments[l].status \in {"pending", "confirmed"}
    BY <1>2 DEF r
  <2> QED BY <2>1 DEF IInv, Single
<1>5. \A j \in Payments : Charged(j)'
  <2> SUFFICES ASSUME NEW j \in Payments, payments'[j].status = "confirmed", payments'[j].request # None
               PROVE  requests'[payments'[j].request].status
                        \notin {"absent", "pending_payment", "payment_submitted"}
    BY DEF Charged
  <2>1. CASE payments'[j].request = r
    BY <1>3, <2>1
  <2>2. CASE payments'[j].request # r
    <3>1. j # k /\ payments'[j] = payments[j] /\ payments[j].request \in Requests
      BY <1>2, <2>2, PaymentFields
    <3>2. requests[payments[j].request].status \notin {"absent", "pending_payment", "payment_submitted"}
      BY <3>1 DEF IInv, Charged
    <3> QED BY <1>3, <2>2, <3>1, <3>2
  <2> QED BY <2>1, <2>2
<1> QED BY <1>2, <1>3, <1>4, <1>5

\* What payment k buys was quoted when it was recorded, for the cycle that still runs.
LEMMA Quoted ==
  ASSUME IInv, NEW k \in Payments, Applicable(payments[k].quote)
  PROVE  LET q == payments[k].quote IN
         /\ q.to \in Paid /\ q.change \in {"new_subscription"} \cup Changes
         /\ q.keeps => q.end = org.end /\ org.end > now /\ q.change \in Changes
<1> DEFINE q == payments[k].quote
<1>1. q \in QuoteRecord /\ org.plan \in Plans
  BY PaymentFields, OrgFields DEF IInv, Shape
<1>2. q.from \in Plans /\ (q.keeps => org.end = q.end /\ org.end > now)
  BY <1>1 DEF Applicable
<1> QED BY <1>1, <1>2, QuoteFields

\* A period that payment k buys, and the payment is confirmed.
LEMMA OneBought ==
  ASSUME IInv, NEW k \in Payments, payments[k].status = "pending",
         payments'[k].status = "confirmed", payments'[k].quote = payments[k].quote,
         \A j \in Payments \ {k} : payments'[j] = payments[j],
         NEW p, periods' = periods \cup {p}, p.by = k,
         LET q == payments[k].quote IN
           q.keeps => IF q.change = "upgrade" THEN p.end = q.end
                      ELSE p.start = q.end /\ p.end = p.start + Cycle
  PROVE  \A o \in periods' : Honoured(o)'
<1> SUFFICES ASSUME NEW o \in periods', o.by \in Payments PROVE Honoured(o)'
  BY DEF Honoured
<1>1. CASE o = p
  BY <1>1 DEF Honoured
<1>2. CASE o \in periods
  <2>1. Honoured(o)
    BY <1>2 DEF IInv
  <2>2. payments'[o.by] = payments[o.by]
    BY <2>1 DEF Honoured
  <2> QED BY <2>1, <2>2 DEF Honoured
<1> QED BY <1>1, <1>2

\* A change is scheduled, or was scheduled already.
LEMMA ScheduledShape ==
  ASSUME org \in Subscriptions, NEW s \in [plan : Paid, at : Nat, request : Requests \cup {None}]
  PROVE  LET o == Scheduling(s) IN
         /\ o \in Subscriptions /\ o.scheduled = s /\ o.end = org.end
         /\ o.status = org.status /\ o.graceEnd = org.graceEnd
         /\ o = org \/ o.revision > org.revision
<1> DEFINE o == Scheduling(s)
<1>1. org.revision \in Nat
  BY OrgFields
<1>2. CASE org.scheduled = s
  BY <1>2 DEF Scheduling
<1>3. CASE org.scheduled # s
  <2>1. o = [plan |-> org.plan, status |-> org.status, end |-> org.end,
             graceEnd |-> org.graceEnd, revision |-> org.revision + 1, scheduled |-> s]
    BY <1>3 DEF Scheduling, Subscriptions
  <2>2. o \in Subscriptions
    BY <1>1, <2>1, OrgFields DEF Subscriptions
  <2> QED BY <1>1, <2>1, <2>2
<1> QED BY <1>2, <1>3

\* A payment for a smaller plan is confirmed: the change is scheduled for the end of the cycle.
LEMMA ConfirmDowngradeStep ==
  ASSUME IInv, NEW k \in Payments, ConfirmDowngrade(k)
  PROVE  IInv'
<1> DEFINE q == payments[k].quote
           r == payments[k].request
           s == [plan |-> q.to, at |-> org.end, request |-> r]
           p == Period(k, q.to, q.change, org.end, org.end + Cycle)
<1>1. /\ payments[k].status = "pending" /\ Applicable(q) /\ q.change = "downgrade"
      /\ org.end > now /\ Schedulable(s) /\ org' = Scheduling(s) /\ periods' = periods \cup {p}
      /\ payments' = [payments EXCEPT ![k].status = "confirmed"]
      /\ requests' = IF r = None THEN requests ELSE [requests EXCEPT ![r].status = "scheduled"]
      /\ UNCHANGED <<caller, now, edits, faults>>
  BY DEF ConfirmDowngrade
<1>2. /\ payments' \in [Payments -> PaymentRecord] /\ requests' \in [Requests -> RequestRecord]
      /\ payments'[k].status = "confirmed" /\ payments'[k].quote = payments[k].quote
      /\ \A j \in Payments \ {k} : payments'[j] = payments[j]
      /\ \A j, l \in Payments : Single(j, l)' /\ Charged(j)'
  BY <1>1, Confirmed
<1>3. /\ org \in Subscriptions /\ org.end \in Nat /\ org.revision \in Nat
      /\ r \in Requests \cup {None} /\ q.to \in Paid
      /\ q.keeps => q.end = org.end
      /\ now \in Nat /\ Cycle \in Nat
  BY <1>1, OrgFields, PaymentFields, Quoted, BoundsAssumption, LengthsAssumption DEF IInv, Shape
<1> HIDE DEF q, r
<1>4. /\ p.by = k /\ p.plan = q.to /\ p.start = org.end /\ p.end = org.end + Cycle
      /\ p.voided = FALSE /\ p \in PeriodRecord
  BY <1>1, <1>3 DEF Period, PeriodRecord, Changes
<1>5. s \in [plan : Paid, at : Nat, request : Requests \cup {None}] /\ s.at = org.end
      /\ s.plan = q.to /\ s # NoChange
  BY <1>3, PlansAssumption, NoneAssumption DEF NoChange, Paid
<1> HIDE DEF s, p
<1>6. /\ org' \in Subscriptions /\ org'.scheduled = s /\ org'.end = org.end
      /\ org'.status = org.status /\ org'.graceEnd = org.graceEnd
      /\ org' = org \/ org'.revision > org.revision
  BY <1>1, <1>3, <1>5, ScheduledShape
<1>7. Frame
  BY <1>1, <1>3, <1>5, <1>6 DEF Frame, OrgFrame, DueFrame
<1>8. caller' \in [Processes -> StepRecord] /\ \A d \in Processes : Called(caller'[d]) /\ Known(caller[d])'
  BY <1>1, <1>7, NobodyMoves
<1>9. \A o \in periods' : Honoured(o)'
  BY <1>1, <1>2, <1>3, <1>4, OneBought DEF q
<1>10. Stands'
  <2>1. p \in Bought'
    BY <1>1, <1>4, <1>5, <1>6 DEF Bought
  <2> QED BY <1>4, <1>5, <1>6, <2>1 DEF Stands, ScheduleStands
<1>11. Shape'
  BY <1>1, <1>2, <1>4, <1>6, <1>8 DEF IInv, Shape, Graced
<1> QED BY <1>2, <1>8, <1>9, <1>10, <1>11 DEF IInv, Called

\* What an activation writes has its types, and a new revision.
LEMMA ActivatedShape ==
  ASSUME org \in Subscriptions, NEW plan \in Plans, NEW end \in Nat
  PROVE  LET o == Activated(plan, end) IN
         /\ o \in Subscriptions /\ o.revision > org.revision /\ o.scheduled = org.scheduled
         /\ o.status = "active" /\ o.end = end
<1> DEFINE o == Activated(plan, end)
<1>1. org.revision \in Nat
  BY OrgFields
<1>2. o = [org EXCEPT !.plan = plan, !.status = "active", !.end = end, !.graceEnd = None,
                      !.revision = @ + 1]
  BY DEF Activated
<1>3. o = [plan |-> plan, status |-> "active", end |-> end, graceEnd |-> None,
           revision |-> org.revision + 1, scheduled |-> org.scheduled]
  BY <1>2 DEF Subscriptions
<1>5. o \in Subscriptions
  BY <1>1, <1>3 DEF Subscriptions, Statuses
<1>4. o.revision = org.revision + 1 /\ o.scheduled = org.scheduled /\ o.status = "active" /\ o.end = end
  BY <1>2 DEF Subscriptions
<1> QED BY <1>1, <1>5, <1>4

\* A payment is confirmed, and the period that it quoted opens.
LEMMA ConfirmPaymentStep ==
  ASSUME IInv, NEW k \in Payments, ConfirmPayment(k)
  PROVE  IInv'
<1> DEFINE q == payments[k].quote
           r == payments[k].request
           midCycle == q.change = "upgrade" /\ q.keeps /\ org.end > now
           end == IF midCycle THEN org.end ELSE StartOf(q) + Cycle
           p == Period(k, q.to, q.change, StartOf(q), end)
<1>1. /\ payments[k].status = "pending" /\ Applicable(q)
      /\ ~(q.change = "downgrade" /\ org.end > now) /\ NothingScheduled
      /\ org' = Activated(q.to, end) /\ periods' = periods \cup {p}
      /\ payments' = [payments EXCEPT ![k].status = "confirmed"]
      /\ requests' = IF r = None THEN requests ELSE [requests EXCEPT ![r].status = "approved"]
      /\ UNCHANGED <<caller, now, edits, faults>>
  BY DEF ConfirmPayment
<1>2. /\ payments' \in [Payments -> PaymentRecord] /\ requests' \in [Requests -> RequestRecord]
      /\ payments'[k].status = "confirmed" /\ payments'[k].quote = payments[k].quote
      /\ \A j \in Payments \ {k} : payments'[j] = payments[j]
      /\ \A j, l \in Payments : Single(j, l)' /\ Charged(j)'
  BY <1>1, Confirmed
<1>3. /\ org \in Subscriptions /\ org.end \in Nat
      /\ q.to \in Paid /\ q.to \in Plans /\ q.change \in {"new_subscription"} \cup Changes
      /\ q.keeps \in BOOLEAN
      /\ q.keeps => q.end = org.end /\ org.end > now /\ q.change \in Changes
      /\ now \in Nat /\ Cycle \in Nat
  BY <1>1, OrgFields, PaymentFields, QuoteFields, Quoted, BoundsAssumption, LengthsAssumption DEF IInv, Shape, Paid
<1> HIDE DEF q, r
<1>4. /\ StartOf(q) \in Nat /\ end \in Nat
      /\ q.keeps => IF q.change = "upgrade" THEN end = q.end
                    ELSE StartOf(q) = q.end /\ end = StartOf(q) + Cycle
  BY <1>1, <1>3 DEF StartOf, Changes
<1>5. /\ p.by = k /\ p.start = StartOf(q) /\ p.end = end /\ p \in PeriodRecord
  BY <1>3, <1>4 DEF Period, PeriodRecord, Changes
<1> HIDE DEF p
<1>6. /\ org' \in Subscriptions /\ org'.revision > org.revision /\ org'.scheduled = NoChange
      /\ org'.status = "active"
  BY <1>1, <1>3, <1>4, ActivatedShape DEF NothingScheduled
<1>7. Frame
  BY <1>1, <1>3, <1>6 DEF Frame, OrgFrame, DueFrame
<1>8. caller' \in [Processes -> StepRecord] /\ \A d \in Processes : Called(caller'[d]) /\ Known(caller[d])'
  BY <1>1, <1>7, NobodyMoves
<1>9. \A o \in periods' : Honoured(o)'
  BY <1>1, <1>2, <1>4, <1>5, OneBought DEF q
<1>10. Stands'
  BY <1>6, NothingStands
<1>11. Shape'
  BY <1>1, <1>2, <1>5, <1>6, <1>8 DEF IInv, Shape, Graced
<1> QED BY <1>2, <1>8, <1>9, <1>10, <1>11 DEF IInv, Called

-----------------------------------------------------------------------------
(* The scheduled change and the boundary. *)

\* A scheduled change is cancelled.
LEMMA CancelScheduledStep ==
  ASSUME IInv, CancelScheduledChange
  PROVE  IInv'
<1> DEFINE r == org.scheduled.request
<1>1. /\ org \in Subscriptions /\ org.revision \in Nat /\ requests \in [Requests -> RequestRecord]
      /\ org.scheduled # NoChange /\ r \in Requests \cup {None} /\ now \in Nat
  BY OrgFields, BoundsAssumption DEF IInv, Shape, CancelScheduledChange
<1>2. /\ r # None => requests[r].status = "scheduled"
      /\ org' = Unscheduled
      /\ requests' = IF r = None THEN requests ELSE [requests EXCEPT ![r].status = "cancelled"]
      /\ UNCHANGED <<payments, caller, now, edits, faults>>
  BY DEF CancelScheduledChange
<1>3. org' = [plan |-> org.plan, status |-> org.status, end |-> org.end,
              graceEnd |-> org.graceEnd, revision |-> org.revision + 1, scheduled |-> NoChange]
  BY <1>1, <1>2 DEF Unscheduled, Subscriptions
<1>4. org' \in Subscriptions
  BY <1>1, <1>3, OrgFields DEF Subscriptions
<1> HIDE DEF r
<1>5. /\ requests' \in [Requests -> RequestRecord]
      /\ \A q \in Requests : requests'[q].status \in Open => requests[q].status \in Open
  BY <1>1, <1>2 DEF RequestRecord, Open
<1>6. /\ periods' \subseteq PeriodRecord
      /\ \A p \in periods' : \E o \in periods : p.by = o.by /\ p.start = o.start /\ p.end = o.end
  <2>1. CASE UNCHANGED periods
    BY <2>1 DEF IInv, Shape
  <2>2. ASSUME NEW p \in Bought, periods' = (periods \ {p}) \cup {[p EXCEPT !.voided = TRUE]}
        PROVE  <1>6!1 /\ <1>6!2
    <3>1. p \in periods /\ p \in PeriodRecord
      BY DEF Bought, IInv, Shape
    <3>2. /\ [p EXCEPT !.voided = TRUE] \in PeriodRecord
          /\ [p EXCEPT !.voided = TRUE].by = p.by /\ [p EXCEPT !.voided = TRUE].start = p.start
          /\ [p EXCEPT !.voided = TRUE].end = p.end
      BY <3>1 DEF PeriodRecord
    <3> QED BY <2>2, <3>1, <3>2 DEF IInv, Shape
  <2> QED BY <2>1, <2>2 DEF CancelScheduledChange
<1>7. Frame
  BY <1>1, <1>2, <1>3, <1>4 DEF Frame, OrgFrame, DueFrame
<1>8. caller' \in [Processes -> StepRecord] /\ \A d \in Processes : Called(caller'[d]) /\ Known(caller[d])'
  BY <1>2, <1>7, NobodyMoves
<1>9. \A p \in periods' : Honoured(p)'
  BY <1>2, <1>6, PeriodsKept
<1>10. Stands'
  BY <1>3, NothingStands
<1>11. \A k, j \in Payments : Single(k, j)' /\ Charged(k)'
  BY <1>2, <1>5, ChargesKept
<1>12. Shape'
  BY <1>2, <1>3, <1>4, <1>5, <1>6, <1>8 DEF IInv, Shape, Graced
<1> QED BY <1>8, <1>9, <1>10, <1>11, <1>12 DEF IInv, Called

\* A worker applies a change that is due.
LEMMA ApplyDueStep ==
  ASSUME IInv, NEW c \in Workers, ApplyDueChange(c)
  PROVE  IInv'
<1> DEFINE r == org.scheduled.request
<1>1. /\ org \in Subscriptions /\ org.revision \in Nat /\ requests \in [Requests -> RequestRecord]
      /\ org.scheduled # NoChange /\ r \in Requests \cup {None} /\ now \in Nat
      /\ org.scheduled.plan \in Plans /\ org.scheduled.at \in Nat /\ Cycle \in Nat
      /\ c \in Processes /\ caller[c] \in StepRecord /\ Known(caller[c])
  BY OrgFields, BoundsAssumption, LengthsAssumption DEF IInv, Shape, ApplyDueChange, Due, Processes, Paid
<1>2. /\ r # None => requests[r].status \in {"scheduled", "applied"}
      /\ org' = Applied
      /\ requests' = IF r = None THEN requests ELSE [requests EXCEPT ![r].status = "applied"]
      /\ caller[c].op = "due" /\ Running(c, [op |-> "read", at |-> caller[c].at])
      /\ UNCHANGED <<periods, payments, now, edits, faults>>
  BY DEF ApplyDueChange, Upheld
<1>3. org' = [plan |-> org.scheduled.plan, status |-> "active", end |-> org.scheduled.at + Cycle,
              graceEnd |-> None, revision |-> org.revision + 1, scheduled |-> NoChange]
  BY <1>1, <1>2 DEF Applied, Subscriptions
<1>4. org' \in Subscriptions
  BY <1>1, <1>3 DEF Subscriptions, Statuses
<1> HIDE DEF r
<1>5. /\ requests' \in [Requests -> RequestRecord]
      /\ \A q \in Requests : requests'[q].status \in Open => requests[q].status \in Open
  BY <1>1, <1>2 DEF RequestRecord, Open
<1>6. Frame
  BY <1>1, <1>2, <1>3, <1>4 DEF Frame, OrgFrame, DueFrame
<1>7. PICK s : s = [op |-> "read", at |-> caller[c].at]
  OBVIOUS
<1>8. s \in StepRecord /\ Called(s) /\ Known(s)'
  <2>1. s.at \in Nat /\ s.at <= now
    BY <1>1, <1>2, <1>7, StepFields DEF Known
  <2>2. s \in StepRecord /\ Called(s)
    BY <1>7, <2>1 DEF StepRecord, Called
  <2> QED BY <1>2, <1>3, <1>7, <2>1, <2>2 DEF Known
<1>9. caller' \in [Processes -> StepRecord] /\ \A d \in Processes : Called(caller'[d]) /\ Known(caller[d])'
  BY <1>1, <1>2, <1>6, <1>7, <1>8, OneMoves
<1>10. \A p \in periods' : Honoured(p)'
  BY <1>2, PeriodsKept
<1>11. Stands'
  BY <1>3, NothingStands
<1>12. \A k, j \in Payments : Single(k, j)' /\ Charged(k)'
  BY <1>2, <1>5, ChargesKept
<1>13. Shape'
  BY <1>2, <1>3, <1>4, <1>5, <1>9 DEF IInv, Shape, Graced
<1> QED BY <1>9, <1>10, <1>11, <1>12, <1>13 DEF IInv, Called

\* A step that writes nothing of the organization but its status, its end of grace and
\* its revision.
StatusWritten ==
  /\ org' \in Subscriptions /\ org'.end = org.end /\ org'.scheduled = org.scheduled
  /\ Graced(org')
  /\ OrgFrame
  /\ UNCHANGED <<periods, requests, payments, now, edits, faults>>

\* The status alone is written.
LEMMA StatusStep ==
  ASSUME IInv, StatusWritten, NEW c \in Processes, Running(c, Idle)
  PROVE  IInv'
<1>1. Frame
  BY BoundsAssumption DEF IInv, Shape, StatusWritten, Frame, DueFrame, Upheld
<1>2. caller' \in [Processes -> StepRecord] /\ \A d \in Processes : Called(caller'[d]) /\ Known(caller[d])'
  BY <1>1, OneEnds
<1>3. \A p \in periods' : Honoured(p)'
  BY PeriodsKept DEF StatusWritten
<1>4. Stands'
  BY ScheduleKept DEF StatusWritten
<1>5. \A k, j \in Payments : Single(k, j)' /\ Charged(k)'
  BY ChargesKept DEF StatusWritten
<1>6. Shape'
  BY <1>2 DEF IInv, Shape, StatusWritten, Graced
<1> QED BY <1>2, <1>3, <1>4, <1>5, <1>6 DEF IInv, Called

\* What a worker writes when it crosses the boundary of what it read.
LEMMA CrossedShape ==
  ASSUME NEW s \in Subscriptions, NEW t \in Nat
  PROVE  LET to == Crossed(s, t) IN
         /\ to.status \in {"grace", "expired"} /\ to.graceEnd \in Nat \cup {None}
         /\ to.status = "grace" => to.graceEnd \in Nat /\ to.graceEnd >= s.end
<1>1. s.end \in Nat /\ Grace(s.plan) \in Nat
  BY OrgFields, LengthsAssumption DEF Grace
<1>2. GraceEnd(s, t) \in Nat /\ GraceEnd(s, t) >= s.end
  BY <1>1 DEF GraceEnd
<1> QED BY <1>2 DEF Crossed

\* A worker takes a tenant over the end of its cycle or its grace.
LEMMA CrossStep ==
  ASSUME IInv, NEW c \in Workers, Cross(c)
  PROVE  IInv'
<1>1. /\ c \in Processes /\ caller[c] \in StepRecord
      /\ org \in Subscriptions /\ org.revision \in Nat
      /\ Graced(org)
  BY OrgFields DEF IInv, Shape, Processes
<1> DEFINE s == caller[c].read
           t == caller[c].at
           to == Crossed(s, t)
<1>2. s \in Subscriptions /\ t \in Nat
  BY <1>1, StepFields DEF Cross
<1>3. /\ to.status \in {"grace", "expired"} /\ to.graceEnd \in Nat \cup {None}
      /\ to.status = "grace" => to.graceEnd \in Nat /\ to.graceEnd >= s.end
  BY <1>2, CrossedShape
<1>4. /\ UNCHANGED <<periods, requests, payments, now, edits, faults>> /\ Running(c, Idle)
      /\ \/ org' = org
         \/ /\ Careful => s = org
            /\ org' = [org EXCEPT !.status = to.status, !.graceEnd = to.graceEnd, !.revision = @ + 1]
  <2>1. Known(caller[c])
    BY <1>1 DEF IInv
  <2> QED BY <2>1 DEF Cross, Known, Unchanged
<1> HIDE DEF s, t, to
<1>5. CASE org' = org
  BY <1>1, <1>4, <1>5, StatusStep DEF StatusWritten, OrgFrame, Graced
<1>6. CASE /\ Careful => s = org
           /\ org' = [org EXCEPT !.status = to.status, !.graceEnd = to.graceEnd, !.revision = @ + 1]
  <2>1. org' = [plan |-> org.plan, status |-> to.status, end |-> org.end, graceEnd |-> to.graceEnd,
                revision |-> org.revision + 1, scheduled |-> org.scheduled]
    BY <1>1, <1>6 DEF Subscriptions
  <2>2. org' \in Subscriptions
    BY <1>1, <1>3, <2>1 DEF Subscriptions, Statuses
  <2>3. StatusWritten
    BY <1>1, <1>3, <1>4, <2>1, <2>2 DEF StatusWritten, OrgFrame, Graced
  <2> QED BY <1>1, <1>4, <2>3, StatusStep
<1> QED BY <1>4, <1>5, <1>6

\* A caller saves what it made of an organization it read before.
LEMMA SaveStep ==
  ASSUME IInv, NEW c \in Callers, Save(c)
  PROVE  IInv'
<1>1. /\ c \in Processes /\ caller[c] \in StepRecord /\ Called(caller[c])
      /\ org \in Subscriptions
      /\ Graced(org)
  BY DEF IInv, Shape, Processes
<1> DEFINE status == IF caller[c].to = caller[c].read.status THEN org.status ELSE caller[c].to
           revision == caller[c].read.revision + 1
<1>2. /\ status \in Statuses /\ revision \in Nat
      /\ status = "grace" => org.status = "grace"
  BY <1>1, StepFields, OrgFields DEF Save, Statuses
<1>3. /\ UNCHANGED <<periods, requests, payments, now, edits, faults>> /\ Running(c, Idle)
      /\ org' = [org EXCEPT !.status = status, !.revision = revision]
  BY DEF Save
<1> HIDE DEF status, revision
<1>4. org' = [plan |-> org.plan, status |-> status, end |-> org.end, graceEnd |-> org.graceEnd,
              revision |-> revision, scheduled |-> org.scheduled]
  BY <1>1, <1>3 DEF Subscriptions
<1>5. org' \in Subscriptions
  BY <1>1, <1>2, <1>4 DEF Subscriptions
<1>6. ~Careful
  BY <1>1 DEF Called, Careful, Save
<1>7. StatusWritten
  BY <1>1, <1>2, <1>3, <1>4, <1>5, <1>6 DEF StatusWritten, OrgFrame, Graced
<1> QED BY <1>1, <1>3, <1>7, StatusStep

-----------------------------------------------------------------------------
(* Administrators, and the clock. *)

\* An administrator changes a trial.
LEMMA TrialStep ==
  ASSUME IInv, NEW end \in now .. now + Cycle,
         \/ ManageTenantTrial("trialing", end) \/ ManageTenantTrial("expired", end)
         \/ ChangeTenantSubscription(end)
  PROVE  IInv'
<1>1. /\ org \in Subscriptions /\ now \in Nat /\ Cycle \in Nat /\ end \in Nat
      /\ edits \in 0 .. MaxEdits /\ MaxEdits \in Nat
  BY BoundsAssumption, LengthsAssumption DEF IInv, Shape
<1>2. /\ ~Careful /\ org.scheduled = NoChange
      /\ edits < MaxEdits /\ edits' = edits + 1
      /\ UNCHANGED <<periods, requests, payments, caller, now, faults>>
  BY DEF Careful, ManageTenantTrial, ChangeTenantSubscription
<1>3. \E plan \in Plans, status \in {"trialing", "expired"}, graceEnd \in Nat \cup {None} :
        org' = [org EXCEPT !.plan = plan, !.status = status, !.end = end, !.graceEnd = graceEnd]
  <2>1. org.graceEnd \in Nat \cup {None} /\ org.plan \in Plans /\ Trial \in Plans
    BY <1>1, OrgFields, PlansAssumption
  <2>2. CASE ChangeTenantSubscription(end)
    BY <2>1, <2>2 DEF ChangeTenantSubscription
  <2>3. ASSUME NEW status \in {"trialing", "expired"}, ManageTenantTrial(status, end)
        PROVE  <1>3!:
    <3>1. org' = [org EXCEPT !.status = status, !.end = end,
                             !.graceEnd = IF status = "trialing" THEN None ELSE org.graceEnd]
      BY <2>3 DEF ManageTenantTrial
    <3>2. org' = [org EXCEPT !.plan = org.plan, !.status = status, !.end = end,
                             !.graceEnd = IF status = "trialing" THEN None ELSE org.graceEnd]
      BY <1>1, <3>1 DEF Subscriptions
    <3> QED BY <2>1, <3>2
  <2> QED BY <2>2, <2>3
<1>4. PICK plan \in Plans, status \in {"trialing", "expired"}, graceEnd \in Nat \cup {None} :
        org' = [org EXCEPT !.plan = plan, !.status = status, !.end = end, !.graceEnd = graceEnd]
  BY <1>3
<1>5. org' = [plan |-> plan, status |-> status, end |-> end, graceEnd |-> graceEnd,
              revision |-> org.revision, scheduled |-> org.scheduled]
  BY <1>1, <1>4 DEF Subscriptions
<1>6. org' \in Subscriptions
  BY <1>1, <1>5 DEF Subscriptions, Statuses
<1>7. Frame
  BY <1>1, <1>2, <1>5, <1>6 DEF Frame, OrgFrame, DueFrame
<1>8. caller' \in [Processes -> StepRecord] /\ \A d \in Processes : Called(caller'[d]) /\ Known(caller[d])'
  BY <1>2, <1>7, NobodyMoves
<1>9. \A p \in periods' : Honoured(p)'
  BY <1>2, PeriodsKept
<1>10. Stands'
  BY <1>2, <1>5, NothingStands
<1>11. \A k, j \in Payments : Single(k, j)' /\ Charged(k)'
  BY <1>2, ChargesKept
<1>12. Shape'
  BY <1>1, <1>2, <1>5, <1>6, <1>8 DEF IInv, Shape, Graced
<1> QED BY <1>8, <1>9, <1>10, <1>11, <1>12 DEF IInv, Called

\* A period that is given away.
LEMMA OneGiven ==
  ASSUME IInv, NEW g \in Grants, NEW p, p.by = g, periods' = periods \cup {p}, payments' = payments
  PROVE  \A o \in periods' : Honoured(o)'
<1>1. p.by \notin Payments
  BY ReferencesAssumption
<1>2. \A o \in periods' : o.by \in Payments => o \in periods
  BY <1>1
<1> QED BY <1>2, PeriodsKept

\* An administrator schedules a smaller plan without a charge.
LEMMA ScheduleDowngradeStep ==
  ASSUME IInv, NEW c \in Callers, NEW g \in Grants, ScheduleDowngrade(c, g)
  PROVE  IInv'
<1>1. /\ c \in Processes /\ caller[c] \in StepRecord /\ Called(caller[c])
      /\ org \in Subscriptions /\ now \in Nat /\ Cycle \in Nat
  BY BoundsAssumption, LengthsAssumption DEF IInv, Shape, Processes
<1>2. PICK s : s = [plan |-> caller[c].plan, at |-> caller[c].at, request |-> None]
  OBVIOUS
<1>3. s \in [plan : Paid, at : Nat, request : Requests \cup {None}] /\ s # NoChange
  BY <1>1, <1>2, StepFields, PlansAssumption, NoneAssumption DEF ScheduleDowngrade, NoChange, Paid
<1>4. PICK p : p = Period(g, s.plan, "downgrade", s.at, s.at + Cycle)
  OBVIOUS
<1>5. p \in PeriodRecord /\ p.by = g
  BY <1>1, <1>3, <1>4 DEF Period, PeriodRecord, Changes
<1>6. /\ Schedulable(s) /\ org' = Scheduling(s) /\ periods' = periods \cup {p} /\ Running(c, Idle)
      /\ UNCHANGED <<requests, payments, now, edits, faults>>
  BY <1>2, <1>4 DEF ScheduleDowngrade
<1>7. ~Careful /\ ~BoundaryKept
  BY <1>1 DEF Called, Careful, BoundaryKept, ScheduleDowngrade
<1>8. /\ org' \in Subscriptions /\ org'.scheduled = s /\ org'.end = org.end
      /\ org'.status = org.status /\ org'.graceEnd = org.graceEnd
  BY <1>1, <1>3, <1>6, ScheduledShape
<1>9. Frame
  BY <1>1, <1>6, <1>7, <1>8 DEF Frame, OrgFrame, DueFrame, Schedulable
<1>10. caller' \in [Processes -> StepRecord] /\ \A d \in Processes : Called(caller'[d]) /\ Known(caller[d])'
  BY <1>1, <1>6, <1>9, OneEnds
<1>11. \A o \in periods' : Honoured(o)'
  BY <1>5, <1>6, OneGiven
<1>12. Stands'
  BY <1>7 DEF Stands, BoundaryKept
<1>13. \A k, j \in Payments : Single(k, j)' /\ Charged(k)'
  BY <1>6, ChargesKept
<1>14. Shape'
  BY <1>5, <1>6, <1>8, <1>10 DEF IInv, Shape, Graced
<1> QED BY <1>10, <1>11, <1>12, <1>13, <1>14 DEF IInv, Called

\* An administrator sets the plan.
LEMMA OverrideStep ==
  ASSUME IInv, NEW g \in Grants, NEW plan \in Paid, OverridePlan(g, plan)
  PROVE  IInv'
<1>1. /\ org \in Subscriptions /\ org.end \in Nat /\ now \in Nat /\ Cycle \in Nat /\ plan \in Plans
      /\ edits \in 0 .. MaxEdits /\ MaxEdits \in Nat
  BY OrgFields, BoundsAssumption, LengthsAssumption DEF IInv, Shape, Paid
<1>2. PICK end \in Nat : end = KeptCycle
  BY <1>1 DEF KeptCycle
<1>3. PICK p : p = Period(g, plan, "override", now, end)
  OBVIOUS
<1>4. p \in PeriodRecord /\ p.by = g
  BY <1>1, <1>3 DEF Period, PeriodRecord
<1>5. /\ org.scheduled = NoChange /\ org' = Activated(plan, end)
      /\ edits < MaxEdits /\ edits' = edits + 1
      /\ periods' = periods \/ periods' = periods \cup {p}
      /\ UNCHANGED <<requests, payments, caller, now, faults>>
  BY <1>2, <1>3 DEF OverridePlan
<1>6. /\ org' \in Subscriptions /\ org'.scheduled = NoChange /\ org'.status = "active"
      /\ org'.revision > org.revision
  BY <1>1, <1>5, ActivatedShape
<1>7. Frame
  BY <1>1, <1>5, <1>6 DEF Frame, OrgFrame, DueFrame
<1>8. caller' \in [Processes -> StepRecord] /\ \A d \in Processes : Called(caller'[d]) /\ Known(caller[d])'
  BY <1>5, <1>7, NobodyMoves
<1>9. \A o \in periods' : Honoured(o)'
  BY <1>4, <1>5, OneGiven, PeriodsKept
<1>10. Stands'
  BY <1>6, NothingStands
<1>11. \A k, j \in Payments : Single(k, j)' /\ Charged(k)'
  BY <1>5, ChargesKept
<1>12. Shape'
  BY <1>1, <1>4, <1>5, <1>6, <1>8 DEF IInv, Shape, Graced
<1> QED BY <1>8, <1>9, <1>10, <1>11, <1>12 DEF IInv, Called

\* Time passes.
LEMMA TickStep ==
  ASSUME IInv, Tick
  PROVE  IInv'
<1>1. /\ now \in 0 .. MaxTime /\ MaxTime \in Nat /\ now < MaxTime /\ now' = now + 1
      /\ UNCHANGED <<org, periods, requests, payments, caller, edits, faults>>
  BY BoundsAssumption DEF IInv, Shape, Tick
<1>2. Frame
  BY <1>1 DEF IInv, Shape, Frame, OrgFrame, DueFrame, Upheld
<1>3. caller' \in [Processes -> StepRecord] /\ \A d \in Processes : Called(caller'[d]) /\ Known(caller[d])'
  BY <1>1, <1>2, NobodyMoves
<1>4. \A p \in periods' : Honoured(p)'
  BY <1>1, PeriodsKept
<1>5. Stands'
  BY <1>1, ScheduleKept
<1>6. \A k, j \in Payments : Single(k, j)' /\ Charged(k)'
  BY <1>1, ChargesKept
<1>7. Shape'
  BY <1>1, <1>3 DEF IInv, Shape, Graced
<1> QED BY <1>3, <1>4, <1>5, <1>6, <1>7 DEF IInv, Called

-----------------------------------------------------------------------------
(* The theorems. *)

\* A tenant starts with the invariant.
LEMMA InitHolds == Init => IInv
<1> SUFFICES ASSUME Init PROVE IInv
  OBVIOUS
<1>1. PICK p \in Plans :
        /\ org = [plan |-> p, status |-> IF p = Trial THEN "trialing" ELSE "active",
                  end |-> Cycle, graceEnd |-> None, revision |-> 0, scheduled |-> NoChange]
        /\ periods = IF p = Trial THEN {}
                     ELSE {[by |-> None, plan |-> p, change |-> "new_subscription",
                            start |-> 0, end |-> Cycle, voided |-> FALSE]}
  BY DEF Init
<1>2. org \in Subscriptions /\ org.status # "grace" /\ org.scheduled = NoChange
  BY <1>1, LengthsAssumption DEF Subscriptions, Statuses
<1>3. periods \subseteq PeriodRecord /\ \A o \in periods : o.by = None
  <2>1. CASE p = Trial
    BY <1>1, <2>1
  <2>2. CASE p # Trial
    BY <1>1, <2>2, LengthsAssumption DEF PeriodRecord, Paid
  <2> QED BY <2>1, <2>2
<1>4. requests \in [Requests -> RequestRecord]
  BY DEF Init, Absent, RequestRecord, QuoteRecord
<1>5. /\ payments \in [Payments -> PaymentRecord]
      /\ \A k \in Payments : payments[k].status = "absent" /\ payments[k].request = None
  BY DEF Init, Unpaid, PaymentRecord, QuoteRecord
<1>6. caller \in [Processes -> StepRecord] /\ \A c \in Processes : caller[c] = Idle
  BY DEF Init, StepRecord
<1>7. Shape
  BY <1>2, <1>3, <1>4, <1>5, <1>6, BoundsAssumption DEF Init, Shape, Graced
<1>8. \A k, j \in Payments : Single(k, j) /\ Charged(k)
  BY <1>5 DEF Single, Charged
<1>9. \A o \in periods : Honoured(o)
  BY <1>3, NoneAssumption DEF Honoured
<1>10. Stands
  BY <1>2 DEF Stands, ScheduleStands
<1>11. \A c \in Processes : Called(caller[c]) /\ Known(caller[c])
  BY <1>6 DEF Called, Known, Idle
<1> QED BY <1>7, <1>8, <1>9, <1>10, <1>11 DEF IInv

\* A step of Next, by what the lemmas say of it.
LEMMA Steps ==
  ASSUME Next
  PROVE  \/ \E c \in Callers :
              \/ \E p \in Paid : AskForPlan(c, p) \/ PrepareDowngrade(c, p)
              \/ \E r \in Requests : AskToWithdraw(c, r)
              \/ CancelSubscription(c)
              \/ \E to \in {"active", "cancel_at_period_end"} : SetCancellation(c, to)
              \/ GiveUp(c)
         \/ \E c \in Callers, r \in Requests : CreateRequest(c, r)
         \/ \E c \in Callers : Withdraw(c) \/ Save(c)
         \/ \E k \in Payments : \/ \E r \in Requests : RecordPayment(k, r)
                                \/ \E p \in Paid : RecordDirectPayment(k, p)
         \/ \E k \in Payments : RejectPayment(k) \/ ConfirmDowngrade(k) \/ ConfirmPayment(k)
         \/ CancelScheduledChange
         \/ \E c \in Workers : Reconcile(c) \/ PassDueChange(c) \/ DueChangeFails(c) \/ ReadOrganization(c)
         \/ \E c \in Workers : ApplyDueChange(c) \/ Cross(c)
         \/ \E end \in now .. now + Cycle :
              \/ ManageTenantTrial("trialing", end) \/ ManageTenantTrial("expired", end)
              \/ ChangeTenantSubscription(end)
         \/ \E c \in Callers, g \in Grants : ScheduleDowngrade(c, g)
         \/ \E g \in Grants, p \in Paid : OverridePlan(g, p)
         \/ Tick
<1>1. CASE RequestStep
  BY <1>1 DEF RequestStep
<1>2. CASE PaymentStep
  BY <1>2 DEF PaymentStep
<1>3. CASE EditStep
  BY <1>3 DEF EditStep
<1>4. CASE \E w \in Workers : Reconcile(w) \/ ReconcileStep(w)
  BY <1>4 DEF ReconcileStep
<1> QED BY <1>1, <1>2, <1>3, <1>4 DEF Next

\* The steps that write nothing of the organization.
LEMMA Quiet ==
  ASSUME \/ \E c \in Callers :
              \/ \E p \in Paid : AskForPlan(c, p) \/ PrepareDowngrade(c, p)
              \/ \E r \in Requests : AskToWithdraw(c, r)
              \/ CancelSubscription(c)
              \/ \E to \in {"active", "cancel_at_period_end"} : SetCancellation(c, to)
              \/ GiveUp(c)
         \/ \E c \in Callers, r \in Requests : CreateRequest(c, r)
         \/ \E c \in Callers : Withdraw(c)
         \/ \E k \in Payments : \/ \E r \in Requests : RecordPayment(k, r)
                                \/ \E p \in Paid : RecordDirectPayment(k, p)
         \/ \E k \in Payments : RejectPayment(k)
         \/ \E c \in Workers : Reconcile(c) \/ PassDueChange(c) \/ DueChangeFails(c) \/ ReadOrganization(c)
         \/ Tick
  PROVE  UNCHANGED org
  BY DEF AskForPlan, PrepareDowngrade, AskToWithdraw, CreateRequest, CancelSubscription,
         SetCancellation, GiveUp, Withdraw, RecordPayment, RecordDirectPayment, RejectPayment,
         Reconcile, PassDueChange, DueChangeFails, ReadOrganization, Tick

\* A step that changes nothing.
LEMMA StillHolds == IInv /\ UNCHANGED vars => IInv'
<1> SUFFICES ASSUME IInv, UNCHANGED vars PROVE IInv'
  OBVIOUS
<1>1. UNCHANGED <<org, periods, requests, payments, caller, now, edits, faults>>
  BY DEF vars
<1>2. Frame
  BY <1>1, BoundsAssumption DEF IInv, Shape, Frame, OrgFrame, DueFrame, Upheld
<1>3. caller' \in [Processes -> StepRecord] /\ \A d \in Processes : Called(caller'[d]) /\ Known(caller[d])'
  BY <1>1, <1>2, NobodyMoves
<1>4. \A p \in periods' : Honoured(p)'
  BY <1>1, PeriodsKept
<1>5. Stands'
  BY <1>1, ScheduleKept
<1>6. \A k, j \in Payments : Single(k, j)' /\ Charged(k)'
  BY <1>1, ChargesKept
<1>7. Shape'
  BY <1>1 DEF IInv, Shape, Graced
<1> QED BY <1>3, <1>4, <1>5, <1>6, <1>7 DEF IInv, Called

\* The inductive invariant, under every operation.
THEOREM Inductive == Spec => []IInv
<1>1. IInv /\ [Next]_vars => IInv'
  <2>1. IInv /\ Next => IInv'
    BY Steps, BeginStep, CreateRequestStep, WithdrawStep, SaveStep, RecordStep, RejectStep,
       ConfirmDowngradeStep, ConfirmPaymentStep, CancelScheduledStep, WorkerStep, ApplyDueStep,
       CrossStep, TrialStep, ScheduleDowngradeStep, OverrideStep, TickStep
  <2> QED BY <2>1, StillHolds
<1> QED BY <1>1, InitHolds, PTL DEF Spec

\* Every document keeps the shape that its schema declares, and a subscription in grace has
\* an end of grace.
THEOREM TypeCorrect == Spec => []TypeOK
<1>1. IInv => TypeOK
  <2> SUFFICES ASSUME IInv PROVE TypeOK
    OBVIOUS
  <2>1. QuoteRecord \subseteq Quotes
    <3> SUFFICES ASSUME NEW q \in QuoteRecord PROVE q \in Quotes
      OBVIOUS
    <3>1. CASE q = NoQuote
      BY <3>1 DEF NoQuote, Quotes
    <3>2. CASE q \in [from : Plans, to : Paid, change : {"new_subscription"}, end : {None}, keeps : {FALSE}]
      BY <3>2 DEF Quotes, Paid
    <3>3. CASE q \in [from : Plans, to : Paid, change : Changes, end : Nat, keeps : {TRUE}]
      BY <3>3 DEF Quotes, Paid, Changes
    <3> QED BY <3>1, <3>2, <3>3 DEF QuoteRecord
  <2>2. requests \in [Requests -> [status : {"absent", "approved", "applied", "cancelled"} \cup OpenStatuses,
                                   quote : Quotes]]
    BY <2>1 DEF IInv, Shape, RequestRecord
  <2>3. payments \in [Payments -> [status : {"absent", "pending", "confirmed", "rejected"},
                                   request : Requests \cup {None}, quote : Quotes]]
    BY <2>1 DEF IInv, Shape, PaymentRecord
  <2>4. periods \subseteq [by : Payments \cup Grants \cup {None}, plan : Paid,
                           change : {"new_subscription", "renewal", "downgrade", "upgrade", "override"},
                           start : Nat, end : Nat, voided : BOOLEAN]
    BY DEF IInv, Shape, PeriodRecord, Changes
  <2>5. DOMAIN caller = Processes
    BY DEF IInv, Shape
  <2> QED BY <2>2, <2>3, <2>4, <2>5 DEF IInv, Shape, TypeOK, Graced
<1> QED BY <1>1, Inductive, PTL

\* What a payment bought is what its quote said, however long it waited for its review and
\* whatever else was called, and no change request is charged twice.
THEOREM QuotesAlwaysHonoured == Spec => []QuoteHonoured
<1>1. IInv => QuoteHonoured
  <2> SUFFICES ASSUME IInv PROVE QuoteHonoured
    OBVIOUS
  <2>1. ASSUME NEW k \in Payments, NEW p \in periods, p.by = k, payments[k].quote.keeps
        PROVE  IF payments[k].quote.change = "upgrade" THEN p.end = payments[k].quote.end
               ELSE p.start = payments[k].quote.end /\ p.end = p.start + Cycle
    BY <2>1 DEF IInv, Honoured
  <2>2. ASSUME NEW r \in Requests
        PROVE  Cardinality({k \in Payments : payments[k].request = r
                                               /\ payments[k].status = "confirmed"}) <= 1
    <3> DEFINE paid == {k \in Payments : payments[k].request = r /\ payments[k].status = "confirmed"}
    <3>1. CASE paid = {}
      BY <3>1, FS_EmptySet
    <3>2. CASE paid # {}
      <4>1. PICK k : k \in paid
        BY <3>2
      <4>2. \A j \in paid : j = k
        BY <4>1, NoneAssumption DEF IInv, Single
      <4>3. paid = {k}
        BY <4>1, <4>2
      <4>4. Cardinality({k}) = 1
        BY FS_Singleton
      <4> HIDE DEF paid
      <4>5. Cardinality(paid) <= 1
        BY <4>3, <4>4
      <4> QED BY <4>5 DEF paid
    <3> QED BY <3>1, <3>2
  <2> QED BY <2>1, <2>2 DEF QuoteHonoured, OneChargePerRequest
<1> QED BY <1>1, Inductive, PTL

\* A scheduled change begins when the cycle ends, and the period that was paid for is there;
\* of an administrator's schedule, that uses a boundary read earlier, this is not said.
THEOREM ScheduleAlwaysStands ==
  ASSUME "schedule" \notin Operations
  PROVE  Spec => []ScheduleStands
<1>1. IInv => ScheduleStands
  BY DEF IInv, Stands, BoundaryKept
<1> QED BY <1>1, Inductive, PTL

\* No step but the confirmation of a late quote shortens a cycle that was paid for, as long
\* as no administrator puts a paying tenant on trial or schedules by an old boundary.
THEOREM PaidTimeAlwaysKept ==
  ASSUME {"schedule", "assignTrial"} \cap Operations = {}
  PROVE  Spec => PaidTimeKept
<1> DEFINE Kept == Covered /\ org'.end < org.end =>
                     \E k \in Payments : ConfirmPayment(k) /\ ~payments[k].quote.keeps
<1>1. IInv /\ [Next]_vars => Kept
  <2> SUFFICES ASSUME IInv, [Next]_vars, Covered, org'.end < org.end
               PROVE  \E k \in Payments : ConfirmPayment(k) /\ ~payments[k].quote.keeps
    OBVIOUS
  <2>1. /\ org \in Subscriptions /\ org.end \in Nat /\ now \in Nat /\ Cycle \in Nat
        /\ org.end > now /\ org.plan # Trial /\ org.status \in Entitled
    BY OrgFields, BoundsAssumption, LengthsAssumption DEF IInv, Shape, Covered
  <2>2. org'.end # org.end
    BY <2>1
  <2>3. ASSUME NEW k \in Payments, ConfirmDowngrade(k) PROVE FALSE
    <3>1. org' = Scheduling([plan |-> payments[k].quote.to, at |-> org.end, request |-> payments[k].request])
      BY <2>3 DEF ConfirmDowngrade
    <3> QED BY <2>1, <2>2, <3>1 DEF Scheduling, Subscriptions
  <2>4. ASSUME NEW k \in Payments, ConfirmPayment(k) PROVE ~payments[k].quote.keeps
    <3> DEFINE q == payments[k].quote
               end == IF q.change = "upgrade" /\ q.keeps /\ org.end > now THEN org.end
                      ELSE StartOf(q) + Cycle
    <3> SUFFICES ASSUME q.keeps PROVE FALSE
      OBVIOUS
    <3>1. /\ q.to \in Plans /\ q.change \in Changes /\ q.change # "downgrade"
          /\ org' = Activated(q.to, end)
      BY <2>1, <2>4, Quoted DEF ConfirmPayment, Paid
    <3>2. end \in Nat /\ end >= org.end
      BY <2>1, <3>1 DEF StartOf, Changes
    <3> HIDE DEF q, end
    <3>3. org'.end = end
      BY <2>1, <3>1, <3>2, ActivatedShape
    <3> QED BY <2>1, <3>2, <3>3
  <2>5. ASSUME CancelScheduledChange PROVE FALSE
    BY <2>1, <2>2, <2>5 DEF CancelScheduledChange, Unscheduled, Subscriptions
  <2>6. ASSUME NEW c \in Workers, ApplyDueChange(c) PROVE FALSE
    <3>1. org.scheduled # NoChange /\ org' = Applied
      BY <2>6 DEF ApplyDueChange, Due
    <3>2. org'.end = org.scheduled.at + Cycle
      BY <2>1, <3>1 DEF Applied, Subscriptions
    <3>3. org.scheduled.at = org.end
      BY <3>1 DEF IInv, Stands, BoundaryKept, ScheduleStands
    <3> QED BY <2>1, <3>2, <3>3
  <2>7. ASSUME NEW c \in Workers, Cross(c) PROVE FALSE
    BY <2>1, <2>2, <2>7 DEF Cross, Subscriptions
  <2>8. ASSUME NEW c \in Callers, Save(c) PROVE FALSE
    BY <2>1, <2>2, <2>8 DEF Save, Subscriptions
  <2>9. ASSUME NEW end \in now .. now + Cycle,
               \/ ManageTenantTrial("trialing", end) \/ ManageTenantTrial("expired", end)
               \/ ChangeTenantSubscription(end)
        PROVE  FALSE
    BY <2>1, <2>9 DEF ManageTenantTrial, ChangeTenantSubscription
  <2>10. ASSUME NEW c \in Callers, NEW g \in Grants, ScheduleDowngrade(c, g) PROVE FALSE
    <3>1. c \in Processes /\ Called(caller[c])
      BY DEF IInv, Processes
    <3> QED BY <2>10, <3>1 DEF ScheduleDowngrade, Called
  <2>11. ASSUME NEW g \in Grants, NEW p \in Paid, OverridePlan(g, p) PROVE FALSE
    <3>1. org' = Activated(p, org.end)
      BY <2>1, <2>11 DEF OverridePlan, KeptCycle
    <3> QED BY <2>1, <2>2, <3>1, ActivatedShape DEF Paid
  <2>12. CASE UNCHANGED org
    BY <2>2, <2>12
  <2>13. CASE Next
    BY <2>3, <2>4, <2>5, <2>6, <2>7, <2>8, <2>9, <2>10, <2>11, <2>12, <2>13, Quiet, Steps
  <2> QED BY <2>12, <2>13 DEF vars
<1> QED BY <1>1, Inductive, PTL DEF Spec, PaidTimeKept

\* Nobody lapses before the cycle has ended, or with a change that is due and was paid for,
\* as long as every write raises the revision and no transaction fails.
THEOREM AlwaysLapsesOnDue ==
  ASSUME Careful
  PROVE  Spec => LapsesOnDue
<1> DEFINE OnDue == Lapses => org.end <= now /\ (org.scheduled = NoChange \/ ~Upheld)
<1>1. IInv /\ [Next]_vars => OnDue
  <2> SUFFICES ASSUME IInv, [Next]_vars, Lapses
               PROVE  org.end <= now /\ (org.scheduled = NoChange \/ ~Upheld)
    OBVIOUS
  <2>1. org \in Subscriptions /\ org.end \in Nat /\ now \in Nat
        /\ org'.status \in {"grace", "expired"} /\ org'.status # org.status
    BY OrgFields, BoundsAssumption DEF IInv, Shape, Lapses
  <2>2. ASSUME NEW c \in Workers, Cross(c)
        PROVE  org.end <= now /\ (org.scheduled = NoChange \/ ~Upheld)
    <3> DEFINE s == caller[c].read
               t == caller[c].at
    <3>1. caller[c] \in StepRecord /\ Known(caller[c]) /\ caller[c].op = "cross"
      BY <2>2 DEF IInv, Shape, Processes, Cross
    <3>2. ~Stays(s, t) /\ Unchanged(s) /\ t \in Nat /\ t <= now
      BY <2>1, <2>2, <3>1, StepFields DEF Cross, Known
    <3>3. s = org
      BY <3>1, <3>2 DEF Known, Unchanged
    <3>4. org.end <= t
      <4>1. CASE org.status = "grace"
        <5>1. org.graceEnd \in Nat /\ org.graceEnd >= org.end
          BY <4>1 DEF IInv, Shape, Graced
        <5> QED BY <2>1, <3>2, <3>3, <4>1, <5>1 DEF Stays
      <4>2. CASE org.status \in {"trialing", "active", "cancel_at_period_end"}
        BY <2>1, <3>2, <3>3, <4>2 DEF Stays
      <4>3. CASE org.status = "expired"
        BY <3>2, <3>3, <4>3 DEF Stays
      <4> QED BY <2>1, <4>1, <4>2, <4>3, OrgFields DEF Statuses
    <3>5. org.scheduled # NoChange => org.scheduled.at = org.end
      BY DEF IInv, Stands, BoundaryKept, ScheduleStands, Careful
    <3> QED BY <2>1, <3>1, <3>2, <3>4, <3>5 DEF Known
  <2>3. \A c \in Callers : ~Save(c)
    BY DEF IInv, Processes, Called, Careful, Save
  <2>4. \A c \in Callers, g \in Grants : ~ScheduleDowngrade(c, g)
    BY DEF IInv, Processes, Called, Careful, ScheduleDowngrade
  <2>5. ASSUME NEW end \in now .. now + Cycle,
               \/ ManageTenantTrial("trialing", end) \/ ManageTenantTrial("expired", end)
               \/ ChangeTenantSubscription(end)
        PROVE  FALSE
    BY <2>5 DEF ManageTenantTrial, ChangeTenantSubscription, Careful
  <2>6. ASSUME org'.status = org.status \/ org'.status = "active" PROVE FALSE
    BY <2>1, <2>6
  <2>7. ASSUME NEW k \in Payments, ConfirmDowngrade(k) PROVE org'.status = org.status
    <3>1. org' = Scheduling([plan |-> payments[k].quote.to, at |-> org.end, request |-> payments[k].request])
      BY <2>7 DEF ConfirmDowngrade
    <3> QED BY <2>1, <3>1 DEF Scheduling, Subscriptions
  <2>8. ASSUME NEW k \in Payments, ConfirmPayment(k) PROVE org'.status = "active"
    BY <2>1, <2>8 DEF ConfirmPayment, Activated, Subscriptions
  <2>9. ASSUME CancelScheduledChange PROVE org'.status = org.status
    BY <2>1, <2>9 DEF CancelScheduledChange, Unscheduled, Subscriptions
  <2>10. ASSUME NEW c \in Workers, ApplyDueChange(c) PROVE org'.status = "active"
    BY <2>1, <2>10 DEF ApplyDueChange, Applied, Subscriptions
  <2>11. ASSUME NEW g \in Grants, NEW p \in Paid, OverridePlan(g, p) PROVE org'.status = "active"
    BY <2>1, <2>11 DEF OverridePlan, Activated, Subscriptions
  <2>12. CASE UNCHANGED org
    BY <2>6, <2>12
  <2>13. CASE Next
    BY <2>2, <2>3, <2>4, <2>5, <2>6, <2>7, <2>8, <2>9, <2>10, <2>11, <2>12, <2>13, Quiet, Steps
  <2> QED BY <2>12, <2>13 DEF vars
<1> QED BY <1>1, Inductive, PTL DEF Spec, LapsesOnDue
=============================================================================
