------------------------------- MODULE Sales -------------------------------
(***************************************************************************)
(* The sale of a tenant's properties: bookings with their instalment       *)
(* schedule, and the status of a property, which editors also set by hand  *)
(* (modules customerFinance and property.service).                         *)
(*                                                                         *)
(* A booking owns an invoice of finance, called b as it is, and is paid by *)
(* the payments of that invoice: finance projects what was received onto   *)
(* the instalments in the same transaction, and may complete the booking.  *)
(* The booking and its instalments are written together with their invoice *)
(* and after it, so that its document stands for theirs in a conflict.     *)
(*                                                                         *)
(* Left out: due dates and so the status Overdue of an instalment, the     *)
(* quota lock of a property, reminders (their jobs are those of            *)
(* OperationsQueue) and who may see which customer.                        *)
(***************************************************************************)
EXTENDS FinanceRecords

CONSTANTS
  Units,       \* properties for sale
  Terms,       \* the price, what falls due first (booking amount, down payment) and
               \* last (handover, registration), and the number of instalments
  MaxEdits     \* bound: changes of a unit's status by hand

ASSUME TermsAssumption ==
  \A t \in Terms :
    /\ DOMAIN t = {"price", "first", "last", "count", "full"} /\ t.full \in BOOLEAN
    /\ {t.price, t.first, t.last, t.count} \subseteq Nat /\ t.price > 0

VARIABLES
  unit,    \* status of each
  booking, \* status, unit, the key activePropertyKey, instalments and what covers them
  byHand   \* how often each unit's status was set by hand, and (ghost) to what, unless
           \* one of its bookings has changed it since

sales == <<unit, booking, byHand>>

Bookable == {"open"}   \* Available, UnderOffer, ComingSoon
EditableStatuses == {"open", "Reserved", "Sold", "off"}   \* off: Draft, Rented, OffMarket
OpenStatuses == {"Reserved", "Active"}

ASSUME UnitsAssumption ==
  None \notin Units \cup EditableStatuses \cup {"deleted"} /\ MaxEdits \in Nat

SalesInit ==
  /\ unit = [u \in Units |-> "open"]
  /\ booking = [b \in Bookings |->
       [status |-> "none", unit |-> None, key |-> None, price |-> 0, due |-> <<>>, paid |-> <<>>]]
  /\ byHand = [u \in Units |-> [count |-> 0, status |-> None]]

Unit(u) == <<"unit", u>>

-----------------------------------------------------------------------------
(* The instalments of a booking.  They fall due in the order of the plan.  *)

Total(s) == SumFunction(s)
Smaller(x, y) == IF x <= y THEN x ELSE y
Less(x, y) == IF x >= y THEN x - y ELSE 0

Fixed(t) == t.first + t.last
Remaining(t) == t.price - Fixed(t)
Count(t) == IF t.count = 0 \/ (t.full /\ Fixed(t) = 0) THEN 1 ELSE t.count

\* A payment in full is refused, too, when it names too many instalments.
Acceptable(t) == Fixed(t) <= t.price /\ (Remaining(t) > 0 => t.count <= Remaining(t))

\* The last instalment takes what the division leaves over.
Parts(amount, n) ==
  [i \in 1 .. n |-> IF i < n THEN amount \div n ELSE amount - (amount \div n) * (n - 1)]

\* A row is made only of an amount.
Row(amount) == IF amount > 0 THEN <<amount>> ELSE <<>>

\* The amounts that fall due, in order.
Plan(t) ==
  Row(t.first)
    \o (IF Remaining(t) > 0 THEN Parts(Remaining(t), Count(t)) ELSE <<>>)
    \o Row(t.last)

\* What falls due before the instalment i.
Before(due, i) == SumFunctionOnSet(due, 1 .. i - 1)

\* What a total covers of each instalment, earliest first.
Projected(due, total) ==
  [i \in DOMAIN due |-> Smaller(due[i], Less(total, Before(due, i)))]

-----------------------------------------------------------------------------
(* Bookings. *)

\* Mutant: only the status of the property keeps it for one booking.
FreeByStatus(u) == TRUE

\* No open booking, and the index on activePropertyKey agrees.  Whoever opened one
\* has written the unit, so that a transaction that did not see it cannot commit.
Free(u) == \A b \in Bookings :
  /\ ~(booking[b].unit = u /\ booking[b].status \in OpenStatuses)
  /\ booking[b].key # u

\* The units whose status the transaction sets, whatever an editor has made of it.
SetByBooking(u, status) ==
  /\ unit' = [unit EXCEPT ![u] = status]
  /\ byHand' = [byHand EXCEPT ![u].status = None]

\* createBooking, dated in p.
CreateBooking(v, b, u, t, status, p) ==
  /\ booking[b].status = "none"
  /\ unit[u] \in Bookable /\ Free(u)
  /\ Acceptable(t)
  /\ CreateInvoice(v, b, "sent", t.price, p, {Unit(u)})
  /\ booking' = [booking EXCEPT ![b] =
       [status |-> status, unit |-> u, key |-> u, price |-> t.price,
        due |-> Plan(t), paid |-> Projected(Plan(t), 0)]]
  /\ SetByBooking(u, "Reserved")

Completes(r, total) == total >= r.price /\ r.status # "Completed"

\* The unit that a payment hands over; one that was deleted is not found again.
HandedOver(b, total) ==
  IF Completes(booking[b], total) /\ unit[booking[b].unit] # "deleted" THEN {booking[b].unit} ELSE {}

\* syncBookingPaymentProjection
Project(b, total) ==
  /\ booking' = [booking EXCEPT
       ![b].paid = Projected(booking[b].due, total),
       ![b].status = IF Completes(booking[b], total) THEN "Completed" ELSE @,
       ![b].key = IF Completes(booking[b], total) THEN None ELSE @]
  /\ unit' = [u \in Units |-> IF u \in HandedOver(b, total) THEN "Sold" ELSE unit[u]]
  /\ byHand' = [u \in Units |->
       IF u \in HandedOver(b, total) /\ booking[b].status # "Completed"
         THEN [byHand[u] EXCEPT !.status = None] ELSE byHand[u]]

\* recordPayment, through recordInvoicePayment
RecordPayment(v, b, k, amount, p) ==
  LET total == invoice[b].paid + amount IN
  /\ booking[b].status # "none"
  /\ RecordInvoicePayment(v, b, k, amount, p, {Unit(u) : u \in HandedOver(b, total)})
  /\ Project(b, total)

\* voidPayment, through voidInvoicePayment
VoidPayment(v, b, n, unpaid) ==
  /\ VoidInvoicePayment(v, b, n, unpaid, {Unit(u) : u \in HandedOver(b, LeftPaid(b, n))})
  /\ Project(b, LeftPaid(b, n))

-----------------------------------------------------------------------------
(* The property itself, outside of a transaction. *)

Edit(u, status) ==
  /\ unit[u] # "deleted"
  /\ byHand[u].count < MaxEdits
  /\ Book(Here, 0, <<>>, {Unit(u)})
  /\ unit' = [unit EXCEPT ![u] = status]
  /\ byHand' = [byHand EXCEPT ![u] = [count |-> byHand[u].count + 1, status |-> status]]
  /\ UNCHANGED <<records, booking>>

\* updateProperty, updatePropertyStatus: whatever the bookings say.
UpdateStatus(u, status) == status \in EditableStatuses /\ Edit(u, status)

\* deleteProperty asks for the history of investors, not for bookings.
DeleteProperty(u) == Edit(u, "deleted")

-----------------------------------------------------------------------------

OnBookings(v) == \E b \in Bookings :
  \/ \E u \in Units, t \in Terms, status \in OpenStatuses, p \in Periods : CreateBooking(v, b, u, t, status, p)
  \/ \E k \in Keys, amount \in 1 .. booking[b].price, p \in Periods : RecordPayment(v, b, k, amount, p)
  \/ \E n \in DOMAIN payment, unpaid \in {"sent", "overdue"} : VoidPayment(v, b, n, unpaid)

OnUnits == \E u \in Units : (\E status \in EditableStatuses : UpdateStatus(u, status)) \/ DeleteProperty(u)

-----------------------------------------------------------------------------
(* Properties. *)

SalesTypeOK ==
  /\ unit \in [Units -> EditableStatuses \cup {"deleted"}]
  /\ \A u \in Units : byHand[u].count \in 0 .. MaxEdits /\ byHand[u].status \in {None, "deleted"} \cup EditableStatuses
  /\ \A b \in Bookings : LET r == booking[b] IN
       /\ r.status \in {"none", "Completed"} \cup OpenStatuses
       /\ r.key = IF r.status \in OpenStatuses THEN r.unit ELSE None
       /\ \A i \in DOMAIN r.due : r.paid[i] \in 0 .. r.due[i] /\ r.due[i] > 0

BookingsOf(u) == {b \in Bookings : booking[b].unit = u}

\* Bookings and payments change the status of a unit when one of its bookings opens
\* or completes, and only then: a payment voided and made again does not take a unit
\* that was put on offer again from the market (syncBookingPaymentProjection).
UnitFollowsBookings ==
  \A u \in Units : unit[u] =
    IF byHand[u].status # None THEN byHand[u].status
    ELSE IF BookingsOf(u) = {} THEN "open"
    ELSE IF \E b \in BookingsOf(u) : booking[b].status \in OpenStatuses THEN "Reserved" ELSE "Sold"

\* A unit is not sold twice: two bookings of it are never both open, there is a second
\* one at all only after somebody changed its status by hand, and its status is what
\* was set by hand or what its bookings made of it since (createBooking against other
\* bookings, payments and edits).
SoldOnce ==
  /\ \A b, c \in Bookings : b # c /\ booking[b].unit = booking[c].unit /\ booking[b].unit # None =>
       /\ byHand[booking[b].unit].count > 0
       /\ ~({booking[b].status, booking[c].status} \subseteq OpenStatuses)
  /\ UnitFollowsBookings

\* The schedule of a booking agrees with its payments: the instalments come to the
\* price, which the invoice asks for; what was received and not voided covers them in
\* order; and a booking paid in full is completed and owes nothing.
ScheduleFollowsPayments ==
  \A b \in Bookings : LET r == booking[b] IN
    /\ Total(r.due) = r.price /\ invoice[b].amount = r.price
    /\ Total(r.paid) = invoice[b].paid
    /\ \A i, j \in DOMAIN r.due : i < j /\ r.paid[j] > 0 => r.paid[i] = r.due[i]
    /\ r.price > 0 /\ invoice[b].paid = r.price => r.status = "Completed" /\ r.paid = r.due
=============================================================================
