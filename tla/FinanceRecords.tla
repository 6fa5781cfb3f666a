--------------------------- MODULE FinanceRecords ---------------------------
(***************************************************************************)
(* The money records of a tenant (module finance): manual transactions,    *)
(* invoices with their payments, and agents' commissions, each of which    *)
(* keeps its journals in the Ledger by posting and reversing in the same   *)
(* transaction as its own change.                                          *)
(*                                                                         *)
(* A record's next version is posted under a source of its own, so that a  *)
(* revised record has one standing journal and a trail of reversed ones.   *)
(* Left out: due dates (an issued invoice may become overdue at any time), *)
(* taxes, zero amounts, and edits that touch no accounting field.  A       *)
(* transaction given as "cancelled" is one given as "pending".             *)
(* Procurement adds the expenses of purchases, Sales the bookings that own *)
(* an invoice.                                                             *)
(***************************************************************************)
EXTENDS Ledger

CONSTANTS
  Transactions, Invoices, Commissions,  \* the records
  Bookings,     \* of sales: each owns the invoice of its name
  Keys,         \* idempotency keys of invoice payments
  MaxPayments   \* bound

ASSUME RecordsAssumption == None \notin Transactions \cup Invoices \cup Commissions
ASSUME PaymentsAssumption == MaxPayments \in Nat /\ Bookings \subseteq Invoices

VARIABLES
  transaction, \* status, amount, version, journal of each
  invoice,     \* and what has been paid, with its payments
  payment,     \* the transactions of invoice payments, in order
  commission   \* with its accrual and its payout

records == <<transaction, invoice, payment, commission>>

RecordsInit ==
  /\ transaction = [t \in Transactions |->
       [status |-> "none", amount |-> 0, period |-> 1, version |-> 0, journal |-> 0]]
  /\ invoice = [i \in Invoices |->
       [status |-> "none", amount |-> 0, period |-> 1, version |-> 0, journal |-> 0,
        paid |-> 0, payments |-> {}]]
  /\ payment = <<>>
  /\ commission = [c \in Commissions |->
       [status |-> "none", amount |-> 0, period |-> 1, version |-> 0, journal |-> 0, payout |-> 0]]

\* The version a record posts next.

NextVersion(r) == r.version + 1

\* The journal that the record r, called id, posts.
Posting(kind, id, r, account) ==
  Entry(<<kind, id, NextVersion(r)>>, account, IF account = "expense" THEN 0 - r.amount ELSE r.amount, r.period)

\* r after `news` were posted: linked to the first of them.
Linked(r, old, news) ==
  IF news = <<>> THEN r
  ELSE [r EXCEPT !.version = NextVersion(r), !.journal = Link(Booked(old, news), news[1].source)]

\* What an update asks for: new accounting fields or None, a status or "same".
Edits == {None} \cup (Amounts \X Periods)

Given(status, r) == IF status = "same" THEN r.status ELSE status
Edited(r, edit) == IF edit = None THEN r ELSE [r EXCEPT !.amount = edit[1], !.period = edit[2]]

-----------------------------------------------------------------------------
(* Manual transactions. *)

Saves(t, r) ==
  /\ transaction' = [transaction EXCEPT ![t] = r]
  /\ UNCHANGED <<invoice, payment, commission>>

\* createTransaction
CreateTransaction(v, t, status, amount, p) ==
  LET r == [transaction[t] EXCEPT !.status = status, !.amount = amount, !.period = p]
      news == IF Ready(v) /\ status = "paid" THEN <<Posting("transaction", t, r, "income")>> ELSE <<>>
  IN  /\ transaction[t].status = "none"
      /\ Book(v, 0, news, {Record(t)})
      /\ Saves(t, Linked(r, 0, news))

\* updateTransaction
UpdateTransaction(v, t, edit, status) ==
  LET was == transaction[t]
      paid == was.status = "paid"
      next == Given(status, was)
      leaves == Ready(v) /\ was.journal # 0 /\ paid /\ (edit # None \/ next # "paid")
      old == IF leaves THEN was.journal ELSE 0
      r == [Edited(was, edit) EXCEPT !.status = next, !.journal = IF leaves THEN 0 ELSE @]
      posts == Ready(v) /\ next = "paid" /\ (r.journal = 0 \/ edit # None \/ ~paid)
      news == IF posts THEN <<Posting("transaction", t, r, "income")>> ELSE <<>>
  IN  /\ was.status \notin {"none", "voided", "deleted"}
      /\ edit # None \/ status # "same"
      /\ was.journal # 0 => Ready(v)
      /\ Book(v, old, news, {Record(t)})
      /\ Saves(t, Linked(r, old, news))

\* voidTransaction
VoidTransaction(v, t) ==
  /\ transaction[t].status \notin {"none", "voided", "deleted"}
  /\ Book(v, transaction[t].journal, <<>>, {Record(t)})
  /\ Saves(t, [transaction[t] EXCEPT !.status = "voided"])

\* deleteTransaction
DeleteTransaction(v, t) ==
  /\ transaction[t].status = "voided"
  /\ Undone(transaction[t].journal) /\ Journal(transaction[t].journal) \notin v.changed
  /\ Book(v, 0, <<>>, {Record(t)})
  /\ Saves(t, [transaction[t] EXCEPT !.status = "deleted"])

-----------------------------------------------------------------------------
(* Invoices and their payments. *)

Issues(i, r) ==
  /\ invoice' = [invoice EXCEPT ![i] = r]
  /\ UNCHANGED <<transaction, commission>>

Revenue(i, r) == Posting("revenue", i, r, "income")
Unrecognized == {"none", "draft", "cancelled", "archived"}

\* createInvoice, and createCustomerFinanceBookingInvoice, whose caller writes also.
CreateInvoice(v, i, status, amount, p, also) ==
  LET r == [invoice[i] EXCEPT !.status = status, !.amount = amount, !.period = p]
      news == IF Ready(v) /\ status = "sent" THEN <<Revenue(i, r)>> ELSE <<>>
  IN  /\ invoice[i].status = "none"
      /\ Book(v, 0, news, {Record(i)} \cup also)
      /\ Issues(i, Linked(r, 0, news)) /\ UNCHANGED payment

HasPayment(r) == r.paid > 0 \/ r.status \in {"partial", "paid"}

\* updateInvoice
UpdateInvoice(v, i, edit, status) ==
  LET was == invoice[i]
      old == IF Ready(v) /\ was.status # "draft" THEN was.journal ELSE 0
      r == [Edited(was, edit) EXCEPT !.status = Given(status, was)]
      news == IF Ready(v) /\ r.status \notin Unrecognized THEN <<Revenue(i, r)>> ELSE <<>>
  IN  /\ i \notin Bookings
      /\ was.status \notin {"none", "cancelled", "archived"}
      /\ ~HasPayment(was)
      /\ status = "draft" => was.status = "draft"
      /\ edit # None \/ status # "same"
      /\ was.journal # 0 => Ready(v)
      /\ Book(v, old, news, {Record(i)})
      /\ Issues(i, Linked(r, old, news)) /\ UNCHANGED payment

\* assertNoInvoicePayments
NeverPaid(r) == r.paid = 0 /\ r.payments = {} /\ r.status \notin {"partial", "paid"}

\* voidInvoice
VoidInvoice(v, i) ==
  /\ i \notin Bookings
  /\ invoice[i].status \in {"sent", "overdue"}
  /\ NeverPaid(invoice[i])
  /\ Book(v, invoice[i].journal, <<>>, {Record(i)})
  /\ Issues(i, [invoice[i] EXCEPT !.status = "cancelled"]) /\ UNCHANGED payment

\* archiveDraftInvoice
ArchiveInvoice(v, i) ==
  /\ invoice[i].status \in {"draft", "cancelled"}
  /\ NeverPaid(invoice[i])
  /\ Undone(invoice[i].journal) /\ Journal(invoice[i].journal) \notin v.changed
  /\ Book(v, 0, <<>>, {Record(i)})
  /\ Issues(i, [invoice[i] EXCEPT !.status = "archived"]) /\ UNCHANGED payment

\* refreshOverdueInvoices, outside of a transaction.
Overdue(i) ==
  /\ invoice[i].status \in {"sent", "partial"} /\ invoice[i].paid < invoice[i].amount
  /\ Book(Here, 0, <<>>, {Record(i)})
  /\ Issues(i, [invoice[i] EXCEPT !.status = "overdue"]) /\ UNCHANGED payment

\* A key names one payment for good, read by the handler and kept by an index.

KeyUsed(k) == \E n \in DOMAIN payment : payment[n].key = k

OutstandingAmount(r) == r.amount - r.paid

\* recordInvoicePayment: a repeated key changes nothing.  An invoice issued
\* before the accounting was ready is recognized now.  A booking's writes also.
RecordInvoicePayment(v, i, k, amount, p, also) ==
  LET n == Len(payment) + 1
      late == Ready(v) /\ invoice[i].journal = 0
      revenue == IF late THEN <<Revenue(i, invoice[i])>> ELSE <<>>
      receipt == Entry(<<"payment", n, 1>>, "none", amount, p)
      news == IF Ready(v) THEN revenue \o <<receipt>> ELSE <<>>
      r == Linked(invoice[i], 0, revenue)
      paid == invoice[i].paid + amount
  IN  /\ ~KeyUsed(k)
      /\ n <= MaxPayments
      /\ invoice[i].status \in {"sent", "partial", "overdue"}
      /\ amount <= OutstandingAmount(invoice[i])
      /\ Book(v, 0, news, {Record(i)} \cup also)
      /\ payment' = Append(payment, [key |-> k, invoice |-> i, amount |-> amount, status |-> "paid",
                                     journal |-> IF Ready(v) THEN Link(Booked(0, news), receipt.source) ELSE 0])
      /\ Issues(i, [r EXCEPT !.paid = paid, !.payments = @ \cup {n},
                             !.status = IF paid >= invoice[i].amount THEN "paid" ELSE "partial"])

\* What the payments that were not voided come to.
Active(i) == {n \in invoice[i].payments : payment[n].status # "voided"}
PaidBy(ns) == SumFunction([n \in ns |-> payment[n].amount])

LeftPaid(i, n) == PaidBy(Active(i) \ {n})

\* voidInvoicePayment: an invoice nobody has paid is overdue or sent again.
VoidInvoicePayment(v, i, n, unpaid, also) ==
  LET left == LeftPaid(i, n) IN
  /\ n \in Active(i)
  /\ Book(v, payment[n].journal, <<>>, {Record(i)} \cup also)
  /\ payment' = [payment EXCEPT ![n].status = "voided"]
  /\ Issues(i, [invoice[i] EXCEPT !.paid = left,
                  !.status = IF left >= invoice[i].amount THEN "paid"
                             ELSE IF left > 0 THEN "partial" ELSE unpaid])

-----------------------------------------------------------------------------
(* Commissions: accrued when approved, paid out once. *)

Owes(c, r) ==
  /\ commission' = [commission EXCEPT ![c] = r]
  /\ UNCHANGED <<transaction, invoice, payment>>

Accrual(c, r) == Posting("accrual", c, r, "expense")

\* createCommission
CreateCommission(v, c, status, amount) ==
  LET r == [commission[c] EXCEPT !.status = status, !.amount = amount, !.period = today]
      news == IF Ready(v) /\ status = "approved" THEN <<Accrual(c, r)>> ELSE <<>>
  IN  /\ commission[c].status = "none"
      /\ Book(v, 0, news, {Record(c)})
      /\ Owes(c, Linked(r, 0, news))

\* updateCommission
UpdateCommission(v, c, edit, status) ==
  LET was == commission[c]
      old == IF Ready(v) /\ was.status = "approved" THEN was.journal ELSE 0
      r == [Edited(was, edit) EXCEPT !.status = Given(status, was), !.period = today]
      news == IF Ready(v) /\ r.status = "approved" THEN <<Accrual(c, r)>> ELSE <<>>
  IN  /\ was.status \in {"pending", "approved"}
      /\ edit # None \/ status # "same"
      /\ was.journal # 0 => Ready(v)
      /\ Book(v, old, news, {Record(c)})
      /\ Owes(c, Linked(r, old, news))

\* cancelCommission
CancelCommission(v, c) ==
  /\ commission[c].status \in {"pending", "approved"}
  /\ Book(v, commission[c].journal, <<>>, {Record(c)})
  /\ Owes(c, [commission[c] EXCEPT !.status = "cancelled"])

\* archiveCommission
ArchiveCommission(v, c) ==
  /\ commission[c].status = "cancelled"
  /\ Undone(commission[c].journal) /\ Journal(commission[c].journal) \notin v.changed
  /\ Book(v, 0, <<>>, {Record(c)})
  /\ Owes(c, [commission[c] EXCEPT !.status = "archived"])

\* payCommission, dated in p: accrues what was approved before the accounting was ready.
PayCommission(v, c, p) ==
  LET late == Ready(v) /\ commission[c].journal = 0
      accrual == IF late THEN <<Accrual(c, commission[c])>> ELSE <<>>
      payout == Entry(<<"payout", c, 1>>, "none", commission[c].amount, p)
      news == IF Ready(v) THEN accrual \o <<payout>> ELSE <<>>
      r == Linked(commission[c], 0, accrual)
  IN  /\ commission[c].status = "approved"
      /\ Book(v, 0, news, {Record(c)})
      /\ Owes(c, [r EXCEPT !.status = "paid",
                           !.payout = IF Ready(v) THEN Link(Booked(0, news), payout.source) ELSE 0])

-----------------------------------------------------------------------------

OnTransactions(v) == \E t \in Transactions :
  \/ \E a \in Amounts, p \in Periods :
       \E s \in {"pending", "paid"} : CreateTransaction(v, t, s, a, p)
  \/ \E edit \in Edits, s \in {"same", "pending", "paid"} : UpdateTransaction(v, t, edit, s)
  \/ VoidTransaction(v, t) \/ DeleteTransaction(v, t)

OnInvoices(v) == \E i \in Invoices \ Bookings :
  \/ \E a \in Amounts, p \in Periods :
       \/ \E s \in {"draft", "sent"} : CreateInvoice(v, i, s, a, p, {})
       \/ \E k \in Keys : RecordInvoicePayment(v, i, k, a, p, {})
  \/ \E edit \in Edits, s \in {"same", "draft", "sent"} :
       UpdateInvoice(v, i, edit, s)
  \/ VoidInvoice(v, i) \/ ArchiveInvoice(v, i)
  \/ \E n \in DOMAIN payment, unpaid \in {"sent", "overdue"} : VoidInvoicePayment(v, i, n, unpaid, {})

OnCommissions(v) == \E c \in Commissions :
  \/ \E a \in Amounts, s \in {"pending", "approved"} : CreateCommission(v, c, s, a)
  \/ \E edit \in {None} \cup (Amounts \X {today}), s \in {"same", "pending", "approved"} :
       UpdateCommission(v, c, edit, s)
  \/ CancelCommission(v, c) \/ ArchiveCommission(v, c)
  \/ \E p \in Periods : PayCommission(v, c, p)

RecordsNext ==
  \/ \E v \in Views : OnTransactions(v) \/ OnInvoices(v) \/ OnCommissions(v)
  \/ \E i \in Invoices : Overdue(i)

-----------------------------------------------------------------------------
(* Properties. *)

JournalsOk == \A j \in DOMAIN journals : LET e == journals[j] IN
  /\ DOMAIN e = {"source", "account", "amount", "period", "status", "byHand", "maker", "checker", "seen"}
  /\ e.account \in {"income", "expense", "none"} /\ e.amount \in Int /\ e.period \in Periods
  /\ e.status \in {"DRAFT", "APPROVED", "POSTED", "REVERSED", "deleted"}
  /\ e.byHand \in BOOLEAN /\ {e.maker, e.checker} \subseteq Users \cup {None}

LinksOk(r) == r.journal \in {0} \cup DOMAIN journals /\ r.version \in Nat

RecordsTypeOK ==
  /\ JournalsOk
  /\ periods \in [Periods -> {"OPEN", "SOFT_LOCKED", "CLOSED"}]
  /\ years \in [Years -> {"OPEN", "CLOSED"}]
  /\ today \in Periods /\ accounting \in {"active", "off", "activated"}
  /\ \A t \in Transactions :
       transaction[t].status \in {"none", "pending", "paid", "cancelled", "voided", "deleted"} /\ LinksOk(transaction[t])
  /\ \A i \in Invoices :
       /\ invoice[i].status \in {"none", "draft", "sent", "partial", "paid", "overdue", "cancelled", "archived"}
       /\ LinksOk(invoice[i])
       /\ invoice[i].payments \subseteq DOMAIN payment
  /\ \A c \in Commissions :
       /\ commission[c].status \in {"none", "pending", "approved", "paid", "cancelled", "archived"}
       /\ LinksOk(commission[c])

\* The journals of a record that stand.
Standing(kind, id) ==
  {j \in DOMAIN journals : journals[j].source[1] = kind /\ journals[j].source[2] = id /\ journals[j].status = "POSTED"}

Abs(n) == IF n < 0 THEN 0 - n ELSE n

\* A record that is due in the books has one standing journal, the one it links
\* to, of its current amount and period, unless a user has reversed that one by
\* hand or the record is older than the accounting.
Follows(kind, id, due, r, link) ==
  /\ Standing(kind, id) \subseteq (IF due THEN {link} ELSE {})
  /\ due /\ accounting = "active" => link # 0
  /\ due /\ link # 0 =>
       \/ journals[link].byHand
       \/ /\ journals[link].status = "POSTED"
          /\ Abs(journals[link].amount) = r.amount

\* What an invoice says was paid is backed by payments that stand, is never
\* more than it asks for, and each key was charged once; its status says the
\* same, and one that was given up had none (recordInvoicePayment,
\* voidInvoicePayment and updateInvoice all write the invoice).
PaidIsBacked ==
  /\ \A i \in Invoices : LET r == invoice[i] IN
       /\ r.paid = PaidBy({n \in DOMAIN payment : payment[n].invoice = i /\ payment[n].status = "paid"})
       /\ r.paid <= r.amount
       /\ r.status = "paid" <=> r.paid = r.amount /\ r.status # "none"
       /\ r.status = "partial" => r.paid > 0
       /\ r.status \in {"none", "draft", "sent", "cancelled", "archived"} => r.paid = 0
  /\ \A n, m \in DOMAIN payment : payment[n].key = payment[m].key => n = m

\* Every journal of a record is the one its record asks for.
RecordsFollowed ==
  /\ \A t \in Transactions : LET r == transaction[t] IN
       Follows("transaction", t, r.status = "paid", r, r.journal)
  /\ \A i \in Invoices : LET r == invoice[i] IN
       Follows("revenue", i, r.status \notin Unrecognized, r, r.journal)
  /\ \A n \in DOMAIN payment : LET r == payment[n] IN
       Follows("payment", n, r.status = "paid", r, r.journal)
  /\ \A c \in Commissions : LET r == commission[c] IN
       /\ Follows("accrual", c, r.status \in {"approved", "paid"}, r, r.journal)
       /\ Follows("payout", c, r.status = "paid", r, r.payout)
  /\ PaidIsBacked

\* A year that was closed with a closing entry receives no journal after it:
\* a transaction that read the year open cannot commit, because both took a
\* number from the same sequence (yearEndClose, nextJournalNumber).
ClosedYearIsSealed ==
  \A y \in Years : \A k \in From(journals, <<"closing", y, 0>>) :
    \A j \in DOMAIN journals : j > k => YearOf[journals[j].period] # y

\* Under maker-checker a manual journal enters the books as somebody other
\* than its maker has seen it, however edits, approvals and postings interleave.
PostedAsApproved ==
  \A j \in InBooks : Kind(j) = "manual" /\ MakerChecker =>
    /\ journals[j].checker \notin {None, journals[j].maker}
    /\ journals[j].seen = journals[j].amount

=============================================================================
