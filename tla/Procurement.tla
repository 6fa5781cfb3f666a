----------------------------- MODULE Procurement -----------------------------
(***************************************************************************)
(* What a tenant buys (modules supplierManagement, materialInventory):     *)
(* purchases of a material, received into its stock in parts and paid in   *)
(* parts.  A payment is an expense that the finance module records for its *)
(* purchase, with a journal in the Ledger.  What has been paid is kept     *)
(* nowhere: every handler sums the payments of the purchase it reads.      *)
(*                                                                         *)
(* Idempotency keys are kept apart by compound indexes that call           *)
(* themselves sparse.  Such an index leaves no document out, so a missing  *)
(* key counts as one more key, which one document of a tenant may have.    *)
(* The same holds for the source of a movement made by hand.               *)
(* Left out: suppliers, prices, planned requirements, dates and notes of a *)
(* purchase, invoice attachments, and the reminders of low stock and due   *)
(* payments, which are queued after the commit and read all of it again.   *)
(***************************************************************************)
EXTENDS FinanceRecords

CONSTANTS
  Purchases,   \* purchases, as their keys
  Quantities   \* what may be ordered, received or moved at once

ASSUME QuantitiesAssumption == Quantities \subseteq Nat \ {0} /\ None \notin Purchases

VARIABLES
  purchase,  \* status, quantity and total of each, and what has been received
  outlay,    \* the payments, by key
  stock,     \* of the material
  movements, \* of the stock
  paidBefore \* ghost: what the open transaction read as paid for each purchase

bought == <<purchase, outlay, stock, movements>>
procurement == <<bought, paidBefore>>

ProcurementInit ==
  /\ purchase = [b \in Purchases |-> [status |-> "none", quantity |-> 0, total |-> 0, received |-> 0]]
  /\ outlay = [k \in Keys |->
       [purchase |-> None, status |-> "none", amount |-> 0, period |-> 1, version |-> 0, journal |-> 0]]
  /\ stock = 0 /\ movements = {}
  /\ paidBefore = None

\* purchasePaymentMap: of payments that were not voided.
Payments(b) == {k \in Keys : outlay[k].purchase = b /\ outlay[k].status = "paid"}
Paid(b) == SumFunction([k \in Payments(b) |-> outlay[k].amount])
ReadPaid(v, b) == IF v.slow THEN paidBefore[b] ELSE Paid(b)

\* A transaction that begins takes its snapshot of the payments, too.
Snapshot ==
  paidBefore' = IF slow' = None THEN None
                ELSE IF slow = None THEN [b \in Purchases |-> Paid(b)] ELSE paidBefore

-----------------------------------------------------------------------------
(* Stock. *)

Material == <<"material", 0>>

\* The two unique indexes of stock movements.
Insertable(m) == \A n \in movements : n.key # m.key /\ n.source # m.source

Moves(m) ==
  /\ Insertable(m)
  /\ movements' = movements \cup {m}
  /\ stock' = stock + m.delta

\* Mutant: the stock that is there is not asked for.
AnyDelta(delta) == TRUE

Covered(delta) == stock + delta >= 0

\* createMovement: purchases and returns by hand, usage, and adjustments either way.
CreateMovement(v, k, delta) ==
  /\ Covered(delta)
  /\ Moves([source |-> <<None, None>>, key |-> k, delta |-> delta])
  /\ Book(v, 0, <<>>, {Material})
  /\ UNCHANGED <<records, purchase, outlay>>

\* recordPurchaseReceiptInSession: the movement's source is the receipt, known by its key,
\* and the movement itself has no key.
RecordPurchaseReceipt(b, k, quantity) ==
  Moves([source |-> <<b, k>>, key |-> None, delta |-> quantity])

-----------------------------------------------------------------------------
(* The expense that pays a purchase. *)

\* createLinkedExpenseTransactionInSession, in a transaction that writes docs.
CreateLinkedExpense(v, k, r, docs) ==
  LET news == IF Ready(v) THEN <<Posting("outlay", k, r, "expense")>> ELSE <<>> IN
  /\ Book(v, 0, news, docs \cup {Record(k)})
  /\ outlay' = [outlay EXCEPT ![k] = Linked(r, 0, news)]

\* voidLinkedExpenseTransactionInSession
VoidLinkedExpense(v, k) ==
  /\ outlay[k].status = "paid"
  /\ Book(v, outlay[k].journal, <<>>, {Record(k)})
  /\ outlay' = [outlay EXCEPT ![k].status = "voided"]

-----------------------------------------------------------------------------
(* Purchases. *)

Saved(b, r) == purchase' = [purchase EXCEPT ![b] = r]

\* createPurchase
CreatePurchase(v, b, quantity, total) ==
  /\ purchase[b].status = "none"
  /\ Book(v, 0, <<>>, {Record(b)})
  /\ Saved(b, [purchase[b] EXCEPT !.status = "Ordered", !.quantity = quantity, !.total = total])
  /\ UNCHANGED <<records, outlay, stock, movements>>

\* receivePurchase; PartiallyReceived is 'Partially Received'
ReceivePurchase(v, b, k, quantity) ==
  LET was == purchase[b]
      received == was.received + quantity
  IN  /\ was.status \in {"Ordered", "PartiallyReceived"}
      /\ received <= was.quantity
      /\ RecordPurchaseReceipt(b, k, quantity)
      /\ Book(v, 0, <<>>, {Material, Record(b)})
      /\ Saved(b, [was EXCEPT !.received = received,
                     !.status = IF received = was.quantity THEN "Received" ELSE "PartiallyReceived"])
      /\ UNCHANGED <<records, outlay>>

\* Mutant: payments of a purchase do not meet each other.
Unserialized(b) == {}

\* Every payment raises the purchase's paymentMutationVersion.
Serialized(b) == {Record(b)}

\* recordPurchasePayment, dated in p.
RecordPurchasePayment(v, b, k, amount, p) ==
  /\ outlay[k].status = "none"
  /\ purchase[b].status \notin {"none", "Cancelled"}
  /\ amount <= purchase[b].total - ReadPaid(v, b)
  /\ CreateLinkedExpense(v, k,
       [outlay[k] EXCEPT !.purchase = b, !.status = "paid", !.amount = amount, !.period = p],
       Serialized(b))
  /\ UNCHANGED <<records, purchase, stock, movements>>

\* voidPurchasePayment
VoidPurchasePayment(v, b, k) ==
  /\ outlay[k].purchase = b
  /\ VoidLinkedExpense(v, k)
  /\ UNCHANGED <<records, purchase, stock, movements>>

\* cancelPurchase
CancelPurchase(v, b) ==
  /\ purchase[b].status = "Ordered" /\ purchase[b].received = 0
  /\ ReadPaid(v, b) = 0
  /\ Book(v, 0, <<>>, {Record(b)})
  /\ Saved(b, [purchase[b] EXCEPT !.status = "Cancelled"])
  /\ UNCHANGED <<records, outlay, stock, movements>>

-----------------------------------------------------------------------------

OnPurchases(v) == \E b \in Purchases :
  \/ \E q \in Quantities, a \in Amounts : CreatePurchase(v, b, q, a)
  \/ \E q \in Quantities, k \in Keys : ReceivePurchase(v, b, k, q)
  \/ \E k \in Keys :
       \/ \E a \in Amounts, p \in Periods : RecordPurchasePayment(v, b, k, a, p)
       \/ VoidPurchasePayment(v, b, k)
  \/ CancelPurchase(v, b)

OnStock(v) == \E k \in Keys \cup {None}, q \in Quantities :
  CreateMovement(v, k, q) \/ CreateMovement(v, k, 0 - q)

OnProcurement(v) == OnPurchases(v) \/ OnStock(v)

-----------------------------------------------------------------------------
(* Properties. *)

PurchasesTypeOK ==
  /\ \A b \in Purchases :
       /\ purchase[b].status \in {"none", "Ordered", "PartiallyReceived", "Received", "Cancelled"}
       /\ purchase[b].received \in 0 .. purchase[b].quantity
  /\ \A k \in Keys :
       /\ outlay[k].status \in {"none", "paid", "voided"} /\ LinksOk(outlay[k])
       /\ outlay[k].purchase \in Purchases \cup {None}
  /\ stock \in Nat /\ \A m \in movements : m.key \in Keys \cup {None} /\ m.delta \in Int \ {0}

\* What movements come to.
Moved(ms) == SumFunction([m \in ms |-> m.delta])

\* A purchase is never paid beyond its total, nor is a cancelled one paid or received,
\* though concurrent payments and a cancellation each sum the payments they see; and
\* the stock is what its movements come to, receipts of purchases among them.
PurchasesAreBacked ==
  /\ \A b \in Purchases : LET r == purchase[b] IN
       /\ Paid(b) <= r.total
       /\ r.status = "Cancelled" => Paid(b) = 0 /\ r.received = 0
       /\ r.received = Moved({m \in movements : m.source \in {b} \X Keys})
  /\ stock = Moved(movements)

\* The journals of the payments of purchases are those the payments ask for.
PurchasesFollowed ==
  /\ \A k \in Keys : LET r == outlay[k] IN Follows("outlay", k, r.status = "paid", r, r.journal)
  /\ PurchasesAreBacked

=============================================================================
