------------------------------ MODULE MCFinance ------------------------------
(* An instance of Finance for TLC. *)
EXTENDS Finance, TLC

CONSTANTS u1, u2, t1, i1, c1, b1, s1, s2, f1, k1, k2

\* Two years of a period each: what is reversed late is dated in the second.
TwoYears == [p \in Periods |-> p]

\* Of sales: an even and an uneven division, fixed parts that leave nothing to
\* divide, a payment in full, and terms that are refused.
SomeTerms ==
  {[price |-> 3, first |-> f, last |-> l, count |-> n, full |-> FALSE] :
      f \in {0, 1}, l \in {0, 2}, n \in {0, 2}}
    \cup {[price |-> 3, first |-> 0, last |-> 0, count |-> 2, full |-> TRUE]}

Symmetric == Permutations(Users) \cup Permutations(Keys)

\* Records share nothing but the ledger.  A behaviour of the instance has those of one
\* kind, or journals made by hand, or sales on the same terms.
VARIABLE concern

Kinds == {"transaction", "invoice", "commission", "purchase", "journal"}
Of(kind) == concern[1] = kind

OneInit == Init /\ concern \in ({"sale"} \X SomeTerms) \cup {<<kind, None>> : kind \in Kinds}

Records(v) ==
  /\ \/ Of("transaction") /\ OnTransactions(v)
     \/ Of("invoice") /\ OnInvoices(v)
     \/ Of("commission") /\ OnCommissions(v)
  /\ UNCHANGED <<bought, sales>>

\* Sales are dated in the period under way, and s1 is the first booking.
Sale(v) == \E b \in Bookings :
  \/ /\ b = s1 \/ booking[s1].status # "none"
     /\ \E u \in Units, status \in OpenStatuses : CreateBooking(v, b, u, concern[2], status, 1)
  \/ \E k \in Keys, amount \in 1 .. booking[b].price : RecordPayment(v, b, k, amount, 1)
  \/ \E n \in DOMAIN payment, unpaid \in {"sent", "overdue"} : VoidPayment(v, b, n, unpaid)

-----------------------------------------------------------------------------
(* Bounds on the states that are visited. *)

Used(f, rs) == Cardinality({r \in rs : f[r].status # "none"})
Manual == Cardinality({j \in DOMAIN journals : Kind(j) = "manual"})
ByHand == Cardinality({j \in DOMAIN journals : journals[j].byHand})
ClosingEntries == Cardinality({j \in DOMAIN journals : Kind(j) = "closing"})
Unopened == {p \in Periods : periods[p] # "OPEN"}
ClosingUnderWay == closer # None \/ Unopened # {}

\* One record or manual journal at a time, and one reversal by hand.
OneRecord ==
  /\ Manual <= IF Of("journal") THEN 1 ELSE 0
  /\ Used(transaction, Transactions) <= 1 /\ Used(commission, Commissions) <= 1
  /\ Used(invoice, Invoices \ Bookings) <= 1
  /\ ByHand <= 1

\* Periods are closed while few journals exist, of one amount, a closing entry not
\* counted, and only beside transactions and manual journals: the other records'
\* postings read the period as a transaction's do.
SmallClosing == ClosingUnderWay =>
  /\ Of("transaction") \/ Of("journal")
  /\ Len(journals) <= 2 + ClosingEntries
  /\ \A j \in DOMAIN journals : Abs(journals[j].amount) <= 1
  /\ \A t \in Transactions : transaction[t].amount <= 1
  /\ accounting = "active"

\* A slow transaction misses a few commits; when periods close it is the first
\* one, and began before.
SmallSnapshot == slow # None =>
  /\ Len(journals) <= 3
  /\ Cardinality({d \in slow.changed : d[1] # "journal"}) <= 3
  /\ ClosingUnderWay => Unopened \subseteq {1} /\ \A p \in Periods : slow.periods[p] = "OPEN"

\* A purchase has two units.  Purchases and sales meet no reversals by hand, and an
\* accounting that is active or, for sales, off: their postings meet those and a
\* migration as other records' do.
SmallTrade ==
  /\ Of("purchase") =>
       (\A b \in Purchases : purchase[b].quantity # 1) /\ accounting = "active" /\ ByHand = 0
  /\ Of("sale") => today = 1 /\ accounting # "activated" /\ ByHand = 0

Bounded == OneRecord /\ SmallClosing /\ SmallSnapshot /\ SmallTrade

-----------------------------------------------------------------------------

OneNext ==
  /\ \/ OnLedger
     \/ \E v \in Views :
          \/ Records(v)
          \/ Of("purchase") /\ OnProcurement(v) /\ UNCHANGED sales
          \/ Of("sale") /\ Sale(v) /\ UNCHANGED bought
     \/ Of("sale") /\ OnUnits /\ UNCHANGED bought
     \/ /\ Of("invoice") \/ Of("sale")
        /\ \E i \in Invoices : Overdue(i)
        /\ UNCHANGED <<bought, sales>>
  /\ Snapshot
  /\ UNCHANGED concern
  /\ Bounded'

OneSpec == OneInit /\ [][OneNext]_<<vars, concern>>
=============================================================================
