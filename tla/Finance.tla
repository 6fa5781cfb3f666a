------------------------------- MODULE Finance -------------------------------
(***************************************************************************)
(* The money of a tenant, put together: one Ledger, the records that post  *)
(* to it, and the two modules that make records, purchases and sales.      *)
(***************************************************************************)
EXTENDS Procurement, Sales

vars == <<ledger, records, procurement, sales>>

Init == LedgerInit /\ RecordsInit /\ ProcurementInit /\ SalesInit

\* A step of the modules that leaves their neighbours alone.
OnLedger == LedgerNext /\ UNCHANGED <<records, bought, sales>>
OnRecords == RecordsNext /\ UNCHANGED <<bought, sales>>
Buying == (\E v \in Views : OnProcurement(v)) /\ UNCHANGED sales
Selling == ((\E v \in Views : OnBookings(v)) \/ OnUnits) /\ UNCHANGED bought

Next == (OnLedger \/ OnRecords \/ Buying \/ Selling) /\ Snapshot

Spec == Init /\ [][Next]_vars

-----------------------------------------------------------------------------
(* Properties. *)

\* Every variable keeps its shape: statuses are those of the schemas, and a
\* record links to journals that exist.
TypeOK == RecordsTypeOK /\ PurchasesTypeOK /\ SalesTypeOK

\* The books follow the records: revisions, voids, cancellations and payments,
\* concurrent, repeated or racing a migration, leave no journal twice, none
\* that its record has disowned, and none of an amount that was revised; an
\* invoice is paid as far as payments stand for it, a purchase no further,
\* and the instalments of a booking are covered by its payments in order.
BooksFollowRecords == RecordsFollowed /\ PurchasesFollowed /\ ScheduleFollowsPayments
=============================================================================
