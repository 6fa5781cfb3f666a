---------------------------- MODULE MCSubscription ----------------------------
(* Instances of Subscription for TLC. *)
EXTENDS Subscription, TLC

CONSTANTS r1, r2, k1, k2, k3, g1, g2, c1, c2, w1, w2

Interchangeable == Permutations(Requests) \cup Permutations(Payments)
                     \cup Permutations(Callers) \cup Permutations(Workers)

\* State constraint, to check three kinds of behaviour in one run: requests, their
\* payments and cancellations; direct payments and an override; or direct payments
\* between two workers, one of them late.
NoRequests == /\ \A r \in Requests : requests[r].status = "absent"
              /\ \A c \in Callers : caller[c] = Idle
NoDirect == \A k \in Payments : payments[k] # Unpaid => payments[k].request # None
OneBusy == Cardinality({w \in Workers : caller[w] # Idle}) <= 1
OneConcern ==
  \/ NoDirect /\ edits = 0 /\ OneBusy /\ now <= 3
  \/ NoRequests /\ OneBusy /\ \A p \in periods : ~p.voided
  \/ NoRequests /\ edits = 0
===============================================================================
