-------------------------- MODULE MCOperationsQueue --------------------------
(* Instances of OperationsQueue for TLC. *)
EXTENDS OperationsQueue, TLC

CONSTANTS j1, j2, w1, w2, t1, t2, t3, t4, t5, reminder, sms, domain, cleanup

KindOf == (reminder :> "reminder") @@ (sms :> "business") @@
          (domain :> "domain") @@ (cleanup :> "maintenance")
MCKind == [e \in Entities |-> KindOf[e]]

\* Jobs, workers and tokens are interchangeable (used in safety runs only).
Symmetric == Permutations(Jobs) \cup Permutations(Workers) \cup Permutations(Tokens)
=============================================================================
