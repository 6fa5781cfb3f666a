-------------------------- MODULE MCViewingSchedule --------------------------
(* Instances of ViewingSchedule for TLC. *)
EXTENDS ViewingSchedule, FiniteSets, TLC

CONSTANTS v1, v2, a1, a2, q1, q2, r1, r2, k1, w1, w2

\* Two windows that overlap without sharing an end, and one that only touches.
Overlapping == {<<1, 3>>, <<2, 4>>, <<3, 5>>}
Crossing == {<<1, 3>>, <<2, 4>>}
Single == {<<2, 3>>}

Interchangeable == Permutations(Workers)

\* State constraint, to check three kinds of behaviour in one run: requests compete for
\* the windows of two viewings and the workers get to no job; or one request at a time
\* changes one viewing of one window, while the clock and the workers that remind of it
\* run on; or while they copy it to the calendar, where after a crash or a lost lease
\* one call at most is under way.
Alone ==
  /\ viewings[v2].status = "absent" /\ tx[r2] = NoTx
  /\ \A k \in Keys : receipts[k] = "none"
Reached(kinds) ==
  \E i \in JobIds : i.kind \in kinds /\ jobs[i].status \in {"processing", "completed", "failed"}
Competing == ~approved /\ ~Reached(Kinds) /\ faults = 0 /\ clock = 0
Reminders == \E i \in JobIds : i.kind = "reminder" /\ jobs[i].status # "absent"
Reminded ==
  /\ Alone /\ ~approved /\ ~Reached({"sync", "delete"})
  /\ faults > 0 => Reminders
Copied ==
  /\ Alone /\ clock = 0 /\ open
  /\ ~Reminders
  /\ viewings[v1].window \in {<<0, 0>>, <<1, 3>>}
  /\ faults > 0 => Cardinality(net) <= 1 /\ viewings[v1].status # "closed"
OneConcern == Competing \/ Reminded \/ Copied
=============================================================================
