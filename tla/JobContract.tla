----------------------------- MODULE JobContract -----------------------------
(***************************************************************************)
(* What the operations queue promises of a job, whatever the workers, the  *)
(* leases, the crashes and the deferrals do: a job is created once, it is  *)
(* completed only after its effect was performed, a completed or cancelled *)
(* job never comes back, and a dead (failed) job can only be superseded.   *)
(* The effect itself may be repeated, and may even follow a cancellation.  *)
(***************************************************************************)
CONSTANT Jobs
VARIABLES phase, performed

contractVars == <<phase, performed>>

Init ==
  /\ phase = [j \in Jobs |-> "absent"]
  /\ performed = {}

\* One database call may create one job and cancel or supersede others, but it
\* acknowledges at most one; each job takes one of these steps.
JobStep(j) ==
  \/ phase'[j] = phase[j]
  \/ phase[j] = "absent" /\ phase'[j] = "open"
  \/ phase[j] = "open" /\ phase'[j] = "completed" /\ j \in performed
  \/ phase[j] = "open" /\ phase'[j] \in {"failed", "cancelled"}
  \/ phase[j] = "failed" /\ phase'[j] = "cancelled"

Perform(j) ==
  \/ j \in performed' <=> j \in performed
  \/ phase[j] # "absent" /\ j \in performed'

Next ==
  /\ phase' \in [Jobs -> {"absent", "open", "completed", "failed", "cancelled"}]
  /\ performed' \subseteq Jobs
  /\ \A j \in Jobs : JobStep(j) /\ Perform(j)

Spec == Init /\ [][Next]_contractVars
=============================================================================
