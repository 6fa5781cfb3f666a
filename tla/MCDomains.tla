------------------------------ MODULE MCDomains ------------------------------
(* An instance of Domains for TLC. *)
EXTENDS Domains

CONSTANTS c1, c2

\* A behaviour of the instance has two checkers and two requests, one checker and three
\* requests, or one while an operator is at work.
VARIABLE concern

Checks(c) == (c = c1 \/ concern = "checks") /\ CheckGoesOn(c)
Operates == concern = "migration" /\ OnMigration

OneInit == DomainsInit /\ concern \in {"checks", "requests", "migration"}

OneNext ==
  /\ \/ (\E h \in Hosts : Ask(h)) \/ AddGoesOn \/ AddFails
     \/ \E c \in Checkers : Checks(c) \/ SaveFails(c) \/ CheckerDies(c)
     \/ Operates
     \/ SetFeature \/ SetDns \/ GraceEnds
  /\ UNCHANGED concern
  \* One thing goes wrong or is changed, or one of each.  An operator meets that or a
  \* second request.
  /\ concern # "requests" => adds' <= 2 /\ failures' + changes' <= 1
  /\ concern = "migration" => adds' + failures' + changes' <= 2
  \* New hosts are taken in order.
  /\ add' # Resting => add'.host <= adds'

OneFairness ==
  /\ WF_<<domainVars, concern>>(AddGoesOn /\ UNCHANGED concern)
  /\ WF_<<domainVars, concern>>(OperatorGoesOn /\ UNCHANGED concern)
  /\ \A c \in Checkers : WF_<<domainVars, concern>>(Checks(c) /\ UNCHANGED concern)

OneSpec == OneInit /\ [][OneNext]_<<domainVars, concern>> /\ OneFairness
=============================================================================
