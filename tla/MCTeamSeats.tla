----------------------------- MODULE MCTeamSeats -----------------------------
EXTENDS TeamSeats, TLC

MCGrants == {[mode |-> "set", value |-> 2]}

Symmetric == Permutations(People)

\* Bound: everyone who is invited is invited as an agent, and everyone who is
\* hired as an administrator; UpdateMemberAccess changes that.
FewRoles ==
  /\ \A i \in DOMAIN db'.invites : db'.invites[i].role = "agent"
  /\ Len(db'.members) > Len(db.members) =>
       LET u == db'.members[Len(db'.members)]
       IN  u.verified \/ u.role = "agency_admin"

\* Bound: a transaction is overtaken either by others or by one edit.
FewOverlaps == held # None => edits <= 1
=============================================================================
