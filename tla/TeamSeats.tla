------------------------------ MODULE TeamSeats ------------------------------
(***************************************************************************)
(* The team seats of one tenant: its users, its pending invitations and    *)
(* the limit that the plan and an administrator's override give it         *)
(* (module/user, teamInvitation, entitlement, tenantEntitlementOverride).  *)
(*                                                                         *)
(* A handler that goes through withTeamMemberQuotaGuard is a transaction   *)
(* that reads a snapshot and commits its writes together, unless another   *)
(* guarded one committed meanwhile (all of them write the organization     *)
(* first) or a document it writes has changed.  Its snapshot is the        *)
(* database itself, or `held`, taken earlier: of two transactions that     *)
(* overlap at most one commits, so one old snapshot at a time shows every  *)
(* overlap.  Handlers outside the guard write single documents; the        *)
(* administrator's edit is a read (`edit`) and a later save.               *)
(*                                                                         *)
(* Left out: sessions and notifications, permissions other than the role,  *)
(* and whether a phone number is taken.  A tenant's guarded handlers fail  *)
(* while the tenant is suspended.                                          *)
(***************************************************************************)
EXTENDS Naturals, FiniteSets, Sequences

CONSTANTS
  Owner,    \* organization.ownerId
  People,   \* e-mail addresses of everyone else
  None,
  Limits,   \* seats of the plans
  Grants,   \* overrides of the seat limit an administrator may give
  MaxEdits  \* bound: steps outside the guard other than the passing of time

ASSUME PeopleAssumption == Owner \notin People /\ None \notin People \cup {Owner}
ASSUME LimitsAssumption == Limits \subseteq Nat /\ MaxEdits \in Nat
ASSUME GrantsAssumption == Grants \subseteq [mode : {"set", "add"}, value : Nat]
ASSUME NoneAssumption == None \notin [grant : Grants, late : BOOLEAN]

VARIABLES
  db,    \* what is stored; see Init
  held,  \* the snapshot of a transaction under way, or None
  edit,  \* the user an administrator has read and is changing, or None
  edits

vars == <<db, held, edit, edits>>

Roles == {"agency_owner", "agency_admin", "agent"}
Statuses == {"pending", "active", "blocked"}
Sources == {"none", "subscription_quota", "tenant_admin", "platform_admin"}

User(w, r, s, v) ==
  [who |-> w, role |-> r, status |-> s, source |-> "none", was |-> "active", verified |-> v]

\* members in the order they joined, invitations in the order they were sent.
\* granted and swallowed are history: the seats taken outside the quota, and
\* whether a lapsed override was retired without a reconciliation.
Init ==
  /\ \E b \in Limits :
       db = [members |-> <<User(Owner, "agency_owner", "active", TRUE)>>, invites |-> <<>>,
             plan |-> b, override |-> None, suspended |-> FALSE,
             granted |-> {}, swallowed |-> FALSE]
  /\ held = None /\ edit = None /\ edits = 0

-----------------------------------------------------------------------------
(* What a handler reads. *)

Larger(a, b) == IF a >= b THEN a ELSE b
Seats(d) == DOMAIN d.members
Members(d) == {d.members[i].who : i \in Seats(d)}
Invited(d) == {d.invites[i].who : i \in DOMAIN d.invites}
Member(d, w) == d.members[CHOOSE i \in Seats(d) : d.members[i].who = w]

\* The documents that are not of any of the people.
Without(docs, people) ==
  LET kept[n \in 0..Len(docs)] ==
        IF n = 0 THEN <<>>
        ELSE IF docs[n].who \in people THEN kept[n - 1] ELSE Append(kept[n - 1], docs[n])
  IN  kept[Len(docs)]

Applied(base, o) == IF o.mode = "set" THEN o.value ELSE base + o.value

\* The override counts until it lapses, whatever its stored status says.
Due(d) == d.override # None /\ d.override.late
Limit(d) == IF d.override = None \/ Due(d) THEN d.plan ELSE Applied(d.plan, d.override.grant)

Used(d) == {i \in Seats(d) : d.members[i].status # "blocked" \/ d.members[i].who = Owner}
Reserved(d) == {i \in DOMAIN d.invites : ~d.invites[i].late}
Committed(d) == Cardinality(Used(d)) + Cardinality(Reserved(d))

HasCapacity(d, more) == ~d.suspended /\ Committed(d) + more <= Limit(d)

Managers(d) ==
  {d.members[i].who : i \in {j \in Seats(d) :
     d.members[j].status = "active" /\ d.members[j].role \in {"agency_owner", "agency_admin"}}}

-----------------------------------------------------------------------------
(* Transactions. *)

Snapshots == {db} \cup (IF held = None THEN {} ELSE {held})

Begin == held = None /\ held' = db /\ UNCHANGED <<db, edit, edits>>
Abort == held # None /\ held' = None /\ UNCHANGED <<db, edit, edits>>

\* Mutant: a guarded transaction does not write the organization.
Unserialized == held' = held

Serialized == held' = None

\* No document that s writes has been written since s was taken.
NoConflict(s, patch, dropped) ==
  /\ \A w \in DOMAIN patch : w \in Members(db) /\ Member(db, w) = Member(s, w)
  /\ dropped \subseteq Invited(db)

\* The writes of a guarded transaction on snapshot s: users changed and added,
\* invitations that end and start, and the tenant's own fields.
Commit(s, patch, hired, dropped, sent, org) ==
  /\ NoConflict(s, patch, dropped)
  /\ db' = [org EXCEPT
       !.members = [i \in Seats(db) |-> IF db.members[i].who \in DOMAIN patch
                                          THEN patch[db.members[i].who] ELSE db.members[i]] \o hired,
       !.invites = Without(db.invites, dropped) \o sent]
  /\ Serialized
  /\ UNCHANGED <<edit, edits>>

Unpatched == [w \in {} |-> None]
Patch(w, u) == [x \in {w} |-> u]

-----------------------------------------------------------------------------
(* reconcileTeamSeats: members over the limit are blocked, members blocked  *)
(* for the quota come back when the limit has grown, and the invitations    *)
(* that no longer fit are revoked, oldest kept.                             *)

Rank(r) == CASE r = "agency_owner" -> 0 [] r = "agency_admin" -> 1 [] r = "agent" -> 2

Before(d, i, j) ==
  \/ Rank(d.members[i].role) < Rank(d.members[j].role)
  \/ Rank(d.members[i].role) = Rank(d.members[j].role) /\ i < j

First(d, I, n) == {i \in I : Cardinality({j \in I : Before(d, j, i)}) < n}

NormalSeats(d) == {i \in Seats(d) : d.members[i].who # Owner}

Blocked(u, source) ==
  [u EXCEPT !.status = "blocked", !.source = source,
            !.was = IF u.status = "pending" THEN "pending" ELSE "active"]
Restored(u) == [u EXCEPT !.status = u.was, !.source = "none", !.was = "active"]

\* Mutant: any blocked member comes back.
AnyBlocked(u) == u.status = "blocked"

Restorable(u) == u.status = "blocked" /\ u.source = "subscription_quota"

ToBlock(d, limit) ==
  LET active == {i \in NormalSeats(d) : d.members[i].status # "blocked"}
  IN  active \ First(d, active, limit - 1)

ToRestore(d, limit, previous) ==
  LET kept == {i \in NormalSeats(d) : d.members[i].status # "blocked"} \ ToBlock(d, limit)
      waiting == {i \in NormalSeats(d) : Restorable(d.members[i])}
  IN  IF limit > Larger(1, previous) THEN First(d, waiting, limit - 1 - Cardinality(kept)) ELSE {}

ToRevoke(d, limit, previous) ==
  LET kept == {i \in NormalSeats(d) : d.members[i].status # "blocked"} \ ToBlock(d, limit)
      room == limit - 1 - Cardinality(kept) - Cardinality(ToRestore(d, limit, previous))
  IN  {i \in Reserved(d) : Cardinality({j \in Reserved(d) : j < i}) >= room}

\* The transaction on s of a handler that makes org of the tenant's fields and
\* reconciles the seats from the old limit to the new one.
Reconciling(s, org, previous, current) ==
  LET limit == Larger(1, current)
      changed == ToBlock(s, limit) \cup ToRestore(s, limit, previous)
      patched == {s.members[i].who : i \in changed}
      Change(u) == IF Restorable(u) THEN Restored(u) ELSE Blocked(u, "subscription_quota")
  IN  Commit(s, [w \in patched |-> Change(Member(s, w))], <<>>,
             {s.invites[i].who : i \in ToRevoke(s, limit, previous)}, <<>>,
             [org EXCEPT !.granted = db.granted \ (s.granted \cup patched),
                         !.swallowed = @ /\ ~s.swallowed])

\* A change of plan, whoever makes it: the entitlements are reconciled in the
\* transaction that writes the subscription.
ChangePlan(s) == \E b \in Limits \ {s.plan} :
  Reconciling(s, [db EXCEPT !.plan = b], Limit(s), Limit([s EXCEPT !.plan = b]))

OverrideUnwritten(s) == s.override # None => db.override # None

\* tenantEntitlementOverride.service
CreateOrReplace(s) == \E g \in Grants :
  LET o == [grant |-> g, late |-> FALSE]
  IN  /\ OverrideUnwritten(s)
      /\ Reconciling(s, [db EXCEPT !.override = o], Limit(s), Limit([s EXCEPT !.override = o]))

Revoke(s) ==
  /\ s.override # None /\ ~Due(s) /\ OverrideUnwritten(s)
  /\ Reconciling(s, [db EXCEPT !.override = None], Limit(s), s.plan)

\* A lapsed override no longer counts: the limit it gave is reconstructed.
BeforeExpiry(s) == Applied(s.plan, s.override.grant)
ApplyDueExpiration(s) ==
  /\ Due(s) /\ OverrideUnwritten(s)
  /\ Reconciling(s, [db EXCEPT !.override = None], BeforeExpiry(s), s.plan)

-----------------------------------------------------------------------------
(* The tenant's guarded handlers. *)

LateInvites(s) == {s.invites[i].who : i \in DOMAIN s.invites \ Reserved(s)}

\* Mutant: an earlier invitation of the same address is left alone.
OnlyLate(s, w) == LateInvites(s)

\* "Re-sending/replacing an invitation must consume one reservation, not two."
Superseded(s, w) == LateInvites(s) \cup ({w} \cap Invited(s))

\* createInvitation.  If the message cannot be delivered, RevokePending.
CreateInvitation(s) == \E w \in People, r \in {"agency_admin", "agent"} :
  LET ended == Superseded(s, w)
      kept == [s EXCEPT !.invites = Without(s.invites, ended)]
  IN  /\ Managers(db) # {}
      /\ w \notin Members(s)
      /\ HasCapacity(kept, 1)
      /\ Commit(s, Unpatched, <<>>, ended, <<[who |-> w, role |-> r, late |-> FALSE]>>, db)

\* acceptInvitation; the seat is the one the invitation reserves.
AcceptInvitation(s) == \E i \in Reserved(s) :
  LET v == s.invites[i]
  IN  /\ HasCapacity(s, 0)
      /\ v.who \notin Members(s)
      /\ Commit(s, Unpatched, <<User(v.who, v.role, "active", TRUE)>>, {v.who}, <<>>, db)

NewStatus == "pending"
CreateUser(s) == \E w \in People, r \in {"agency_admin", "agent"} :
  /\ Managers(db) # {}
  /\ w \notin Members(s)
  /\ HasCapacity(s, 1)
  /\ Commit(s, Unpatched, <<User(w, r, NewStatus, FALSE)>>, {}, <<>>, db)

\* updateMemberSeatAccess: another manager blocks or unblocks a member.
ByTheTenant(u) == u.source \in {"subscription_quota", "tenant_admin"}

UnblockMember(s) == \E w \in Members(s) \ {Owner} :
  LET u == Member(s, w)
  IN  /\ Managers(s) \ {w} # {}
      /\ u.status = "blocked" /\ ByTheTenant(u)
      /\ HasCapacity(s, 1)
      /\ Commit(s, Patch(w, Restored(u)), <<>>, {}, <<>>, db)

BlockMember(s) == \E w \in Members(s) \ {Owner} :
  LET u == Member(s, w)
  IN  /\ Managers(s) \ {w} # {}
      /\ u.status = "blocked" => u.source = "subscription_quota"
      /\ Commit(s, Patch(w, Blocked(u, "tenant_admin")), <<>>, {}, <<>>,
                [db EXCEPT !.granted = @ \ {w}])

-----------------------------------------------------------------------------
(* Outside the guard. *)

Edited == edits < MaxEdits /\ edits' = edits + 1

\* One user document written where it stands.
Write(w, u) ==
  db' = [db EXCEPT !.members = [i \in Seats(db) |-> IF db.members[i].who = w THEN u ELSE db.members[i]]]

\* revokePending, and the end of an invitation found late when it is accepted.
RevokePending == \E w \in Invited(db) :
  /\ Edited
  /\ db' = [db EXCEPT !.invites = Without(@, {w})]
  /\ UNCHANGED <<held, edit>>

DeleteUserById == \E w \in Members(db) \ {Owner} :
  /\ Edited
  /\ db' = [db EXCEPT !.members = Without(@, {w}), !.granted = @ \ {w}]
  /\ UNCHANGED <<held, edit>>

\* updateMemberAccess saves the role alone.
UpdateMemberAccess == \E w \in Members(db) \ {Owner}, r \in {"agency_admin", "agent"} :
  /\ Edited /\ Member(db, w).role # r
  /\ Write(w, [Member(db, w) EXCEPT !.role = r])
  /\ UNCHANGED <<held, edit>>

\* verifyUserSuperAdmin
VerifyUserSuperAdmin == \E w \in Members(db) :
  /\ Edited
  /\ Member(db, w).status = "pending" /\ ~Member(db, w).verified
  /\ Write(w, [Member(db, w) EXCEPT !.status = "active", !.verified = TRUE])
  /\ UNCHANGED <<held, edit>>

\* updateUserRoleSuperAdmin: the user is read ...
ReadUser == \E w \in Members(db), st \in Statuses :
  /\ Edited /\ edit = None
  /\ edit' = [read |-> Member(db, w), status |-> st]
  /\ UNCHANGED <<db, held>>

\* ... and saved, in the fields that differ from what was read.
Saved(u) ==
  LET r == edit.read
      st == IF edit.status = r.status THEN u.status ELSE edit.status
  IN  IF edit.status = "blocked"
        THEN [u EXCEPT !.status = st, !.source = "platform_admin",
                       !.was = IF "pending" \in {r.status, r.was} THEN "pending" ELSE "active"]
      ELSE IF edit.status = "active" /\ r.status = "blocked"
        THEN [u EXCEPT !.status = st, !.source = "none", !.was = "active"]
      ELSE [u EXCEPT !.status = st]

SaveUser ==
  /\ edit # None /\ edit' = None
  /\ LET w == edit.read.who
         u == Saved(Member(db, w))
         taken == w # Owner /\ Member(db, w).status = "blocked" /\ u.status # "blocked"
         members == [i \in Seats(db) |-> IF db.members[i].who = w THEN u ELSE db.members[i]]
     IN  IF w \notin Members(db) THEN UNCHANGED db
         ELSE db' = [db EXCEPT
                !.members = members,
                !.granted = IF taken THEN @ \cup {w} ELSE IF u.status = "blocked" THEN @ \ {w} ELSE @,
                !.suspended = IF w # Owner THEN @
                              ELSE IF edit.status = "blocked" THEN TRUE
                              ELSE IF edit.status = "active" THEN FALSE ELSE @]
  /\ UNCHANGED <<held, edits>>

\* auth.verifyOtp: a code that was sent while the user was pending.
VerifyOtp == \E w \in Members(db) :
  /\ Edited /\ ~Member(db, w).verified
  /\ db' = [db EXCEPT
       !.members = [i \in Seats(db) |-> IF db.members[i].who = w
                      THEN [Member(db, w) EXCEPT !.status = "active", !.verified = TRUE]
                      ELSE db.members[i]],
       !.granted = IF Member(db, w).status = "blocked" THEN @ \cup {w} ELSE @]
  /\ UNCHANGED <<held, edit>>

\* getHistory retires what has lapsed.
GetHistory ==
  /\ Edited /\ Due(db)
  /\ db' = [db EXCEPT !.override = None, !.swallowed = TRUE]
  /\ UNCHANGED <<held, edit>>

InvitationLapses == \E i \in Reserved(db) :
  /\ db' = [db EXCEPT !.invites[i].late = TRUE]
  /\ UNCHANGED <<held, edit, edits>>

OverrideLapses ==
  /\ db.override # None /\ ~Due(db)
  /\ db' = [db EXCEPT !.override.late = TRUE]
  /\ UNCHANGED <<held, edit, edits>>

-----------------------------------------------------------------------------
TenantStep(s) ==
  \/ CreateInvitation(s) \/ AcceptInvitation(s) \/ CreateUser(s)
  \/ UnblockMember(s) \/ BlockMember(s)

LimitStep(s) ==
  \/ ChangePlan(s) \/ CreateOrReplace(s) \/ Revoke(s) \/ ApplyDueExpiration(s)

PlatformStep == VerifyUserSuperAdmin \/ ReadUser \/ SaveUser

UserStep ==
  \/ RevokePending \/ DeleteUserById \/ UpdateMemberAccess \/ VerifyOtp
  \/ GetHistory \/ InvitationLapses \/ OverrideLapses

Next ==
  \/ Begin \/ Abort
  \/ \E s \in Snapshots : TenantStep(s) \/ LimitStep(s)
  \/ PlatformStep \/ UserStep

Spec == Init /\ [][Next]_vars

-----------------------------------------------------------------------------
(* Properties. *)

UserType == [who : People \cup {Owner}, role : Roles, status : Statuses, source : Sources,
             was : {"pending", "active"}, verified : BOOLEAN]
InviteType == [who : People, role : Roles, late : BOOLEAN]
DbType == [members : Seq(UserType), invites : Seq(InviteType), plan : Limits,
           override : [grant : Grants, late : BOOLEAN] \cup {None}, suspended : BOOLEAN,
           granted : SUBSET People, swallowed : BOOLEAN]

\* Every document has the shape of its schema, and no address has two users or
\* two pending invitations (user_email_unique, the revocation in
\* createInvitation).
TypeOK ==
  /\ db \in DbType
  /\ held \in DbType \cup {None}
  /\ edit \in [read : UserType, status : Statuses] \cup {None}
  /\ edits \in 0..MaxEdits
  /\ Cardinality(Members(db)) = Len(db.members)
  /\ Cardinality(Invited(db)) = Len(db.invites)

\* However invitations, acceptances, new users, unblocked members, changes of
\* plan and overrides overlap, the seats in use and those that invitations
\* reserve stay within the limit (one seat, the owner's, at least), except for
\* seats the platform or a verification code gave to a blocked member since the
\* last reconciliation, and while an override has lapsed unreconciled.
SeatsWithinLimit ==
  ~Due(db) /\ ~db.swallowed =>
    Committed(db) <= Larger(1, Limit(db)) + Cardinality(db.granted)

Suspended(d, w) ==
  w \in Members(d) /\ Member(d, w).status = "blocked" /\ Member(d, w).source = "platform_admin"

\* A member the platform has suspended stays so in every step that is not an
\* administrator's or the member's own verification: no manager, no larger plan
\* and no old transaction brings them back.
SuspensionHolds ==
  [][\A w \in People : Suspended(db, w) /\ ~SaveUser /\ ~VerifyOtp =>
       Suspended(db', w) \/ w \notin Members(db')]_vars
=============================================================================
