---------------------------- MODULE TenantProofs ----------------------------
(***************************************************************************)
(* What holds of the deletion of a tenant for every number of users, calls *)
(* and requests, and then of its custom domain for every number of hosts,  *)
(* checkers, requests, operations and failures.                            *)
(*                                                                         *)
(* The inductive invariant of the deletion, IInv, says, for every step of  *)
(* a call, what the call can still find.  It has two halves: what holds    *)
(* however calls and decisions overlap (Findable, AfterTheCount), and what *)
(* holds only while they do not (Undisturbed): a call whose lock another   *)
(* one lifts may forget users and registrations it has seen.  That of the  *)
(* domain, DomainsInv, is introduced where it is defined.                  *)
(***************************************************************************)
EXTENDS TenantPurge, Domains, TLAPS

-----------------------------------------------------------------------------
(* The inductive invariant. *)

Steps == {"idle", "users", "collect", "lock", "close", "remove", "check", "delete",
          "scoped", "members", "count", "root", "settle"}

Organization == [status : {"active", "blocked", "pending_deletion"}, ids : SUBSET Users]

PurgeRecord == [pc : Steps, ids : SUBSET Users, manifest : SUBSET DOMAIN NamedBy, round : 1..2]

RequestRecord ==
  [pc : {"idle", "record", "object", "host", "candidate", "upsert", "visit", "done"}]
    \cup [pc : {"profile", "join", "done"}, user : Users]

DecisionRecord ==
  [pc : {"idle", "done"}]
    \cup [pc : {"save"}, status : {"active", "blocked"}, ids : SUBSET Users]

\* The types, with the fields of every record.
Shape ==
  /\ root \in Organization \cup {NoRoot}
  /\ documents \subseteq Documents /\ externals \subseteq Externals
  /\ users \subseteq Users /\ linked \subseteq Users
  /\ cached \in BOOLEAN /\ faults \in 0..MaxFaults
  /\ purge \in [Purges -> PurgeRecord]
  /\ request \in [Requests -> RequestRecord]
  /\ decision \in DecisionRecord
  /\ late \subseteq Documents \cup Externals \cup Users
  /\ unknown \subseteq Externals \cup Users /\ disturbed \in BOOLEAN

\* Old uploads and the domain, which no request adds.
Old == externals \cap {"file", "domain"}

\* A call has its manifest; it has checked that what its manifest names is gone.
Collected(p) == purge[p].pc \in Steps \ {"idle", "users", "collect"}
Checked(p) ==
  \/ purge[p].pc \in {"delete", "scoped", "members", "count", "root", "settle"}
  \/ purge[p].pc \in {"close", "remove", "check"} /\ purge[p].round = 2

\* What is old is named by a document of the tenant and by the manifest of each call
\* that has one; it is gone once a call has checked, and with the root.  A call that has
\* not locked yet is in its first round.
Findable ==
  /\ \A p \in Purges : purge[p].pc \in {"idle", "users", "collect", "lock"} => purge[p].round = 1
  /\ root # NoRoot => \A e \in Old : NamedBy[e] \in documents
  /\ root = NoRoot => Old = {}
  /\ \A p \in Purges : /\ Collected(p) => Old \subseteq purge[p].manifest
                       /\ Checked(p) => Old = {}

\* From a count that found nothing on, all that is there came later.
AfterTheCount ==
  Sealed => (documents \cap Registered) \cup users \cup (externals \ {"host"}) \subseteq late

\* Users a later call will find: on the root, as users, or not met by a call yet.
Known == users \cup root.ids \cup unknown

Locked(p) ==
  purge[p].pc \in {"close", "remove", "check", "delete", "scoped", "members", "count", "root"}

\* A registration that a call has met is gone, or about to be.
HostKnown(p) ==
  /\ "host" \notin purge[p].manifest \/ Checked(p) => "host" \notin externals \ unknown

\* What holds of a call under way that nothing disturbs: the root stands until the call
\* deletes it, keeps the call's lock, and names every user the call is to find.
Holds(p) ==
  /\ At(p, "settle") \/ root # NoRoot
  /\ At(p, "users") => purge[p].ids = root.ids
  /\ purge[p].pc \in {"collect", "lock"} => root.ids \subseteq purge[p].ids
  /\ Locked(p) => root = [status |-> "pending_deletion", ids |-> purge[p].ids]
  /\ At(p, "collect") \/ At(p, "lock") \/ Locked(p) => users \subseteq purge[p].ids \cup unknown
  /\ Collected(p) => HostKnown(p)

Undisturbed ==
  /\ \A p, q \in InFlight : p = q
  /\ \A p \in InFlight : Holds(p)
  /\ decision.pc = "save" => decision.ids = {}
  /\ root # NoRoot =>
       /\ root.status = "pending_deletion" \/ root.ids = {}
       /\ "host" \in externals \ unknown => "candidate" \in documents
       /\ linked \subseteq Known
       /\ \A r \in Requests : RequestIs(r, "profile") => request[r].user \in Known
  /\ Sealed => (linked \cup externals) \ unknown \subseteq late

IInv ==
  /\ Shape
  /\ Findable
  /\ AfterTheCount
  /\ ~disturbed => Undisturbed

-----------------------------------------------------------------------------
(* Types. *)

\* What NamedBy names, by what.
LEMMA Names ==
  /\ DOMAIN NamedBy = {"file", "domain", "host"}
  /\ NamedBy["file"] = "reference" /\ NamedBy["domain"] = "domainRecord"
  /\ NamedBy["host"] = "candidate"
  BY DEF NamedBy

USE Names

\* A call that goes on, or ends, keeps its fields in their types.
LEMMA CallTyped ==
  ASSUME Shape, NEW p \in Purges,
         \/ Ended(p)
         \/ \E pc \in Steps : Goto(p, pc)
  PROVE  purge' \in [Purges -> PurgeRecord]
<1>1. IdlePurge \in PurgeRecord BY DEF IdlePurge, PurgeRecord, Steps
<1>2. \A pc \in Steps : [purge[p] EXCEPT !.pc = pc] \in PurgeRecord
  BY DEF Shape, PurgeRecord
<1> QED BY <1>1, <1>2 DEF Shape, Ended, Goto

\* Every step of a call keeps the types.
LEMMA CallShape ==
  ASSUME Shape, NEW p \in Purges, Start(p) \/ Progress(p) \/ Fail(p)
  PROVE  Shape'
<1> USE DEF Shape
<1>1. CASE Start(p)
  <2>1. root \in Organization BY <1>1 DEF Start
  <2>2. [purge[p] EXCEPT !.pc = "users", !.ids = root.ids] \in PurgeRecord
    BY <2>1 DEF Organization, PurgeRecord, Steps
  <2> QED BY <1>1, <2>2 DEF Start, data
<1>2. CASE ReadUsers(p)
  <2>1. [purge[p] EXCEPT !.pc = "collect", !.ids = mergePurgeUserIds(purge[p].ids, users)]
          \in PurgeRecord
    BY DEF PurgeRecord, Steps, mergePurgeUserIds
  <2> QED BY <1>2, <2>1 DEF ReadUsers, data
<1>3. CASE collect(p)
  <2>1. [purge[p] EXCEPT !.pc = "lock", !.manifest = Manifest] \in PurgeRecord
    BY DEF PurgeRecord, Steps, Manifest
  <2> QED BY <1>3, <2>1 DEF collect, data
<1>4. CASE Lock(p)
  <2>1. purge' \in [Purges -> PurgeRecord]
    BY <1>4, CallTyped DEF Lock, Steps
  <2>2. [status |-> "pending_deletion", ids |-> purge[p].ids] \in Organization
    BY DEF PurgeRecord, Organization
  <2> QED BY <1>4, <2>1, <2>2 DEF Lock, data, ghosts
<1>5. CASE Close(p) \/ verifyDeleted(p) \/ deleteUserLinkedDocuments(p)
             \/ deleteTenantScopedDocuments(p) \/ assertZeroState(p)
             \/ deleteOrganizationRoot(p) \/ Settle(p)
  <2>1. purge' \in [Purges -> PurgeRecord]
    BY <1>5, CallTyped
    DEF Close, verifyDeleted, deleteUserLinkedDocuments, deleteTenantScopedDocuments,
        assertZeroState, deleteOrganizationRoot, Settle, Steps
  <2> QED
    BY <1>5, <2>1
    DEF Close, verifyDeleted, deleteUserLinkedDocuments, deleteTenantScopedDocuments,
        assertZeroState, deleteOrganizationRoot, Settle, data, ghosts
<1>6. CASE Remove(p)
  <2>1. purge' \in [Purges -> PurgeRecord] BY <1>6, CallTyped DEF Remove, Steps
  <2>2. faults' \in 0..MaxFaults BY <1>6, FaultsAssumption DEF Remove
  <2> QED BY <1>6, <2>1, <2>2 DEF Remove, ghosts
<1>7. CASE deleteTenantUsers(p)
  <2>1. 2 \in 1..2 OBVIOUS
  <2>2. \A pc \in Steps, n \in 1..2 : [purge[p] EXCEPT !.pc = pc, !.round = n] \in PurgeRecord
    BY DEF PurgeRecord
  <2> QED BY <1>7, <2>1, <2>2 DEF deleteTenantUsers, AfterDelete, Steps, ghosts
<1>8. CASE Fail(p)
  <2>1. purge' \in [Purges -> PurgeRecord] BY <1>8, CallTyped DEF Fail
  <2>2. faults' \in 0..MaxFaults BY <1>8, FaultsAssumption DEF Fail
  <2> QED BY <1>8, <2>1, <2>2 DEF Fail, data, ghosts
<1> QED BY <1>1, <1>2, <1>3, <1>4, <1>5, <1>6, <1>7, <1>8 DEF Progress

\* So does every step of another request, and of another decision.
LEMMA OtherShape ==
  ASSUME Shape,
         \/ \E r \in Requests : Admit(r) \/ Serve(r)
         \/ ReadRoot \/ SaveRoot
  PROVE  Shape'
<1> USE DEF Shape
<1>1. ASSUME NEW r \in Requests, Admit(r) PROVE Shape'
  <2>1. Admissible \subseteq RequestRecord
    BY DEF Admissible, RequestRecord, Users
  <2> QED BY <1>1, <2>1 DEF Admit, data, ghosts
<1>2. ASSUME NEW r \in Requests, Serve(r) PROVE Shape'
  <2>1. \A pc \in {"record", "candidate", "upsert", "done"} :
          [request[r] EXCEPT !.pc = pc] \in RequestRecord \/ request[r].pc \in {"profile", "join", "done"}
    BY DEF RequestRecord
  <2>2. [request[r] EXCEPT !.pc = "done"] \in RequestRecord
    BY DEF RequestRecord
  <2>3. request' \in [Requests -> RequestRecord]
    BY <1>2, <2>1, <2>2
    DEF Serve, WriteRecord, PutObject, RegisterHost, SaveHost, SaveProfile,
        acceptInvitation, Visit, RequestIs, Moves
  <2>4. request[r].pc \in {"profile", "join"} => request[r].user \in Users
    BY DEF RequestRecord
  <2>5. CASE WriteRecord(r)
    BY <1>2, <2>3, <2>5 DEF WriteRecord, Wrote, Documents, ghosts
  <2>6. CASE PutObject(r)
    BY <1>2, <2>3, <2>6 DEF PutObject, Wrote, Externals, ghosts
  <2>7. CASE RegisterHost(r)
    BY <1>2, <2>3, <2>7 DEF RegisterHost, Wrote, Externals, ghosts
  <2>8. CASE SaveHost(r)
    BY <1>2, <2>3, <2>8 DEF SaveHost, Wrote, Documents, ghosts
  <2>9. CASE SaveProfile(r)
    BY <1>2, <2>3, <2>4, <2>9 DEF SaveProfile, Wrote, RequestIs, ghosts
  <2>10. CASE acceptInvitation(r)
    BY <1>2, <2>3, <2>4, <2>10 DEF acceptInvitation, Wrote, RequestIs, ghosts
  <2>11. CASE Visit(r)
    BY <1>2, <2>3, <2>11 DEF Visit, ghosts
  <2> QED BY <1>2, <2>5, <2>6, <2>7, <2>8, <2>9, <2>10, <2>11 DEF Serve
<1>3. CASE ReadRoot
  <2>1. decision' \in DecisionRecord
    BY <1>3, NamesAssumption DEF ReadRoot, DecisionRecord, Opposite, Organization
  <2> QED BY <1>3, <2>1 DEF ReadRoot, data, ghosts
<1>4. CASE SaveRoot
  <2>1. decision' \in DecisionRecord BY <1>4 DEF SaveRoot, DecisionRecord
  <2>2. root' \in Organization \cup {NoRoot}
    BY <1>4 DEF SaveRoot, DecisionRecord, Organization
  <2> QED BY <1>4, <2>1, <2>2 DEF SaveRoot, data
<1> QED BY <1>1, <1>2, <1>3, <1>4

-----------------------------------------------------------------------------
(* Steps of other requests. *)

\* What a step of a request does: it only adds; after a count all it adds is late; a
\* registration and a user it adds are unknown to calls, and documents of a user alone
\* are of an unknown user or of one for whom it was admitted, a user then.
Writes ==
  /\ UNCHANGED <<root, purge, decision, disturbed>>
  /\ documents \subseteq documents' /\ users \subseteq users' /\ linked \subseteq linked'
  /\ externals \subseteq externals' /\ externals' \subseteq externals \cup {"object", "host"}
  /\ unknown \subseteq unknown'
  /\ Sealed => /\ late \subseteq late'
               /\ (documents' \ documents) \cup (externals' \ externals) \cup (users' \ users)
                    \cup (linked' \ linked) \subseteq late'
  /\ "host" \in externals' \ unknown' => "host" \in externals \ unknown
  /\ users' \subseteq users \cup unknown'
  /\ \A u \in linked' : \/ u \in linked \cup unknown'
                        \/ \E r \in Requests : RequestIs(r, "profile") /\ request[r].user = u
  /\ \A r \in Requests : RequestIs(r, "profile")' =>
       request'[r] = request[r] \/ request'[r].user \in users

\* Each step of a request is of this kind.
LEMMA RequestWrites ==
  ASSUME Shape, NEW r \in Requests, Admit(r) \/ Serve(r)
  PROVE  Writes
<1> USE DEF RequestIs, Moves
<1>1. request \in [Requests -> RequestRecord] BY DEF Shape
<1>2. CASE Admit(r)
  <2>1. \A first \in Admissible : first.pc = "profile" => first.user \in users
    BY DEF Admissible
  <2> QED BY <1>1, <1>2, <2>1 DEF Admit, Writes, data, ghosts
<1>3. CASE Serve(r)
  <2>1. \A q \in Requests : request'[q].pc = "profile" => request'[q] = request[q]
    BY <1>1, <1>3
    DEF Serve, WriteRecord, PutObject, RegisterHost, SaveHost, SaveProfile,
        acceptInvitation, Visit, RequestRecord
  <2> QED
    BY <1>3, <2>1
    DEF Serve, WriteRecord, PutObject, RegisterHost, SaveHost, SaveProfile,
        acceptInvitation, Visit, Writes, Wrote, ghosts
<1> QED BY <1>2, <1>3

\* They preserve the invariant.
LEMMA RequestStep ==
  ASSUME IInv, NEW r \in Requests, Admit(r) \/ Serve(r)
  PROVE  IInv'
<1>1. Writes BY RequestWrites DEF IInv
<1>2. Shape' BY OtherShape DEF IInv
<1>3. Findable'
  BY <1>1 DEF IInv, Findable, Writes, Old, Collected, Checked
<1>4. Sealed' <=> Sealed BY <1>1 DEF Writes, Sealed, At
<1>5. AfterTheCount' BY <1>1, <1>4 DEF IInv, AfterTheCount, Writes
<1>6. ASSUME Undisturbed, ~disturbed PROVE Undisturbed'
  <2>1. \A p, q \in InFlight' : p = q
    BY <1>1, <1>6 DEF Undisturbed, Writes, InFlight
  <2>2. ASSUME NEW p \in InFlight' PROVE Holds(p)'
    BY <1>1, <1>6, <2>2
    DEF Undisturbed, Writes, InFlight, Holds, HostKnown, Collected, Checked, Locked, At
  <2>3. decision'.pc = "save" => decision'.ids = {}
    BY <1>1, <1>6 DEF Undisturbed, Writes
  <2>4. root' # NoRoot =>
          /\ root'.status = "pending_deletion" \/ root'.ids = {}
          /\ "host" \in externals' \ unknown' => "candidate" \in documents'
    BY <1>1, <1>6 DEF Undisturbed, Writes
  <2>5. root' # NoRoot =>
          /\ linked' \subseteq Known'
          /\ \A q \in Requests : RequestIs(q, "profile")' => request'[q].user \in Known'
    BY <1>1, <1>6 DEF Undisturbed, Writes, Known, RequestIs
  <2>6. Sealed' => (linked' \cup externals') \ unknown' \subseteq late'
    BY <1>1, <1>4, <1>6 DEF Undisturbed, Writes
  <2> QED BY <2>1, <2>2, <2>3, <2>4, <2>5, <2>6 DEF Undisturbed
<1> QED BY <1>1, <1>2, <1>3, <1>5, <1>6 DEF IInv, Writes

-----------------------------------------------------------------------------
(* Steps of another decision. *)

\* A decision that is saved over the lock disturbs; any other leaves the root as it was,
\* but for its status.
LEMMA DecisionStep ==
  ASSUME IInv, ReadRoot \/ SaveRoot
  PROVE  IInv'
<1>1. Shape' BY OtherShape DEF IInv
<1>2. /\ UNCHANGED <<data, purge, request, late, unknown>>
      /\ root' = NoRoot <=> root = NoRoot
  BY <1>1, NamesAssumption
  DEF ReadRoot, SaveRoot, ghosts, IInv, Shape, Organization, DecisionRecord
<1>3. Findable'
  BY <1>2 DEF IInv, Findable, Old, Collected, Checked, data
<1>4. Sealed' <=> Sealed BY <1>2 DEF Sealed, At
<1>5. AfterTheCount' BY <1>2, <1>4 DEF IInv, AfterTheCount, data
<1>6. ASSUME ~disturbed' PROVE Undisturbed'
  <2>1. ~disturbed /\ Undisturbed
    BY <1>6 DEF IInv, ReadRoot, SaveRoot, ghosts
  <2>2. root # NoRoot =>
          /\ root'.ids = root.ids
          /\ root' = root \/ root.status # "pending_deletion"
    <3>1. CASE ReadRoot BY <3>1 DEF ReadRoot
    <3>2. CASE SaveRoot /\ root # NoRoot
      <4>1. disturbed' = (disturbed \/ root.status = "pending_deletion")
        BY <3>2 DEF SaveRoot
      <4>2. root.status # "pending_deletion" BY <1>6, <4>1, Zenon
      <4>3. root.ids = {} BY <2>1, <3>2, <4>2 DEF Undisturbed
      <4>4. root'.ids = {} BY <2>1, <3>2 DEF SaveRoot, Undisturbed
      <4> QED BY <4>2, <4>3, <4>4
    <3> QED BY <3>1, <3>2
  <2>3. \A p \in InFlight' : Holds(p)'
    BY <1>2, <2>1, <2>2
    DEF Undisturbed, InFlight, Holds, HostKnown, Collected, Checked, Locked, At, data
  <2>4. decision'.pc = "save" => decision'.ids = {}
    BY <2>1 DEF Undisturbed, ReadRoot, SaveRoot, Opposite
  <2>5. root' # NoRoot => root'.status = "pending_deletion" \/ root'.ids = {}
    BY <1>2, <2>1, <2>2 DEF Undisturbed
  <2>6. Known' = Known \/ root = NoRoot BY <1>2, <2>2 DEF Known, data
  <2> QED
    BY <1>2, <1>4, <2>1, <2>3, <2>4, <2>5, <2>6
    DEF Undisturbed, InFlight, RequestIs, data
<1> QED BY <1>1, <1>3, <1>5, <1>6 DEF IInv

-----------------------------------------------------------------------------
(* Steps of a call. *)

\* The record of a call that goes on is the same but for its step; that of one that ends
\* is empty; those of other calls stay.
Becomes(p, pc) ==
  /\ purge'[p].pc = pc /\ purge'[p].ids = purge[p].ids
  /\ purge'[p].manifest = purge[p].manifest /\ purge'[p].round = purge[p].round

\* A move leaves the other calls alone.
LEMMA Moved ==
  ASSUME Shape, NEW p \in Purges
  PROVE  /\ \A pc : Goto(p, pc) => Becomes(p, pc)
         /\ Ended(p) => purge'[p] = IdlePurge
         /\ Ended(p) \/ (\E pc : Goto(p, pc)) =>
              \A q \in Purges \ {p} : purge'[q] = purge[q]
  BY DEF Shape, PurgeRecord, Goto, Ended, Becomes

\* A call that ends, having removed some resources at most.
LEMMA EndStep ==
  ASSUME IInv, Shape', NEW p \in Purges, Ended(p), externals' \subseteq externals,
         UNCHANGED <<root, documents, users, linked, request, decision, ghosts>>
  PROVE  IInv'
<1>1. /\ purge'[p] = IdlePurge
      /\ \A q \in Purges \ {p} : purge'[q] = purge[q]
  BY Moved DEF IInv
<1>2. UNCHANGED <<late, unknown, disturbed>> BY DEF ghosts
<1>3. Findable'
  <2>1. Old' \subseteq Old BY DEF Old
  <2> QED BY <1>1, <2>1 DEF IInv, Findable, Collected, Checked, IdlePurge
<1>4. Sealed' => Sealed BY <1>1 DEF Sealed, At, IdlePurge
<1>5. AfterTheCount' BY <1>2, <1>4 DEF IInv, AfterTheCount
<1>6. ASSUME Undisturbed PROVE Undisturbed'
  <2>1. InFlight' \subseteq InFlight /\ p \notin InFlight'
    BY <1>1 DEF InFlight, IdlePurge
  <2>2. \A q \in InFlight' : Holds(q)'
    BY <1>1, <1>2, <1>6, <2>1
    DEF Undisturbed, InFlight, Holds, HostKnown, Collected, Checked, Locked, At
  <2> QED BY <1>2, <1>4, <1>6, <2>1, <2>2 DEF Undisturbed, Known, RequestIs
<1> QED BY <1>2, <1>3, <1>5, <1>6 DEF IInv

\* A call that goes on behind its lock, removing something at most.  It removes documents
\* once it has checked, and what it checks or counts is gone.
LEMMA LockedStep ==
  ASSUME IInv, Shape', NEW p \in Purges, Locked(p), Locked(p)',
         purge'[p].ids = purge[p].ids, purge'[p].manifest = purge[p].manifest,
         \A q \in Purges \ {p} : purge'[q] = purge[q],
         UNCHANGED <<root, request, decision, ghosts>>,
         documents' \subseteq documents, externals' \subseteq externals,
         users' \subseteq users, linked' \subseteq linked,
         documents' = documents \/ Checked(p),
         Checked(p)' => Checked(p) \/ Targets(p) \cap externals = {},
         At(p, "root")' => At(p, "count") /\ Zero(p)
  PROVE  IInv'
<1>1. UNCHANGED <<late, unknown, disturbed>> BY DEF ghosts
<1>2. Old' \subseteq Old BY DEF Old
<1>3. Checked(p)' => Old = {}
  BY DEF IInv, Findable, Targets, Collected, Locked, Steps, Old
<1>4. Findable'
  <2>1. \A q \in Purges : Collected(q)' => Collected(q)
    BY DEF Collected, Locked, Steps
  <2>2. \A q \in Purges : Checked(q)' => Old' = {}
    BY <1>2, <1>3 DEF IInv, Findable, Checked
  <2>3. root' # NoRoot => \A e \in Old' : NamedBy[e] \in documents'
    BY <1>2 DEF IInv, Findable
  <2> QED BY <1>2, <2>1, <2>2, <2>3 DEF IInv, Findable, Locked
<1>5. ASSUME At(p, "root")'
      PROVE  /\ externals \subseteq {"host"} /\ documents \cap Registered = {} /\ users = {}
             /\ linked \cap purge[p].ids = {}
  <2>1. Zero(p) /\ Checked(p) BY <1>5 DEF At, Checked
  <2>2. Old = {} BY <2>1 DEF IInv, Findable
  <2>3. "object" \notin externals BY <2>1 DEF Zero, Targets
  <2>4. externals \subseteq {"host"} BY <2>2, <2>3 DEF IInv, Shape, Externals, Old
  <2> QED BY <2>1, <2>4 DEF Zero
<1>6. Sealed' => Sealed \/ At(p, "root")' BY DEF Sealed, At
<1>7. AfterTheCount' BY <1>1, <1>5, <1>6 DEF IInv, AfterTheCount
<1>8. ASSUME Undisturbed PROVE Undisturbed'
  <2>1. InFlight' \subseteq InFlight /\ p \in InFlight
    BY DEF InFlight, Locked
  <2>2. /\ Holds(p) /\ InFlight' \subseteq {p} /\ root # NoRoot
        /\ root = [status |-> "pending_deletion", ids |-> purge[p].ids]
    BY <1>8, <2>1 DEF Undisturbed, Holds, Locked, At
  <2>3. users \subseteq root.ids \cup unknown BY <2>2 DEF Holds
  <2>4. Known' = root.ids \cup unknown /\ Known = root.ids \cup unknown
    BY <1>1, <2>3 DEF Known
  <2>5. Checked(p)' => "host" \notin externals \ unknown
    BY <1>8, <2>2 DEF Undisturbed, Holds, HostKnown, Collected, Locked, Steps, Targets
  <2>6. HostKnown(p)'
    BY <1>1, <2>2, <2>5 DEF Holds, HostKnown, Collected, Locked, Steps
  <2>7. Holds(p)'
    BY <1>1, <2>2, <2>3, <2>6 DEF Holds, Locked, At
  <2>8. Checked(p) => Checked(p)' \/ Checked(p) OBVIOUS
  <2>9. "host" \in externals' \ unknown' => "candidate" \in documents'
    BY <1>1, <1>8, <2>2 DEF Undisturbed, Holds, HostKnown, Collected, Locked, Steps
  <2>10. linked' \subseteq Known' /\ linked \subseteq root.ids \cup unknown
    BY <1>8, <2>2, <2>4 DEF Undisturbed
  <2>11. \A r \in Requests : RequestIs(r, "profile")' => request'[r].user \in Known'
    BY <1>8, <2>2, <2>4 DEF Undisturbed, RequestIs
  <2>12. Sealed' => (linked' \cup externals') \ unknown' \subseteq late'
    <3>1. CASE Sealed BY <1>1, <1>8, <3>1 DEF Undisturbed
    <3>2. CASE At(p, "root")'
      <4>1. Checked(p)' BY <3>2 DEF At, Checked
      <4>2. linked \subseteq unknown BY <1>5, <2>2, <2>10, <3>2
      <4> QED BY <1>1, <1>5, <2>5, <3>2, <4>1, <4>2
    <3> QED BY <1>6, <3>1, <3>2
  <2> QED
    BY <1>1, <1>8, <2>2, <2>7, <2>9, <2>10, <2>11, <2>12 DEF Undisturbed
<1> QED BY <1>1, <1>4, <1>7, <1>8 DEF IInv

\* A call on its way to the lock.
LEMMA EarlyStep ==
  ASSUME IInv, Shape', NEW p \in Purges,
         \/ Start(p) \/ ReadUsers(p) \/ collect(p)
         \/ Lock(p) /\ root # NoRoot
  PROVE  IInv'
<1> DEFINE early == {"users", "collect", "lock", "close"}
<1>1. /\ \A q \in Purges \ {p} : purge'[q] = purge[q]
      /\ purge'[p].pc \in early /\ purge'[p].round = 1
      /\ purge[p].pc \in {"idle", "users", "collect", "lock"}
  BY DEF IInv, Shape, PurgeRecord, Findable, Start, ReadUsers, collect, Lock, Goto, At
<1>2. /\ UNCHANGED <<documents, externals, users, linked, request, decision, late>>
      /\ root' = NoRoot <=> root = NoRoot
  BY NamesAssumption
  DEF Start, ReadUsers, collect, Lock, data, ghosts, IInv, Shape, PurgeRecord
<1>3. Sealed' => Sealed BY <1>1, <1>2 DEF Sealed, At
<1>4. Findable'
  <2>1. Collected(p)' => Old \subseteq purge'[p].manifest
    <3>1. CASE collect(p)
      <4>1. Old \subseteq Manifest BY DEF IInv, Findable, Old, Manifest
      <4>2. purge'[p].manifest = Manifest
        BY <3>1 DEF collect, IInv, Shape, PurgeRecord
      <4> QED BY <4>1, <4>2
    <3>2. CASE Lock(p) /\ root # NoRoot
      <4>1. purge'[p].manifest = purge[p].manifest /\ Collected(p)
        BY <3>2 DEF Lock, Goto, At, IInv, Shape, PurgeRecord, Collected, Steps
      <4> QED BY <4>1 DEF IInv, Findable
    <3>3. CASE Start(p) \/ ReadUsers(p)
      BY <3>3 DEF Start, ReadUsers, IInv, Shape, PurgeRecord, Collected
    <3> QED BY <3>1, <3>2, <3>3
  <2>2. ~Checked(p)' BY <1>1 DEF Checked
  <2>3. Old' = Old BY <1>2 DEF Old
  <2> QED
    BY <1>1, <1>2, <2>1, <2>2, <2>3 DEF IInv, Findable, Collected, Checked
<1>5. AfterTheCount' BY <1>2, <1>3 DEF IInv, AfterTheCount
<1>6. ASSUME ~disturbed' PROVE Undisturbed'
  <2>1. ~disturbed /\ (Start(p) => InFlight = {})
    <3>1. CASE Start(p)
      <4>1. disturbed' = (disturbed \/ InFlight # {}) BY <3>1 DEF Start
      <4> QED BY <1>6, <4>1, Zenon
    <3>2. CASE purge[p].pc # "idle"
      BY <1>6, <3>2 DEF Start, ReadUsers, collect, Lock, ghosts, At
    <3> QED BY <3>1, <3>2 DEF ReadUsers, collect, Lock, At
  <2>2. Undisturbed BY <2>1 DEF IInv
  <2>3. InFlight' = {p}
    <3>1. Start(p) \/ p \in InFlight BY DEF ReadUsers, collect, Lock, At, InFlight
    <3>2. InFlight \subseteq {p} BY <2>1, <2>2, <3>1 DEF Undisturbed
    <3> QED BY <1>1, <3>2 DEF InFlight
  <2>4. root # NoRoot /\ (Start(p) \/ Holds(p))
    BY <2>2 DEF Start, ReadUsers, collect, Lock, Undisturbed, Holds, InFlight, At
  <2>5. /\ Users \cap Manifest = {} /\ "host" \notin Users /\ users \subseteq Users
        /\ purge[p].ids \subseteq Users /\ linked \subseteq Users
    BY NamesAssumption DEF Manifest, Externals, IInv, Shape, PurgeRecord
  <2>6. "host" \in Manifest <=> "candidate" \in documents BY DEF Manifest
  <2>7. purge[p] \in PurgeRecord /\ purge \in [Purges -> PurgeRecord] BY DEF IInv, Shape
  <2>8. /\ Holds(p)' /\ Known \cap Users \subseteq Known'
        /\ root'.status = "pending_deletion" \/ root'.ids = {}
        /\ "host" \in externals' \ unknown' => "candidate" \in documents'
    <3>1. CASE Start(p)
      <4>1. purge'[p].pc = "users" /\ purge'[p].ids = root.ids
        BY <2>7, <3>1 DEF Start, PurgeRecord
      <4>2. UNCHANGED <<root, users, externals, documents, unknown>>
        BY <3>1 DEF Start, data
      <4> QED
        BY <2>2, <2>4, <4>1, <4>2 DEF Holds, At, Locked, Collected, Undisturbed, Known
    <3>2. CASE ReadUsers(p)
      <4>1. purge'[p].pc = "collect" /\ purge'[p].ids = purge[p].ids \cup users
        BY <2>7, <3>2 DEF ReadUsers, PurgeRecord, mergePurgeUserIds
      <4>2. /\ UNCHANGED <<root, users, externals, documents>>
            /\ unknown' = unknown \ (purge[p].ids \cup users)
        BY <3>2 DEF ReadUsers, data, mergePurgeUserIds
      <4>3. purge[p].ids = root.ids
        BY <2>4, <3>2 DEF Holds, Start, ReadUsers, At
      <4>4. Holds(p)'
        BY <2>4, <4>1, <4>2, <4>3 DEF Holds, At, Locked, Collected
      <4> QED BY <2>2, <2>4, <2>5, <4>2, <4>3, <4>4 DEF Undisturbed, Known
    <3>3. CASE collect(p)
      <4>1. /\ purge'[p].pc = "lock" /\ purge'[p].ids = purge[p].ids
            /\ purge'[p].manifest = Manifest
        BY <2>7, <3>3 DEF collect, PurgeRecord
      <4>2. /\ UNCHANGED <<root, users, externals, documents>>
            /\ unknown' = unknown \ Manifest
        BY <3>3 DEF collect, data
      <4>3. root.ids \subseteq purge[p].ids /\ users \subseteq purge[p].ids \cup unknown
        BY <2>4, <3>3 DEF Holds, Start, collect, At
      <4>4. HostKnown(p)'
        BY <2>2, <2>4, <2>6, <4>1, <4>2 DEF HostKnown, Checked, Undisturbed
      <4>5. Holds(p)'
        BY <2>4, <2>5, <4>1, <4>2, <4>3, <4>4 DEF Holds, At, Locked
      <4> QED BY <2>2, <2>4, <2>5, <2>6, <4>2, <4>5 DEF Undisturbed, Known
    <3>4. CASE Lock(p)
      <4>1. /\ purge'[p].pc = "close" /\ purge'[p].ids = purge[p].ids
            /\ purge'[p].manifest = purge[p].manifest /\ purge'[p].round = purge[p].round
        BY <2>4, <2>7, <3>4 DEF Lock, Goto, PurgeRecord
      <4>2. /\ UNCHANGED <<users, externals, documents, unknown>>
            /\ root' = [status |-> "pending_deletion", ids |-> purge[p].ids]
        BY <2>4, <3>4 DEF Lock, data, ghosts
      <4>3. root.ids \subseteq purge[p].ids /\ users \subseteq purge[p].ids \cup unknown
        BY <2>4, <3>4 DEF Holds, Start, Lock, At
      <4>4. HostKnown(p)'
        <5>1. HostKnown(p)
          BY <2>4, <3>4 DEF Holds, Start, Lock, At, Collected, Steps
        <5>2. ~Checked(p)'
          BY <1>1, <4>1 DEF Checked
        <5> QED BY <4>1, <4>2, <5>1, <5>2 DEF HostKnown
      <4>5. Holds(p)'
        BY <1>2, <2>4, <4>1, <4>2, <4>3, <4>4 DEF Holds, At, Locked
      <4> QED BY <2>2, <2>4, <4>2, <4>3, <4>5 DEF Undisturbed, Known
    <3> QED BY <3>1, <3>2, <3>3, <3>4
  <2>9. ~Sealed' BY <1>1, <1>2, <2>3, <2>4 DEF Sealed, At, InFlight
  <2>10. \A r \in Requests : RequestIs(r, "profile") => request[r].user \in Users
    BY DEF IInv, Shape, RequestRecord, RequestIs
  <2> QED
    BY <1>2, <2>2, <2>3, <2>5, <2>8, <2>9, <2>10 DEF Undisturbed, RequestIs
<1> QED BY <1>2, <1>4, <1>5, <1>6 DEF IInv

\* Every step of a call preserves the invariant.
LEMMA CallStep ==
  ASSUME IInv, NEW p \in Purges, Start(p) \/ Progress(p) \/ Fail(p)
  PROVE  IInv'
<1>1. Shape' BY CallShape DEF IInv
<1>2. purge[p] \in PurgeRecord BY DEF IInv, Shape
<1>3. ASSUME NEW pc, Goto(p, pc) PROVE Becomes(p, pc) /\ \A q \in Purges \ {p} : purge'[q] = purge[q]
  BY <1>3, Moved DEF IInv
<1> USE <1>1 DEF Goto
<1>4. CASE Close(p)
  BY <1>3, <1>4, LockedStep DEF Close, At, Locked, Checked, Becomes
<1>5. CASE Remove(p)
  <2>1. PICK done \in SUBSET (Targets(p) \cap externals) :
          /\ externals' = externals \ done
          /\ Goto(p, "check") \/ Ended(p)
    BY <1>5 DEF Remove
  <2>2. UNCHANGED <<root, documents, users, linked, cached, request, decision, ghosts>>
    BY <1>5 DEF Remove
  <2>3. CASE Goto(p, "check")
    <3>1. Becomes(p, "check") /\ \A q \in Purges \ {p} : purge'[q] = purge[q]
      BY <1>3, <2>3
    <3>2. Locked(p) /\ Locked(p)' BY <1>5, <3>1 DEF Remove, At, Locked, Becomes
    <3>3. Checked(p)' => Checked(p) BY <1>5, <3>1 DEF Remove, At, Checked, Becomes
    <3> QED BY <2>1, <2>2, <3>1, <3>2, <3>3, LockedStep DEF At, Becomes
  <2>4. CASE Ended(p) BY <2>1, <2>2, <2>4, EndStep
  <2> QED BY <2>1, <2>3, <2>4
<1>6. CASE verifyDeleted(p)
  <2>1. UNCHANGED <<root, documents, externals, users, linked, request, decision, ghosts>>
    BY <1>6 DEF verifyDeleted, data
  <2>2. CASE Ended(p) BY <2>1, <2>2, EndStep
  <2>3. CASE Goto(p, "delete") /\ Targets(p) \cap externals = {}
    BY <1>3, <1>6, <2>1, <2>3, LockedStep
    DEF verifyDeleted, At, Locked, Becomes
  <2> QED BY <1>6, <2>2, <2>3 DEF verifyDeleted
<1>7. CASE deleteUserLinkedDocuments(p)
  BY <1>3, <1>7, LockedStep
  DEF deleteUserLinkedDocuments, At, Locked, Checked, Becomes
<1>8. CASE deleteTenantScopedDocuments(p)
  BY <1>3, <1>8, LockedStep
  DEF deleteTenantScopedDocuments, At, Locked, Checked, Becomes
<1>9. CASE deleteTenantUsers(p)
  <2>1. /\ purge'[p].pc \in {"close", "count"} /\ purge'[p].ids = purge[p].ids
        /\ purge'[p].manifest = purge[p].manifest
        /\ \A q \in Purges \ {p} : purge'[q] = purge[q]
    BY <1>2, <1>9 DEF deleteTenantUsers, AfterDelete, PurgeRecord, IInv, Shape
  <2> QED
    BY <1>9, <2>1, LockedStep DEF deleteTenantUsers, At, Locked, Checked
<1>10. CASE assertZeroState(p)
  <2>1. UNCHANGED <<root, documents, externals, users, linked, request, decision, ghosts>>
    BY <1>10 DEF assertZeroState, data
  <2>2. CASE Ended(p) BY <2>1, <2>2, EndStep
  <2>3. CASE Goto(p, "root") /\ Zero(p)
    BY <1>3, <1>10, <2>1, <2>3, LockedStep
    DEF assertZeroState, At, Locked, Checked, Becomes
  <2> QED BY <1>10, <2>2, <2>3 DEF assertZeroState
<1>11. CASE deleteOrganizationRoot(p)
  <2>1. /\ UNCHANGED <<documents, externals, users, linked, request, decision>>
        /\ UNCHANGED <<late, unknown, disturbed>> /\ root' = NoRoot
    BY <1>11 DEF deleteOrganizationRoot, data, ghosts
  <2>2. /\ purge[p].pc = "root" /\ Becomes(p, "settle")
        /\ \A q \in Purges \ {p} : purge'[q] = purge[q]
    BY <1>3, <1>11 DEF deleteOrganizationRoot, At
  <2>3. Sealed /\ Checked(p) /\ Collected(p) BY <2>2 DEF Sealed, At, Checked, Collected, Steps
  <2>4. Findable'
    BY <2>1, <2>2, <2>3 DEF IInv, Findable, Old, Collected, Checked, Becomes
  <2>5. AfterTheCount' BY <2>1, <2>3 DEF IInv, AfterTheCount
  <2>6. ASSUME Undisturbed PROVE Undisturbed'
    <3>1. InFlight = {p} /\ InFlight' = {p} /\ Holds(p)
      BY <2>2, <2>6 DEF Undisturbed, InFlight, Becomes
    <3>2. Holds(p)'
      BY <2>1, <2>2, <2>3, <3>1 DEF Holds, HostKnown, Checked, Collected, Locked, At, Becomes
    <3> QED BY <2>1, <2>3, <2>6, <3>1, <3>2 DEF Undisturbed
  <2> QED BY <2>1, <2>4, <2>5, <2>6 DEF IInv
<1>12. CASE Settle(p) \/ Fail(p) \/ (Lock(p) /\ root = NoRoot)
  BY <1>12, EndStep DEF Settle, Fail, Lock, data
<1> QED
  BY <1>1, <1>4, <1>5, <1>6, <1>7, <1>8, <1>9, <1>10, <1>11, <1>12, EarlyStep DEF Progress

-----------------------------------------------------------------------------
(* The theorems. *)

\* The inductive invariant holds in every state, of every instance.
THEOREM Inductive == Spec => []IInv
<1>1. ASSUME Init PROVE IInv
  <2> USE <1>1 DEF Init
  <2>1. purge \in [Purges -> PurgeRecord] /\ request \in [Requests -> RequestRecord]
    BY DEF IdlePurge, Idle, PurgeRecord, RequestRecord, Steps
  <2>2. root \in Organization /\ decision \in DecisionRecord /\ faults \in 0..MaxFaults
    BY FaultsAssumption DEF Organization, Idle, DecisionRecord
  <2>3. Shape
    BY <2>1, <2>2 DEF Shape, Documents, Externals, Users
  <2>4. root # NoRoot /\ root.ids = {} BY <2>2, NamesAssumption DEF Organization
  <2>5. ~Sealed BY <2>4 DEF Sealed, At, IdlePurge
  <2>6. Findable
    BY <2>4 DEF Findable, Old, Documents, Collected, Checked, IdlePurge, Steps
  <2>7. Undisturbed
    BY <2>4, <2>5 DEF Undisturbed, InFlight, IdlePurge, Idle, Known, RequestIs
  <2> QED BY <2>3, <2>5, <2>6, <2>7 DEF IInv, AfterTheCount
<1>2. IInv /\ [Next]_vars => IInv'
  <2> SUFFICES ASSUME IInv, [Next]_vars PROVE IInv' OBVIOUS
  <2>1. CASE Next BY <2>1, CallStep, RequestStep, DecisionStep DEF Next
  <2>2. CASE UNCHANGED vars
    BY <2>2
    DEF vars, data, ghosts, IInv, Shape, Findable, Old, Collected, Checked, AfterTheCount,
        Sealed, At, Undisturbed, InFlight, Holds, HostKnown, Locked, Known, RequestIs
  <2> QED BY <2>1, <2>2
<1> QED BY <1>1, <1>2, PTL DEF Spec

\* Every variable stays in its type, however calls, requests and decisions interleave.
THEOREM TypeCorrect == Spec => []TypeOK
<1>1. IInv => TypeOK
  BY DEF IInv, Shape, TypeOK, Organization, PurgeRecord, RequestRecord, DecisionRecord, Steps
<1> QED BY <1>1, Inductive, PTL

\* While the root stands, another call finds what is left: every old upload and domain is
\* named by a document and, undisturbed, so are the registrations and users a call met.
THEOREM RetryAlwaysFinds == Spec => []RetryFinds
<1>1. IInv => RetryFinds
  BY DEF IInv, Findable, Old, Undisturbed, Known, RetryFinds
<1> QED BY <1>1, Inductive, PTL

\* Once the root is gone, all that is left was written after a call had counted nothing.
THEOREM NothingOldEverSurvives == Spec => []NothingOldSurvives
<1>1. IInv => NothingOldSurvives
  BY DEF IInv, AfterTheCount, Undisturbed, Sealed, NothingOldSurvives
<1> QED BY <1>1, Inductive, PTL

-----------------------------------------------------------------------------
(* The custom domain.  DomainsInv says what each process can still rely on.*)
(* What a check has found holds while its document is not outdated and the *)
(* record still names the host it looked at; what a request or the script  *)
(* has read may be old, and only what is left of it is said.  Every clause *)
(* about hosts is void once a save of a stale document was let through     *)
(* (torn).  CutsOver, beside it, is the step property that CutoverIsSafe   *)
(* needs.                                                                  *)

\* What a check remembers: while it looks, when it has a result to save, and one to copy.
Looking ==
  [at : {"clean", "evaluate"}, doc : Document, kind : {"none"}, of : Tokens, fresh : BOOLEAN, result : {"pending"}]
Results == {"active", "pending", "failed"}
Saving ==
  [at : {"save"}, doc : Document, kind : {"host", "candidate", "migration"}, of : Tokens, fresh : BOOLEAN,
   result : Results]
Copying == [at : {"copy"}, host : Hosts, result : Results]
CheckRecord == {Resting} \cup Looking \cup Saving \cup Copying

AddRecord ==
  {Resting} \cup
  [at : {"register", "write", "retire", "copy"}, host : Hosts, token : Tokens,
   read : Document \cup {None}, fresh : BOOLEAN]

OperatorRecord ==
  {Resting} \cup
  [at : {"register", "stage", "remove", "finish", "verify", "restore", "tell", "unregister", "forget", "abort"},
   doc : Document, fresh : BOOLEAN]

Shaped ==
  /\ record \in Document \cup {None}
  /\ organization \in [host : Hosts \cup {None}, verified : BOOLEAN]
  /\ registered \subseteq Hosts \X Providers /\ dns \in [Tokens -> Providers \cup {None}]
  /\ feature \in BOOLEAN /\ checked \subseteq Tokens \X Providers /\ torn \in BOOLEAN
  /\ check \in [Checkers -> CheckRecord] /\ add \in AddRecord /\ op \in OperatorRecord
  /\ adds \in 0 .. MaxAdds

\* A request that has read the record r and has yet to write.
Pending(a) == a.at \in {"register", "write"}

\* The token is not that of the request a that is yet to be written, n having been made.
Past(token, a, n) == token <= n /\ (Pending(a) => token # a.token)

\* The record r, when no stale save was let through: a host that is active has passed the
\* checks itself, and a migration that is under way is of the host that is served.
Genuine(r, k, a, n) ==
  /\ Placed(r) /\ Past(r.token, a, n)
  /\ r.cand # None => Past(r.cand.token, a, n)
  /\ r.active => <<r.token, r.provider>> \in k
  /\ Migrating(r) => r.migration.token = r.token /\ r.cand = None

\* A document in memory that is as r was when it was read.
AsRead(d, r) ==
  /\ d.host = r.host /\ d.token = r.token /\ d.provider = r.provider /\ d.retired \subseteq r.retired
  /\ d.cand # None => r.cand = d.cand
  /\ Migrating(d) => d.migration.token = d.token

\* One in which the candidate of r has taken the place of its host.
Promotes(d, r, k) ==
  /\ r.cand # None /\ d.host = r.cand.host /\ d.token = r.cand.token
  /\ <<d.token, d.provider>> \in k /\ Placed(d)
  /\ RetiredHosts(d) \subseteq RetiredHosts(r) \cup {r.host}

\* One that says that the host of r has moved.
Relocates(d, r, k) == d.token = r.token /\ d.retired \subseteq r.retired /\ <<d.token, Target>> \in k

\* What the check h, whose document is not outdated, has found of r.
Finds(h, r, k) ==
  /\ h.at # "save" => AsRead(h.doc, r)
  /\ h.at = "save" /\ h.kind = "host" =>
       AsRead(h.doc, r) /\ (h.doc.active => <<h.doc.token, h.doc.provider>> \in k)
  /\ h.at = "save" /\ h.kind = "candidate" =>
       IF h.doc.cand # None THEN AsRead(h.doc, r) ELSE Promotes(h.doc, r, k)
  /\ h.at = "save" /\ h.kind = "migration" =>
       IF Advancing(h.doc) THEN AsRead(h.doc, r) ELSE Relocates(h.doc, r, k)

Busy(h) == h.at \in {"clean", "evaluate", "save"}

CheckOk(h, r, t, k, a, n) ==
  /\ h # Resting => r # None
  /\ h.at = "save" /\ h.kind = "migration" => h.doc.migration \in Migration
  /\ ~t /\ Busy(h) => Past(h.of, a, n) /\ (h.fresh /\ h.of = r.token => Finds(h, r, k))

\* The hosts that have a place in the record.
Places(r) == {r.host} \cup RetiredHosts(r) \cup (IF r.cand = None THEN {} ELSE {r.cand.host})

AddOk(a, r, t, n) ==
  /\ a # Resting => a.token = n
  /\ a.at = "retire" => a.read # None
  /\ a.at \in {"retire", "copy"} => r # None
  /\ Pending(a) => ((a.read = None) <=> (r = None))
  /\ ~t /\ Pending(a) /\ r # None =>
       /\ a.host \notin Places(r)
       /\ a.read.cand = None => r.cand = None
       /\ a.fresh => a.read.host = r.host /\ a.read.retired = r.retired /\ a.read.cand = r.cand
  /\ ~t /\ a.at = "retire" => r.token = a.token /\ r.cand = None

OperatorOk(o, r, t, k) ==
  /\ o # Resting => r # None
  /\ o.at \notin {"idle", "register", "stage"} => o.doc.migration \in Migration /\ r.migration \in Migration
  /\ ~t /\ o.at \in {"verify", "restore"} => Migrating(r) /\ o.doc.migration.token = r.token
  /\ o.at = "restore" => <<o.doc.migration.token, Legacy>> \in k

RecordOk == record # None /\ ~torn => Genuine(record, checked, add, adds)
ChecksOk == \A c \in Checkers : CheckOk(check[c], record, torn, checked, add, adds)

DomainsInv ==
  Shaped /\ RecordOk /\ ChecksOk /\ AddOk(add, record, torn, adds) /\ OperatorOk(op, record, torn, checked)

\* What a step does to the host that is served: its token gives way as CutoverIsSafe says.
CutsOver ==
  record # None =>
    /\ record' # None
    /\ ~torn' /\ record'.token # record.token =>
         \/ record.cand # None /\ record'.token = record.cand.token /\ <<record'.token, record'.provider>> \in checked
         \/ add.at = "write" /\ ~HasServingDomain(add.read)

-----------------------------------------------------------------------------
(* Frames. *)

\* Tokens known before are known after.
Later(a, n, a2, n2) == \A token \in Tokens : Past(token, a, n) => Past(token, a2, n2)

\* r2 differs from r in nothing that a check relies on.
Stays(r, r2) ==
  /\ r2.host = r.host /\ r2.token = r.token /\ r2.provider = r.provider /\ r2.retired = r.retired
  /\ r.cand # None => r2.cand = r.cand

\* A check that goes on where the record stays as it is.
LEMMA CheckStays ==
  ASSUME NEW h \in CheckRecord, NEW r, NEW r2, NEW t, NEW t2, NEW k, NEW k2, NEW a, NEW a2, NEW n, NEW n2,
         CheckOk(h, r, t, k, a, n), r # None => r2 # None, ~t2 /\ r # None => Stays(r, r2),
         ~t2 => ~t, k \subseteq k2, Later(a, n, a2, n2)
  PROVE  CheckOk(h, r2, t2, k2, a2, n2)
<1>1. ASSUME NEW d, AsRead(d, r), Stays(r, r2) PROVE AsRead(d, r2) BY <1>1 DEF AsRead, Stays
<1>2. ASSUME NEW d, Promotes(d, r, k), Stays(r, r2) PROVE Promotes(d, r2, k2)
  BY <1>2 DEF Promotes, Stays, RetiredHosts
<1>3. ASSUME NEW d, Relocates(d, r, k), Stays(r, r2) PROVE Relocates(d, r2, k2) BY <1>3 DEF Relocates, Stays
<1>4. ASSUME Finds(h, r, k), Stays(r, r2) PROVE Finds(h, r2, k2) BY <1>1, <1>2, <1>3, <1>4 DEF Finds
<1>5. Busy(h) => h.of \in Tokens /\ h # Resting
  BY DEF Busy, CheckRecord, Looking, Saving, Copying, Resting
<1>6. Stays(r, r2) => r2.token = r.token BY DEF Stays
<1> QED BY <1>4, <1>5, <1>6 DEF CheckOk, Later

\* r2 is r but for what no check, request or script relies on.
Alike(r, r2) ==
  /\ (r = None) <=> (r2 = None)
  /\ r # None =>
       /\ r2.host = r.host /\ r2.token = r.token /\ r2.provider = r.provider
       /\ r2.retired = r.retired /\ r2.cand = r.cand

\* So does one where the record changes in nothing that anyone relies on.
LEMMA CheckKept ==
  ASSUME NEW h \in CheckRecord, NEW r, NEW r2, NEW t, NEW t2, NEW k, NEW k2, NEW a, NEW a2, NEW n, NEW n2,
         CheckOk(h, r, t, k, a, n), Alike(r, r2), ~t2 => ~t, k \subseteq k2, Later(a, n, a2, n2)
  PROVE  CheckOk(h, r2, t2, k2, a2, n2)
<1>1. (r # None => r2 # None) /\ (r # None => Stays(r, r2)) BY DEF Alike, Stays
<1> QED BY <1>1, CheckStays

\* A check whose document is outdated relies on nothing.
LEMMA CheckOutdated ==
  ASSUME NEW h \in CheckRecord, NEW r, NEW r2, NEW t, NEW t2, NEW k, NEW k2, NEW a, NEW a2, NEW n, NEW n2,
         CheckOk(h, r, t, k, a, n), r # None => r2 # None, ~t2 => ~t, Later(a, n, a2, n2)
  PROVE  Outdated(h) \in CheckRecord /\ CheckOk(Outdated(h), r2, t2, k2, a2, n2)
<1>1. CASE h.at \in {"idle", "copy"} BY <1>1 DEF Outdated, CheckOk, Busy
<1>2. CASE h.at \notin {"idle", "copy"}
  <2> DEFINE g == [h EXCEPT !.fresh = FALSE]
  <2>1. Outdated(h) = g BY <1>2 DEF Outdated
  <2>2. /\ g \in CheckRecord /\ g.fresh = FALSE /\ g.at = h.at /\ g.of = h.of /\ g.kind = h.kind /\ g.doc = h.doc
        /\ h # Resting /\ h.of \in Tokens
    <3>1. CASE h \in Looking
      <4>1. g \in Looking BY <3>1 DEF Looking
      <4> QED BY <3>1, <4>1 DEF CheckRecord, Looking, Resting
    <3>2. CASE h \in Saving
      <4>1. g \in Saving BY <3>2 DEF Saving
      <4> QED BY <3>2, <4>1 DEF CheckRecord, Saving, Resting
    <3>3. h \notin Copying /\ h # Resting BY <1>2 DEF Copying, Resting
    <3> QED BY <3>1, <3>2, <3>3 DEF CheckRecord
  <2> HIDE DEF g
  <2> QED BY <2>1, <2>2 DEF CheckOk, Busy, Later
<1> QED BY <1>1, <1>2

\* The request and the script that an array's save outdates keep what they have.
LEMMA OthersOutdated ==
  /\ add \in AddRecord => Outdated(add) \in AddRecord /\ (add = Resting <=> Outdated(add) = Resting)
  /\ op \in OperatorRecord => Outdated(op) \in OperatorRecord /\ (op = Resting <=> Outdated(op) = Resting)
  /\ add \in AddRecord /\ add # Resting /\ add.at # "copy" =>
       /\ Outdated(add).at = add.at /\ Outdated(add).host = add.host /\ Outdated(add).token = add.token
       /\ Outdated(add).read = add.read /\ Outdated(add).fresh = FALSE
  /\ op \in OperatorRecord /\ op # Resting => Outdated(op).at = op.at /\ Outdated(op).doc = op.doc /\ Outdated(op).fresh = FALSE
BY DEF Outdated, AddRecord, OperatorRecord, Resting

\* More checks passed, and tokens known that were, leave what is genuine so.
LEMMA GenuineKept ==
  ASSUME NEW r \in Document, NEW k, NEW k2, NEW a, NEW a2, NEW n, NEW n2,
         Genuine(r, k, a, n), k \subseteq k2, Later(a, n, a2, n2)
  PROVE  Genuine(r, k2, a2, n2)
<1>1. r.token \in Tokens /\ (r.cand # None => r.cand.token \in Tokens) BY DEF Document, Slot
<1> QED BY <1>1 DEF Genuine, Later

\* A step that goes on with the check c alone.
Continues(c) ==
  /\ \E h \in CheckRecord :
       CheckOk(h, record, torn, checked', add, adds) /\ check' = [check EXCEPT ![c] = h]
  /\ checked \subseteq checked' /\ checked' \subseteq Tokens \X Providers
  /\ organization' \in [host : Hosts \cup {None}, verified : BOOLEAN]
  /\ registered' \subseteq Hosts \X Providers
  /\ UNCHANGED <<record, torn, add, op, adds, dns, feature>>

\* It preserves the invariant, as the other checks, the request and the script stand.
LEMMA OneCheck ==
  ASSUME DomainsInv, NEW c \in Checkers, Continues(c)
  PROVE  DomainsInv' /\ CutsOver
<1>1. PICK h \in CheckRecord : CheckOk(h, record, torn, checked', add, adds) /\ check' = [check EXCEPT ![c] = h]
  BY DEF Continues
<1>2. /\ checked \subseteq checked' /\ UNCHANGED <<record, torn, add, op, adds>>
  BY DEF Continues
<1>3. Shaped'
  <2>1. check' \in [Checkers -> CheckRecord] BY <1>1 DEF DomainsInv, Shaped
  <2> QED BY <2>1 DEF Continues, DomainsInv, Shaped
<1>4. Later(add, adds, add, adds) BY DEF Later
<1>5. RecordOk'
  <2>1. ASSUME record # None, ~torn PROVE Genuine(record, checked', add, adds)
    BY <1>2, <1>4, <2>1, GenuineKept DEF DomainsInv, Shaped, RecordOk
  <2> QED BY <1>2, <2>1 DEF RecordOk
<1>6. ChecksOk'
  <2>1. ASSUME NEW d \in Checkers PROVE CheckOk(check'[d], record, torn, checked', add, adds)
    <3>1. CASE d = c BY <1>1, <3>1 DEF DomainsInv, Shaped
    <3>2. CASE d # c
      <4>1. check'[d] = check[d] /\ check[d] \in CheckRecord BY <1>1, <3>2 DEF DomainsInv, Shaped
      <4>2. CheckOk(check[d], record, torn, checked, add, adds) BY DEF DomainsInv, ChecksOk
      <4>3. Alike(record, record) BY DEF Alike
      <4> QED BY <1>2, <1>4, <4>1, <4>2, <4>3, CheckKept
    <3> QED BY <3>1, <3>2
  <2> QED BY <1>2, <2>1 DEF ChecksOk
<1>7. AddOk(add, record, torn, adds)' BY <1>2 DEF DomainsInv
<1>8. OperatorOk(op, record, torn, checked)'
  BY <1>2 DEF DomainsInv, OperatorOk
<1>9. CutsOver BY <1>2 DEF CutsOver
<1> QED BY <1>3, <1>5, <1>6, <1>7, <1>8, <1>9 DEF DomainsInv

\* A step of the request alone.
Proceeds ==
  /\ add' \in AddRecord /\ AddOk(add', record, torn, adds') /\ adds' \in 0 .. MaxAdds
  /\ Later(add, adds, add', adds')
  /\ organization' \in [host : Hosts \cup {None}, verified : BOOLEAN]
  /\ registered' \subseteq Hosts \X Providers
  /\ UNCHANGED <<record, torn, check, op, dns, feature, checked>>

\* It preserves the invariant, as the record, the checks and the script stand.
LEMMA OneRequest ==
  ASSUME DomainsInv, Proceeds
  PROVE  DomainsInv' /\ CutsOver
<1>1. UNCHANGED <<record, torn, check, op, checked>> /\ Later(add, adds, add', adds') BY DEF Proceeds
<1>2. Shaped' BY DEF Proceeds, DomainsInv, Shaped
<1>3. RecordOk'
  <2>1. ASSUME record # None, ~torn PROVE Genuine(record, checked, add', adds')
    BY <1>1, <2>1, GenuineKept DEF DomainsInv, Shaped, RecordOk
  <2> QED BY <1>1, <2>1 DEF RecordOk
<1>4. ChecksOk'
  <2>1. ASSUME NEW d \in Checkers PROVE CheckOk(check[d], record, torn, checked, add', adds')
    <3>1. check[d] \in CheckRecord BY DEF DomainsInv, Shaped
    <3>2. CheckOk(check[d], record, torn, checked, add, adds) BY DEF DomainsInv, ChecksOk
    <3>3. Alike(record, record) BY DEF Alike
    <3> QED BY <1>1, <3>1, <3>2, <3>3, CheckKept
  <2> QED BY <1>1, <2>1 DEF ChecksOk
<1>5. AddOk(add, record, torn, adds)' BY <1>1 DEF Proceeds
<1>6. OperatorOk(op, record, torn, checked)' BY <1>1 DEF DomainsInv
<1>7. CutsOver BY <1>1 DEF CutsOver
<1> QED BY <1>2, <1>3, <1>4, <1>5, <1>6, <1>7 DEF DomainsInv

\* A step of the script, which may write what no check relies on.
Scripted ==
  /\ record' \in Document \cup {None} /\ Alike(record, record')
  /\ torn' \in BOOLEAN /\ (~torn' => ~torn)
  /\ record' # None /\ ~torn' => Genuine(record', checked', add, adds)
  /\ op' \in OperatorRecord /\ OperatorOk(op', record', torn', checked')
  /\ checked \subseteq checked' /\ checked' \subseteq Tokens \X Providers
  /\ organization' \in [host : Hosts \cup {None}, verified : BOOLEAN]
  /\ registered' \subseteq Hosts \X Providers /\ feature' \in BOOLEAN
  /\ dns' \in [Tokens -> Providers \cup {None}]
  /\ UNCHANGED <<check, add, adds>>

\* It preserves the invariant, as the checks and the request stand.
LEMMA OneOperation ==
  ASSUME DomainsInv, Scripted
  PROVE  DomainsInv' /\ CutsOver
<1>1. /\ UNCHANGED <<check, add, adds>> /\ Alike(record, record') /\ checked \subseteq checked'
      /\ ~torn' => ~torn
  BY DEF Scripted
<1>2. Shaped' BY DEF Scripted, DomainsInv, Shaped
<1>3. RecordOk' BY DEF Scripted, RecordOk
<1>4. Later(add, adds, add, adds) BY DEF Later
<1>5. ChecksOk'
  <2>1. ASSUME NEW d \in Checkers PROVE CheckOk(check[d], record', torn', checked', add, adds)
    <3>1. check[d] \in CheckRecord BY DEF DomainsInv, Shaped
    <3>2. CheckOk(check[d], record, torn, checked, add, adds) BY DEF DomainsInv, ChecksOk
    <3> QED BY <1>1, <1>4, <3>1, <3>2, CheckKept
  <2> QED BY <1>1, <2>1 DEF ChecksOk
<1>6. AddOk(add, record, torn, adds)'
  <2>1. AddOk(add, record, torn, adds) BY DEF DomainsInv
  <2>2. record # None => Places(record') = Places(record) BY <1>1 DEF Alike, Places, RetiredHosts
  <2>3. AddOk(add, record', torn', adds) BY <1>1, <2>1, <2>2 DEF AddOk, Alike, Pending
  <2> QED BY <1>1, <2>3
<1>7. OperatorOk(op, record, torn, checked)' BY DEF Scripted
<1>8. CutsOver BY <1>1 DEF CutsOver, Alike
<1> QED BY <1>2, <1>3, <1>5, <1>6, <1>7, <1>8 DEF DomainsInv

-----------------------------------------------------------------------------
(* What a check does until it saves. *)

\* A check that ends without a word.
LEMMA CheckEnds ==
  ASSUME DomainsInv, NEW c \in Checkers, check' = [check EXCEPT ![c] = Resting],
         organization' \in [host : Hosts \cup {None}, verified : BOOLEAN],
         UNCHANGED <<record, torn, add, op, adds, dns, feature, checked, registered>>
  PROVE  DomainsInv' /\ CutsOver
<1>1. Resting \in CheckRecord /\ CheckOk(Resting, record, torn, checked', add, adds)
  BY DEF CheckRecord, CheckOk, Busy, Resting
<1>2. Continues(c) BY <1>1 DEF Continues, DomainsInv, Shaped
<1> QED BY <1>2, OneCheck

\* A check that reads the record finds it as it is.
LEMMA ReadRecordStep ==
  ASSUME DomainsInv, NEW c \in Checkers, ReadRecord(c)
  PROVE  DomainsInv' /\ CutsOver
<1> DEFINE h == [at |-> IF Due(record) = {} THEN "evaluate" ELSE "clean", doc |-> record, kind |-> "none",
                 of |-> record.token, fresh |-> TRUE, result |-> "pending"]
<1>1. record # None /\ check' = [check EXCEPT ![c] = h] BY DEF ReadRecord
<1>2. record \in Document /\ (~torn => Genuine(record, checked, add, adds))
  BY <1>1 DEF DomainsInv, Shaped, RecordOk
<1>3. record.token \in Tokens BY <1>2 DEF Document
<1>4. h \in Looking BY <1>2, <1>3 DEF Looking
<1>5. CheckOk(h, record, torn, checked, add, adds)
  BY <1>1, <1>2 DEF CheckOk, Finds, AsRead, Genuine
<1>6. checked' = checked /\ h \in CheckRecord BY <1>4 DEF ReadRecord, CheckRecord
<1> HIDE DEF h
<1>7. Continues(c) BY <1>1, <1>5, <1>6 DEF Continues, ReadRecord, DomainsInv, Shaped, operator, outside
<1> QED BY <1>7, OneCheck

\* What is removed of the retired hosts is less than there was.
LEMMA CleanUpStep ==
  ASSUME DomainsInv, NEW c \in Checkers, CleanUp(c)
  PROVE  DomainsInv' /\ CutsOver
<1>1. PICK gone \in SUBSET Due(check[c].doc) :
        /\ registered' = registered \ {Registration(x) : x \in gone}
        /\ check' = [check EXCEPT ![c].at = "evaluate", ![c].doc.retired = @ \ gone]
  BY DEF CleanUp
<1> DEFINE g == check[c]
<1> DEFINE d == [g.doc EXCEPT !.retired = @ \ gone]
<1> DEFINE h == [g EXCEPT !.at = "evaluate", !.doc = d]
<1>2. g \in CheckRecord /\ g.at = "clean" /\ CheckOk(g, record, torn, checked, add, adds)
  BY DEF DomainsInv, Shaped, ChecksOk, CleanUp
<1>3. g \in Looking BY <1>2 DEF CheckRecord, Saving, Copying, Resting
<1>4. check' = [check EXCEPT ![c] = h]
  <2>1. check \in [Checkers -> CheckRecord] BY DEF DomainsInv, Shaped
  <2> QED BY <1>1, <2>1
<1> HIDE DEF g
<1>5. /\ d \in Document /\ d.host = g.doc.host /\ d.token = g.doc.token /\ d.provider = g.doc.provider
      /\ d.cand = g.doc.cand /\ d.migration = g.doc.migration /\ d.retired \subseteq g.doc.retired
  <2>1. g.doc \in Document BY <1>3 DEF Looking
  <2> QED BY <2>1 DEF Document
<1> HIDE DEF d
<1>6. /\ h \in Looking /\ h.at = "evaluate" /\ h.doc = d /\ h.of = g.of /\ h.fresh = g.fresh
  BY <1>3, <1>5 DEF Looking
<1> HIDE DEF h
<1>7. g # Resting /\ h # Resting /\ h \in CheckRecord
  <2>1. g # Resting /\ h # Resting BY <1>2, <1>6 DEF Resting
  <2>2. h \in CheckRecord BY <1>6 DEF CheckRecord
  <2> QED BY <2>1, <2>2
<1>8. AsRead(g.doc, record) => AsRead(d, record) BY <1>5 DEF AsRead, Migrating
<1>9. CheckOk(h, record, torn, checked, add, adds)
  BY <1>2, <1>6, <1>7, <1>8 DEF CheckOk, Busy, Finds
<1>10. checked' = checked BY DEF CleanUp
<1>11. /\ UNCHANGED <<record, torn, add, op, adds, dns, feature>>
       /\ organization' \in [host : Hosts \cup {None}, verified : BOOLEAN]
       /\ checked' \subseteq Tokens \X Providers
  BY <1>10 DEF CleanUp, DomainsInv, Shaped, operator, outside
<1>12. registered' \subseteq Hosts \X Providers BY <1>1 DEF DomainsInv, Shaped
<1>13. Continues(c) BY <1>4, <1>7, <1>9, <1>10, <1>11, <1>12 DEF Continues
<1> QED BY <1>13, OneCheck

\* A check that tells the Organization what it found.
LEMMA CopyResultStep ==
  ASSUME DomainsInv, NEW c \in Checkers, CopyResult(c)
  PROVE  DomainsInv' /\ CutsOver
<1> DEFINE h == check[c]
<1>1. h \in CheckRecord /\ h.at = "copy" BY DEF DomainsInv, Shaped, CopyResult
<1>2. h \in Copying BY <1>1 DEF CheckRecord, Looking, Saving, Resting
<1>3. h.host \in Hosts BY <1>2 DEF Copying
<1>4. organization' \in [host : Hosts \cup {None}, verified : BOOLEAN]
  <2>1. organization' = [host |-> IF h.result = "failed" THEN organization.host ELSE h.host,
                         verified |-> h.result = "active"]
    BY DEF CopyResult
  <2>2. organization.host \in Hosts \cup {None} BY DEF DomainsInv, Shaped
  <2> HIDE DEF h
  <2>3. (IF h.result = "failed" THEN organization.host ELSE h.host) \in Hosts \cup {None} BY <1>3, <2>2
  <2>4. (h.result = "active") \in BOOLEAN OBVIOUS
  <2> QED BY <2>1, <2>3, <2>4
<1> QED BY <1>4, CheckEnds DEF CopyResult, operator, outside

\* A check that dies leaves nothing behind.
LEMMA CheckerDiesStep ==
  ASSUME DomainsInv, NEW c \in Checkers, CheckerDies(c)
  PROVE  DomainsInv' /\ CutsOver
BY CheckEnds DEF CheckerDies, operator, outside, DomainsInv, Shaped

\* What a check of a document is about.
LEMMA Kinds ==
  ASSUME NEW d
  PROVE  /\ KindOf(d) \in {"host", "candidate", "migration"}
         /\ KindOf(d) = "candidate" => d.cand # None
BY DEF KindOf

\* A check is about a migration when one is staged in its document, and only then.
LEMMA MigrationKind ==
  ASSUME NEW d
  PROVE  (KindOf(d) = "migration") <=> Advancing(d)
BY DEF KindOf

\* What a check looks at is a host with its token and provider.
LEMMA EvaluatedSlot ==
  ASSUME NEW d \in Document
  PROVE  Evaluated(d).host \in Hosts /\ Evaluated(d).token \in Tokens /\ Evaluated(d).provider \in Providers
<1>1. /\ d.cand = None \/ d.cand \in Slot
      /\ d.migration = None \/ d.migration \in Migration
      /\ d.host \in Hosts /\ d.token \in Tokens /\ d.provider \in Providers
  BY DEF Document
<1>2. CASE KindOf(d) = "migration"
  <2>1. d.migration \in Migration BY <1>1, <1>2, MigrationKind DEF Advancing
  <2> QED BY <1>2, <2>1 DEF Evaluated, Migration, Providers
<1>3. CASE KindOf(d) = "candidate"
  <2>1. d.cand \in Slot BY <1>1, <1>3, Kinds
  <2> QED BY <1>3, <2>1 DEF Evaluated, Slot
<1>4. CASE KindOf(d) = "host" BY <1>1, <1>4 DEF Evaluated
<1> QED BY <1>2, <1>3, <1>4, Kinds

\* The hosts that are retired once s is.
LEMMA RetireHosts ==
  ASSUME NEW r, NEW s, NEW due \in BOOLEAN, r.retired \subseteq Retiree, s.host \in Hosts, s.provider \in Providers
  PROVE  /\ Retire(r, s, due) \subseteq Retiree
         /\ \A x \in Retire(r, s, due) : x \in r.retired \/ (s.host # r.host /\ x.host = s.host)
         /\ (\A x, y \in r.retired : x.host = y.host => x = y) =>
              \A x, y \in Retire(r, s, due) : x.host = y.host => x = y
<1> DEFINE new == [host |-> s.host, provider |-> s.provider, due |-> due]
<1>1. new \in Retiree /\ new.host = s.host BY DEF Retiree
<1>2. CASE s.host = r.host
  <2>1. Retire(r, s, due) = r.retired BY <1>2 DEF Retire
  <2> QED BY <2>1
<1>3. CASE s.host # r.host
  <2>1. Retire(r, s, due) = {x \in r.retired : x.host # s.host} \cup {new} BY <1>3 DEF Retire
  <2> HIDE DEF new
  <2> QED BY <1>1, <1>3, <2>1
<1> QED BY <1>2, <1>3

\* The candidate takes the place of the host, which is retired.
LEMMA PromotedDocument ==
  ASSUME NEW d \in Document, d.cand # None
  PROVE  /\ Promoted(d) \in Document /\ Promoted(d).cand = None /\ Promoted(d).host = d.cand.host
         /\ Promoted(d).token = d.cand.token /\ Promoted(d).provider = d.cand.provider
         /\ Promoted(d).migration = d.migration
         /\ RetiredHosts(Promoted(d)) \subseteq RetiredHosts(d) \cup {d.host}
         /\ Placed(d) => Placed(Promoted(d))
<1> DEFINE e == [d EXCEPT !.host = d.cand.host]
<1> DEFINE R == Retire(e, d, FALSE)
<1>1. d.cand \in Slot /\ d.retired \subseteq Retiree /\ d.host \in Hosts /\ d.provider \in Providers BY DEF Document
<1>2. e.retired = d.retired /\ e.host = d.cand.host BY DEF Document
<1> HIDE DEF e
<1>3. /\ R \subseteq Retiree /\ \A x \in R : x \in d.retired \/ x.host = d.host
      /\ (\A x, y \in d.retired : x.host = y.host => x = y) => \A x, y \in R : x.host = y.host => x = y
  BY <1>1, <1>2, RetireHosts
<1>4. Promoted(d) = [d EXCEPT !.host = d.cand.host, !.token = d.cand.token, !.provider = d.cand.provider,
                              !.active = TRUE, !.cand = None, !.retired = R]
  BY DEF Promoted, R, e
<1> HIDE DEF R
<1>5. /\ Promoted(d) \in Document /\ Promoted(d).cand = None /\ Promoted(d).host = d.cand.host
      /\ Promoted(d).token = d.cand.token /\ Promoted(d).provider = d.cand.provider
      /\ Promoted(d).migration = d.migration /\ Promoted(d).retired = R
  <2>1. d.cand.host \in Hosts /\ d.cand.token \in Tokens /\ d.cand.provider \in Providers BY <1>1 DEF Slot
  <2> QED BY <1>3, <1>4, <2>1 DEF Document
<1>6. RetiredHosts(Promoted(d)) \subseteq RetiredHosts(d) \cup {d.host} BY <1>3, <1>5 DEF RetiredHosts
<1>7. ASSUME Placed(d) PROVE Placed(Promoted(d))
  <2>1. d.cand.host \notin RetiredHosts(d) \cup {d.host} BY <1>7 DEF Placed
  <2>2. Promoted(d).host \notin RetiredHosts(Promoted(d)) BY <1>5, <1>6, <2>1
  <2> QED BY <1>3, <1>5, <1>7, <2>2 DEF Placed
<1> QED BY <1>5, <1>6, <1>7

\* The migration is done, in memory.
LEMMA SwitchedDocument ==
  ASSUME NEW d \in Document, d.migration # None
  PROVE  /\ Switched(d) \in Document /\ Switched(d).token = d.migration.token /\ Switched(d).provider = Target
         /\ Switched(d).retired = d.retired /\ Switched(d).cand = d.cand /\ Switched(d).host = d.host
         /\ Switched(d).migration \in Migration /\ Switched(d).migration.token = d.migration.token
         /\ Switched(d).migration.status = "switched" /\ ~Advancing(Switched(d)) /\ Switched(d).active
<1> DEFINE m == [d.migration EXCEPT !.status = "switched"]
<1>1. d.migration \in Migration BY DEF Document
<1>2. m \in Migration /\ m.token = d.migration.token /\ m.status = "switched" BY <1>1 DEF Migration
<1>3. Switched(d) = [d EXCEPT !.token = d.migration.token, !.provider = Target, !.active = TRUE, !.migration = m]
  BY DEF Switched, Document
<1>4. d.migration.token \in Tokens BY <1>1 DEF Migration
<1> HIDE DEF m
<1>5. /\ Switched(d) \in Document /\ Switched(d).token = d.migration.token /\ Switched(d).provider = Target
      /\ Switched(d).retired = d.retired /\ Switched(d).cand = d.cand /\ Switched(d).host = d.host
      /\ Switched(d).migration = m /\ Switched(d).active
  BY <1>2, <1>3, <1>4 DEF Document, Providers
<1> QED BY <1>2, <1>5 DEF Advancing

\* What a check makes of its document is a document.
LEMMA AppliedDocument ==
  ASSUME NEW d \in Document, NEW result
  PROVE  /\ Applied(d, result) \in Document
         /\ KindOf(d) = "migration" => Applied(d, result).migration \in Migration
<1>1. CASE KindOf(d) = "host"
  <2>1. Applied(d, result) = [d EXCEPT !.active = result = "active"] BY <1>1 DEF Applied
  <2>2. Applied(d, result) \in Document BY <2>1 DEF Document
  <2> QED BY <1>1, <2>2
<1>2. CASE KindOf(d) = "candidate"
  <2>1. d.cand # None BY <1>2, Kinds
  <2>2. Applied(d, result) = d \/ Applied(d, result) = Promoted(d) BY <1>2 DEF Applied
  <2> QED BY <1>2, <2>1, <2>2, PromotedDocument
<1>3. CASE KindOf(d) = "migration"
  <2>1. d.migration # None BY <1>3, MigrationKind DEF Advancing
  <2>2. Applied(d, result) = d \/ Applied(d, result) = Switched(d) BY <1>3 DEF Applied
  <2>3. d.migration \in Migration BY <2>1 DEF Document
  <2> QED BY <2>1, <2>2, <2>3, SwitchedDocument
<1> QED BY <1>1, <1>2, <1>3, Kinds

\* A check of the document as it is finds what it says.
LEMMA AppliedFinds ==
  ASSUME NEW d \in Document, NEW r \in Document, NEW result, NEW k,
         AsRead(d, r), Placed(r),
         result = "active" => <<Evaluated(d).token, Evaluated(d).provider>> \in k
  PROVE  LET e == Applied(d, result) IN
         /\ KindOf(d) = "host" => AsRead(e, r) /\ (e.active => <<e.token, e.provider>> \in k)
         /\ KindOf(d) = "candidate" => IF e.cand # None THEN AsRead(e, r) ELSE Promotes(e, r, k)
         /\ KindOf(d) = "migration" => IF Advancing(e) THEN AsRead(e, r) ELSE Relocates(e, r, k)
<1> DEFINE e == Applied(d, result)
<1>1. CASE KindOf(d) = "host"
  <2>1. e = [d EXCEPT !.active = result = "active"] BY <1>1 DEF Applied
  <2>2. /\ e.host = d.host /\ e.token = d.token /\ e.provider = d.provider /\ e.retired = d.retired
        /\ e.cand = d.cand /\ e.migration = d.migration /\ (e.active => result = "active")
    BY <2>1 DEF Document
  <2>3. Evaluated(d) = [host |-> d.host, token |-> d.token, provider |-> d.provider] BY <1>1 DEF Evaluated
  <2>4. Evaluated(d).token = d.token /\ Evaluated(d).provider = d.provider BY <2>3
  <2>5. AsRead(e, r) BY <2>2 DEF AsRead, Migrating
  <2> QED BY <1>1, <2>2, <2>4, <2>5
<1>2. CASE KindOf(d) = "candidate"
  <2>1. d.cand # None /\ Evaluated(d) = d.cand BY <1>2, Kinds DEF Evaluated
  <2>2. CASE result # "active"
    <3>1. e = d BY <1>2, <2>2 DEF Applied
    <3> QED BY <1>2, <2>1, <3>1
  <2>3. CASE result = "active"
    <3>1. e = Promoted(d) BY <1>2, <2>3 DEF Applied
    <3>2. Placed(d)
      BY <2>1 DEF AsRead, Placed, RetiredHosts
    <3>3. RetiredHosts(d) \subseteq RetiredHosts(r) /\ d.host = r.host /\ r.cand = d.cand
      BY <2>1 DEF AsRead, RetiredHosts
    <3>4. Promotes(e, r, k) /\ e.cand = None
      BY <2>1, <2>3, <3>1, <3>2, <3>3, PromotedDocument DEF Promotes
    <3> QED BY <1>2, <3>4
  <2> QED BY <2>2, <2>3
<1>3. CASE KindOf(d) = "migration"
  <2>1. Advancing(d) /\ d.migration # None BY <1>3, MigrationKind DEF Advancing
  <2>2. CASE result # "active"
    <3>1. e = d BY <1>3, <2>2 DEF Applied
    <3> QED BY <1>3, <2>1, <3>1
  <2>3. CASE result = "active"
    <3>1. e = Switched(d) BY <1>3, <2>3 DEF Applied
    <3>2. Evaluated(d) = [host |-> d.migration.host, token |-> d.migration.token, provider |-> Target]
      BY <1>3 DEF Evaluated
    <3>3. <<d.migration.token, Target>> \in k BY <2>3, <3>2
    <3>4. d.migration.token = d.token BY <2>1 DEF AsRead, Migrating, Advancing
    <3>5. ~Advancing(e) /\ Relocates(e, r, k)
      BY <2>1, <3>1, <3>3, <3>4, SwitchedDocument DEF Relocates, AsRead
    <3> QED BY <1>3, <3>5
  <2> QED BY <2>2, <2>3
<1> QED BY <1>1, <1>2, <1>3, Kinds

\* A check that has looked.
LEMMA LooksStep ==
  ASSUME DomainsInv, NEW c \in Checkers, NEW kinds, NEW results \in SUBSET Results, Looks(c, kinds, results)
  PROVE  DomainsInv' /\ CutsOver
<1> DEFINE g == check[c]
<1> DEFINE d == g.doc
<1> DEFINE slot == Evaluated(d)
<1>1. g \in CheckRecord /\ g.at = "evaluate" /\ CheckOk(g, record, torn, checked, add, adds)
  BY DEF DomainsInv, Shaped, ChecksOk, Looks
<1>2. PICK result \in results :
        /\ registered' = registered \cup {Registration(slot)} \/ registered' = registered
        /\ checked' = IF result = "active" THEN checked \cup {<<slot.token, slot.provider>>} ELSE checked
        /\ check' = [check EXCEPT ![c].at = "save", ![c].doc = Applied(@, result), ![c].kind = KindOf(d),
                                  ![c].result = result]
  BY DEF Looks
<1> DEFINE h == [g EXCEPT !.at = "save", !.doc = Applied(d, result), !.kind = KindOf(d), !.result = result]
<1>3. check' = [check EXCEPT ![c] = h]
  <2>1. check \in [Checkers -> CheckRecord] BY DEF DomainsInv, Shaped
  <2> QED BY <1>2, <2>1
<1>4. g \in Looking BY <1>1 DEF CheckRecord, Saving, Copying, Resting
<1> HIDE DEF g
<1>5. d \in Document BY <1>4 DEF Looking
<1>6. record # None
  <2>1. g # Resting BY <1>1 DEF Resting
  <2> QED BY <1>1, <2>1 DEF CheckOk
<1> HIDE DEF d
<1>7. slot.host \in Hosts /\ slot.token \in Tokens /\ slot.provider \in Providers BY <1>5, EvaluatedSlot
<1> HIDE DEF slot
<1>8. Applied(d, result) \in Document /\ (KindOf(d) = "migration" => Applied(d, result).migration \in Migration)
  BY <1>5, AppliedDocument
<1>9. /\ h \in Saving /\ h.at = "save" /\ h.doc = Applied(d, result) /\ h.kind = KindOf(d)
      /\ h.of = g.of /\ h.fresh = g.fresh
  BY <1>4, <1>8, Kinds DEF Looking, Saving
<1> HIDE DEF h
<1>10. checked \subseteq checked' /\ checked' \subseteq Tokens \X Providers
       /\ (result = "active" => <<slot.token, slot.provider>> \in checked')
  BY <1>2, <1>7 DEF DomainsInv, Shaped
<1>11. registered' \subseteq Hosts \X Providers
  BY <1>2, <1>7 DEF Registration, DomainsInv, Shaped
<1>12. ASSUME ~torn, h.fresh, h.of = record.token PROVE Finds(h, record, checked')
  <2>1. AsRead(d, record) BY <1>1, <1>9, <1>12 DEF CheckOk, Busy, Finds, d
  <2>2. record \in Document /\ Placed(record) BY <1>6, <1>12 DEF DomainsInv, Shaped, RecordOk, Genuine
  <2> QED BY <1>5, <1>9, <1>10, <2>1, <2>2, AppliedFinds DEF Finds, slot
<1>13. CheckOk(h, record, torn, checked', add, adds)
  <2>1. ~torn => Past(h.of, add, adds) BY <1>1, <1>9 DEF CheckOk, Busy
  <2> QED BY <1>6, <1>8, <1>9, <1>12, <2>1 DEF CheckOk
<1>14. h \in CheckRecord BY <1>9 DEF CheckRecord
<1>15. Continues(c)
  BY <1>3, <1>10, <1>11, <1>13, <1>14 DEF Continues, Looks, DomainsInv, Shaped, operator, outside
<1> QED BY <1>15, OneCheck

\* A save that fails is followed by one of the same document that is not active.
LEMMA SaveFailsStep ==
  ASSUME DomainsInv, NEW c \in Checkers, SaveFails(c)
  PROVE  DomainsInv' /\ CutsOver
<1> DEFINE g == check[c]
<1> DEFINE active == IF g.kind # "migration" /\ g.doc.cand = None THEN FALSE ELSE g.doc.active
<1> DEFINE d == [g.doc EXCEPT !.active = active]
<1> DEFINE h == [g EXCEPT !.result = "failed", !.doc = d]
<1>1. g \in CheckRecord /\ g.at = "save" /\ CheckOk(g, record, torn, checked, add, adds)
  BY DEF DomainsInv, Shaped, ChecksOk, SaveFails
<1>2. check' = [check EXCEPT ![c] = h]
  <2>1. check \in [Checkers -> CheckRecord] BY DEF DomainsInv, Shaped
  <2> QED BY <2>1 DEF SaveFails
<1>3. g \in Saving BY <1>1 DEF CheckRecord, Looking, Copying, Resting
<1> HIDE DEF g
<1>4. g.doc \in Document BY <1>3 DEF Saving
<1>5. active \in BOOLEAN /\ (active => g.doc.active) BY <1>4 DEF Document
<1> HIDE DEF active
<1>6. /\ d \in Document /\ d.host = g.doc.host /\ d.token = g.doc.token /\ d.provider = g.doc.provider
      /\ d.cand = g.doc.cand /\ d.migration = g.doc.migration /\ d.retired = g.doc.retired /\ d.active = active
  BY <1>4, <1>5 DEF Document
<1> HIDE DEF d
<1>7. /\ h \in Saving /\ h.at = "save" /\ h.doc = d /\ h.kind = g.kind /\ h.of = g.of /\ h.fresh = g.fresh
  BY <1>3, <1>6 DEF Saving, Results
<1> HIDE DEF h
<1>8. ASSUME Finds(g, record, checked) PROVE Finds(h, record, checked)
  <2>1. AsRead(g.doc, record) => AsRead(d, record) BY <1>6 DEF AsRead, Migrating
  <2>2. Promotes(g.doc, record, checked) => Promotes(d, record, checked)
    BY <1>6 DEF Promotes, Placed, RetiredHosts
  <2>3. Relocates(g.doc, record, checked) => Relocates(d, record, checked) BY <1>6 DEF Relocates
  <2>4. Advancing(d) <=> Advancing(g.doc) BY <1>6 DEF Advancing
  <2> QED BY <1>1, <1>5, <1>6, <1>7, <1>8, <2>1, <2>2, <2>3, <2>4 DEF Finds
<1>9. record # None
  <2>1. g # Resting BY <1>1 DEF Resting
  <2> QED BY <1>1, <2>1 DEF CheckOk
<1>10. CheckOk(h, record, torn, checked, add, adds)
  BY <1>1, <1>6, <1>7, <1>8, <1>9 DEF CheckOk, Busy
<1>11. h \in CheckRecord /\ checked' = checked BY <1>7 DEF CheckRecord, SaveFails
<1>12. /\ UNCHANGED <<record, torn, add, op, adds, dns, feature>>
       /\ organization' \in [host : Hosts \cup {None}, verified : BOOLEAN]
       /\ checked' \subseteq Tokens \X Providers /\ registered' \subseteq Hosts \X Providers
  BY <1>11 DEF SaveFails, DomainsInv, Shaped, operator, outside
<1>13. Continues(c) BY <1>2, <1>10, <1>11, <1>12 DEF Continues
<1> QED BY <1>13, OneCheck

-----------------------------------------------------------------------------
(* What a request does until it writes, and after it has.                  *)

\* A new request, for a host that has no place in the record.
LEMMA AskStep ==
  ASSUME DomainsInv, NEW host \in Hosts, Ask(host)
  PROVE  DomainsInv' /\ CutsOver
<1> DEFINE new == [at |-> "register", host |-> host, token |-> adds + 1, read |-> record, fresh |-> TRUE]
<1>1. /\ add.at = "idle" /\ adds < MaxAdds /\ ~Attached(host) /\ ~Retiring(host)
      /\ adds' = adds + 1 /\ add' = new
      /\ UNCHANGED <<record, organization, registered, check, checked, torn, op, dns, feature>>
  BY DEF Ask, operator, outside
<1>2. adds \in 0 .. MaxAdds /\ MaxAdds \in Nat BY DomainsAssumption DEF DomainsInv, Shaped
<1>3. adds + 1 \in Tokens /\ adds' \in 0 .. MaxAdds BY <1>1, <1>2 DEF Tokens
<1>4. new \in AddRecord BY <1>3 DEF AddRecord, DomainsInv, Shaped
<1>5. /\ new.at = "register" /\ new.host = host /\ new.token = adds + 1 /\ new.read = record /\ new.fresh = TRUE
  OBVIOUS
<1> HIDE DEF new
<1>6. Later(add, adds, new, adds + 1)
  BY <1>1, <1>2, <1>5 DEF Later, Past, Pending, Tokens
<1>7. record # None => host \notin Places(record)
  BY <1>1 DEF Attached, Retiring, Places
<1>8. AddOk(new, record, torn, adds + 1) BY <1>5, <1>7 DEF AddOk, Pending
<1>9. Proceeds BY <1>1, <1>3, <1>4, <1>6, <1>8 DEF Proceeds, DomainsInv, Shaped
<1> QED BY <1>9, OneRequest

\* The provider knows the host before the record does.
LEMMA RegisterDomainStep ==
  ASSUME DomainsInv, RegisterDomain
  PROVE  DomainsInv' /\ CutsOver
<1> DEFINE new == [add EXCEPT !.at = "write"]
<1>1. /\ add.at = "register" /\ add' = new /\ registered' = registered \cup {<<add.host, Current>>}
      /\ UNCHANGED <<record, organization, check, adds, checked, torn, op, dns, feature>>
  BY DEF RegisterDomain, operator, outside
<1>2. add \in AddRecord /\ AddOk(add, record, torn, adds) /\ adds \in 0 .. MaxAdds BY DEF DomainsInv, Shaped
<1>3. add # Resting BY <1>1 DEF Resting
<1>4. /\ new \in AddRecord /\ new.at = "write" /\ new.host = add.host /\ new.token = add.token
      /\ new.read = add.read /\ new.fresh = add.fresh /\ add.host \in Hosts
  BY <1>2, <1>3 DEF AddRecord
<1>5. new # Resting BY <1>4 DEF Resting
<1> HIDE DEF new
<1>6. AddOk(new, record, torn, adds) BY <1>1, <1>2, <1>3, <1>4, <1>5 DEF AddOk, Pending
<1>7. Later(add, adds, new, adds) BY <1>1, <1>4 DEF Later, Past, Pending
<1>8. registered' \subseteq Hosts \X Providers
  BY <1>1, <1>4, DomainsAssumption DEF DomainsInv, Shaped, Providers
<1>9. Proceeds BY <1>1, <1>2, <1>4, <1>6, <1>7, <1>8 DEF Proceeds, DomainsInv, Shaped
<1> QED BY <1>9, OneRequest

\* A request that is over, whether it has copied its host or failed.
LEMMA RequestEnds ==
  ASSUME DomainsInv, add' = Resting, organization' \in [host : Hosts \cup {None}, verified : BOOLEAN],
         UNCHANGED <<record, registered, check, adds, checked, torn, op, dns, feature>>
  PROVE  DomainsInv' /\ CutsOver
<1>1. Resting \in AddRecord /\ AddOk(Resting, record, torn, adds)
  BY DEF AddRecord, AddOk, Pending, Resting
<1>2. Later(add, adds, Resting, adds) BY DEF Later, Past, Pending, Resting
<1>3. Proceeds BY <1>1, <1>2 DEF Proceeds, DomainsInv, Shaped
<1> QED BY <1>3, OneRequest

\* A request that has told the Organization of its host is over.
LEMMA CopyNewStep ==
  ASSUME DomainsInv, CopyNew
  PROVE  DomainsInv' /\ CutsOver
<1>1. add \in AddRecord /\ add.at = "copy" BY DEF DomainsInv, Shaped, CopyNew
<1>2. add # Resting BY <1>1 DEF Resting
<1>3. add.host \in Hosts BY <1>1, <1>2 DEF AddRecord
<1> QED BY <1>3, RequestEnds DEF CopyNew, operator, outside

\* So is one that fails, wherever it is.
LEMMA AddFailsStep ==
  ASSUME DomainsInv, AddFails
  PROVE  DomainsInv' /\ CutsOver
BY RequestEnds DEF AddFails, operator, outside, DomainsInv, Shaped

-----------------------------------------------------------------------------
(* The script, the plan and DNS. *)

\* A step of the script that writes nothing a check, a request or the record relies on.
LEMMA ScriptGoesOn ==
  ASSUME DomainsInv, op' \in OperatorRecord, OperatorOk(op', record, torn, checked'),
         checked \subseteq checked', checked' \subseteq Tokens \X Providers,
         organization' \in [host : Hosts \cup {None}, verified : BOOLEAN],
         registered' \subseteq Hosts \X Providers,
         UNCHANGED <<record, check, add, adds, torn, dns, feature>>
  PROVE  DomainsInv' /\ CutsOver
<1>1. Later(add, adds, add, adds) BY DEF Later
<1>2. record # None /\ ~torn => Genuine(record, checked', add, adds)
  <2>1. ASSUME record # None, ~torn PROVE Genuine(record, checked', add, adds)
    BY <1>1, <2>1, GenuineKept DEF DomainsInv, Shaped, RecordOk
  <2> QED BY <2>1
<1>3. Alike(record, record) BY DEF Alike
<1>4. Scripted BY <1>2, <1>3 DEF Scripted, DomainsInv, Shaped
<1> QED BY <1>4, OneOperation

\* The script reads the record, and what it does first does not depend on what it will read.
LEMMA OperateStep ==
  ASSUME DomainsInv, record # None, NEW at \in {"register", "remove", "unregister", "verify"}, Operate(record, at),
         at # "register" => record.migration \in Migration,
         at = "verify" => Migrating(record)
  PROVE  DomainsInv' /\ CutsOver
<1> DEFINE new == [at |-> at, doc |-> record, fresh |-> TRUE]
<1>1. /\ op' = new
      /\ UNCHANGED <<record, organization, registered, check, add, adds, checked, torn, dns, feature>>
  BY DEF Operate, outside
<1>2. new \in OperatorRecord /\ new.at = at /\ new.doc = record BY DEF OperatorRecord, DomainsInv, Shaped
<1>3. new # Resting BY DEF Resting
<1> HIDE DEF new
<1>4. ~torn /\ at = "verify" => record.migration.token = record.token BY DEF DomainsInv, RecordOk, Genuine
<1>5. OperatorOk(new, record, torn, checked) BY <1>2, <1>3, <1>4 DEF OperatorOk
<1> QED BY <1>1, <1>2, <1>5, ScriptGoesOn DEF DomainsInv, Shaped

\* The script begins with the step that the migration calls for.
LEMMA ScriptBegins ==
  ASSUME DomainsInv, StartMigration \/ FinalizeMigration \/ RollBack
  PROVE  DomainsInv' /\ CutsOver
<1>1. record # None BY DEF StartMigration, FinalizeMigration, RollBack
<1>2. record.migration # None => record.migration \in Migration BY <1>1 DEF DomainsInv, Shaped, Document
<1>3. CASE StartMigration BY <1>1, <1>3, OperateStep DEF StartMigration
<1>4. CASE FinalizeMigration BY <1>1, <1>2, <1>4, OperateStep DEF FinalizeMigration
<1>5. CASE RollBack
  <2>1. Migrating(record) /\ record.migration \in Migration BY <1>2, <1>5 DEF RollBack, Migrating
  <2>2. PICK at \in {"unregister", "verify"} : Operate(record, at) BY <1>5 DEF RollBack
  <2> QED BY <1>1, <2>1, <2>2, OperateStep
<1> QED BY <1>3, <1>4, <1>5

ScriptSteps == {"register", "stage", "remove", "finish", "verify", "restore", "tell", "unregister", "forget", "abort"}

\* The script goes on to the step `at`, with the document that it has.
LEMMA ScriptGoesTo ==
  ASSUME DomainsInv, op.at # "idle", NEW at \in ScriptSteps
  PROVE  LET new == [op EXCEPT !.at = at] IN
         /\ new \in OperatorRecord /\ new.at = at /\ new.doc = op.doc /\ new.fresh = op.fresh
         /\ new # Resting
         /\ op # Resting /\ op.doc \in Document /\ record \in Document /\ record # None
         /\ OperatorOk(op, record, torn, checked)
         /\ op.at \notin {"register", "stage"} => op.doc.migration \in Migration /\ record.migration \in Migration
<1>1. op \in OperatorRecord /\ OperatorOk(op, record, torn, checked) /\ record \in Document \cup {None}
  BY DEF DomainsInv, Shaped
<1>2. op # Resting BY DEF Resting
<1>3. op.doc \in Document /\ record # None BY <1>1, <1>2 DEF OperatorRecord, OperatorOk
<1> DEFINE new == [op EXCEPT !.at = at]
<1>4. new \in OperatorRecord /\ new.at = at /\ new.doc = op.doc /\ new.fresh = op.fresh
  BY <1>1, <1>2 DEF OperatorRecord, ScriptSteps
<1>5. new # Resting
  <2>1. at # "idle" BY DEF ScriptSteps
  <2> QED BY <1>4, <2>1 DEF Resting
<1>6. op.at \notin {"register", "stage"} => op.doc.migration \in Migration /\ record.migration \in Migration
  BY <1>1 DEF OperatorOk
<1> QED BY <1>1, <1>2, <1>3, <1>4, <1>5, <1>6

\* Each is a step at the provider, or of what the Organization is told.
LEMMA ProviderSteps ==
  ASSUME DomainsInv, RegisterTarget \/ RemoveLegacy \/ TellRestored \/ UnregisterTarget
  PROVE  DomainsInv' /\ CutsOver
<1>1. /\ op.at # "idle"
      /\ UNCHANGED <<record, check, add, adds, checked, torn, dns, feature>>
  BY DEF RegisterTarget, RemoveLegacy, TellRestored, UnregisterTarget, outside
<1>2. PICK at \in {"stage", "finish", "unregister", "forget", "abort"} :
        /\ op' = [op EXCEPT !.at = at]
        /\ at = "stage" => op.at = "register"
        /\ at # "stage" => op.at \in {"remove", "tell", "unregister"}
  BY DEF RegisterTarget, RemoveLegacy, TellRestored, UnregisterTarget
<1>3. at \in ScriptSteps BY DEF ScriptSteps
<1>4. /\ op' \in OperatorRecord /\ op'.at = at /\ op'.doc = op.doc /\ op.doc \in Document
      /\ op' # Resting /\ record # None
      /\ op.at \notin {"register", "stage"} => op.doc.migration \in Migration /\ record.migration \in Migration
  BY <1>1, <1>2, <1>3, ScriptGoesTo
<1>5. OperatorOk(op', record, torn, checked) BY <1>2, <1>4 DEF OperatorOk
<1>6. op.doc.host \in Hosts BY <1>4 DEF Document
<1>7. registered' \subseteq Hosts \X Providers
  BY <1>6 DEF RegisterTarget, RemoveLegacy, TellRestored, UnregisterTarget, DomainsInv, Shaped, Providers
<1>8. organization' \in [host : Hosts \cup {None}, verified : BOOLEAN]
  <2>1. organization' = organization \/ organization' = [host |-> op.doc.host, verified |-> TRUE]
    BY DEF RegisterTarget, RemoveLegacy, TellRestored, UnregisterTarget
  <2>2. [host |-> op.doc.host, verified |-> TRUE] \in [host : Hosts \cup {None}, verified : BOOLEAN] BY <1>6
  <2>3. organization \in [host : Hosts \cup {None}, verified : BOOLEAN] BY DEF DomainsInv, Shaped
  <2> QED BY <2>1, <2>2, <2>3
<1> QED BY <1>1, <1>4, <1>5, <1>7, <1>8, ScriptGoesOn DEF DomainsInv, Shaped

\* The provider that traffic goes back to serves, or the script gives up.
LEMMA VerifyLegacyStep ==
  ASSUME DomainsInv, VerifyLegacy
  PROVE  DomainsInv' /\ CutsOver
<1> DEFINE m == op.doc.migration
<1>1. /\ op.at = "verify"
      /\ \/ op' = [op EXCEPT !.at = "restore"] /\ checked' = checked \cup {<<m.token, Legacy>>}
         \/ op' = Resting /\ checked' = checked
      /\ UNCHANGED <<record, organization, registered, check, add, adds, torn, dns, feature>>
  BY DEF VerifyLegacy, outside
<1>2. m \in Migration /\ record.migration \in Migration /\ OperatorOk(op, record, torn, checked) /\ record # None
  BY <1>1, ScriptGoesTo DEF ScriptSteps
<1>3. m.token \in Tokens BY <1>2 DEF Migration
<1>4. checked \subseteq checked' /\ checked' \subseteq Tokens \X Providers
  BY <1>1, <1>3 DEF DomainsInv, Shaped, Providers
<1>5. CASE op' = Resting
  <2>1. op' \in OperatorRecord /\ OperatorOk(op', record, torn, checked')
    BY <1>5 DEF OperatorRecord, OperatorOk, Resting
  <2> QED BY <1>1, <1>4, <2>1, ScriptGoesOn DEF DomainsInv, Shaped
<1>6. CASE op' = [op EXCEPT !.at = "restore"] /\ checked' = checked \cup {<<m.token, Legacy>>}
  <2>1. op' \in OperatorRecord /\ op'.at = "restore" /\ op'.doc = op.doc
    BY <1>1, <1>6, ScriptGoesTo DEF ScriptSteps
  <2>2. OperatorOk(op', record, torn, checked')
    BY <1>1, <1>2, <1>6, <2>1 DEF OperatorOk
  <2> QED BY <1>1, <1>4, <2>1, <2>2, ScriptGoesOn DEF DomainsInv, Shaped
<1> QED BY <1>1, <1>5, <1>6

\* A step that ends the script and writes the migration at most.
LEMMA ScriptWrites ==
  ASSUME DomainsInv, record # None, op' = Resting,
         NEW m \in Migration \cup {None}, record' = [record EXCEPT !.migration = m],
         torn' \in BOOLEAN, ~torn' => ~torn,
         ~torn' /\ m # None /\ m.status \in {"staged", "switched"} =>
           m.token = record.token /\ record.cand = None,
         UNCHANGED <<organization, registered, check, add, adds, checked, dns, feature>>
  PROVE  DomainsInv' /\ CutsOver
<1>1. /\ record \in Document /\ (~torn => Genuine(record, checked, add, adds))
  BY DEF DomainsInv, Shaped, RecordOk
<1>2. /\ record' \in Document /\ record'.migration = m /\ record'.host = record.host /\ record'.token = record.token
      /\ record'.provider = record.provider /\ record'.retired = record.retired /\ record'.cand = record.cand
      /\ record'.active = record.active
  BY <1>1 DEF Document
<1>3. record' # None BY <1>2, NullAssumption
<1>4. Alike(record, record') BY <1>2, <1>3 DEF Alike
<1>5. ~torn' => Genuine(record', checked, add, adds)
  BY <1>1, <1>2 DEF Genuine, Placed, RetiredHosts, Migrating
<1>6. op' \in OperatorRecord /\ OperatorOk(op', record', torn', checked)
  BY DEF OperatorRecord, OperatorOk, Resting
<1>7. Scripted BY <1>2, <1>3, <1>4, <1>5, <1>6 DEF Scripted, DomainsInv, Shaped
<1> QED BY <1>7, OneOperation

\* The migration that stands, with another status.
LEMMA StatusSet ==
  ASSUME NEW r \in Document, r.migration # None, NEW s \in {"staged", "switched", "aborted", "finished"}
  PROVE  LET m == [r.migration EXCEPT !.status = s] IN
         /\ [r EXCEPT !.migration.status = s] = [r EXCEPT !.migration = m]
         /\ m \in Migration /\ m.status = s /\ m.token = r.migration.token
<1>1. r.migration \in Migration BY DEF Document
<1> QED BY <1>1 DEF Migration, Document

\* A migration is staged for the host that the script has read.
LEMMA StageTargetStep ==
  ASSUME DomainsInv, StageTarget
  PROVE  DomainsInv' /\ CutsOver
<1> DEFINE m == [status |-> "staged", host |-> op.doc.host, token |-> op.doc.token]
<1>1. /\ op.at = "stage" /\ record' = [record EXCEPT !.migration = m] /\ op' = Resting
      /\ torn' = (torn \/ record.token # op.doc.token \/ record.cand # None)
      /\ UNCHANGED <<organization, registered, check, add, adds, checked, dns, feature>>
  BY DEF StageTarget, outside
<1>2. op.doc \in Document /\ record # None BY <1>1, ScriptGoesTo DEF ScriptSteps
<1>3. m \in Migration /\ m.token = op.doc.token BY <1>2 DEF Document, Migration
<1> HIDE DEF m
<1>4. torn' \in BOOLEAN /\ (~torn' => ~torn /\ m.token = record.token /\ record.cand = None)
  BY <1>1, <1>3 DEF DomainsInv, Shaped
<1> QED BY <1>1, <1>2, <1>3, <1>4, ScriptWrites

\* A migration that is finished no longer constrains the record.
LEMMA FinishStep ==
  ASSUME DomainsInv, Finish
  PROVE  DomainsInv' /\ CutsOver
<1>1. /\ op.at = "finish" /\ op' = Resting
      /\ UNCHANGED <<organization, registered, check, add, adds, checked, torn, dns, feature>>
  BY DEF Finish, outside
<1>2. record \in Document /\ record # None /\ record.migration \in Migration
  BY <1>1, ScriptGoesTo DEF ScriptSteps
<1>3. record.migration # None BY <1>2, NullAssumption
<1> DEFINE m == [record.migration EXCEPT !.status = "finished"]
<1>4. record' = [record EXCEPT !.migration = m] /\ m \in Migration /\ m.status = "finished"
  BY <1>2, <1>3, StatusSet DEF Finish
<1> HIDE DEF m
<1> QED BY <1>1, <1>2, <1>4, ScriptWrites DEF DomainsInv, Shaped

\* Nor does one that is forgotten, or aborted.
LEMMA ForgetMigrationStep ==
  ASSUME DomainsInv, ForgetMigration
  PROVE  DomainsInv' /\ CutsOver
<1>1. /\ op.at \in {"forget", "abort"} /\ op' = Resting
      /\ UNCHANGED <<organization, registered, check, add, adds, checked, torn, dns, feature>>
  BY DEF ForgetMigration, outside
<1>2. record \in Document /\ record # None BY <1>1, ScriptGoesTo DEF ScriptSteps
<1>3. CASE op.at = "forget" \/ record.migration = None
  <2>1. record' = [record EXCEPT !.migration = None] BY <1>3 DEF ForgetMigration
  <2> QED BY <1>1, <1>2, <2>1, ScriptWrites DEF DomainsInv, Shaped
<1>4. CASE ~(op.at = "forget" \/ record.migration = None)
  <2> DEFINE m == [record.migration EXCEPT !.status = "aborted"]
  <2>1. record' = [record EXCEPT !.migration = m] /\ m \in Migration /\ m.status = "aborted"
    BY <1>2, <1>4, StatusSet DEF ForgetMigration
  <2> HIDE DEF m
  <2> QED BY <1>1, <1>2, <2>1, ScriptWrites DEF DomainsInv, Shaped
<1> QED BY <1>3, <1>4

\* A script that dies leaves the record as it is.
LEMMA OperatorDiesStep ==
  ASSUME DomainsInv, OperatorDies
  PROVE  DomainsInv' /\ CutsOver
<1>1. op' \in OperatorRecord /\ OperatorOk(op', record, torn, checked)
  BY DEF OperatorDies, OperatorRecord, OperatorOk, Resting
<1> QED BY <1>1, ScriptGoesOn DEF OperatorDies, outside, DomainsInv, Shaped

\* DNS and the plan.
LEMMA SetDnsStep ==
  ASSUME DomainsInv, SetDns
  PROVE  DomainsInv' /\ CutsOver
<1>1. dns' \in [Tokens -> Providers \cup {None}] BY DEF SetDns, DomainsInv, Shaped
<1>2. UNCHANGED <<record, organization, registered, feature, check, add, adds, checked, torn, op>>
  BY DEF SetDns, operator
<1>3. Alike(record, record) BY DEF Alike
<1>4. Scripted BY <1>1, <1>2, <1>3 DEF Scripted, DomainsInv, Shaped, RecordOk
<1> QED BY <1>4, OneOperation

\* What the plan includes touches the entitlement and the copy only.
LEMMA SetFeatureStep ==
  ASSUME DomainsInv, SetFeature
  PROVE  DomainsInv' /\ CutsOver
<1>1. /\ UNCHANGED <<registered, dns, check, add, adds, checked, torn, op>>
      /\ feature' = ~feature
  BY DEF SetFeature, operator
<1>2. organization' \in [host : Hosts \cup {None}, verified : BOOLEAN]
  <2>1. organization' = [organization EXCEPT !.verified = feature' /\ record # None /\ record.active]
    BY DEF SetFeature
  <2>2. (feature' /\ record # None /\ record.active) \in BOOLEAN BY <1>1 DEF DomainsInv, Shaped
  <2> QED BY <2>1, <2>2 DEF DomainsInv, Shaped
<1>3. CASE record = None
  <2>1. record' = record /\ Alike(record, record) BY <1>3 DEF SetFeature, Alike
  <2>2. feature' \in BOOLEAN BY <1>1
  <2>3. Scripted BY <1>1, <1>2, <2>1, <2>2 DEF Scripted, DomainsInv, Shaped, RecordOk
  <2> QED BY <2>3, OneOperation
<1>4. CASE record # None
  <2>1. record' = [record EXCEPT !.entitled = feature'] /\ record \in Document
    BY <1>4 DEF SetFeature, DomainsInv, Shaped
  <2>2. feature' \in BOOLEAN BY <1>1
  <2>3. /\ record' \in Document /\ record'.migration = record.migration /\ record'.host = record.host
        /\ record'.token = record.token /\ record'.provider = record.provider /\ record'.retired = record.retired
        /\ record'.cand = record.cand /\ record'.active = record.active
    BY <2>1, <2>2 DEF Document
  <2>4. record' # None BY <2>3, NullAssumption
  <2>5. Alike(record, record') BY <1>4, <2>3, <2>4 DEF Alike
  <2>6. ~torn => Genuine(record', checked, add, adds)
    <3>1. ~torn => Genuine(record, checked, add, adds) BY <1>4 DEF DomainsInv, RecordOk
    <3> QED BY <2>3, <3>1 DEF Genuine, Placed, RetiredHosts, Migrating
  <2>7. OperatorOk(op, record', torn, checked)
    BY <1>4, <2>3, <2>4 DEF DomainsInv, OperatorOk, Migrating
  <2>8. Scripted BY <1>1, <1>2, <2>2, <2>3, <2>5, <2>6, <2>7 DEF Scripted, DomainsInv, Shaped
  <2> QED BY <2>8, OneOperation
<1> QED BY <1>3, <1>4

-----------------------------------------------------------------------------
(* What is written to the record. *)

\* The first candidate is staged beside a document that each check has read without one.
LEMMA StageCandidateStep ==
  ASSUME DomainsInv, StageCandidate
  PROVE  DomainsInv' /\ CutsOver
<1> DEFINE slot == [host |-> add.host, token |-> add.token, provider |-> Current]
<1>1. /\ add.at = "write" /\ add.read # None /\ add.read.cand = None
      /\ record' = [record EXCEPT !.cand = slot, !.entitled = TRUE]
      /\ torn' = (torn \/ Migrating(record)) /\ add' = Resting
      /\ UNCHANGED <<organization, registered, check, adds, checked, op, dns, feature>>
  BY DEF StageCandidate, HasServingDomain, Staged, operator, outside
<1>2. add \in AddRecord /\ AddOk(add, record, torn, adds) BY DEF DomainsInv, Shaped
<1>3. add # Resting BY <1>1 DEF Resting
<1>4. add.host \in Hosts /\ add.token \in Tokens /\ add.token = adds
  BY <1>2, <1>3 DEF AddRecord, AddOk
<1>5. record # None /\ record \in Document BY <1>1, <1>2 DEF AddOk, Pending, DomainsInv, Shaped
<1>6. slot \in Slot /\ slot.host = add.host /\ slot.token = add.token
  BY <1>4, DomainsAssumption DEF Slot, Providers
<1> HIDE DEF slot
<1>7. /\ record' \in Document /\ record'.cand = slot /\ record'.host = record.host /\ record'.token = record.token
      /\ record'.provider = record.provider /\ record'.retired = record.retired
      /\ record'.migration = record.migration /\ record'.active = record.active
  BY <1>1, <1>5, <1>6 DEF Document
<1>8. record' # None BY <1>7, NullAssumption
<1>9. torn' \in BOOLEAN /\ (~torn' => ~torn /\ ~Migrating(record)) BY <1>1 DEF DomainsInv, Shaped
<1>10. ~torn => add.host \notin Places(record) /\ record.cand = None
  BY <1>1, <1>2, <1>5 DEF AddOk, Pending
<1>11. Later(add, adds, Resting, adds) BY DEF Later, Past, Pending, Resting
<1>12. ASSUME ~torn' PROVE Genuine(record', checked, Resting, adds)
  <2>1. Genuine(record, checked, add, adds) BY <1>5, <1>9, <1>12 DEF DomainsInv, RecordOk
  <2>2. Genuine(record, checked, Resting, adds) BY <1>5, <1>11, <2>1, GenuineKept
  <2>3. Past(slot.token, Resting, adds)
    <3>1. adds <= adds BY DEF DomainsInv, Shaped
    <3> QED BY <1>4, <1>6, <3>1 DEF Past, Pending, Resting
  <2>4. Placed(record')
    <3>1. add.host \notin {record.host} \cup RetiredHosts(record) BY <1>9, <1>10, <1>12 DEF Places
    <3>2. RetiredHosts(record') = RetiredHosts(record) BY <1>7 DEF RetiredHosts
    <3> QED BY <1>6, <1>7, <2>2, <3>1, <3>2 DEF Placed, Genuine
  <2>5. ~Migrating(record') BY <1>7, <1>9, <1>12 DEF Migrating
  <2> QED BY <1>7, <2>2, <2>3, <2>4, <2>5 DEF Genuine
<1>13. ChecksOk'
  <2>1. ASSUME NEW d \in Checkers PROVE CheckOk(check[d], record', torn', checked, Resting, adds)
    <3>1. check[d] \in CheckRecord BY DEF DomainsInv, Shaped
    <3>2. CheckOk(check[d], record, torn, checked, add, adds) BY DEF DomainsInv, ChecksOk
    <3>3. ~torn' => Stays(record, record') BY <1>7, <1>9, <1>10 DEF Stays
    <3> QED BY <1>8, <1>9, <1>11, <3>1, <3>2, <3>3, CheckStays
  <2> QED BY <1>1, <2>1 DEF ChecksOk
<1>14. AddOk(add', record', torn', adds') /\ add' \in AddRecord
  BY <1>1 DEF AddOk, AddRecord, Pending, Resting
<1>15. OperatorOk(op', record', torn', checked')
  <2>1. OperatorOk(op, record, torn, checked) BY DEF DomainsInv
  <2> QED BY <1>1, <1>7, <1>8, <1>9, <2>1 DEF OperatorOk
<1>16. Shaped' BY <1>1, <1>7, <1>9, <1>14 DEF DomainsInv, Shaped
<1>17. RecordOk' BY <1>1, <1>12 DEF RecordOk
<1>18. CutsOver BY <1>7, <1>8 DEF CutsOver
<1> QED BY <1>13, <1>14, <1>15, <1>16, <1>17, <1>18 DEF DomainsInv

\* findOneAndUpdate: a document of a token that no check has seen.
LEMMA AttachStep ==
  ASSUME DomainsInv, Attach
  PROVE  DomainsInv' /\ CutsOver
<1> DEFINE retired == IF record = None THEN {} ELSE record.retired
<1> DEFINE migration == IF record = None THEN None ELSE record.migration
<1> DEFINE new == [add EXCEPT !.at = IF add.read = None THEN "copy" ELSE "retire", !.fresh = TRUE]
<1>1. /\ add.at = "write" /\ add' = new
      /\ record' = [host |-> add.host, token |-> add.token, provider |-> Current, active |-> FALSE,
                    entitled |-> TRUE, cand |-> None, retired |-> retired, migration |-> migration]
      /\ torn' = (torn \/ (record # None /\ Migrating(record)))
      /\ UNCHANGED <<organization, registered, check, adds, checked, op, dns, feature>>
  BY DEF Attach, operator, outside
<1>2. add \in AddRecord /\ AddOk(add, record, torn, adds) BY DEF DomainsInv, Shaped
<1>3. add # Resting BY <1>1 DEF Resting
<1>4. add.host \in Hosts /\ add.token \in Tokens /\ add.token = adds
  BY <1>2, <1>3 DEF AddRecord, AddOk
<1>5. record # None => record \in Document BY DEF DomainsInv, Shaped
<1>6. retired \in SUBSET Retiree /\ migration \in Migration \cup {None} BY <1>5 DEF Document
<1>7. /\ new \in AddRecord /\ new.token = add.token /\ new.read = add.read
      /\ new.at = IF add.read = None THEN "copy" ELSE "retire"
  BY <1>2, <1>3 DEF AddRecord
<1>8. record # None => retired = record.retired /\ migration = record.migration OBVIOUS
<1>9. record = None => retired = {} /\ migration = None OBVIOUS
<1> HIDE DEF retired, migration, new
<1>10. /\ record' \in Document /\ record'.host = add.host /\ record'.token = add.token /\ record'.active = FALSE
       /\ record'.cand = None /\ record'.retired = retired /\ record'.migration = migration
  BY <1>1, <1>4, <1>6, DomainsAssumption DEF Document, Providers
<1>11. record' # None BY <1>10, NullAssumption
<1>12. torn' \in BOOLEAN /\ (~torn' => ~torn /\ (record # None => ~Migrating(record)))
  <2>1. (record # None /\ Migrating(record)) \in BOOLEAN OBVIOUS
  <2> QED BY <1>1, <2>1 DEF DomainsInv, Shaped
<1>13. Later(add, adds, new, adds) BY <1>7 DEF Later, Past, Pending
<1>14. ~Migrating(record') \/ torn'
  BY <1>8, <1>9, <1>10, <1>12 DEF Migrating
<1>15. ASSUME ~torn' PROVE Genuine(record', checked, new, adds)
  <2>1. Past(add.token, new, adds)
    <3>1. adds <= adds BY DEF DomainsInv, Shaped
    <3> QED BY <1>4, <1>7, <3>1 DEF Past, Pending
  <2>2. Placed(record')
    <3>1. CASE record = None BY <1>9, <1>10, <3>1 DEF Placed, RetiredHosts
    <3>2. CASE record # None
      <4>1. Placed(record) BY <1>12, <1>15, <3>2 DEF DomainsInv, RecordOk, Genuine
      <4>2. add.host \notin RetiredHosts(record) BY <1>1, <1>2, <1>12, <1>15, <3>2 DEF AddOk, Pending, Places
      <4> QED BY <1>8, <1>10, <3>2, <4>1, <4>2 DEF Placed, RetiredHosts
    <3> QED BY <3>1, <3>2
  <2> QED BY <1>10, <1>14, <1>15, <2>1, <2>2 DEF Genuine
<1>16. ChecksOk'
  <2>1. ASSUME NEW d \in Checkers PROVE CheckOk(check[d], record', torn', checked, new, adds)
    <3>1. check[d] \in CheckRecord BY DEF DomainsInv, Shaped
    <3>2. CheckOk(check[d], record, torn, checked, add, adds) BY DEF DomainsInv, ChecksOk
    <3>3. Busy(check[d]) => check[d].of \in Tokens
      BY <3>1 DEF Busy, CheckRecord, Looking, Saving, Copying, Resting
    <3>4. ~torn /\ Busy(check[d]) => check[d].of # add.token /\ Past(check[d].of, new, adds)
      BY <1>1, <1>13, <3>2, <3>3 DEF CheckOk, Past, Pending, Later
    <3> QED BY <1>10, <1>11, <1>12, <3>2, <3>4 DEF CheckOk
  <2> QED BY <1>1, <2>1 DEF ChecksOk
<1>17. AddOk(add', record', torn', adds')
  <2>1. new # Resting BY <1>7 DEF Resting
  <2> QED BY <1>1, <1>4, <1>7, <1>10, <1>11, <2>1 DEF AddOk, Pending
<1>18. OperatorOk(op', record', torn', checked')
  <2>1. OperatorOk(op, record, torn, checked) BY DEF DomainsInv
  <2>2. CASE op = Resting BY <1>1, <1>11, <2>2 DEF OperatorOk, Resting
  <2>3. CASE op # Resting
    <3>1. record # None /\ record'.migration = record.migration BY <1>8, <1>10, <2>1, <2>3 DEF OperatorOk
    <3>2. ~torn' => ~torn /\ ~Migrating(record) BY <1>12, <3>1
    <3>3. op.at \in {"verify", "restore"} => torn' BY <2>1, <3>2 DEF OperatorOk
    <3> QED BY <1>1, <1>11, <2>1, <3>1, <3>3 DEF OperatorOk
  <2> QED BY <2>2, <2>3
<1>19. Shaped' BY <1>1, <1>7, <1>10, <1>12 DEF DomainsInv, Shaped
<1>20. RecordOk' BY <1>1, <1>15 DEF RecordOk
<1>21. CutsOver BY <1>11 DEF CutsOver, Attach
<1> QED BY <1>16, <1>17, <1>18, <1>19, <1>20, <1>21 DEF DomainsInv

\* The end of the grace, when no handler is at work.
LEMMA GraceEndsStep ==
  ASSUME DomainsInv, GraceEnds
  PROVE  DomainsInv' /\ CutsOver
<1>1. /\ add.at = "idle" /\ op.at = "idle" /\ \A c \in Checkers : check[c].at = "idle"
      /\ record # None
      /\ UNCHANGED <<organization, registered, check, add, adds, checked, torn, op, dns, feature>>
  BY DEF GraceEnds, operator, outside
<1>2. PICK x \in record.retired :
        record' = [record EXCEPT !.retired = (@ \ {x}) \cup {[x EXCEPT !.due = TRUE]}]
  BY DEF GraceEnds
<1> DEFINE y == [x EXCEPT !.due = TRUE]
<1> DEFINE R == (record.retired \ {x}) \cup {y}
<1>3. record \in Document BY <1>1 DEF DomainsInv, Shaped
<1>4. x \in Retiree /\ record.retired \subseteq Retiree BY <1>3 DEF Document
<1>5. y \in Retiree /\ y.host = x.host BY <1>4 DEF Retiree
<1> HIDE DEF y
<1>6. record' = [record EXCEPT !.retired = R] /\ R \subseteq Retiree BY <1>2, <1>4, <1>5 DEF y
<1>7. /\ record' \in Document /\ record'.retired = R /\ record'.cand = record.cand /\ record'.host = record.host
      /\ record'.token = record.token /\ record'.provider = record.provider
      /\ record'.migration = record.migration /\ record'.active = record.active
  BY <1>3, <1>6 DEF Document
<1>8. record' # None BY <1>7, NullAssumption
<1>9. RetiredHosts(record') = RetiredHosts(record) BY <1>5, <1>7 DEF RetiredHosts
<1>10. Placed(record) => Placed(record')
  <2>1. ASSUME Placed(record), NEW p \in R, NEW q \in R, p.host = q.host PROVE p = q
    BY <1>5, <2>1 DEF Placed
  <2> QED BY <1>7, <1>9, <2>1 DEF Placed
<1>11. ~torn => Genuine(record', checked, add, adds)
  <2>1. ~torn => Genuine(record, checked, add, adds) BY <1>1 DEF DomainsInv, RecordOk
  <2> QED BY <1>7, <1>10, <2>1 DEF Genuine, Migrating
<1>12. ChecksOk'
  <2>1. ASSUME NEW d \in Checkers PROVE CheckOk(check[d], record', torn, checked, add, adds)
    BY <1>1, <1>8 DEF CheckOk, Busy
  <2> QED BY <1>1, <2>1 DEF ChecksOk
<1>13. AddOk(add', record', torn', adds')
  <2>1. AddOk(add, record, torn, adds) BY DEF DomainsInv
  <2> QED BY <1>1, <2>1 DEF AddOk, Pending
<1>14. OperatorOk(op', record', torn', checked') BY <1>1, <1>8 DEF OperatorOk
<1>15. Shaped' BY <1>1, <1>7 DEF DomainsInv, Shaped
<1>16. RecordOk' BY <1>1, <1>11 DEF RecordOk
<1>17. CutsOver BY <1>7, <1>8 DEF CutsOver
<1> QED BY <1>12, <1>13, <1>14, <1>15, <1>16, <1>17 DEF DomainsInv

-----------------------------------------------------------------------------
(* What is saved with an array, and so outdates every other document.      *)

\* The token of r is that of the record, or that of its candidate, which passed every check.
TokenMoves(r) ==
  r.token = record.token
  \/ (record.cand # None /\ r.token = record.cand.token /\ <<r.token, r.provider>> \in checked)

\* It is enough that the record, the request, the script and the check that saves are right.
LEMMA ArraySave ==
  ASSUME DomainsInv, record # None, record' \in Document, NEW who, NEW h, Raise(who, h),
         torn' \in BOOLEAN, ~torn' => ~torn /\ Genuine(record', checked, add', adds),
         Later(add, adds, add', adds),
         who \in Checkers => h \in CheckRecord /\ CheckOk(h, record', torn', checked, add', adds),
         who = "add" => h \in AddRecord, who = "operator" => h \in OperatorRecord,
         AddOk(add', record', torn', adds), OperatorOk(op', record', torn', checked),
         ~torn' => TokenMoves(record'),
         UNCHANGED <<organization, registered, adds, checked, dns, feature>>
  PROVE  DomainsInv' /\ CutsOver
<1>1. /\ check' = [c \in Checkers |-> IF c = who THEN h ELSE Outdated(check[c])]
      /\ add' = IF who = "add" THEN h ELSE Outdated(add)
      /\ op' = IF who = "operator" THEN h ELSE Outdated(op)
  BY DEF Raise
<1>2. record' # None BY NullAssumption
<1>3. add' \in AddRecord /\ op' \in OperatorRecord
  BY <1>1, OthersOutdated DEF DomainsInv, Shaped
<1>4. ASSUME NEW c \in Checkers
      PROVE  check'[c] \in CheckRecord /\ CheckOk(check'[c], record', torn', checked, add', adds)
  <2>1. CASE c = who BY <1>1, <2>1
  <2>2. CASE c # who
    <3>1. check'[c] = Outdated(check[c]) /\ check[c] \in CheckRecord BY <1>1, <2>2 DEF DomainsInv, Shaped
    <3>2. CheckOk(check[c], record, torn, checked, add, adds) BY DEF DomainsInv, ChecksOk
    <3> QED BY <1>2, <3>1, <3>2, CheckOutdated
  <2> QED BY <2>1, <2>2
<1>5. check' \in [Checkers -> CheckRecord]
  <2>1. check' = [c \in Checkers |-> check'[c]] BY <1>1
  <2> QED BY <1>4, <2>1
<1>6. Shaped' BY <1>3, <1>5 DEF DomainsInv, Shaped
<1>7. ChecksOk' BY <1>4 DEF ChecksOk
<1>8. RecordOk' BY DEF RecordOk
<1>9. CutsOver BY <1>2 DEF CutsOver, TokenMoves
<1> QED BY <1>6, <1>7, <1>8, <1>9 DEF DomainsInv

\* What the save of the check h leaves of the record, r, when it is one of the host that
\* the record still names and reopens no migration.
Follows(r) ==
  /\ Places(r) \subseteq Places(record)
  /\ record.cand = None => r.cand = None /\ r.token = record.token
  /\ Migrating(record) => Migrating(r) /\ r.cand = None /\ r.token = record.token
  /\ TokenMoves(r) /\ Genuine(r, checked, add, adds)

\* A host's check writes what it found, and fewer retired hosts.
LEMMA HostWritten ==
  ASSUME record \in Document, NEW d \in Document, NEW r, r = [record EXCEPT !.active = d.active, !.retired = d.retired]
  PROVE  /\ r \in Document /\ r.migration = record.migration
         /\ AsRead(d, record) /\ (d.active => <<d.token, d.provider>> \in checked)
            /\ Genuine(record, checked, add, adds) => Follows(r)
<1>1. /\ r \in Document /\ r.migration = record.migration /\ r.host = record.host /\ r.token = record.token
      /\ r.provider = record.provider /\ r.cand = record.cand /\ r.retired = d.retired /\ r.active = d.active
  BY DEF Document
<1>2. ASSUME AsRead(d, record), d.active => <<d.token, d.provider>> \in checked,
             Genuine(record, checked, add, adds)
      PROVE  Follows(r)
  <2>1. d.token = record.token /\ d.provider = record.provider /\ d.retired \subseteq record.retired
    BY <1>2 DEF AsRead
  <2>2. Places(r) \subseteq Places(record) BY <1>1, <2>1 DEF Places, RetiredHosts
  <2>3. Migrating(r) <=> Migrating(record) BY <1>1 DEF Migrating
  <2>4. Placed(r) BY <1>1, <1>2, <2>1 DEF Genuine, Placed, RetiredHosts
  <2>5. Genuine(r, checked, add, adds) BY <1>1, <1>2, <2>1, <2>3, <2>4 DEF Genuine
  <2> QED BY <1>1, <1>2, <2>2, <2>3, <2>5 DEF Follows, Genuine, TokenMoves
<1> QED BY <1>1, <1>2

\* A check that changed nothing else writes fewer retired hosts.
LEMMA RetiredWritten ==
  ASSUME record \in Document, NEW d \in Document, NEW r, r = [record EXCEPT !.retired = d.retired]
  PROVE  /\ r \in Document /\ r.migration = record.migration
         /\ AsRead(d, record) /\ Genuine(record, checked, add, adds) => Follows(r)
<1>1. /\ r \in Document /\ r.migration = record.migration /\ r.host = record.host /\ r.token = record.token
      /\ r.provider = record.provider /\ r.cand = record.cand /\ r.retired = d.retired /\ r.active = record.active
  BY DEF Document
<1>2. ASSUME AsRead(d, record), Genuine(record, checked, add, adds) PROVE Follows(r)
  <2>1. d.retired \subseteq record.retired BY <1>2 DEF AsRead
  <2>2. Places(r) \subseteq Places(record) BY <1>1, <2>1 DEF Places, RetiredHosts
  <2>3. Migrating(r) <=> Migrating(record) BY <1>1 DEF Migrating
  <2>4. Placed(r) BY <1>1, <1>2, <2>1 DEF Genuine, Placed, RetiredHosts
  <2>5. Genuine(r, checked, add, adds) BY <1>1, <1>2, <2>3, <2>4 DEF Genuine
  <2> QED BY <1>1, <1>2, <2>2, <2>3, <2>5 DEF Follows, Genuine, TokenMoves
<1> QED BY <1>1, <1>2

\* So does one that notes what the migration waits for.
LEMMA ReopenedWritten ==
  ASSUME record \in Document, record.migration # None, NEW d \in Document, NEW w, NEW r,
         w = [record EXCEPT !.retired = d.retired], r = [w EXCEPT !.migration.status = "staged"]
  PROVE  /\ r \in Document /\ r.migration \in Migration
         /\ AsRead(d, record) /\ Genuine(record, checked, add, adds) /\ (Migrating(r) => Migrating(record)) =>
              Follows(r)
<1> DEFINE m == [record.migration EXCEPT !.status = "staged"]
<1>1. /\ w \in Document /\ w.migration = record.migration /\ w.host = record.host /\ w.token = record.token
      /\ w.provider = record.provider /\ w.cand = record.cand /\ w.active = record.active
      /\ AsRead(d, record) /\ Genuine(record, checked, add, adds) => Follows(w)
  <2>1. /\ w.host = record.host /\ w.token = record.token /\ w.provider = record.provider
        /\ w.cand = record.cand /\ w.active = record.active
    BY DEF Document
  <2> QED BY <2>1, RetiredWritten
<1>2. r = [w EXCEPT !.migration = m] /\ m \in Migration /\ m.status = "staged" /\ m.token = record.migration.token
  BY <1>1, StatusSet
<1> HIDE DEF m
<1>3. /\ r \in Document /\ r.migration = m /\ r.host = w.host /\ r.token = w.token /\ r.provider = w.provider
      /\ r.cand = w.cand /\ r.retired = w.retired /\ r.active = w.active
  BY <1>1, <1>2 DEF Document
<1>4. ASSUME Follows(w), Genuine(record, checked, add, adds), Migrating(r) => Migrating(record) PROVE Follows(r)
  <2>1. m # None BY <1>2, NullAssumption
  <2>2. Migrating(r) BY <1>2, <1>3, <2>1 DEF Migrating
  <2>3. record.migration.token = record.token /\ record.cand = None BY <1>4, <2>2 DEF Genuine
  <2>4. Places(r) = Places(w) BY <1>3 DEF Places, RetiredHosts
  <2>5. Placed(r) BY <1>3, <1>4 DEF Follows, Genuine, Placed, RetiredHosts
  <2>6. Genuine(r, checked, add, adds) BY <1>1, <1>2, <1>3, <1>4, <2>3, <2>5 DEF Follows, Genuine, TokenMoves
  <2> QED BY <1>1, <1>3, <1>4, <2>2, <2>3, <2>4, <2>6 DEF Follows, TokenMoves
<1> QED BY <1>1, <1>2, <1>3, <1>4

\* A promotion writes its document, but for what it did not set.
LEMMA PromotionWritten ==
  ASSUME record \in Document, NEW d \in Document, d.cand = None, NEW r,
         r = [d EXCEPT !.entitled = record.entitled, !.migration = record.migration]
  PROVE  /\ r \in Document /\ r.migration = record.migration
         /\ Promotes(d, record, checked) /\ Genuine(record, checked, add, adds) => Follows(r)
<1>1. /\ r \in Document /\ r.migration = record.migration /\ r.host = d.host /\ r.token = d.token
      /\ r.provider = d.provider /\ r.cand = None /\ r.retired = d.retired /\ r.active = d.active
  BY DEF Document
<1>2. ASSUME Promotes(d, record, checked), Genuine(record, checked, add, adds) PROVE Follows(r)
  <2>1. /\ record.cand # None /\ d.host = record.cand.host /\ d.token = record.cand.token
        /\ <<d.token, d.provider>> \in checked /\ Placed(d)
        /\ RetiredHosts(d) \subseteq RetiredHosts(record) \cup {record.host}
    BY <1>2 DEF Promotes
  <2>2. RetiredHosts(r) = RetiredHosts(d) BY <1>1 DEF RetiredHosts
  <2>3. Places(r) \subseteq Places(record) BY <1>1, <2>1, <2>2 DEF Places
  <2>4. ~Migrating(record) BY <1>2, <2>1 DEF Genuine
  <2>5. ~Migrating(r) BY <1>1, <2>4 DEF Migrating
  <2>6. Placed(r) BY <1>1, <2>1, <2>2 DEF Placed
  <2>7. Genuine(r, checked, add, adds) BY <1>1, <1>2, <2>1, <2>5, <2>6 DEF Genuine
  <2> QED BY <1>1, <2>1, <2>3, <2>4, <2>7 DEF Follows, TokenMoves
<1> QED BY <1>1, <1>2

\* A switch writes the host's new provider.
LEMMA SwitchWritten ==
  ASSUME record \in Document, record.migration # None, NEW d \in Document, NEW r,
         r = [Switched(record) EXCEPT !.token = d.token, !.retired = d.retired]
  PROVE  /\ r \in Document /\ r.migration \in Migration
         /\ Relocates(d, record, checked) /\ Genuine(record, checked, add, adds)
            /\ (Migrating(r) => Migrating(record)) => Follows(r)
<1> DEFINE s == Switched(record)
<1>1. /\ s \in Document /\ s.provider = Target /\ s.cand = record.cand /\ s.host = record.host
      /\ s.migration \in Migration /\ s.migration.token = record.migration.token /\ s.migration.status = "switched"
  BY SwitchedDocument
<1> HIDE DEF s
<1>2. r = [s EXCEPT !.token = d.token, !.retired = d.retired] BY DEF s
<1>3. /\ r \in Document /\ r.migration = s.migration /\ r.host = record.host /\ r.token = d.token
      /\ r.provider = Target /\ r.cand = record.cand /\ r.retired = d.retired
  BY <1>1, <1>2 DEF Document
<1>4. ASSUME Relocates(d, record, checked), Genuine(record, checked, add, adds),
             Migrating(r) => Migrating(record)
      PROVE  Follows(r)
  <2>1. d.token = record.token /\ d.retired \subseteq record.retired /\ <<d.token, Target>> \in checked
    BY <1>4 DEF Relocates
  <2>2. s.migration # None BY <1>1, NullAssumption
  <2>3. Migrating(r) /\ Migrating(record) BY <1>1, <1>3, <1>4, <2>2 DEF Migrating
  <2>4. Places(r) \subseteq Places(record) BY <1>3, <2>1 DEF Places, RetiredHosts
  <2>5. Placed(r) BY <1>3, <1>4, <2>1 DEF Genuine, Placed, RetiredHosts
  <2>6. Genuine(r, checked, add, adds) BY <1>1, <1>3, <1>4, <2>1, <2>3, <2>5 DEF Genuine
  <2> QED BY <1>3, <1>4, <2>1, <2>3, <2>4, <2>6 DEF Follows, Genuine, TokenMoves
<1> QED BY <1>1, <1>3, <1>4

\* A request that is outdated, where its host and what it is owed stay out of the record's way.
LEMMA RequestOutdated ==
  ASSUME DomainsInv, record # None, NEW r \in Document, NEW t,
         ~t => /\ ~torn /\ Places(r) \subseteq Places(record)
               /\ record.cand = None => r.cand = None /\ r.token = record.token
  PROVE  AddOk(Outdated(add), r, t, adds) /\ Later(add, adds, Outdated(add), adds)
<1> DEFINE a == Outdated(add)
<1>1. add \in AddRecord /\ AddOk(add, record, torn, adds) /\ r # None
  BY NullAssumption DEF DomainsInv, Shaped
<1>2. /\ a = add /\ ~Pending(add) /\ add.at # "retire"
      \/ /\ add # Resting /\ a # Resting /\ a.at = add.at /\ a.host = add.host /\ a.token = add.token
         /\ a.read = add.read /\ a.fresh = FALSE
  <2>1. CASE add = Resting BY <2>1 DEF Outdated, Pending, Resting
  <2>2. CASE add.at = "copy" BY <2>2 DEF Outdated, Pending
  <2>3. CASE add # Resting /\ add.at # "copy" BY <1>1, <2>3, OthersOutdated
  <2> QED BY <2>1, <2>2, <2>3
<1> HIDE DEF a
<1>3. Later(add, adds, a, adds) BY <1>2 DEF Later, Past, Pending
<1>4. AddOk(a, r, t, adds)
  <2>1. CASE a = add /\ ~Pending(add) /\ add.at # "retire" BY <1>1, <2>1 DEF AddOk
  <2>2. CASE /\ add # Resting /\ a # Resting /\ a.at = add.at /\ a.host = add.host /\ a.token = add.token
             /\ a.read = add.read /\ a.fresh = FALSE
    <3>1. Pending(a) <=> Pending(add) BY <2>2 DEF Pending
    <3>2. ~t /\ Pending(add) => add.host \notin Places(r) /\ (add.read.cand = None => r.cand = None)
      BY <1>1 DEF AddOk
    <3>3. ~t /\ add.at = "retire" => r.token = add.token /\ r.cand = None BY <1>1 DEF AddOk
    <3> QED BY <1>1, <2>2, <3>1, <3>2, <3>3 DEF AddOk
  <2> QED BY <1>2, <2>1, <2>2
<1> QED BY <1>3, <1>4 DEF a

\* A script that is outdated, where a migration that is under way goes on.
LEMMA OperatorOutdated ==
  ASSUME DomainsInv, NEW r \in Document, NEW t, record.migration \in Migration => r.migration \in Migration,
         ~t => ~torn /\ (Migrating(record) => Migrating(r) /\ r.token = record.token)
  PROVE  OperatorOk(Outdated(op), r, t, checked)
<1>1. op \in OperatorRecord /\ OperatorOk(op, record, torn, checked) /\ r # None
  BY NullAssumption DEF DomainsInv, Shaped
<1>2. CASE op = Resting
  <2>1. Outdated(op) = Resting BY <1>1, <1>2, OthersOutdated
  <2> QED BY <2>1 DEF OperatorOk, Resting
<1>3. CASE op # Resting
  <2>1. Outdated(op).at = op.at /\ Outdated(op).doc = op.doc BY <1>1, <1>3, OthersOutdated
  <2> QED BY <1>1, <2>1 DEF OperatorOk
<1> QED BY <1>2, <1>3

\* Whatever a check saves.
LEMMA SaveWrites ==
  ASSUME DomainsInv, NEW c \in Checkers, check[c].at = "save", Savable(check[c]), NEW r \in Saves(check[c])
  PROVE  /\ check[c] \in Saving /\ record \in Document /\ record # None
         /\ r \in Document /\ (record.migration \in Migration => r.migration \in Migration)
         /\ ~torn /\ record.token = check[c].of /\ (Migrating(r) => Migrating(record)) => Follows(r)
<1> DEFINE h == check[c]
<1> DEFINE d == h.doc
<1> DEFINE w == Written(h)
<1>1. h \in CheckRecord /\ CheckOk(h, record, torn, checked, add, adds)
  BY DEF DomainsInv, Shaped, ChecksOk
<1>2. h.at = "save" /\ Savable(h) /\ r \in Saves(h) OBVIOUS
<1>3. Saves(h) = {w} \cup (IF h.kind = "migration" /\ Advancing(d) THEN {[w EXCEPT !.migration.status = "staged"]} ELSE {})
  BY DEF Saves
<1>4. w = (CASE h.kind = "host" -> [record EXCEPT !.active = d.active, !.retired = d.retired]
    [] h.kind = "candidate" /\ d.cand = None ->
         [d EXCEPT !.entitled = record.entitled, !.migration = record.migration]
    [] h.kind = "migration" /\ ~Advancing(d) ->
         [Switched(record) EXCEPT !.token = d.token, !.retired = d.retired]
    [] OTHER -> [record EXCEPT !.retired = d.retired])
  BY DEF Written
<1>5. h \in Saving /\ h # Resting BY <1>1, <1>2 DEF CheckRecord, Looking, Copying, Resting
<1> HIDE DEF h
<1>6. d \in Document /\ h.kind \in {"host", "candidate", "migration"} BY <1>5 DEF Saving
<1>7. record # None /\ record \in Document BY <1>1, <1>5 DEF CheckOk, DomainsInv, Shaped
<1>8. h.fresh /\ (h.kind = "migration" => record.migration # None) BY <1>2 DEF Savable
<1> HIDE DEF d, w
<1>9. ~torn => Genuine(record, checked, add, adds) BY <1>7 DEF DomainsInv, RecordOk
<1>10. ~torn /\ h.of = record.token => Finds(h, record, checked) BY <1>1, <1>2, <1>8 DEF CheckOk, Busy
<1> DEFINE Good == ~torn /\ record.token = h.of /\ (Migrating(r) => Migrating(record))
<1>11. /\ r \in Document /\ (record.migration \in Migration => r.migration \in Migration)
       /\ Good => Follows(r)
  <2>1. CASE h.kind = "host"
    <3>1. r = w /\ w = [record EXCEPT !.active = d.active, !.retired = d.retired] BY <1>2, <1>3, <1>4, <2>1
    <3>2. Good => AsRead(d, record) /\ (d.active => <<d.token, d.provider>> \in checked)
      BY <1>2, <1>10, <2>1 DEF Finds, d
    <3> QED BY <1>6, <1>7, <1>9, <3>1, <3>2, HostWritten
  <2>2. CASE h.kind = "candidate" /\ d.cand = None
    <3>1. r = w BY <1>2, <1>3, <2>2
    <3>2. w = [d EXCEPT !.entitled = record.entitled, !.migration = record.migration] BY <1>4, <2>2
    <3>3. Good => Promotes(d, record, checked) BY <1>2, <1>10, <2>2 DEF Finds, d
    <3> QED BY <1>6, <1>7, <1>9, <2>2, <3>1, <3>2, <3>3, PromotionWritten
  <2>3. CASE h.kind = "migration" /\ ~Advancing(d)
    <3>1. r = w BY <1>2, <1>3, <2>3
    <3>2. w = [Switched(record) EXCEPT !.token = d.token, !.retired = d.retired] BY <1>4, <2>3
    <3>3. Good => Relocates(d, record, checked) BY <1>2, <1>10, <2>3 DEF Finds, d
    <3> QED BY <1>6, <1>7, <1>8, <1>9, <2>3, <3>1, <3>2, <3>3, SwitchWritten
  <2>4. CASE (h.kind = "candidate" /\ d.cand # None) \/ (h.kind = "migration" /\ Advancing(d))
    <3>1. w = [record EXCEPT !.retired = d.retired] BY <1>4, <2>4
    <3>2. Good => AsRead(d, record) BY <1>2, <1>10, <2>4 DEF Finds, d
    <3>3. r = w \/ (h.kind = "migration" /\ r = [w EXCEPT !.migration.status = "staged"]) BY <1>2, <1>3
    <3>4. CASE r = w BY <1>6, <1>7, <1>9, <3>1, <3>2, <3>4, RetiredWritten
    <3>5. CASE h.kind = "migration" /\ r = [w EXCEPT !.migration.status = "staged"]
      BY <1>6, <1>7, <1>8, <1>9, <3>1, <3>2, <3>5, ReopenedWritten
    <3> QED BY <3>3, <3>4, <3>5
  <2> QED BY <1>6, <2>1, <2>2, <2>3, <2>4
<1> QED BY <1>5, <1>7, <1>11 DEF h

\* A check that saves.
LEMMA SaveStep ==
  ASSUME DomainsInv, NEW c \in Checkers, Save(c)
  PROVE  DomainsInv' /\ CutsOver
<1> DEFINE h == check[c]
<1> DEFINE next == IF Tells(h) THEN [at |-> "copy", host |-> h.doc.host, result |-> h.result] ELSE Resting
<1>1. /\ h.at = "save"
      /\ UNCHANGED <<organization, registered, adds, checked, dns, feature>>
  BY DEF Save, outside
<1>2. CASE ~Savable(h)
  <2>1. check' = [check EXCEPT ![c] = Resting] /\ UNCHANGED <<record, add, op, torn>> BY <1>2 DEF Save
  <2> QED BY <1>1, <2>1, CheckEnds DEF DomainsInv, Shaped
<1>3. CASE Savable(h)
  <2>1. /\ record' \in Saves(h) /\ Raise(c, next)
        /\ torn' = (torn \/ record.token # h.of \/ (Migrating(record') /\ ~Migrating(record)))
    BY <1>3 DEF Save
  <2>2. /\ h \in Saving /\ record \in Document /\ record # None
        /\ record' \in Document /\ (record.migration \in Migration => record'.migration \in Migration)
        /\ ~torn /\ record.token = h.of /\ (Migrating(record') => Migrating(record)) => Follows(record')
    BY <1>1, <1>3, <2>1, SaveWrites
  <2>3. record' # None BY <2>2, NullAssumption
  <2> HIDE DEF h
  <2>4. torn' \in BOOLEAN /\ (~torn' => ~torn /\ Follows(record'))
    <3>1. (record.token # h.of) \in BOOLEAN /\ (Migrating(record') /\ ~Migrating(record)) \in BOOLEAN OBVIOUS
    <3>2. torn \in BOOLEAN BY DEF DomainsInv, Shaped
    <3>3. ~torn' => ~torn /\ record.token = h.of /\ (Migrating(record') => Migrating(record)) BY <2>1
    <3> QED BY <2>1, <2>2, <3>1, <3>2, <3>3
  <2>5. next \in CheckRecord /\ CheckOk(next, record', torn', checked, add', adds)
    <3>1. Resting \in CheckRecord /\ CheckOk(Resting, record', torn', checked, add', adds)
      BY DEF CheckRecord, CheckOk, Busy, Resting
    <3>2. h.doc.host \in Hosts /\ h.result \in Results BY <2>2 DEF Saving, Document
    <3> DEFINE g == [at |-> "copy", host |-> h.doc.host, result |-> h.result]
    <3>3. g \in CheckRecord BY <3>2 DEF CheckRecord, Copying
    <3>4. CheckOk(g, record', torn', checked, add', adds) BY <2>3 DEF CheckOk, Busy
    <3> QED BY <3>1, <3>3, <3>4
  <2> HIDE DEF next
  <2>6. add' = Outdated(add) /\ op' = Outdated(op)
    <3>1. c # "add" /\ c # "operator" BY DomainsAssumption
    <3> QED BY <2>1, <3>1 DEF Raise
  <2>7. AddOk(add', record', torn', adds) /\ Later(add, adds, add', adds)
    BY <2>2, <2>4, <2>6, RequestOutdated DEF Follows
  <2>8. OperatorOk(op', record', torn', checked)
    BY <2>2, <2>4, <2>6, OperatorOutdated DEF Follows
  <2>9. ~torn' => Genuine(record', checked, add', adds)
    BY <2>2, <2>4, <2>7, GenuineKept DEF Follows
  <2>10. ~torn' => TokenMoves(record') BY <2>4 DEF Follows
  <2>11. c # "add" /\ c # "operator" BY DomainsAssumption
  <2> QED BY <1>1, <2>1, <2>2, <2>4, <2>5, <2>7, <2>8, <2>9, <2>10, <2>11, ArraySave
<1> QED BY <1>2, <1>3

\* A candidate takes the place of one that no check has read with the record it is in.
LEMMA ReplaceCandidateStep ==
  ASSUME DomainsInv, ReplaceCandidate
  PROVE  DomainsInv' /\ CutsOver
<1> DEFINE slot == [host |-> add.host, token |-> add.token, provider |-> Current]
<1> DEFINE R == Retire(add.read, add.read.cand, TRUE)
<1>1. /\ add.at = "write" /\ add.read # None /\ add.read.cand # None
      /\ UNCHANGED <<organization, registered, adds, checked, dns, feature>>
  BY DEF ReplaceCandidate, HasServingDomain, outside
<1>2. add \in AddRecord /\ AddOk(add, record, torn, adds) BY DEF DomainsInv, Shaped
<1>3. add # Resting BY <1>1 DEF Resting
<1>4. CASE ~add.fresh
  <2>1. add' = Resting /\ UNCHANGED <<record, check, op, torn>> BY <1>4 DEF ReplaceCandidate
  <2> QED BY <1>1, <2>1, RequestEnds DEF DomainsInv, Shaped
<1>5. CASE add.fresh
  <2>1. /\ record' = [[record EXCEPT !.cand = slot, !.entitled = TRUE] EXCEPT !.retired = R]
        /\ Raise("add", Resting) /\ torn' = (torn \/ Migrating(record))
    BY <1>5 DEF ReplaceCandidate, Staged
  <2>2. add.host \in Hosts /\ add.token \in Tokens /\ add.token = adds /\ add.read \in Document
    BY <1>1, <1>2, <1>3 DEF AddRecord, AddOk
  <2>3. record # None /\ record \in Document BY <1>1, <1>2 DEF AddOk, Pending, DomainsInv, Shaped
  <2>4. slot \in Slot /\ slot.host = add.host /\ slot.token = add.token
    BY <2>2, DomainsAssumption DEF Slot, Providers
  <2>5. add.read.cand \in Slot /\ add.read.retired \subseteq Retiree BY <1>1, <2>2 DEF Document
  <2>6. /\ R \subseteq Retiree
        /\ \A x \in R : x \in add.read.retired \/ x.host = add.read.cand.host
        /\ (\A x, y \in add.read.retired : x.host = y.host => x = y) => \A x, y \in R : x.host = y.host => x = y
    <3>1. add.read.cand.host \in Hosts /\ add.read.cand.provider \in Providers BY <2>5 DEF Slot
    <3> DEFINE r == add.read
    <3> DEFINE s == add.read.cand
    <3>2. r.retired \subseteq Retiree /\ s.host \in Hosts /\ s.provider \in Providers /\ TRUE \in BOOLEAN BY <2>5, <3>1
    <3>3. R = Retire(r, s, TRUE) OBVIOUS
    <3> HIDE DEF r, s, R
    <3>4. /\ R \subseteq Retiree
          /\ \A x \in R : x \in r.retired \/ x.host = s.host
          /\ (\A x, y \in r.retired : x.host = y.host => x = y) => \A x, y \in R : x.host = y.host => x = y
      BY <3>2, <3>3, RetireHosts
    <3> QED BY <3>4 DEF r, s
  <2> HIDE DEF slot, R
  <2>7. /\ record' \in Document /\ record'.cand = slot /\ record'.host = record.host /\ record'.token = record.token
        /\ record'.provider = record.provider /\ record'.retired = R
        /\ record'.migration = record.migration /\ record'.active = record.active
    BY <2>1, <2>3, <2>4, <2>6 DEF Document
  <2>8. record' # None BY <2>7, NullAssumption
  <2>9. torn' \in BOOLEAN /\ (~torn' => ~torn /\ ~Migrating(record)) BY <2>1 DEF DomainsInv, Shaped
  <2>10. add' = Resting /\ op' = Outdated(op) BY <2>1 DEF Raise
  <2>11. Later(add, adds, Resting, adds) BY DEF Later, Past, Pending, Resting
  <2>12. Resting \in AddRecord /\ AddOk(Resting, record', torn', adds)
    BY DEF AddOk, AddRecord, Pending, Resting
  <2>13. OperatorOk(op', record', torn', checked) BY <2>7, <2>9, <2>10, OperatorOutdated
  <2>14. ASSUME ~torn' PROVE Genuine(record', checked, Resting, adds)
    <3>1. Genuine(record, checked, add, adds) BY <2>3, <2>9, <2>14 DEF DomainsInv, RecordOk
    <3>2. Genuine(record, checked, Resting, adds) BY <2>3, <2>11, <3>1, GenuineKept
    <3>3. Past(slot.token, Resting, adds)
      <4>1. adds <= adds BY DEF DomainsInv, Shaped
      <4> QED BY <2>2, <2>4, <4>1 DEF Past, Pending, Resting
    <3>4. /\ add.host \notin Places(record)
          /\ add.read.retired = record.retired /\ add.read.cand = record.cand
      BY <1>1, <1>2, <1>5, <2>3, <2>9, <2>14 DEF AddOk, Pending
    <3>5. Places(record) = {record.host} \cup RetiredHosts(record) \cup {record.cand.host}
      BY <1>1, <3>4 DEF Places
    <3>6. RetiredHosts(record') \subseteq RetiredHosts(record) \cup {record.cand.host}
      BY <2>6, <2>7, <3>4 DEF RetiredHosts
    <3>7. record.cand.host # record.host /\ record.host \notin RetiredHosts(record)
          /\ \A x, y \in record.retired : x.host = y.host => x = y
      BY <1>1, <3>1, <3>4 DEF Genuine, Placed
    <3>8. Placed(record') BY <2>4, <2>6, <2>7, <3>4, <3>5, <3>6, <3>7 DEF Placed
    <3>9. ~Migrating(record') BY <2>7, <2>9, <2>14 DEF Migrating
    <3> QED BY <2>7, <3>2, <3>3, <3>8, <3>9 DEF Genuine
  <2>15. TokenMoves(record') BY <2>7 DEF TokenMoves
  <2>16. "add" \notin Checkers BY DomainsAssumption
  <2> QED BY <1>1, <2>1, <2>3, <2>7, <2>9, <2>10, <2>11, <2>12, <2>13, <2>14, <2>15, <2>16, ArraySave
<1> QED BY <1>4, <1>5

\* The host that the request read is retired beside the one that it has attached.
LEMMA RetirePreviousStep ==
  ASSUME DomainsInv, RetirePrevious
  PROVE  DomainsInv' /\ CutsOver
<1> DEFINE R == Retire(record, add.read, TRUE)
<1> DEFINE new == [add EXCEPT !.at = "copy"]
<1>1. /\ add.at = "retire"
      /\ UNCHANGED <<organization, registered, adds, checked, torn, dns, feature>>
  BY DEF RetirePrevious, outside
<1>2. add \in AddRecord /\ AddOk(add, record, torn, adds) BY DEF DomainsInv, Shaped
<1>3. add # Resting BY <1>1 DEF Resting
<1>4. CASE ~add.fresh
  <2>1. add' = Resting /\ UNCHANGED <<record, check, op>> BY <1>4 DEF RetirePrevious
  <2> QED BY <1>1, <2>1, RequestEnds DEF DomainsInv, Shaped
<1>5. CASE add.fresh
  <2>1. record' = [record EXCEPT !.retired = R] /\ Raise("add", new) BY <1>5 DEF RetirePrevious
  <2>2. record # None /\ record \in Document /\ add.read # None /\ add.read \in Document
    BY <1>1, <1>2, <1>3 DEF AddOk, AddRecord, DomainsInv, Shaped
  <2>3. new \in AddRecord /\ new.at = "copy" /\ new.token = add.token BY <1>2, <1>3 DEF AddRecord
  <2>4. /\ R \subseteq Retiree
        /\ \A x \in R : x \in record.retired \/ (add.read.host # record.host /\ x.host = add.read.host)
        /\ (\A x, y \in record.retired : x.host = y.host => x = y) => \A x, y \in R : x.host = y.host => x = y
    <3>1. add.read.host \in Hosts /\ add.read.provider \in Providers /\ record.retired \subseteq Retiree
      BY <2>2 DEF Document
    <3> QED BY <3>1, RetireHosts
  <2> HIDE DEF R, new
  <2>5. /\ record' \in Document /\ record'.cand = record.cand /\ record'.host = record.host
        /\ record'.token = record.token /\ record'.provider = record.provider /\ record'.retired = R
        /\ record'.migration = record.migration /\ record'.active = record.active
    BY <2>1, <2>2, <2>4 DEF Document
  <2>6. record' # None BY <2>5, NullAssumption
  <2>7. add' = new /\ op' = Outdated(op) BY <2>1 DEF Raise
  <2>8. Later(add, adds, new, adds) BY <1>1, <2>3 DEF Later, Past, Pending
  <2>9. AddOk(new, record', torn', adds) BY <1>2, <1>3, <2>3, <2>6 DEF AddOk, Pending
  <2>10. Migrating(record') <=> Migrating(record) BY <2>5 DEF Migrating
  <2>11. OperatorOk(op', record', torn', checked) BY <1>1, <2>5, <2>7, <2>10, OperatorOutdated
  <2>12. ASSUME ~torn PROVE Genuine(record', checked, new, adds)
    <3>1. Genuine(record, checked, add, adds) BY <2>2, <2>12 DEF DomainsInv, RecordOk
    <3>2. Genuine(record, checked, new, adds) BY <2>2, <2>8, <3>1, GenuineKept
    <3>3. record.cand = None BY <1>1, <1>2, <2>12 DEF AddOk
    <3>4. record'.host \notin RetiredHosts(record')
      BY <2>4, <2>5, <3>1 DEF Genuine, Placed, RetiredHosts
    <3>5. Placed(record') BY <2>4, <2>5, <3>1, <3>3, <3>4 DEF Genuine, Placed
    <3> QED BY <2>5, <2>10, <3>2, <3>5 DEF Genuine
  <2>13. TokenMoves(record') BY <2>5 DEF TokenMoves
  <2>14. "add" \notin Checkers /\ torn \in BOOLEAN BY DomainsAssumption DEF DomainsInv, Shaped
  <2> QED BY <1>1, <2>1, <2>2, <2>3, <2>5, <2>7, <2>8, <2>9, <2>11, <2>12, <2>13, <2>14, ArraySave
<1> QED BY <1>4, <1>5

\* Traffic goes back to the provider that serves already.
LEMMA RestoreLegacyStep ==
  ASSUME DomainsInv, RestoreLegacy
  PROVE  DomainsInv' /\ CutsOver
<1>1. op.at = "restore" /\ UNCHANGED <<organization, registered, adds, checked, torn, dns, feature>>
  BY DEF RestoreLegacy, outside
<1> DEFINE new == [op EXCEPT !.at = "tell"]
<1>2. /\ new \in OperatorRecord /\ new.at = "tell" /\ new.doc = op.doc /\ new # Resting
      /\ record \in Document /\ record # None /\ OperatorOk(op, record, torn, checked)
      /\ op.doc.migration \in Migration /\ record.migration \in Migration
  BY <1>1, ScriptGoesTo DEF ScriptSteps
<1> HIDE DEF new
<1>3. CASE ~op.fresh
  <2>1. op' = Resting /\ UNCHANGED <<record, check, add>> BY <1>3 DEF RestoreLegacy
  <2>2. op' \in OperatorRecord /\ OperatorOk(op', record, torn, checked)
    BY <2>1 DEF OperatorRecord, OperatorOk, Resting
  <2> QED BY <1>1, <2>1, <2>2, ScriptGoesOn DEF DomainsInv, Shaped
<1>4. CASE op.fresh
  <2> DEFINE token == op.doc.migration.token
  <2> DEFINE m == [record.migration EXCEPT !.status = "aborted"]
  <2>1. /\ record' = [record EXCEPT !.provider = Legacy, !.token = token, !.active = TRUE, !.migration.status = "aborted"]
        /\ Raise("operator", new)
    BY <1>4 DEF RestoreLegacy, new
  <2>2. token \in Tokens BY <1>2 DEF Migration
  <2>3. m \in Migration /\ m.status = "aborted" BY <1>2 DEF Migration
  <2>4. record' = [record EXCEPT !.provider = Legacy, !.token = token, !.active = TRUE, !.migration = m]
    BY <1>2, <2>1 DEF Document
  <2> HIDE DEF m, token
  <2>5. /\ record' \in Document /\ record'.cand = record.cand /\ record'.host = record.host
        /\ record'.token = token /\ record'.provider = Legacy /\ record'.retired = record.retired
        /\ record'.migration = m
    BY <1>2, <2>2, <2>3, <2>4 DEF Document, Providers
  <2>6. record' # None BY <2>5, NullAssumption
  <2>7. ~torn => Genuine(record, checked, add, adds) /\ Migrating(record) /\ token = record.token
    BY <1>1, <1>2 DEF DomainsInv, RecordOk, OperatorOk, token
  <2>8. <<token, Legacy>> \in checked BY <1>1, <1>2 DEF OperatorOk, token
  <2>9. ~Migrating(record') BY <2>3, <2>5 DEF Migrating
  <2>10. Places(record') = Places(record) BY <2>5 DEF Places, RetiredHosts
  <2>11. add' = Outdated(add) /\ op' = new BY <2>1 DEF Raise
  <2>12. AddOk(add', record', torn', adds) /\ Later(add, adds, add', adds)
    BY <1>1, <1>2, <2>5, <2>7, <2>10, <2>11, RequestOutdated
  <2>13. OperatorOk(op', record', torn', checked)
    BY <1>2, <2>3, <2>5, <2>6, <2>11 DEF OperatorOk
  <2>14. ASSUME ~torn PROVE Genuine(record', checked, add', adds)
    <3>1. Genuine(record, checked, add', adds) BY <1>2, <2>7, <2>12, <2>14, GenuineKept
    <3>2. Placed(record') BY <2>5, <3>1 DEF Genuine, Placed, RetiredHosts
    <3> QED BY <2>5, <2>7, <2>8, <2>9, <2>14, <3>1, <3>2 DEF Genuine
  <2>15. ~torn => TokenMoves(record') BY <2>5, <2>7 DEF TokenMoves
  <2>16. "operator" \notin Checkers /\ torn \in BOOLEAN BY DomainsAssumption DEF DomainsInv, Shaped
  <2> QED BY <1>1, <1>2, <2>1, <2>5, <2>12, <2>13, <2>14, <2>15, <2>16, ArraySave
<1> QED BY <1>3, <1>4

-----------------------------------------------------------------------------
(* The theorems. *)

\* At first there is nothing to rely on.
LEMMA DomainsInitial == DomainsInit => DomainsInv
<1> SUFFICES ASSUME DomainsInit PROVE DomainsInv OBVIOUS
<1>1. Resting \in CheckRecord /\ Resting \in AddRecord /\ Resting \in OperatorRecord
  BY DEF CheckRecord, AddRecord, OperatorRecord
<1>2. Shaped
  <2>1. adds \in 0 .. MaxAdds
    <3>1. MaxAdds \in Nat BY DomainsAssumption
    <3> QED BY <3>1 DEF DomainsInit
  <2>2. dns \in [Tokens -> Providers \cup {None}] /\ organization \in [host : Hosts \cup {None}, verified : BOOLEAN]
    BY DEF DomainsInit
  <2>3. check \in [Checkers -> CheckRecord] /\ add \in AddRecord /\ op \in OperatorRecord BY <1>1 DEF DomainsInit
  <2>4. /\ record \in Document \cup {None} /\ registered \subseteq Hosts \X Providers /\ feature \in BOOLEAN
        /\ checked \subseteq Tokens \X Providers /\ torn \in BOOLEAN
    BY DEF DomainsInit
  <2> QED BY <2>1, <2>2, <2>3, <2>4 DEF Shaped
<1>3. RecordOk BY DEF DomainsInit, RecordOk
<1>4. ChecksOk BY DEF DomainsInit, ChecksOk, CheckOk, Busy, Resting
<1>5. AddOk(add, record, torn, adds) BY DEF DomainsInit, AddOk, Pending, Resting
<1>6. OperatorOk(op, record, torn, checked) BY DEF DomainsInit, OperatorOk, Resting
<1> QED BY <1>2, <1>3, <1>4, <1>5, <1>6 DEF DomainsInv

\* Every step of the request.
LEMMA RequestSteps ==
  ASSUME DomainsInv, (\E h \in Hosts : Ask(h)) \/ AddGoesOn \/ AddFails
  PROVE  DomainsInv' /\ CutsOver
<1>1. CASE \E h \in Hosts : Ask(h) BY <1>1, AskStep
<1>2. CASE RegisterDomain BY <1>2, RegisterDomainStep
<1>3. CASE StageCandidate BY <1>3, StageCandidateStep
<1>4. CASE ReplaceCandidate BY <1>4, ReplaceCandidateStep
<1>5. CASE Attach BY <1>5, AttachStep
<1>6. CASE RetirePrevious BY <1>6, RetirePreviousStep
<1>7. CASE CopyNew BY <1>7, CopyNewStep
<1>8. CASE AddFails BY <1>8, AddFailsStep
<1> QED BY <1>1, <1>2, <1>3, <1>4, <1>5, <1>6, <1>7, <1>8 DEF AddGoesOn

\* Every step of a check.
LEMMA CheckSteps ==
  ASSUME DomainsInv, NEW c \in Checkers, CheckGoesOn(c) \/ SaveFails(c) \/ CheckerDies(c)
  PROVE  DomainsInv' /\ CutsOver
<1>1. CASE ReadRecord(c) BY <1>1, ReadRecordStep
<1>2. CASE CleanUp(c) BY <1>2, CleanUpStep
<1>3. CASE Evaluate(c) BY <1>3, LooksStep DEF Evaluate, Results
<1>4. CASE Advance(c) BY <1>4, LooksStep DEF Advance, Results
<1>5. CASE Save(c) BY <1>5, SaveStep
<1>6. CASE CopyResult(c) BY <1>6, CopyResultStep
<1>7. CASE SaveFails(c) BY <1>7, SaveFailsStep
<1>8. CASE CheckerDies(c) BY <1>8, CheckerDiesStep
<1> QED BY <1>1, <1>2, <1>3, <1>4, <1>5, <1>6, <1>7, <1>8 DEF CheckGoesOn

\* Every step of the script.
LEMMA MigrationSteps ==
  ASSUME DomainsInv, OnMigration
  PROVE  DomainsInv' /\ CutsOver
<1>1. CASE StartMigration \/ FinalizeMigration \/ RollBack BY <1>1, ScriptBegins
<1>2. CASE RegisterTarget \/ RemoveLegacy \/ TellRestored \/ UnregisterTarget BY <1>2, ProviderSteps
<1>3. CASE StageTarget BY <1>3, StageTargetStep
<1>4. CASE Finish BY <1>4, FinishStep
<1>5. CASE VerifyLegacy BY <1>5, VerifyLegacyStep
<1>6. CASE RestoreLegacy BY <1>6, RestoreLegacyStep
<1>7. CASE ForgetMigration BY <1>7, ForgetMigrationStep
<1>8. CASE OperatorDies BY <1>8, OperatorDiesStep
<1> QED BY <1>1, <1>2, <1>3, <1>4, <1>5, <1>6, <1>7, <1>8 DEF OnMigration, OperatorGoesOn

\* Every step preserves the invariant, and moves the token only as it may.
LEMMA EveryStep ==
  ASSUME DomainsInv, DomainsNext
  PROVE  DomainsInv' /\ CutsOver
<1>1. CASE (\E h \in Hosts : Ask(h)) \/ AddGoesOn \/ AddFails BY <1>1, RequestSteps
<1>2. CASE \E c \in Checkers : CheckGoesOn(c) \/ SaveFails(c) \/ CheckerDies(c) BY <1>2, CheckSteps
<1>3. CASE OnMigration BY <1>3, MigrationSteps
<1>4. CASE SetFeature BY <1>4, SetFeatureStep
<1>5. CASE SetDns BY <1>5, SetDnsStep
<1>6. CASE GraceEnds BY <1>6, GraceEndsStep
<1> QED BY <1>1, <1>2, <1>3, <1>4, <1>5, <1>6 DEF DomainsNext

\* Nor does anything change when nothing happens.
LEMMA NothingHappens == DomainsInv /\ UNCHANGED domainVars => DomainsInv'
BY DEF DomainsInv, domainVars, operator, outside, Shaped, RecordOk, ChecksOk, AddOk, OperatorOk,
       Genuine, Placed, RetiredHosts, Past, Pending, Places, Migrating, CheckOk, Busy, Finds

\* The invariant is inductive.
LEMMA DomainsInductive == DomainsSpec => []DomainsInv
<1>1. DomainsInit => DomainsInv BY DomainsInitial
<1>2. DomainsInv /\ [DomainsNext]_domainVars => DomainsInv' BY EveryStep, NothingHappens
<1> QED BY <1>1, <1>2, PTL DEF DomainsSpec

\* Every variable keeps its shape, and a host has one place in the record, for any number of
\* hosts, checkers, requests, operations and failures (add, verifyRecord).
THEOREM DomainsTypeCorrect == DomainsSpec => []DomainsTypeOK
<1>1. DomainsInv => DomainsTypeOK
  <2> SUFFICES ASSUME DomainsInv PROVE DomainsTypeOK OBVIOUS
  <2>1. record # None => record \in Document /\ (torn \/ Placed(record))
    BY DEF DomainsInv, Shaped, RecordOk, Genuine
  <2>2. organization.host \in {None} \cup Hosts /\ organization.verified \in BOOLEAN BY DEF DomainsInv, Shaped
  <2>3. add.at \in {"idle", "register", "write", "retire", "copy"} BY DEF DomainsInv, Shaped, AddRecord, Resting
  <2>4. ASSUME NEW c \in Checkers PROVE check[c].at \in {"idle", "clean", "evaluate", "save", "copy"}
    <3>1. check[c] \in CheckRecord BY DEF DomainsInv, Shaped
    <3> QED BY <3>1 DEF CheckRecord, Looking, Saving, Copying, Resting
  <2> QED BY <2>1, <2>2, <2>3, <2>4 DEF DomainsTypeOK, DomainsInv, Shaped
<1> QED BY <1>1, DomainsInductive, PTL

\* "A replacement is staged in candidate until every DNS/TLS/runtime check passes, so the
\* existing ACTIVE hostname stays online" (domain.model.ts), for any number of hosts,
\* checkers, requests, operations and failures.
THEOREM CutoverAlwaysSafe == DomainsSpec => CutoverIsSafe
<1> DEFINE Safe ==
      record # None /\ ~torn' =>
       /\ record.active /\ record'.token # record.token =>
            \/ record.cand # None /\ record'.token = record.cand.token /\ <<record'.token, record'.provider>> \in checked
            \/ add.at = "write" /\ ~HasServingDomain(add.read)
       /\ record'.active => <<record'.token, record'.provider>> \in checked'
<1>1. DomainsInv /\ [DomainsNext]_domainVars => [Safe]_domainVars
  <2> SUFFICES ASSUME DomainsInv, DomainsNext PROVE Safe OBVIOUS
  <2>1. DomainsInv' /\ CutsOver BY EveryStep
  <2>2. record' # None /\ ~torn' => (record'.active => <<record'.token, record'.provider>> \in checked')
    BY <2>1 DEF DomainsInv, RecordOk, Genuine
  <2> QED BY <2>1, <2>2 DEF CutsOver
<1>2. DomainsSpec => [][Safe]_domainVars BY <1>1, DomainsInductive, PTL DEF DomainsSpec
<1> QED BY <1>2 DEF CutoverIsSafe
=============================================================================
