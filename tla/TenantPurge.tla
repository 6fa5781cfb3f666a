---------------------------- MODULE TenantPurge ----------------------------
(***************************************************************************)
(* Permanent deletion of a tenant (module compliance).  A super admin's    *)
(* call lists what the tenant owns, locks its Organization, then twice     *)
(* closes what is open, removes what lies outside the database, checks     *)
(* that it is gone and deletes the documents; it counts what is left and   *)
(* only then deletes the Organization, the root that a later call starts   *)
(* from.  A call that fails or dies may be followed by another, and two    *)
(* may overlap.                                                            *)
(*                                                                         *)
(* Around it run requests of the tenant that were admitted before the      *)
(* lock: each checks the root once and writes later, in steps of its own.  *)
(* So do the platform's other decisions on a tenant, which read the root   *)
(* and then save its platformAccess as a whole.                            *)
(*                                                                         *)
(* Documents and external resources are kinds: a kind is there while one   *)
(* of it is.  Left out: the preview, who may ask, sessions and jobs other  *)
(* than as documents, and sockets, which behave as the cache does.         *)
(***************************************************************************)
EXTENDS Naturals, FiniteSets, FiniteSetsExt

CONSTANTS
  Founders,   \* users of the tenant from the start
  Invited,    \* users who have yet to accept an invitation
  Purges,     \* calls of purgeOrganization that may be under way at once
  Requests,   \* other requests, each made once
  NoRoot,
  MaxFaults   \* bound: failed or partly failed calls to services, and crashes

Users == Founders \cup Invited

ASSUME FaultsAssumption == MaxFaults \in Nat

\* Documents by organization: plain ones; one with the key of an uploaded file; the
\* DomainRecord and a candidate in it; and those of collections that
\* TENANT_DELETION_COLLECTIONS does not name, such as salebookings.
Documents == {"record", "reference", "domainRecord", "candidate", "unregistered"}
Registered == Documents \ {"unregistered"}

\* Outside the database: objects below the tenant's prefixes, files of old uploads,
\* and the registrations of its domain and of a candidate.
Externals == {"object", "file", "domain", "host"}
NamedBy == [file |-> "reference", domain |-> "domainRecord", host |-> "candidate"]

\* A user is no kind of document or resource, and NoRoot no Organization.
ASSUME NamesAssumption ==
  /\ Users \cap (Documents \cup Externals) = {}
  /\ NoRoot \notin [status : {"active", "blocked", "pending_deletion"}, ids : SUBSET Users]

VARIABLES
  root,         \* the Organization: platform status and purgeUserIds, or NoRoot
  documents, externals,
  users,        \* User documents
  linked,       \* users with documents that carry no organization (accountcredentials)
  cached,       \* is there a cache key of the tenant?
  purge, request, decision,
  faults,
  late,         \* ghost: what was written after the last count of some call, or later
  unknown,      \* ghost: what no call has listed since it was created
  disturbed     \* ghost: did two calls overlap, or a decision overwrite the lock?

data == <<documents, externals, users, linked, cached>>
ghosts == <<late, unknown, disturbed>>
vars == <<root, data, faults, purge, request, decision, ghosts>>

IdlePurge == [pc |-> "idle", ids |-> {}, manifest |-> {}, round |-> 1]
Idle == [pc |-> "idle"]

Init ==
  /\ root \in [status : {"active", "blocked"}, ids : {{}}]
  /\ documents = Documents \ {"candidate"} /\ externals = {"object", "file", "domain"}
  /\ users = Founders /\ linked = Founders /\ cached = TRUE
  /\ faults = 0
  /\ purge = [p \in Purges |-> IdlePurge]
  /\ request = [r \in Requests |-> Idle] /\ decision = Idle
  /\ late = {} /\ unknown = {} /\ disturbed = FALSE

-----------------------------------------------------------------------------
(* A call of purgeOrganization. *)

InFlight == {p \in Purges : purge[p].pc # "idle"}
At(p, pc) == purge[p].pc = pc
Goto(p, pc) == purge' = [purge EXCEPT ![p].pc = pc]
Ended(p) == purge' = [purge EXCEPT ![p] = IdlePurge]

Start(p) ==
  /\ At(p, "idle") /\ root # NoRoot
  /\ purge' = [purge EXCEPT ![p].pc = "users", ![p].ids = root.ids]
  /\ disturbed' = (disturbed \/ InFlight # {})
  /\ UNCHANGED <<root, data, faults, request, decision, late, unknown>>

\* Mutant: only the users that are still there.
CurrentOnly(stored, current) == current

mergePurgeUserIds(stored, current) == stored \cup current

ReadUsers(p) ==
  /\ At(p, "users")
  /\ LET ids == mergePurgeUserIds(purge[p].ids, users) IN
       /\ purge' = [purge EXCEPT ![p].pc = "collect", ![p].ids = ids]
       /\ unknown' = unknown \ ids
  /\ UNCHANGED <<root, data, faults, request, decision, late, disturbed>>

\* The keys and hosts that the tenant's documents name.
Manifest == {e \in DOMAIN NamedBy : NamedBy[e] \in documents}

collect(p) ==
  /\ At(p, "collect")
  /\ purge' = [purge EXCEPT ![p].pc = "lock", ![p].manifest = Manifest]
  /\ unknown' = unknown \ Manifest
  /\ UNCHANGED <<root, data, faults, request, decision, late, disturbed>>

\* The save fails if the root is gone.
Lock(p) ==
  /\ At(p, "lock")
  /\ IF root = NoRoot
     THEN Ended(p) /\ UNCHANGED root
     ELSE /\ root' = [status |-> "pending_deletion", ids |-> purge[p].ids]
          /\ Goto(p, "close")
  /\ UNCHANGED <<data, faults, request, decision, ghosts>>

\* Sessions revoked, jobs cancelled, caches emptied, sockets closed.
Close(p) ==
  /\ At(p, "close")
  /\ cached' = FALSE
  /\ Goto(p, "remove")
  /\ UNCHANGED <<root, documents, externals, users, linked, faults, request, decision,
                 ghosts>>

Targets(p) == {"object"} \cup purge[p].manifest

\* deleteStorage and deleteDomains; a service that fails ends the call half-way.
Remove(p) ==
  /\ At(p, "remove")
  /\ \E done \in SUBSET (Targets(p) \cap externals) :
       /\ externals' = externals \ done
       /\ IF done = Targets(p) \cap externals
          THEN Goto(p, "check") /\ UNCHANGED faults
          ELSE faults < MaxFaults /\ faults' = faults + 1 /\ Ended(p)
  /\ UNCHANGED <<root, documents, users, linked, cached, request, decision, ghosts>>

verifyDeleted(p) ==
  /\ At(p, "check")
  /\ IF Targets(p) \cap externals = {} THEN Goto(p, "delete") ELSE Ended(p)
  /\ UNCHANGED <<root, data, faults, request, decision, ghosts>>

\* Mutant: off by one, a third round.
OnceMore(p) ==
  purge' = [purge EXCEPT ![p].pc = IF purge[p].round <= 2 THEN "close" ELSE "count",
                         ![p].round = @ + 1]

\* The second time round the documents are followed by the count.
AfterDelete(p) ==
  purge' = [purge EXCEPT ![p].pc = IF purge[p].round = 1 THEN "close" ELSE "count",
                         ![p].round = 2]

\* deleteTenantDependants.  In a transaction nothing comes between its three steps, and a
\* failure leaves them all undone; without one, both may happen.
deleteUserLinkedDocuments(p) ==
  /\ At(p, "delete")
  /\ linked' = linked \ purge[p].ids
  /\ Goto(p, "scoped")
  /\ UNCHANGED <<root, documents, externals, users, cached, faults, request, decision,
                 ghosts>>

deleteTenantScopedDocuments(p) ==
  /\ At(p, "scoped")
  /\ documents' = documents \ Registered
  /\ Goto(p, "members")
  /\ UNCHANGED <<root, externals, users, linked, cached, faults, request, decision,
                 ghosts>>

deleteTenantUsers(p) ==
  /\ At(p, "members")
  /\ users' = {}
  /\ AfterDelete(p)
  /\ UNCHANGED <<root, documents, externals, linked, cached, faults, request, decision,
                 ghosts>>

\* Mutant: external resources are not counted again, after the second round.
DocumentsOnly(p) ==
  documents \cap Registered = {} /\ users = {} /\ linked \cap purge[p].ids = {} /\ ~cached

\* Mutant: also counts collections that nothing deletes.
EveryCollection(p) ==
  /\ documents = {} /\ users = {} /\ linked \cap purge[p].ids = {}
  /\ Targets(p) \cap externals = {} /\ ~cached

\* What getZeroStateSnapshot counts.
Zero(p) ==
  /\ documents \cap Registered = {} /\ users = {} /\ linked \cap purge[p].ids = {}
  /\ Targets(p) \cap externals = {} /\ ~cached

assertZeroState(p) ==
  /\ At(p, "count")
  /\ IF root # NoRoot /\ Zero(p) THEN Goto(p, "root") ELSE Ended(p)
  /\ UNCHANGED <<root, data, faults, request, decision, ghosts>>

deleteOrganizationRoot(p) ==
  /\ At(p, "root")
  /\ root' = NoRoot
  /\ Goto(p, "settle")
  /\ UNCHANGED <<data, faults, request, decision, ghosts>>

\* Caches and sockets once more.  The last count decides only how the call answers.
Settle(p) ==
  /\ At(p, "settle")
  /\ cached' = FALSE
  /\ Ended(p)
  /\ UNCHANGED <<root, documents, externals, users, linked, faults, request, decision,
                 ghosts>>

\* A call that throws at a step of its own, or dies with its process.
Fail(p) ==
  /\ p \in InFlight /\ faults < MaxFaults
  /\ faults' = faults + 1
  /\ Ended(p)
  /\ UNCHANGED <<root, data, request, decision, ghosts>>

Progress(p) ==
  \/ ReadUsers(p) \/ collect(p) \/ Lock(p) \/ Close(p) \/ Remove(p) \/ verifyDeleted(p)
  \/ deleteUserLinkedDocuments(p) \/ deleteTenantScopedDocuments(p)
  \/ deleteTenantUsers(p) \/ assertZeroState(p) \/ deleteOrganizationRoot(p) \/ Settle(p)

-----------------------------------------------------------------------------
(* Other requests.  All but a visit to the website meet the purge barrier. *)

assertTenantWritable == root # NoRoot /\ root.status # "pending_deletion"
Available == root # NoRoot /\ root.status = "active"

RequestIs(r, pc) == request[r].pc = pc
Moves(r, pc) == request' = [request EXCEPT ![r].pc = pc]

\* The step an admitted request has yet to take first, and whom it is about.
Admissible ==
  {[pc |-> step] : step \in {s \in {"record", "object"} : assertTenantWritable}}
    \cup {[pc |-> step] : step \in {s \in {"host"} : Available}}
    \cup {[pc |-> "profile", user |-> u] : u \in {v \in users : Available}}
    \cup {[pc |-> "join", user |-> u] : u \in {v \in Invited \ users : assertTenantWritable}}
    \cup {[pc |-> step] : step \in {s \in {"visit"} : root # NoRoot}}

Admit(r) ==
  /\ RequestIs(r, "idle")
  /\ \E first \in Admissible : request' = [request EXCEPT ![r] = first]
  /\ UNCHANGED <<root, data, faults, purge, decision, ghosts>>

\* Written since the last count, if one went well or the root is gone.
Sealed == root = NoRoot \/ \E p \in Purges : At(p, "root")
Wrote(new) == late' = IF Sealed THEN late \cup new ELSE late \ new

WriteRecord(r) ==
  /\ RequestIs(r, "record")
  /\ documents' = documents \cup {"record"} /\ Wrote({"record"} \ documents)
  /\ Moves(r, "done")
  /\ UNCHANGED <<root, externals, users, linked, cached, faults, purge, decision,
                 unknown, disturbed>>

\* uploadFile puts the object; the request then saves the document that uses it.
PutObject(r) ==
  /\ RequestIs(r, "object")
  /\ externals' = externals \cup {"object"} /\ Wrote({"object"} \ externals)
  /\ Moves(r, "record")
  /\ UNCHANGED <<root, documents, users, linked, cached, faults, purge, decision,
                 unknown, disturbed>>

\* Adding a domain registers it with the provider before it is saved, as the candidate
\* of the record that was read, or in a new record if there was none.
RegisterHost(r) ==
  /\ RequestIs(r, "host")
  /\ IF "candidate" \in documents
     THEN Moves(r, "done") /\ UNCHANGED <<externals, late, unknown>>
     ELSE /\ externals' = externals \cup {"host"} /\ Wrote({"host"} \ externals)
          /\ unknown' = unknown \cup {"host"}
          /\ Moves(r, IF "domainRecord" \in documents THEN "candidate" ELSE "upsert")
  /\ UNCHANGED <<root, documents, users, linked, cached, faults, purge, decision,
                 disturbed>>

SaveHost(r) ==
  /\ \/ RequestIs(r, "candidate") /\ documents' = documents \cup
          (IF "domainRecord" \in documents THEN {"candidate"} ELSE {})
     \/ RequestIs(r, "upsert") /\ documents' = documents \cup {"domainRecord", "candidate"}
  /\ Wrote(documents' \ documents)
  /\ Moves(r, "done")
  /\ UNCHANGED <<root, externals, users, linked, cached, faults, purge, decision,
                 unknown, disturbed>>

\* The profile is upserted by user id.
SaveProfile(r) ==
  /\ RequestIs(r, "profile")
  /\ linked' = linked \cup {request[r].user} /\ Wrote({request[r].user} \ linked)
  /\ Moves(r, "done")
  /\ UNCHANGED <<root, documents, externals, users, cached, faults, purge, decision,
                 unknown, disturbed>>

\* Accepting an invitation writes the root in its transaction, and reads it again.
acceptInvitation(r) ==
  /\ RequestIs(r, "join")
  /\ LET new == IF Available THEN {request[r].user} ELSE {} IN
       /\ users' = users \cup new /\ linked' = linked \cup new
       /\ unknown' = unknown \cup new /\ Wrote(new)
  /\ Moves(r, "done")
  /\ UNCHANGED <<root, documents, externals, cached, faults, purge, decision, disturbed>>

Visit(r) ==
  /\ RequestIs(r, "visit")
  /\ cached' = TRUE
  /\ Moves(r, "done")
  /\ UNCHANGED <<root, documents, externals, users, linked, faults, purge, decision,
                 ghosts>>

Serve(r) ==
  \/ WriteRecord(r) \/ PutObject(r) \/ RegisterHost(r) \/ SaveHost(r) \/ SaveProfile(r)
  \/ acceptInvitation(r) \/ Visit(r)

-----------------------------------------------------------------------------
(* Suspension, archive, restoration and reactivation of a tenant. *)

Opposite == [active |-> "blocked", blocked |-> "active"]

ReadRoot ==
  /\ decision.pc = "idle" /\ root # NoRoot /\ root.status \in DOMAIN Opposite
  /\ decision' = [pc |-> "save", status |-> Opposite[root.status], ids |-> root.ids]
  /\ UNCHANGED <<root, data, faults, purge, request, ghosts>>

SaveRoot ==
  /\ decision.pc = "save"
  /\ decision' = [pc |-> "done"]
  /\ IF root = NoRoot
     THEN UNCHANGED <<root, disturbed>>
     ELSE /\ root' = [status |-> decision.status, ids |-> decision.ids]
          /\ disturbed' = (disturbed \/ root.status = "pending_deletion")
  /\ UNCHANGED <<data, faults, purge, request, late, unknown>>

-----------------------------------------------------------------------------
Next ==
  \/ \E p \in Purges : Start(p) \/ Progress(p) \/ Fail(p)
  \/ \E r \in Requests : Admit(r) \/ Serve(r)
  \/ ReadRoot \/ SaveRoot

Spec == Init /\ [][Next]_vars

\* A call under way goes on, and the administrators, told that a call failed, call again.
\* Admitted requests need not be served: one that dies half-way takes no more steps.
FairSpec ==
  /\ Spec
  /\ \A p \in Purges : WF_vars(Start(p)) /\ WF_vars(Progress(p))

-----------------------------------------------------------------------------
(* Properties. *)

\* Every variable stays in its type.
TypeOK ==
  /\ root \in [status : {"active", "blocked", "pending_deletion"}, ids : SUBSET Users]
             \cup {NoRoot}
  /\ documents \subseteq Documents /\ externals \subseteq Externals
  /\ users \subseteq Users /\ linked \subseteq Users
  /\ cached \in BOOLEAN /\ faults \in 0..MaxFaults
  /\ \A p \in Purges :
       /\ purge[p].pc \in {"idle", "users", "collect", "lock", "close", "remove", "check",
                           "delete", "scoped", "members", "count", "root", "settle"}
       /\ purge[p].ids \subseteq Users
       /\ purge[p].manifest \subseteq DOMAIN NamedBy /\ purge[p].round \in 1..2
  /\ \A r \in Requests :
       request[r].pc \in {"idle", "record", "object", "host", "candidate", "upsert",
                          "profile", "join", "visit", "done"}
  /\ decision.pc \in {"idle", "save", "done"}
  /\ late \subseteq Documents \cup Externals \cup Users
  /\ unknown \subseteq Externals \cup Users /\ disturbed \in BOOLEAN

\* While the root stands, what is left can still be found: old uploads and domains are
\* named by a document until they are removed.  So are, unless two calls overlap or
\* another decision overwrites the lock, all registrations a call has seen, and the
\* users with documents of their own are users still or kept on the root.  A call may
\* die anywhere, or delete some of it only, and the next one starts from this.
RetryFinds ==
  root # NoRoot =>
    /\ \A e \in externals \cap {"file", "domain"} : NamedBy[e] \in documents
    /\ ~disturbed =>
         /\ "host" \in externals \ unknown => "candidate" \in documents
         /\ linked \subseteq users \cup root.ids \cup unknown

\* Once the root is gone, what is left was written after a call counted none, by a
\* request admitted earlier: documents of the named collections, users, objects, old
\* uploads and the domain; and, undisturbed, documents that carry only a user id, and
\* registrations, of which a call has seen the user or the host.  Whatever the order of
\* requests, failures and second calls, no deletion leaves anything older behind.
NothingOldSurvives ==
  root = NoRoot =>
    /\ (documents \cap Registered) \cup users \cup (externals \ {"host"}) \subseteq late
    /\ ~disturbed => (linked \cup externals) \ unknown \subseteq late

\* A deletion that was begun ends with the root gone, if administrators call again after
\* a failure: no leftover of a failed call, and no request served meanwhile, makes every
\* later count fail.
PurgeEnds == (InFlight # {}) ~> (root = NoRoot)
=============================================================================
