------------------------------- MODULE Domains -------------------------------
(***************************************************************************)
(* The custom domain of one tenant (module domain): its record, the hosts  *)
(* registered with the hosting provider, what the customer's DNS says, and *)
(* the copy that the Organization keeps.                                   *)
(*                                                                         *)
(* The record names the host that is served.  A replacement of a host that *)
(* is served waits beside it as the candidate; any other host is replaced  *)
(* at once.  Checks are made by the queue's worker and on the owner's      *)
(* demand.  Each reads the record, talks to the provider and saves what it *)
(* found.  Such a save sets arrays, so Mongoose compares and raises the    *)
(* version; a save that does not, and an update, do neither.               *)
(*                                                                         *)
(* An operator may move the host that is served to another provider: while *)
(* the customer changes DNS, checks look at the new provider only, and     *)
(* switch the record to it when it serves.                                 *)
(*                                                                         *)
(* Left out: other tenants (unique indexes and a conflict query keep hosts *)
(* apart), the intermediate statuses of a host that is not active, and the *)
(* times of checks (a record is always due again).                         *)
(***************************************************************************)
EXTENDS Naturals, FiniteSets

CONSTANTS
  Hosts,
  Checkers,    \* the queue's worker, the owner's requests
  None,
  Legacy, Target,  \* providers: vercel, and the one that hosts migrate to
  Current,     \* the one that new hosts are registered with
  MaxAdds,     \* bound: requests for a host
  MaxOperations, \* bound: what the operator does about the provider
  MaxFailures,   \* bound: failures of the provider, of a save, or of a process
  MaxChanges   \* bound: changes of the plan, and of DNS back to what it was

ASSUME DomainsAssumption ==
  /\ None \notin Hosts \cup {Legacy, Target} /\ Legacy # Target /\ Current \in {Legacy, Target}
  /\ {MaxAdds, MaxOperations, MaxFailures, MaxChanges} \subseteq Nat
  /\ {"add", "operator"} \cap Checkers = {}

VARIABLES
  record,      \* the DomainRecord, None before the first request
  organization,\* its copy of the host, and whether it is verified
  registered,  \* hosts that a provider knows
  dns,         \* for each request, the provider whose records are in place
  feature,     \* does the plan include custom domains?
  check,       \* the state of each checker
  add,         \* the state of the request under way
  op,          \* the state of the operator's script
  adds, operations, failures, changes,
  checked,     \* ghost: requests whose host has passed every check, with the provider
  torn         \* ghost: a check of a host was saved to its successor, one of a migration
               \* that was aborted, or a request to a record whose migration it had not seen

operator == <<op, operations>>
outside == <<dns, feature, changes>>
domainVars == <<record, organization, registered, check, add, adds, failures, checked, torn, operator, outside>>

Providers == {Legacy, Target}

\* A request is known by its ownership token.
Tokens == 1 .. MaxAdds
Slot == [host : Hosts, token : Tokens, provider : Providers]

\* A host that redirects until its registration is due to be removed, a migration, the document.
Retiree == [host : Hosts, provider : Providers, due : BOOLEAN]
Migration == [status : {"staged", "switched", "aborted", "finished"}, host : Hosts, token : Tokens]
Document ==
  [host : Hosts, token : Tokens, provider : Providers, active : BOOLEAN, entitled : BOOLEAN,
   cand : Slot \cup {None}, retired : SUBSET Retiree, migration : Migration \cup {None}]

\* null is none of these.
ASSUME NullAssumption == None \notin Slot \cup Migration \cup Document

Resting == [at |-> "idle"]

DomainsInit ==
  /\ record = None /\ organization = [host |-> None, verified |-> FALSE]
  /\ registered = {} /\ dns = [t \in Tokens |-> None] /\ feature = TRUE
  /\ check = [c \in Checkers |-> Resting] /\ add = Resting /\ op = Resting
  /\ adds = 0 /\ operations = 0 /\ failures = 0 /\ changes = 0
  /\ checked = {} /\ torn = FALSE

Fault == failures < MaxFailures /\ failures' = failures + 1

-----------------------------------------------------------------------------
(* Versions.  Of a version nobody asks more than whether it was raised     *)
(* since a document was read.                                              *)

Outdated(h) == IF h.at \in {"idle", "copy"} THEN h ELSE [h EXCEPT !.fresh = FALSE]

\* Mutant: no save raises the version.
Unversioned(who, h) ==
  /\ check' = [c \in Checkers |-> IF c = who THEN h ELSE check[c]]
  /\ add' = IF who = "add" THEN h ELSE add
  /\ op' = IF who = "operator" THEN h ELSE op

\* Who saves goes on as h, and every other document in memory is outdated.
Raise(who, h) ==
  /\ check' = [c \in Checkers |-> IF c = who THEN h ELSE Outdated(check[c])]
  /\ add' = IF who = "add" THEN h ELSE Outdated(add)
  /\ op' = IF who = "operator" THEN h ELSE Outdated(op)

RetiredHosts(r) == {x.host : x \in r.retired}

\* queueProviderCleanup: the provider forgets a host that is due.
Retire(r, s, due) ==
  IF s.host = r.host THEN r.retired
  ELSE {x \in r.retired : x.host # s.host} \cup {[host |-> s.host, provider |-> s.provider, due |-> due]}

Registration(s) == <<s.host, s.provider>>

\* Before traffic is switched.
Advancing(r) == r.migration # None /\ r.migration.status = "staged"
Migrating(r) == r.migration # None /\ r.migration.status \in {"staged", "switched"}

-----------------------------------------------------------------------------
(* add: a request for a host.  The owner makes one at a time.              *)

Attached(h) == record # None /\ (record.host = h \/ (record.cand # None /\ record.cand.host = h))

\* Mutant: a host that still redirects may be asked for again.
Forgotten(h) == FALSE

Retiring(h) == record # None /\ h \in RetiredHosts(record)

Ask(h) ==
  /\ add.at = "idle" /\ adds < MaxAdds
  /\ feature /\ ~Attached(h) /\ ~Retiring(h)
  /\ record # None => ~Migrating(record)
  /\ adds' = adds + 1
  /\ add' = [at |-> "register", host |-> h, token |-> adds + 1, read |-> record, fresh |-> TRUE]
  /\ UNCHANGED <<record, organization, registered, check, failures, checked, torn, operator, outside>>

RegisterDomain ==
  /\ add.at = "register"
  /\ registered' = registered \cup {<<add.host, Current>>}
  /\ add' = [add EXCEPT !.at = "write"]
  /\ UNCHANGED <<record, organization, check, adds, failures, checked, torn, operator, outside>>

HasServingDomain(r) == r # None /\ r.active

\* What a save of the candidate writes.
Staged(r) == [r EXCEPT !.cand = [host |-> add.host, token |-> add.token, provider |-> Current], !.entitled = TRUE]

\* The first candidate: no array is set, nor a version compared.
StageCandidate ==
  /\ add.at = "write" /\ HasServingDomain(add.read) /\ add.read.cand = None
  /\ record' = Staged(record)
  /\ torn' = (torn \/ Migrating(record))
  /\ add' = Resting
  /\ UNCHANGED <<organization, registered, check, adds, failures, checked, operator, outside>>

\* The candidate that it replaces is to be forgotten at once.
ReplaceCandidate ==
  /\ add.at = "write" /\ HasServingDomain(add.read) /\ add.read.cand # None
  /\ IF add.fresh
       THEN /\ record' = [Staged(record) EXCEPT !.retired = Retire(add.read, add.read.cand, TRUE)]
            /\ Raise("add", Resting)
            /\ torn' = (torn \/ Migrating(record))
       ELSE add' = Resting /\ UNCHANGED <<record, check, op, torn>>
  /\ UNCHANGED <<organization, registered, adds, operations, failures, checked, outside>>

\* findOneAndUpdate, whatever the record has become since it was read.
Attach ==
  /\ add.at = "write" /\ ~HasServingDomain(add.read)
  /\ record' = [host |-> add.host, token |-> add.token, provider |-> Current,
                active |-> FALSE, entitled |-> TRUE, cand |-> None,
                retired |-> IF record = None THEN {} ELSE record.retired,
                migration |-> IF record = None THEN None ELSE record.migration]
  /\ torn' = (torn \/ (record # None /\ Migrating(record)))
  /\ add' = [add EXCEPT !.at = IF add.read = None THEN "copy" ELSE "retire", !.fresh = TRUE]
  /\ UNCHANGED <<organization, registered, check, adds, failures, checked, operator, outside>>

\* The host that was read, not the one that was replaced.
RetirePrevious ==
  /\ add.at = "retire"
  /\ IF add.fresh
       THEN /\ record' = [record EXCEPT !.retired = Retire(record, add.read, TRUE)]
            /\ Raise("add", [add EXCEPT !.at = "copy"])
       ELSE add' = Resting /\ UNCHANGED <<record, check, op>>
  /\ UNCHANGED <<organization, registered, adds, operations, failures, checked, torn, outside>>

CopyNew ==
  /\ add.at = "copy"
  /\ organization' = [host |-> add.host, verified |-> FALSE]
  /\ add' = Resting
  /\ UNCHANGED <<record, registered, check, adds, failures, checked, torn, operator, outside>>

\* The provider refuses, a save is lost or the process dies.
AddFails ==
  /\ add.at # "idle" /\ Fault
  /\ add' = Resting
  /\ UNCHANGED <<record, organization, registered, check, adds, checked, torn, operator, outside>>

-----------------------------------------------------------------------------
(* verifyRecord: a check.                                                  *)

Due(r) == {x \in r.retired : x.due}

\* verifyById skips what is suspended, verify asks for the feature.
ReadRecord(c) ==
  /\ check[c].at = "idle" /\ record # None /\ (record.entitled \/ feature)
  /\ check' = [check EXCEPT ![c] =
       [at |-> IF Due(record) = {} THEN "evaluate" ELSE "clean",
        doc |-> record, kind |-> "none", of |-> record.token, fresh |-> TRUE, result |-> "pending"]]
  /\ UNCHANGED <<record, organization, registered, add, adds, failures, checked, torn, operator, outside>>

\* cleanupRetiredDomains: the provider has forgotten a host before the save says so.
CleanUp(c) ==
  /\ check[c].at = "clean"
  /\ \E gone \in SUBSET Due(check[c].doc) :
       /\ IF gone = Due(check[c].doc) THEN UNCHANGED failures ELSE Fault
       /\ registered' = registered \ {Registration(x) : x \in gone}
       /\ check' = [check EXCEPT ![c].at = "evaluate", ![c].doc.retired = @ \ gone]
  /\ UNCHANGED <<record, organization, add, adds, checked, torn, operator, outside>>

KindOf(r) == IF Advancing(r) THEN "migration" ELSE IF r.cand # None THEN "candidate" ELSE "host"

\* What a check of the record looks at.
Evaluated(r) ==
  CASE KindOf(r) = "migration" -> [host |-> r.migration.host, token |-> r.migration.token, provider |-> Target]
    [] KindOf(r) = "candidate" -> r.cand
    [] OTHER -> [host |-> r.host, token |-> r.token, provider |-> r.provider]

\* promoteCandidate, in memory.
Promoted(r) ==
  [r EXCEPT !.host = r.cand.host, !.token = r.cand.token, !.provider = r.cand.provider, !.active = TRUE, !.cand = None,
            !.retired = Retire([r EXCEPT !.host = r.cand.host], r, FALSE)]

\* The end of advanceProviderMigration, in memory.
Switched(r) ==
  [r EXCEPT !.token = r.migration.token, !.provider = Target, !.active = TRUE, !.migration.status = "switched"]

\* What a check makes of the document in memory.
Applied(r, result) ==
  IF KindOf(r) = "host" THEN [r EXCEPT !.active = result = "active"]
  ELSE IF result # "active" THEN r
  ELSE IF KindOf(r) = "candidate" THEN Promoted(r) ELSE Switched(r)

\* A provider that fails, or takes its time with the certificate, gives "pending" or an
\* error, which markLifecycleFailure notes.
Looks(c, kinds, results) ==
  /\ check[c].at = "evaluate" /\ KindOf(check[c].doc) \in kinds
  /\ LET slot == Evaluated(check[c].doc)
         kind == KindOf(check[c].doc)
         inPlace == dns[slot.token] = slot.provider
     IN \E result \in results :
       /\ result = "active" => inPlace
       /\ IF result = "failed" \/ (result = "pending" /\ inPlace) THEN Fault ELSE UNCHANGED failures
       /\ \/ registered' = registered \cup {Registration(slot)}
          \/ result # "active" /\ failures' # failures /\ UNCHANGED registered
       /\ checked' = IF result = "active" THEN checked \cup {<<slot.token, slot.provider>>} ELSE checked
       /\ check' = [check EXCEPT ![c].at = "save", ![c].doc = Applied(@, result), ![c].kind = kind, ![c].result = result]
  /\ UNCHANGED <<record, organization, add, adds, torn, operator, outside>>

\* evaluateLifecycle
Evaluate(c) == Looks(c, {"host", "candidate"}, {"active", "pending", "failed"})

\* advanceProviderMigration notes its errors itself.
Advance(c) == Looks(c, {"migration"}, {"active", "pending"})

\* The paths that a check of this document writes.
Written(h) ==
  CASE h.kind = "host" -> [record EXCEPT !.active = h.doc.active, !.retired = h.doc.retired]
    [] h.kind = "candidate" /\ h.doc.cand = None ->
         [h.doc EXCEPT !.entitled = record.entitled, !.migration = record.migration]
    [] h.kind = "migration" /\ ~Advancing(h.doc) ->
         [Switched(record) EXCEPT !.token = h.doc.token, !.retired = h.doc.retired]
    [] OTHER -> [record EXCEPT !.retired = h.doc.retired]

\* A check may note what the migration waits for, and so reopen one that was aborted.
Saves(h) ==
  {Written(h)} \cup
  (IF h.kind = "migration" /\ Advancing(h.doc) THEN {[Written(h) EXCEPT !.migration.status = "staged"]} ELSE {})

\* Mutant: the Organization hears of news only.
TellsNews(h) == (h.kind = "candidate" => h.doc.cand = None) /\ Written(h) # record

\* The Organization hears of every check of the host that is served, of a promotion and
\* of a switch whose save did not have to be repeated.
Tells(h) ==
  /\ h.kind = "candidate" => h.doc.cand = None
  /\ h.kind = "migration" => ~Advancing(h.doc) /\ h.result = "active"

\* A refused save is followed by one that notes the failure, and is refused as well.
\* So are paths below a candidate or a migration that is gone.
Savable(h) ==
  /\ h.fresh
  /\ h.kind = "candidate" /\ h.doc.cand # None => record.cand # None
  /\ h.kind = "migration" => record.migration # None

Save(c) ==
  /\ check[c].at = "save"
  /\ LET h == check[c] IN
     IF Savable(h)
       THEN /\ record' \in Saves(h)
            /\ Raise(c, IF Tells(h) THEN [at |-> "copy", host |-> h.doc.host, result |-> h.result] ELSE Resting)
            /\ torn' = (torn \/ record.token # h.of \/ (Migrating(record') /\ ~Migrating(record)))
       ELSE check' = [check EXCEPT ![c] = Resting] /\ UNCHANGED <<record, add, op, torn>>
  /\ UNCHANGED <<organization, registered, adds, operations, failures, checked, outside>>

\* The save fails for another reason, and markLifecycleFailure saves the document as it
\* is in memory, promoted or not, and not active.  A migration is saved again as it is.
SaveFails(c) ==
  /\ check[c].at = "save" /\ check[c].result # "failed" /\ Fault
  /\ check' = [check EXCEPT ![c].result = "failed",
                            ![c].doc.active = IF check[c].kind # "migration" /\ check[c].doc.cand = None THEN FALSE ELSE @]
  /\ UNCHANGED <<record, organization, registered, add, adds, checked, torn, operator, outside>>

\* The Organization hears of it; of a failure only that nothing is verified.
CopyResult(c) ==
  /\ check[c].at = "copy"
  /\ organization' = [host |-> IF check[c].result = "failed" THEN organization.host ELSE check[c].host,
                      verified |-> check[c].result = "active"]
  /\ check' = [check EXCEPT ![c] = Resting]
  /\ UNCHANGED <<record, registered, add, adds, failures, checked, torn, operator, outside>>

CheckerDies(c) ==
  /\ check[c].at # "idle" /\ Fault
  /\ check' = [check EXCEPT ![c] = Resting]
  /\ UNCHANGED <<record, organization, registered, add, adds, checked, torn, operator, outside>>

-----------------------------------------------------------------------------
(* The operator's script, which does one thing at a time.  Its saves set   *)
(* no array, but that of a rollback's first step.                          *)

Operate(doc, at) ==
  /\ op.at = "idle" /\ operations < MaxOperations
  /\ operations' = operations + 1
  /\ op' = [at |-> at, doc |-> doc, fresh |-> TRUE]
  /\ UNCHANGED <<record, organization, registered, check, add, adds, failures, checked, torn, outside>>

\* eligibleForProviderMigration
Eligible(r) ==
  /\ r.cand = None /\ r.entitled /\ r.provider = Legacy /\ r.active
  /\ r.migration # None => r.migration.status = "aborted"

StartMigration == record # None /\ Eligible(record) /\ Operate(record, "register")

RegisterTarget ==
  /\ op.at = "register"
  /\ registered' = registered \cup {<<op.doc.host, Target>>}
  /\ op' = [op EXCEPT !.at = "stage"]
  /\ UNCHANGED <<record, organization, check, add, adds, operations, failures, checked, torn, outside>>

StageTarget ==
  /\ op.at = "stage"
  /\ record' = [record EXCEPT !.migration = [status |-> "staged", host |-> op.doc.host, token |-> op.doc.token]]
  /\ op' = Resting
  /\ torn' = (torn \/ record.token # op.doc.token \/ record.cand # None)
  /\ UNCHANGED <<organization, registered, check, add, adds, operations, failures, checked, outside>>

\* Once the time in which it can be rolled back has passed.
FinalizeMigration ==
  record # None /\ record.migration # None /\ record.migration.status = "switched" /\ Operate(record, "remove")

RemoveLegacy ==
  /\ op.at = "remove"
  /\ registered' = registered \ {<<op.doc.host, Legacy>>}
  /\ op' = [op EXCEPT !.at = "finish"]
  /\ UNCHANGED <<record, organization, check, add, adds, operations, failures, checked, torn, outside>>

Finish ==
  /\ op.at = "finish"
  /\ record' = IF record.migration = None THEN record ELSE [record EXCEPT !.migration.status = "finished"]
  /\ op' = Resting
  /\ UNCHANGED <<organization, registered, check, add, adds, operations, failures, checked, torn, outside>>

RollBack ==
  record # None /\ Migrating(record) /\ Operate(record, IF Advancing(record) THEN "unregister" ELSE "verify")

\* The provider that traffic goes back to must serve already.
VerifyLegacy ==
  LET m == op.doc.migration IN
  /\ op.at = "verify"
  /\ IF <<m.host, Legacy>> \in registered /\ dns[m.token] = Legacy
       THEN op' = [op EXCEPT !.at = "restore"] /\ checked' = checked \cup {<<m.token, Legacy>>}
       ELSE op' = Resting /\ UNCHANGED checked
  /\ UNCHANGED <<record, organization, registered, check, add, adds, operations, failures, torn, outside>>

RestoreLegacy ==
  /\ op.at = "restore"
  /\ IF op.fresh
       THEN /\ record' = [record EXCEPT !.provider = Legacy, !.token = op.doc.migration.token, !.active = TRUE,
                                        !.migration.status = "aborted"]
            /\ Raise("operator", [op EXCEPT !.at = "tell"])
       ELSE op' = Resting /\ UNCHANGED <<record, check, add>>
  /\ UNCHANGED <<organization, registered, adds, operations, failures, checked, torn, outside>>

TellRestored ==
  /\ op.at = "tell"
  /\ organization' = [host |-> op.doc.host, verified |-> TRUE]
  /\ op' = [op EXCEPT !.at = "unregister"]
  /\ UNCHANGED <<record, registered, check, add, adds, operations, failures, checked, torn, outside>>

\* A failure is noted, and the migration aborted all the same.
UnregisterTarget ==
  /\ op.at = "unregister"
  /\ \/ /\ registered' = registered \ {<<op.doc.host, Target>>}
        /\ op' = [op EXCEPT !.at = "forget"] /\ UNCHANGED failures
     \/ op' = [op EXCEPT !.at = "abort"] /\ Fault /\ UNCHANGED registered
  /\ UNCHANGED <<record, organization, check, add, adds, operations, checked, torn, outside>>

ForgetMigration ==
  /\ op.at \in {"forget", "abort"}
  /\ record' = IF op.at = "forget" \/ record.migration = None THEN [record EXCEPT !.migration = None]
               ELSE [record EXCEPT !.migration.status = "aborted"]
  /\ op' = Resting
  /\ UNCHANGED <<organization, registered, check, add, adds, operations, failures, checked, torn, outside>>

OperatorDies ==
  /\ op.at # "idle" /\ Fault
  /\ op' = Resting
  /\ UNCHANGED <<record, organization, registered, check, add, adds, operations, checked, torn, outside>>

OperatorGoesOn ==
  \/ RegisterTarget \/ StageTarget \/ RemoveLegacy \/ Finish
  \/ VerifyLegacy \/ RestoreLegacy \/ TellRestored \/ UnregisterTarget \/ ForgetMigration

OnMigration == StartMigration \/ FinalizeMigration \/ RollBack \/ OperatorGoesOn \/ OperatorDies

-----------------------------------------------------------------------------
(* The plan, DNS and time.                                                 *)

\* reconcileResourceEntitlements, in a transaction.
SetFeature ==
  /\ changes < MaxChanges /\ changes' = changes + 1
  /\ feature' = ~feature
  /\ record' = IF record = None THEN None ELSE [record EXCEPT !.entitled = feature']
  /\ organization' = [organization EXCEPT !.verified = feature' /\ record # None /\ record.active]
  /\ UNCHANGED <<registered, dns, check, add, adds, failures, checked, torn, operator>>

\* What the customer is asked for: the records of a host, and those of the other provider
\* while it is not left or can be rolled back to.
Wanted == Evaluated(record)
Asked == {<<Wanted.token, Wanted.provider>>} \cup
         (IF Migrating(record) THEN {<<record.migration.token, Legacy>>} ELSE {})

\* The customer sets them, or breaks them again.
SetDns ==
  /\ record # None
  /\ \E a \in Asked, p \in Providers \cup {None} :
       /\ p \in {a[2], None} /\ p # dns[a[1]]
       /\ dns' = [dns EXCEPT ![a[1]] = p]
       /\ IF dns[a[1]] = None \/ p # None THEN UNCHANGED changes ELSE changes < MaxChanges /\ changes' = changes + 1
  /\ UNCHANGED <<record, organization, registered, feature, check, add, adds, failures, checked, torn, operator>>

\* The grace of a retired host is days: no handler that read before is still at work.
GraceEnds ==
  /\ add.at = "idle" /\ op.at = "idle" /\ \A c \in Checkers : check[c].at = "idle"
  /\ record # None
  /\ \E x \in record.retired :
       ~x.due /\ record' = [record EXCEPT !.retired = (@ \ {x}) \cup {[x EXCEPT !.due = TRUE]}]
  /\ UNCHANGED <<organization, registered, check, add, adds, failures, checked, torn, operator, outside>>

-----------------------------------------------------------------------------

AddGoesOn ==
  RegisterDomain \/ StageCandidate \/ ReplaceCandidate \/ Attach \/ RetirePrevious \/ CopyNew

CheckGoesOn(c) == ReadRecord(c) \/ CleanUp(c) \/ Evaluate(c) \/ Advance(c) \/ Save(c) \/ CopyResult(c)

DomainsNext ==
  \/ \E h \in Hosts : Ask(h)
  \/ AddGoesOn \/ AddFails
  \/ \E c \in Checkers : CheckGoesOn(c) \/ SaveFails(c) \/ CheckerDies(c)
  \/ OnMigration
  \/ SetFeature \/ SetDns \/ GraceEnds

DomainsSpec == DomainsInit /\ [][DomainsNext]_domainVars

FairDomainsSpec == DomainsSpec /\ WF_domainVars(AddGoesOn) /\ WF_domainVars(OperatorGoesOn) /\ \A c \in Checkers : WF_domainVars(CheckGoesOn(c))

-----------------------------------------------------------------------------
(* Properties. *)

Placed(r) ==
  /\ \A x, y \in r.retired : x.host = y.host => x = y
  /\ r.host \notin RetiredHosts(r)
  /\ r.cand # None => r.cand.host \notin {r.host} \cup RetiredHosts(r)

\* Every variable keeps its shape, and a host has one place in the record: it is the one
\* served, the candidate or retired, so that no cleanup removes what is in use (add and
\* verifyRecord, as long as no stale save has been let through).
DomainsTypeOK ==
  /\ record # None => record \in Document /\ (torn \/ Placed(record))
  /\ organization.host \in {None} \cup Hosts /\ organization.verified \in BOOLEAN
  /\ registered \subseteq Hosts \X Providers /\ dns \in [Tokens -> Providers \cup {None}]
  /\ checked \subseteq Tokens \X Providers
  /\ add.at \in {"idle", "register", "write", "retire", "copy"}
  /\ \A c \in Checkers : check[c].at \in {"idle", "clean", "evaluate", "save", "copy"}

\* "A replacement is staged in candidate until every DNS/TLS/runtime check passes, so
\* the existing ACTIVE hostname stays online" (domain.model.ts): a host that is served
\* gives way only to the candidate of the record, once that has passed every check, or to a
\* request that read the record before it was active; and a host is active only if it
\* passed them itself, not one it has replaced, at the provider that the record says serves
\* it, however checks, requests and a migration overlap.
CutoverIsSafe ==
  [][record # None /\ ~torn' =>
       /\ record.active /\ record'.token # record.token =>
            \/ record.cand # None /\ record'.token = record.cand.token /\ <<record'.token, record'.provider>> \in checked
            \/ add.at = "write" /\ ~HasServingDomain(add.read)
       /\ record'.active => <<record'.token, record'.provider>> \in checked']_domainVars

Settled(h) ==
  /\ record # None /\ record.host = h /\ record.active /\ record.cand = None
  /\ organization = [host |-> h, verified |-> TRUE]
  /\ <<h, record.provider>> \in registered
  /\ Due(record) = {}

\* A host whose DNS records are in place at last, and whose tenant has the feature, is
\* served at last: its replacement of another is completed, a registration that was
\* removed by a slow cleanup is made again, the Organization's copy agrees, and what was
\* retired is removed, whatever failed or overlapped before.
CutoverCompletes ==
  \A h \in Hosts :
    <>[](record # None /\ record.entitled /\ Wanted.host = h /\ dns[Wanted.token] = Wanted.provider) => <>[]Settled(h)
=============================================================================
