--------------------------- MODULE OperationsQueue ---------------------------
(***************************************************************************)
(* The durable job queue of one tenant (module/operationsQueue) with the   *)
(* access deferral of module/tenantAccess.  Jobs are MongoDB documents;    *)
(* every action is one database call, so the awaits of the source are the  *)
(* interleaving points.  Workers claim a job under a fresh lock token,     *)
(* re-check the claim and the tenant's access, perform the effect and      *)
(* acknowledge; API callers schedule and cancel; access transitions defer  *)
(* and resume.  Time appears only as the two facts the code tests: runAt   *)
(* has been reached (due) and the lease is ten minutes old (stale).        *)
(* Tenants are independent (every query is scoped by organizationId).      *)
(***************************************************************************)
EXTENDS Naturals, FiniteSets

CONSTANTS
  Jobs,         \* identities of the job documents that may be created
  Entities,     \* (type, entityId) pairs a job is scheduled for
  Kind,         \* the class of each entity's job type
  Workers,      \* concurrent processOne loops, of all replicas
  Callers,      \* API requests that schedule work outside a transaction
  Syncs,        \* access-transition synchronisations in flight
  Tokens,       \* lock tokens (`${workerId}:${randomUUID()}`)
  NoToken,      \* lockedBy unset
  NoEntity,     \* a job document that does not exist yet
  MaxAttempts,  \* maxAttempts of every job
  MaxFaults     \* bound: crashes and over-long deliveries, per job

Kinds == {"reminder", "business", "domain", "maintenance"}

ASSUME KindAssumption == Kind \in [Entities -> Kinds]
ASSUME TokenAssumption == NoToken \notin Tokens
ASSUME EntityAssumption == NoEntity \notin Entities \cup Jobs
ASSUME WorkersAssumption == IsFiniteSet(Workers)
ASSUME AttemptsAssumption == MaxAttempts \in Nat \ {0} /\ MaxFaults \in Nat

VARIABLES
  jobs,       \* the operationsjobs collection
  worker,     \* the local state of each processOne
  caller,     \* the local state of each schedule / scheduleMany
  access,     \* what the organization document says of the tenant
  sync,       \* the outcome a synchronisation has evaluated, not yet applied
  delivered,  \* history: effects performed for each job
  faults      \* history: crashes and expired live leases, per job

vars == <<jobs, worker, caller, access, sync, delivered, faults>>

Live == {"pending", "processing"}
Statuses == Live \cup {"absent", "completed", "failed", "cancelled"}
WorkerStates == {"idle", "claimed", "admitted", "running", "refused",
                 "errored", "returned", "superseding"}

JobRecord == [status: Statuses, entity: Entities \cup {NoEntity}, due: BOOLEAN,
              deferred: BOOLEAN, lockedBy: Tokens \cup {NoToken},
              stale: BOOLEAN, attempts: Nat]
WorkerRecord == [pc: WorkerStates, job: Jobs \cup {NoEntity},
                 token: Tokens \cup {NoToken}, attempts: Nat]
CallerRecord == [pc: {"idle", "checked", "cancelled"},
                 batch: SUBSET Entities, past: SUBSET Entities]

NoJob == [status |-> "absent", entity |-> NoEntity, due |-> FALSE,
          deferred |-> FALSE, lockedBy |-> NoToken, stale |-> FALSE,
          attempts |-> 0]
IdleWorker == [pc |-> "idle", job |-> NoEntity, token |-> NoToken,
               attempts |-> 0]
IdleCaller == [pc |-> "idle", batch |-> {}, past |-> {}]

Init ==
  /\ jobs = [j \in Jobs |-> NoJob]
  /\ worker = [w \in Workers |-> IdleWorker]
  /\ caller = [c \in Callers |-> IdleCaller]
  /\ access = "active"
  /\ sync = [s \in Syncs |-> "idle"]
  /\ delivered = [j \in Jobs |-> 0]
  /\ faults = [j \in Jobs |-> 0]

-----------------------------------------------------------------------------
(* Scheduling.                                                             *)

AccessControlled(e) == Kind[e] \in {"reminder", "business"}

\* pending_deletion stops every job; a locked tenant only business work.
CanRunBackgroundWork(e) ==
  /\ access # "deleting"
  /\ AccessControlled(e) => access = "active"

\* The updateMany of schedule and cancel: lockedBy is left in place.
CancelLive(E) ==
  [j \in Jobs |-> IF jobs[j].entity \in E /\ jobs[j].status \in Live
                  THEN [jobs[j] EXCEPT !.status = "cancelled"]
                  ELSE jobs[j]]

NewJob(e, due) == [NoJob EXCEPT !.status = "pending", !.entity = e, !.due = due]

\* Reminders whose time has passed are not queued.
PastReminders(E, past) == {e \in E \cap past : Kind[e] = "reminder"}

\* schedule: the access check that precedes the writes.
ScheduleCheck(c, e, past) ==
  /\ caller[c].pc = "idle"
  /\ CanRunBackgroundWork(e)
  /\ caller' = [caller EXCEPT ![c] =
                  [pc |-> "checked", batch |-> {e}, past |-> past]]
  /\ UNCHANGED <<jobs, worker, access, sync, delivered, faults>>

\* scheduleMany: one type per batch; past reminders leave the batch before
\* anything is cancelled, so their earlier jobs survive.
ScheduleManyCheck(c, E, past) ==
  LET runnable == E \ PastReminders(E, past)
  IN /\ caller[c].pc = "idle"
     /\ \A e, f \in E : Kind[e] = Kind[f]
     /\ \A e \in E : CanRunBackgroundWork(e)
     /\ runnable # {}
     /\ caller' = [caller EXCEPT ![c] =
                     [pc |-> "checked", batch |-> runnable, past |-> past]]
     /\ UNCHANGED <<jobs, worker, access, sync, delivered, faults>>

\* The live jobs of the batch are cancelled; schedule then drops a past reminder.
ScheduleCancel(c) ==
  LET rest == caller[c].batch \ PastReminders(caller[c].batch, caller[c].past)
  IN /\ caller[c].pc = "checked"
     /\ jobs' = CancelLive(caller[c].batch)
     /\ caller' = [caller EXCEPT ![c] =
                     IF rest = {} THEN IdleCaller
                     ELSE [@ EXCEPT !.pc = "cancelled", !.batch = rest]]
     /\ UNCHANGED <<worker, access, sync, delivered, faults>>

\* create / ordered insertMany: one document at a time.
ScheduleCreate(c, e, j) ==
  LET rest == caller[c].batch \ {e}
  IN /\ caller[c].pc = "cancelled"
     /\ e \in caller[c].batch
     /\ jobs[j].status = "absent"
     /\ jobs' = [jobs EXCEPT ![j] = NewJob(e, e \in caller[c].past)]
     /\ caller' = [caller EXCEPT ![c] =
                     IF rest = {} THEN IdleCaller ELSE [@ EXCEPT !.batch = rest]]
     /\ UNCHANGED <<worker, access, sync, delivered, faults>>

\* The request dies or its database call fails between two awaits.
CallerAborts(c) ==
  /\ caller[c].pc # "idle"
  /\ caller' = [caller EXCEPT ![c] = IdleCaller]
  /\ UNCHANGED <<jobs, worker, access, sync, delivered, faults>>

\* schedule with options.session: check, cancellation and insert commit together.
ScheduleInTransaction(e, past, j) ==
  /\ CanRunBackgroundWork(e)
  /\ IF PastReminders({e}, past) # {}
     THEN jobs' = CancelLive({e})
     ELSE /\ jobs[j].status = "absent"
          /\ jobs' = [CancelLive({e}) EXCEPT ![j] = NewJob(e, e \in past)]
  /\ UNCHANGED <<worker, caller, access, sync, delivered, faults>>

Cancel(e) ==
  /\ jobs' = CancelLive({e})
  /\ UNCHANGED <<worker, caller, access, sync, delivered, faults>>

\* cancelOrganization, called by the tenant purge; it also drops the locks.
CancelOrganization ==
  /\ access = "deleting"
  /\ jobs' = [j \in Jobs |->
                IF jobs[j].status \in Live
                THEN [jobs[j] EXCEPT !.status = "cancelled", !.lockedBy = NoToken]
                ELSE jobs[j]]
  /\ UNCHANGED <<worker, caller, access, sync, delivered, faults>>

-----------------------------------------------------------------------------
(* Workers: processOne, one action per database call.                      *)

\* Mutant: the token is the workerId, the same for every claim of a replica.
SharedToken(t) == t \in Tokens

\* The token is a fresh uuid: nobody remembers it and no document carries it.
Fresh(t) ==
  /\ \A w \in Workers : worker[w].token # t
  /\ \A j \in Jobs : jobs[j].lockedBy # t

\* Mutant: an expired lease is never reclaimed.
ClaimableIfPending(j) == jobs[j].status = "pending" /\ jobs[j].due /\ ~jobs[j].deferred

Claimable(j) ==
  /\ jobs[j].due
  /\ ~jobs[j].deferred
  /\ \/ jobs[j].status = "pending"
     \/ jobs[j].status = "processing" /\ jobs[j].stale

\* Mutant: claiming does not count the attempt.
ClaimedUncounted(r, t) ==
  [r EXCEPT !.status = "processing", !.lockedBy = t, !.stale = FALSE]

Claimed(r, t) ==
  [r EXCEPT !.status = "processing", !.lockedBy = t, !.stale = FALSE,
            !.attempts = r.attempts + 1]

\* What the worker keeps of the document it claimed.
Holding(r, j, t) ==
  [pc |-> "claimed", job |-> j, token |-> t, attempts |-> r.attempts]

\* claimOne: no test of attempts against maxAttempts.
Claim(w, j, t) ==
  /\ worker[w].pc = "idle"
  /\ Claimable(j)
  /\ Fresh(t)
  /\ jobs' = [jobs EXCEPT ![j] = Claimed(jobs[j], t)]
  /\ worker' = [worker EXCEPT ![w] = Holding(Claimed(jobs[j], t), j, t)]
  /\ UNCHANGED <<caller, access, sync, delivered, faults>>

\* The filter {_id, status: processing, lockedBy} of every later write.
Owns(w, j) ==
  /\ worker[w].job = j
  /\ jobs[j].status = "processing"
  /\ jobs[j].lockedBy = worker[w].token

MoveTo(w, pc) == worker' = [worker EXCEPT ![w].pc = pc]

\* deliver, first await: a lost claim returns without an error.
CheckClaim(w) ==
  /\ worker[w].pc = "claimed"
  /\ MoveTo(w, IF Owns(w, worker[w].job) THEN "admitted" ELSE "returned")
  /\ UNCHANGED <<jobs, caller, access, sync, delivered, faults>>

\* deliver, second await: the tenant's access as it is now.  An evaluation that
\* throws counts as "no" for access-controlled work.
CheckAccess(w) ==
  LET e == jobs[worker[w].job].entity
  IN /\ worker[w].pc = "admitted"
     /\ \/ CanRunBackgroundWork(e) /\ MoveTo(w, "running")
        \/ ~CanRunBackgroundWork(e) /\ MoveTo(w, "refused")
        \/ AccessControlled(e) /\ MoveTo(w, "refused")
     /\ UNCHANGED <<jobs, caller, access, sync, delivered, faults>>

\* The effect of the job.  It may fail before or after the outside world saw it,
\* and nothing here looks at the claim again.
Deliver(w, seen, throws) ==
  /\ worker[w].pc = "running"
  /\ seen \/ throws
  /\ delivered' = [delivered EXCEPT ![worker[w].job] = IF seen THEN @ + 1 ELSE @]
  /\ MoveTo(w, IF throws THEN "errored" ELSE "returned")
  /\ UNCHANGED <<jobs, caller, access, sync, faults>>

\* Every acknowledgement is conditional on the claim and clears it.
Acknowledge(w, released) ==
  LET j == worker[w].job
  IN jobs' = IF Owns(w, j)
             THEN [jobs EXCEPT ![j] = [released EXCEPT !.lockedBy = NoToken,
                                                       !.stale = FALSE]]
             ELSE jobs

\* A successful domain check goes on to retire the entity's dead jobs.
Complete(w) ==
  LET j == worker[w].job
  IN /\ worker[w].pc = "returned"
     /\ Acknowledge(w, [jobs[j] EXCEPT !.status = "completed"])
     /\ IF Kind[jobs[j].entity] = "domain"
        THEN MoveTo(w, "superseding")
        ELSE worker' = [worker EXCEPT ![w] = IdleWorker]
     /\ UNCHANGED <<caller, access, sync, delivered, faults>>

\* Mutant: the filter without the status.
RetireAll(e, spared) ==
  [j \in Jobs |-> IF jobs[j].entity = e /\ j # spared
                  THEN [jobs[j] EXCEPT !.status = "cancelled"]
                  ELSE jobs[j]]

RetireFailed(e, spared) ==
  [j \in Jobs |-> IF jobs[j].entity = e /\ jobs[j].status = "failed" /\ j # spared
                  THEN [jobs[j] EXCEPT !.status = "cancelled"]
                  ELSE jobs[j]]

SupersedeFailed(w) ==
  LET j == worker[w].job
  IN /\ worker[w].pc = "superseding"
     /\ jobs' = RetireFailed(jobs[j].entity, j)
     /\ worker' = [worker EXCEPT ![w] = IdleWorker]
     /\ UNCHANGED <<caller, access, sync, delivered, faults>>

\* TENANT_ACCESS_DEFERRED: back to pending without spending the attempt.
Defer(w) ==
  LET j == worker[w].job
  IN /\ worker[w].pc = "refused"
     /\ Acknowledge(w, [jobs[j] EXCEPT !.status = "pending", !.deferred = TRUE,
                                       !.attempts = @ - 1])
     /\ worker' = [worker EXCEPT ![w] = IdleWorker]
     /\ UNCHANGED <<caller, access, sync, delivered, faults>>

Spent(n) == n >= MaxAttempts

\* Mutant: every error, not only a deferral, gives the attempt back.
FailRefunded(w) ==
  LET j == worker[w].job
  IN /\ worker[w].pc = "errored"
     /\ Acknowledge(w, [jobs[j] EXCEPT !.due = FALSE, !.attempts = @ - 1,
                          !.status = IF Spent(worker[w].attempts) THEN "failed"
                                     ELSE "pending"])
     /\ worker' = [worker EXCEPT ![w] = IdleWorker]
     /\ UNCHANGED <<caller, access, sync, delivered, faults>>

\* Any other error: retry later, or dead once the attempts are spent.  The test
\* uses the count the worker read when it claimed the job.
Fail(w) ==
  LET j == worker[w].job
  IN /\ worker[w].pc = "errored"
     /\ Acknowledge(w, [jobs[j] EXCEPT !.due = FALSE,
                          !.status = IF Spent(worker[w].attempts) THEN "failed"
                                     ELSE "pending"])
     /\ worker' = [worker EXCEPT ![w] = IdleWorker]
     /\ UNCHANGED <<caller, access, sync, delivered, faults>>

\* The process dies; the document keeps its claim.
Crash(w) ==
  LET j == worker[w].job
  IN /\ worker[w].pc # "idle"
     /\ faults[j] < MaxFaults
     /\ faults' = [faults EXCEPT ![j] = @ + 1]
     /\ worker' = [worker EXCEPT ![w] = IdleWorker]
     /\ UNCHANGED <<jobs, caller, access, sync, delivered>>

-----------------------------------------------------------------------------
(* The passage of time.                                                    *)

RunAtReached(j) ==
  /\ jobs[j].status = "pending" /\ ~jobs[j].due
  /\ jobs' = [jobs EXCEPT ![j].due = TRUE]
  /\ UNCHANGED <<worker, caller, access, sync, delivered, faults>>

Abandoned(j) == \A w \in Workers : ~Owns(w, j)

\* Ten minutes after the claim.  A lease that runs out under a worker still at
\* work counts as a fault; that of a dead worker was counted by Crash.
LeaseExpires(j) ==
  /\ jobs[j].status = "processing" /\ ~jobs[j].stale
  /\ jobs' = [jobs EXCEPT ![j].stale = TRUE]
  /\ IF Abandoned(j)
     THEN UNCHANGED faults
     ELSE faults[j] < MaxFaults /\ faults' = [faults EXCEPT ![j] = @ + 1]
  /\ UNCHANGED <<worker, caller, access, sync, delivered>>

-----------------------------------------------------------------------------
(* Tenant access: the organization document and its synchronisation.       *)

\* The access the organization gives is decided elsewhere (subscription,
\* platform suspension); the request that commits it then calls sync.
ChangeAccess(s, a) ==
  /\ sync[s] = "idle"
  /\ access # "deleting" /\ a # access
  /\ access' = a
  /\ sync' = [sync EXCEPT ![s] = IF a = "active" THEN "resume" ELSE "defer"]
  /\ UNCHANGED <<jobs, worker, caller, delivered, faults>>

\* The purge marks the tenant pending_deletion and never synchronises.
StartDeletion ==
  /\ access # "deleting"
  /\ access' = "deleting"
  /\ UNCHANGED <<jobs, worker, caller, sync, delivered, faults>>

\* A confirmation retry synchronises again: sync reads the organization itself.
ReadAccess(s) ==
  /\ sync[s] = "idle"
  /\ sync' = [sync EXCEPT ![s] = IF access = "active" THEN "resume" ELSE "defer"]
  /\ UNCHANGED <<jobs, worker, caller, access, delivered, faults>>

\* Mutant: jobs being processed are deferred too.
DeferLiveWork ==
  [j \in Jobs |-> IF jobs[j].status \in Live /\ AccessControlled(jobs[j].entity)
                  THEN [jobs[j] EXCEPT !.deferred = TRUE]
                  ELSE jobs[j]]

DeferBackgroundWork ==
  [j \in Jobs |-> IF /\ jobs[j].status = "pending"
                     /\ AccessControlled(jobs[j].entity)
                  THEN [jobs[j] EXCEPT !.deferred = TRUE]
                  ELSE jobs[j]]

ResumeBackgroundWork ==
  [j \in Jobs |-> IF /\ jobs[j].status = "pending"
                     /\ AccessControlled(jobs[j].entity)
                  THEN [jobs[j] EXCEPT !.deferred = FALSE]
                  ELSE jobs[j]]

\* sync applies what it evaluated, however old that is by now.
ApplySync(s) ==
  /\ sync[s] # "idle"
  /\ jobs' = IF sync[s] = "resume" THEN ResumeBackgroundWork ELSE DeferBackgroundWork
  /\ sync' = [sync EXCEPT ![s] = "idle"]
  /\ UNCHANGED <<worker, caller, access, delivered, faults>>

\* The failure of the update is logged and swallowed.
SyncFails(s) ==
  /\ sync[s] # "idle"
  /\ sync' = [sync EXCEPT ![s] = "idle"]
  /\ UNCHANGED <<jobs, worker, caller, access, delivered, faults>>

\* resolveFailedDomainChecks: a manual verification succeeded.
ResolveFailed(e) ==
  /\ Kind[e] = "domain"
  /\ jobs' = RetireFailed(e, NoEntity)
  /\ UNCHANGED <<worker, caller, access, sync, delivered, faults>>

-----------------------------------------------------------------------------

Next ==
  \/ \E c \in Callers :
       \/ \E e \in Entities : \E past \in SUBSET {e} : ScheduleCheck(c, e, past)
       \/ \E E \in SUBSET Entities : \E past \in SUBSET E :
            ScheduleManyCheck(c, E, past)
       \/ ScheduleCancel(c)
       \/ \E e \in Entities, j \in Jobs : ScheduleCreate(c, e, j)
       \/ CallerAborts(c)
  \/ \E e \in Entities :
       \/ \E past \in SUBSET {e}, j \in Jobs : ScheduleInTransaction(e, past, j)
       \/ Cancel(e)
       \/ ResolveFailed(e)
  \/ CancelOrganization
  \/ \E w \in Workers :
       \/ \E j \in Jobs, t \in Tokens : Claim(w, j, t)
       \/ CheckClaim(w)
       \/ CheckAccess(w)
       \/ \E seen, throws \in BOOLEAN : Deliver(w, seen, throws)
       \/ Complete(w)
       \/ SupersedeFailed(w)
       \/ Defer(w)
       \/ Fail(w)
       \/ Crash(w)
  \/ \E j \in Jobs : RunAtReached(j) \/ LeaseExpires(j)
  \/ \E s \in Syncs :
       \/ \E a \in {"active", "locked"} : ChangeAccess(s, a)
       \/ ReadAccess(s)
       \/ ApplySync(s)
       \/ SyncFails(s)
  \/ StartDeletion

Spec == Init /\ [][Next]_vars

\* A live worker takes every step of its loop; the poll interval keeps claiming,
\* oldest runAt first, so no claimable job is passed over forever; and the clock
\* runs.  Nothing obliges a caller, a crash or a change of access to happen.
WorkerStep(w) ==
  \/ CheckClaim(w) \/ CheckAccess(w) \/ Complete(w) \/ SupersedeFailed(w)
  \/ Defer(w) \/ Fail(w)
  \/ \E seen, throws \in BOOLEAN : Deliver(w, seen, throws)

Fairness ==
  /\ \A w \in Workers : WF_vars(WorkerStep(w))
  /\ \A j \in Jobs : /\ SF_vars(\E w \in Workers, t \in Tokens : Claim(w, j, t))
                     /\ WF_vars(RunAtReached(j))
                     /\ WF_vars(Abandoned(j) /\ LeaseExpires(j))

FairSpec == Spec /\ Fairness

-----------------------------------------------------------------------------
(* Properties.                                                             *)

\* Every variable keeps its type; in particular the decrement of a deferral
\* never takes attempts below zero.
TypeOK ==
  /\ jobs \in [Jobs -> JobRecord]
  /\ worker \in [Workers -> WorkerRecord]
  /\ caller \in [Callers -> CallerRecord]
  /\ access \in {"active", "locked", "deleting"}
  /\ sync \in [Syncs -> {"idle", "resume", "defer"}]
  /\ delivered \in [Jobs -> Nat]
  /\ faults \in [Jobs -> 0 .. MaxFaults]

\* maxAttempts bounds the retries, not the claims: claimOne re-claims an expired
\* lease whatever attempts says, so the budget is exceeded by exactly the crashes
\* and over-long deliveries, and never by retries or deferrals.
AttemptsWithinBudget ==
  \A j \in Jobs : jobs[j].attempts <= MaxAttempts + faults[j]

\* A job is declared dead only once its attempts are really spent, although
\* processOne decides from the count it read when it claimed the job.
FailedOnlyWhenExhausted ==
  \A j \in Jobs : jobs[j].status = "failed" => jobs[j].attempts >= MaxAttempts

\* Delivery is at-least-once, but each effect is paid for by an attempt that no
\* deferral gives back: attempts bounds the number of effects the world has seen.
EffectsWithinAttempts ==
  \A j \in Jobs : delivered[j] <= jobs[j].attempts

\* The attempts of a document account for everything that happened to its job:
\* for its claims within the budget, for its death, and for every effect
\* (claimOne, processOne).
AttemptsAccounted == AttemptsWithinBudget /\ FailedOnlyWhenExhausted /\ EffectsWithinAttempts

\* The filter of resumeBackgroundWork (status pending) finds every deferred job
\* that is still live: none hides in processing.
ResumeFindsEveryDeferredJob ==
  \A j \in Jobs : jobs[j].deferred /\ jobs[j].status \in Live
                     => jobs[j].status = "pending"

\* No two workers hold the same claim, so at most one acknowledgement of a job
\* can match.
ClaimIsExclusive ==
  \A v, w \in Workers, j \in Jobs : Owns(v, j) /\ Owns(w, j) => v = w

\* A queued job that is never cancelled is in the end completed or dead, or it
\* waits for a resume: crashes and lost claims do not lose it.
JobsSettle ==
  \A j \in Jobs : jobs[j].status \in Live
                     ~> (jobs[j].status \notin Live \/ jobs[j].deferred)

\* A job seen from outside: open until it settles, performed once its effect was.
Contract == INSTANCE JobContract WITH
  phase <- [j \in Jobs |-> IF jobs[j].status \in Live THEN "open"
                           ELSE jobs[j].status],
  performed <- {j \in Jobs : delivered[j] > 0}

\* The queue keeps the contract of JobContract: no acknowledgement without an
\* effect, no return from a terminal state, whoever lost whichever claim.
ImplementsContract == Contract!Spec
=============================================================================
