------------------------ MODULE OperationsQueueProofs ------------------------
(***************************************************************************)
(* What holds of the operations queue for every number of jobs, workers,   *)
(* callers and synchronisations.  The inductive invariant IInv says who    *)
(* may own a claim: the tokens that workers remember are pairwise          *)
(* different, the owner of a claim remembers the attempts of its document, *)
(* and a claim that nobody will acknowledge has already been paid for by a *)
(* fault.  A step is either quiet (it creates, cancels or defers jobs and  *)
(* touches no claim) or one of the worker's own steps.                     *)
(***************************************************************************)
EXTENDS OperationsQueue, FiniteSetTheorems, TLAPS

\* A worker between claim and acknowledgement has a job and a token.
WorkerShape ==
  \A w \in Workers :
    \/ worker[w] = IdleWorker
    \/ /\ worker[w].pc # "idle"
       /\ worker[w].job \in Jobs
       /\ worker[w].token \in Tokens
       /\ jobs[worker[w].job].status # "absent"

\* No two busy workers remember the same token.
TokensUnique ==
  \A v, w \in Workers :
    worker[v].pc # "idle" /\ worker[w].pc # "idle"
      /\ worker[v].token = worker[w].token => v = w

\* A claimed job has counted its claim and is not deferred.
ClaimCounted ==
  \A j \in Jobs : jobs[j].status = "processing"
                    => jobs[j].attempts >= 1 /\ ~jobs[j].deferred

\* What the owner of a claim remembers is what the document says; an owner
\* that returned without an error has performed the effect; and a worker that
\* retires dead jobs has already given up its claim.
OwnerKnows ==
  \A w \in Workers, j \in Jobs : Owns(w, j) =>
    /\ worker[w].attempts = jobs[j].attempts
    /\ worker[w].pc = "returned" => delivered[j] >= 1
    /\ worker[w].pc # "superseding"

\* Attempts stay within budget, with one to spare wherever the next claim could
\* spend it: the job waits, or its claim has expired or lost its worker.
BudgetToSpare ==
  \A j \in Jobs :
    /\ jobs[j].attempts <= MaxAttempts + faults[j]
    /\ \/ jobs[j].status = "pending"
       \/ jobs[j].status = "processing" /\ (jobs[j].stale \/ Abandoned(j))
       => jobs[j].attempts < MaxAttempts + faults[j]

IInv ==
  /\ TypeOK
  /\ WorkerShape
  /\ TokensUnique
  /\ ClaimCounted
  /\ OwnerKnows
  /\ BudgetToSpare
  /\ FailedOnlyWhenExhausted

USE DEF Statuses, Live, WorkerStates, JobRecord, WorkerRecord, CallerRecord,
        NoJob, IdleWorker, IdleCaller

\* The empty queue satisfies the inductive invariant.
LEMMA InitIInv == Init => IInv
  BY AttemptsAssumption
  DEF Init, IInv, TypeOK, WorkerShape, TokensUnique, ClaimCounted, OwnerKnows,
      BudgetToSpare, FailedOnlyWhenExhausted, Owns, Abandoned

\* What one step may do to the outcome of a job and to its effects: the step of
\* JobContract that it takes.
OutcomeKept(j) ==
  LET a == jobs[j].status
      b == jobs'[j].status
  IN \/ a = b
     \/ a = "absent" /\ b \in Live
     \/ a \in Live /\ b \in Live \cup {"failed", "cancelled"}
     \/ a \in Live /\ b = "completed" /\ delivered[j] >= 1
     \/ a = "failed" /\ b = "cancelled"

EffectsKept(j) ==
  \/ delivered'[j] = delivered[j]
  \/ jobs[j].status # "absent" /\ delivered'[j] > delivered[j]

\* Workers that may still perform the effect of a job, for an attempt of theirs.
Attempting(j) ==
  {w \in Workers : worker[w].job = j /\ worker[w].pc \in {"claimed", "admitted", "running", "refused"}}

\* What one step may do to them, to the effects and to the attempts of a job:
\* nothing (workers may leave), start an attempt, or end one.
Left(j) ==
  /\ Attempting(j)' \subseteq Attempting(j)
  /\ delivered'[j] = delivered[j]
  /\ jobs'[j].attempts = jobs[j].attempts \/ jobs[j].status = "absent"

Started(j) ==
  /\ \E w \in Workers : Attempting(j)' \subseteq Attempting(j) \cup {w}
  /\ delivered'[j] = delivered[j] /\ jobs'[j].attempts = jobs[j].attempts + 1

Ended(j) ==
  /\ \E w \in Attempting(j) : Attempting(j)' \subseteq Attempting(j) \ {w}
  /\ \/ delivered'[j] = delivered[j] + 1 /\ jobs'[j].attempts = jobs[j].attempts
     \/ delivered'[j] = delivered[j] /\ jobs'[j].attempts = jobs[j].attempts - 1

Balanced(j) ==
  /\ Left(j) \/ Started(j) \/ Ended(j)
  /\ jobs'[j].status = "absent" => jobs[j].status = "absent" /\ jobs'[j].attempts = jobs[j].attempts

SoundStep == IInv' /\ \A j \in Jobs : OutcomeKept(j) /\ EffectsKept(j) /\ Balanced(j)

-----------------------------------------------------------------------------
(* Quiet steps.                                                            *)

\* What a step that touches no claim may do to one job.
Quiet(a, b) ==
  \/ a.status = "absent" /\ \E e \in Entities, due \in BOOLEAN : b = NewJob(e, due)
  \/ /\ b.attempts = a.attempts
     /\ \/ /\ b.status = a.status /\ b.lockedBy = a.lockedBy /\ b.stale = a.stale
           /\ b.deferred = a.deferred \/ a.status = "pending"
        \/ a.status \in Live \cup {"failed"} /\ b.status = "cancelled"

\* A step that is quiet for every job, in which at most workers without a claim
\* go idle, preserves the invariant.
LEMMA QuietStep ==
  ASSUME IInv, TypeOK', UNCHANGED <<delivered, faults>>,
         \A w \in Workers : \/ worker'[w] = worker[w]
                            \/ /\ worker'[w] = IdleWorker
                               /\ \A j \in Jobs : ~Owns(w, j),
         \A j \in Jobs : Quiet(jobs[j], jobs'[j])
  PROVE  SoundStep
<1> USE AttemptsAssumption, TokenAssumption, EntityAssumption
<1>0. \A j \in Jobs : jobs[j].status # "absent" => jobs'[j].status # "absent"
  BY DEF IInv, TypeOK, Quiet
<1>1. WorkerShape'
  <2> SUFFICES ASSUME NEW w \in Workers PROVE WorkerShape!(w)'
    BY DEF WorkerShape
  <2>1. WorkerShape!(w) BY DEF IInv, WorkerShape
  <2>2. CASE worker'[w] = worker[w] BY <1>0, <2>1, <2>2
  <2>3. CASE worker'[w] = IdleWorker BY <2>3
  <2> QED BY <2>2, <2>3
<1>2. TokensUnique'
  BY DEF IInv, TokensUnique
<1>3. ClaimCounted'
  <2> SUFFICES ASSUME NEW j \in Jobs, jobs'[j].status = "processing"
               PROVE  jobs'[j].attempts >= 1 /\ ~jobs'[j].deferred
    BY DEF ClaimCounted
  <2>1. Quiet(jobs[j], jobs'[j]) OBVIOUS
  <2>2. jobs[j].status = "processing" /\ jobs'[j].attempts = jobs[j].attempts
          /\ jobs'[j].deferred = jobs[j].deferred
    BY <2>1 DEF Quiet, NewJob
  <2> QED BY <2>2 DEF IInv, ClaimCounted
<1>4. \A w \in Workers, j \in Jobs :
        Owns(w, j)' => Owns(w, j) /\ worker'[w] = worker[w] /\ jobs'[j].attempts = jobs[j].attempts
  <2> SUFFICES ASSUME NEW w \in Workers, NEW j \in Jobs, Owns(w, j)'
               PROVE  Owns(w, j) /\ worker'[w] = worker[w]
                        /\ jobs'[j].attempts = jobs[j].attempts
    OBVIOUS
  <2>1. worker'[w] = worker[w]
    BY EntityAssumption DEF Owns
  <2>2. jobs'[j].status = "processing" BY DEF Owns
  <2>3. Quiet(jobs[j], jobs'[j]) OBVIOUS
  <2>4. jobs[j].status = "processing" /\ jobs'[j].lockedBy = jobs[j].lockedBy
          /\ jobs'[j].attempts = jobs[j].attempts
    BY <2>2, <2>3 DEF Quiet, NewJob
  <2> QED BY <2>1, <2>4 DEF Owns
<1>5. OwnerKnows'
  BY <1>4 DEF IInv, OwnerKnows
<1>6. BudgetToSpare'
  <2> SUFFICES ASSUME NEW j \in Jobs
               PROVE  BudgetToSpare!(j)'
    BY DEF BudgetToSpare
  <2>1. CASE jobs[j].status = "absent" /\ \E e \in Entities, due \in BOOLEAN : jobs'[j] = NewJob(e, due)
    <3>1. jobs'[j].status = "pending" /\ jobs'[j].attempts = 0
      BY <2>1 DEF NewJob
    <3>2. faults'[j] = faults[j] /\ faults[j] \in Nat
      BY DEF IInv, TypeOK
    <3> QED BY <3>1, <3>2
  <2>2. CASE jobs'[j].status = "cancelled" /\ jobs'[j].attempts = jobs[j].attempts
    BY <2>2 DEF IInv, BudgetToSpare
  <2>3. CASE /\ jobs'[j].attempts = jobs[j].attempts /\ jobs'[j].status = jobs[j].status
             /\ jobs'[j].lockedBy = jobs[j].lockedBy /\ jobs'[j].stale = jobs[j].stale
    <3>1. \A w \in Workers : Owns(w, j) => Owns(w, j)' BY <2>3 DEF Owns
    <3>2. Abandoned(j)' => Abandoned(j) BY <3>1 DEF Abandoned
    <3> QED BY <2>3, <3>2 DEF IInv, BudgetToSpare
  <2> QED BY <2>1, <2>2, <2>3 DEF Quiet
<1>7. FailedOnlyWhenExhausted'
  BY DEF IInv, FailedOnlyWhenExhausted, TypeOK, Quiet, NewJob
<1>8. \A j \in Jobs : OutcomeKept(j) /\ EffectsKept(j)
  <2> SUFFICES ASSUME NEW j \in Jobs PROVE OutcomeKept(j) /\ EffectsKept(j)
    OBVIOUS
  <2>1. Quiet(jobs[j], jobs'[j]) OBVIOUS
  <2> QED BY <2>1 DEF Quiet, OutcomeKept, EffectsKept, NewJob
<1>9. ASSUME NEW j \in Jobs PROVE Balanced(j)
  <2>1. Quiet(jobs[j], jobs'[j]) OBVIOUS
  <2>2. Attempting(j)' \subseteq Attempting(j) BY DEF Attempting
  <2> QED BY <2>1, <2>2 DEF Balanced, Left, Quiet, NewJob
<1> QED BY <1>1, <1>2, <1>3, <1>5, <1>6, <1>7, <1>8, <1>9 DEF IInv, SoundStep

-----------------------------------------------------------------------------
(* Every scheduling, cancelling, deferring, resuming and due-time step is  *)
(* quiet.                                                                  *)

\* The cancellation inside schedule, cancel and cancelOrganization is quiet.
LEMMA CancelLiveQuiet ==
  ASSUME TypeOK, NEW E
  PROVE  /\ CancelLive(E) \in [Jobs -> JobRecord]
         /\ \A j \in Jobs : Quiet(jobs[j], CancelLive(E)[j])
  BY DEF TypeOK, CancelLive, Quiet

\* What schedule inserts is a document of the schema.
LEMMA NewJobTyped ==
  ASSUME NEW e \in Entities, NEW due \in BOOLEAN
  PROVE  NewJob(e, due) \in JobRecord
  BY DEF NewJob

\* Steps that leave the documents, the workers and the histories alone.
LEMMA UntouchedStep ==
  ASSUME IInv, TypeOK', UNCHANGED <<jobs, worker, delivered, faults>>
  PROVE  SoundStep
<1>1. \A j \in Jobs : Quiet(jobs[j], jobs'[j])
  BY DEF Quiet, IInv, TypeOK
<1> QED BY <1>1, QuietStep

\* schedule, scheduleMany and cancel, call by call or in a transaction, are sound.
LEMMA ScheduleStep ==
  ASSUME IInv,
         \/ \E c \in Callers : ScheduleCancel(c)
         \/ \E c \in Callers, e \in Entities, j \in Jobs : ScheduleCreate(c, e, j)
         \/ \E e \in Entities : \E past \in SUBSET {e}, j \in Jobs :
               ScheduleInTransaction(e, past, j)
         \/ \E e \in Entities : Cancel(e)
  PROVE  SoundStep
<1> USE DEF IInv
<1>1. ASSUME NEW c \in Callers, ScheduleCancel(c) PROVE SoundStep
  <2>1. jobs' = CancelLive(caller[c].batch) BY <1>1 DEF ScheduleCancel
  <2>2. caller' \in [Callers -> CallerRecord]
    BY <1>1 DEF ScheduleCancel, TypeOK
  <2>3. jobs' \in [Jobs -> JobRecord] BY <2>1, CancelLiveQuiet
  <2>4. UNCHANGED <<worker, access, sync, delivered, faults>> BY <1>1 DEF ScheduleCancel
  <2>5. TypeOK' BY <2>2, <2>3, <2>4 DEF TypeOK
  <2> QED BY <2>1, <2>4, <2>5, CancelLiveQuiet, QuietStep
<1>2. ASSUME NEW c \in Callers, NEW e \in Entities, NEW j \in Jobs, ScheduleCreate(c, e, j)
      PROVE  SoundStep
  <2> DEFINE due == e \in caller[c].past
  <2>1. jobs' = [jobs EXCEPT ![j] = NewJob(e, due)] /\ jobs[j].status = "absent"
    BY <1>2 DEF ScheduleCreate
  <2>2. caller' \in [Callers -> CallerRecord]
    BY <1>2 DEF ScheduleCreate, TypeOK
  <2>3. due \in BOOLEAN OBVIOUS
  <2>4. jobs' \in [Jobs -> JobRecord] BY <2>1, <2>3, NewJobTyped DEF TypeOK
  <2>5. TypeOK' BY <1>2, <2>2, <2>4 DEF ScheduleCreate, TypeOK
  <2>6. \A i \in Jobs : Quiet(jobs[i], jobs'[i]) BY <2>1, <2>3 DEF TypeOK, Quiet
  <2> QED BY <1>2, <2>5, <2>6, QuietStep DEF ScheduleCreate
<1>3. ASSUME NEW e \in Entities, NEW past \in SUBSET {e}, NEW j \in Jobs,
             ScheduleInTransaction(e, past, j)
      PROVE  SoundStep
  <2> DEFINE due == e \in past
  <2>1. UNCHANGED <<worker, caller, access, sync, delivered, faults>>
    BY <1>3 DEF ScheduleInTransaction
  <2>2. \/ jobs' = CancelLive({e})
        \/ jobs[j].status = "absent" /\ jobs' = [CancelLive({e}) EXCEPT ![j] = NewJob(e, due)]
    BY <1>3 DEF ScheduleInTransaction
  <2>3. due \in BOOLEAN OBVIOUS
  <2> DEFINE kept == CancelLive({e})
  <2>k. /\ kept \in [Jobs -> JobRecord]
        /\ \A i \in Jobs : Quiet(jobs[i], kept[i])
    BY CancelLiveQuiet
  <2>n. NewJob(e, due) \in JobRecord BY <2>3, NewJobTyped
  <2>m. \/ jobs' = kept
        \/ jobs[j].status = "absent" /\ jobs' = [kept EXCEPT ![j] = NewJob(e, due)]
    BY <2>2
  <2> HIDE DEF kept, due
  <2>4. jobs' \in [Jobs -> JobRecord] BY <2>m, <2>k, <2>n
  <2>5. TypeOK' BY <2>1, <2>4 DEF TypeOK
  <2>q. jobs[j].status = "absent" => Quiet(jobs[j], NewJob(e, due)) BY <2>3 DEF Quiet
  <2>6. \A i \in Jobs : Quiet(jobs[i], jobs'[i])
    BY <2>m, <2>k, <2>q
  <2> QED BY <2>1, <2>5, <2>6, QuietStep
<1>4. ASSUME NEW e \in Entities, Cancel(e) PROVE SoundStep
  <2>1. TypeOK' BY <1>4, CancelLiveQuiet DEF Cancel, TypeOK
  <2> QED BY <1>4, <2>1, CancelLiveQuiet, QuietStep DEF Cancel
<1> QED BY <1>1, <1>2, <1>3, <1>4

\* So are cancelOrganization, the two maintenance updates and an access sync.
LEMMA MaintenanceStep ==
  ASSUME IInv,
         \/ CancelOrganization
         \/ \E e \in Entities : ResolveFailed(e)
         \/ \E j \in Jobs : RunAtReached(j)
         \/ \E s \in Syncs : ApplySync(s)
  PROVE  SoundStep
<1>1. /\ jobs' \in [Jobs -> JobRecord]
      /\ \A i \in Jobs : Quiet(jobs[i], jobs'[i])
  <2>0. jobs \in [Jobs -> JobRecord] BY DEF IInv, TypeOK
  <2>1. ASSUME CancelOrganization PROVE <1>1!:
    BY <2>0, <2>1 DEF CancelOrganization, Quiet
  <2>2. ASSUME NEW e \in Entities, ResolveFailed(e) PROVE <1>1!:
    BY <2>0, <2>2 DEF ResolveFailed, RetireFailed, Quiet
  <2>3. ASSUME NEW j \in Jobs, RunAtReached(j) PROVE <1>1!:
    BY <2>0, <2>3 DEF RunAtReached, Quiet
  <2>4. ASSUME NEW s \in Syncs, ApplySync(s) PROVE <1>1!:
    <3>1. jobs' = ResumeBackgroundWork \/ jobs' = DeferBackgroundWork
      BY <2>4 DEF ApplySync
    <3>2. CASE jobs' = ResumeBackgroundWork
      BY <2>0, <3>2 DEF ResumeBackgroundWork, Quiet
    <3>3. CASE jobs' = DeferBackgroundWork
      BY <2>0, <3>3 DEF DeferBackgroundWork, Quiet
    <3> QED BY <3>1, <3>2, <3>3
  <2> QED BY <2>1, <2>2, <2>3, <2>4
<1>2. UNCHANGED <<worker, caller, access, delivered, faults>>
  BY DEF CancelOrganization, ResolveFailed, RunAtReached, ApplySync
<1>3. sync' \in [Syncs -> {"idle", "resume", "defer"}]
  BY DEF IInv, TypeOK, CancelOrganization, ResolveFailed, RunAtReached, ApplySync
<1>4. TypeOK' BY <1>1, <1>2, <1>3 DEF IInv, TypeOK
<1> QED BY <1>1, <1>2, <1>4, QuietStep

\* Steps of callers and of access transitions that write no job.
LEMMA ElsewhereStep ==
  ASSUME IInv,
         \/ \E c \in Callers, e \in Entities : \E past \in SUBSET {e} : ScheduleCheck(c, e, past)
         \/ \E c \in Callers, E \in SUBSET Entities : \E past \in SUBSET E :
               ScheduleManyCheck(c, E, past)
         \/ \E c \in Callers : CallerAborts(c)
         \/ \E s \in Syncs, a \in {"active", "locked"} : ChangeAccess(s, a)
         \/ \E s \in Syncs : ReadAccess(s) \/ SyncFails(s)
         \/ StartDeletion
  PROVE  SoundStep
<1>1. UNCHANGED <<jobs, worker, delivered, faults>>
  BY DEF ScheduleCheck, ScheduleManyCheck, CallerAborts, ChangeAccess, ReadAccess,
         SyncFails, StartDeletion
<1>2. TypeOK'
  BY DEF IInv, TypeOK, ScheduleCheck, ScheduleManyCheck, CallerAborts, ChangeAccess,
         ReadAccess, SyncFails, StartDeletion
<1> QED BY <1>1, <1>2, UntouchedStep

-----------------------------------------------------------------------------
(* The worker's own steps.                                                 *)

\* Updates of a record stay in its type (the types are opaque from here on).
HIDE DEF Statuses, WorkerStates, JobRecord, WorkerRecord, CallerRecord, Live

\* A worker that goes on to another point of processOne.
LEMMA WorkerMoved ==
  ASSUME NEW r \in WorkerRecord, NEW pc \in WorkerStates
  PROVE  /\ [r EXCEPT !.pc = pc] \in WorkerRecord
         /\ [r EXCEPT !.pc = pc].pc = pc
  BY DEF WorkerRecord

\* The document that claimOne leaves, and what its worker remembers of it.
LEMMA JobClaimed ==
  ASSUME NEW r \in JobRecord, NEW t \in Tokens, NEW j \in Jobs
  PROVE  /\ Claimed(r, t) \in JobRecord
         /\ Claimed(r, t).status = "processing" /\ Claimed(r, t).lockedBy = t
         /\ Claimed(r, t).stale = FALSE /\ Claimed(r, t).deferred = r.deferred
         /\ Claimed(r, t).attempts = r.attempts + 1
         /\ r.attempts \in Nat
         /\ Holding(Claimed(r, t), j, t) \in WorkerRecord
<1>1. r.attempts + 1 \in Nat /\ r.attempts \in Nat BY DEF JobRecord
<1>2. "processing" \in Statuses BY DEF Statuses, Live
<1>3. Claimed(r, t) \in JobRecord BY <1>1, <1>2 DEF JobRecord, Claimed
<1>4. /\ Claimed(r, t).status = "processing" /\ Claimed(r, t).lockedBy = t
      /\ Claimed(r, t).stale = FALSE /\ Claimed(r, t).deferred = r.deferred
      /\ Claimed(r, t).attempts = r.attempts + 1
  BY DEF JobRecord, Claimed
<1>5. Holding(Claimed(r, t), j, t) \in WorkerRecord
  BY <1>1, <1>4 DEF WorkerRecord, WorkerStates, Holding
<1> QED BY <1>1, <1>3, <1>4, <1>5

\* claimOne is sound: the fresh token is nobody's, and the budget had one to spare.
LEMMA ClaimStep ==
  ASSUME IInv, NEW w \in Workers, NEW j \in Jobs, NEW t \in Tokens, Claim(w, j, t)
  PROVE  SoundStep
<1> USE AttemptsAssumption, TokenAssumption, EntityAssumption
<1>0. /\ TypeOK /\ jobs \in [Jobs -> JobRecord] /\ worker \in [Workers -> WorkerRecord]
      /\ faults \in [Jobs -> Nat]
  BY DEF IInv, TypeOK
<1>1. /\ jobs' = [jobs EXCEPT ![j] = Claimed(jobs[j], t)]
      /\ worker' = [worker EXCEPT ![w] = Holding(Claimed(jobs[j], t), j, t)]
      /\ UNCHANGED <<caller, access, sync, delivered, faults>>
      /\ Claimable(j) /\ Fresh(t) /\ worker[w].pc = "idle"
  BY DEF Claim
<1>b. jobs[j] \in JobRecord /\ faults[j] \in Nat BY <1>0
<1>c. /\ Claimed(jobs[j], t) \in JobRecord
      /\ Claimed(jobs[j], t).status = "processing" /\ Claimed(jobs[j], t).lockedBy = t
      /\ Claimed(jobs[j], t).stale = FALSE
      /\ Claimed(jobs[j], t).deferred = jobs[j].deferred
      /\ Claimed(jobs[j], t).attempts = jobs[j].attempts + 1
      /\ jobs[j].attempts \in Nat
      /\ Holding(Claimed(jobs[j], t), j, t) \in WorkerRecord
  BY <1>b, JobClaimed
<1>2. TypeOK'
  <2>1. jobs' \in [Jobs -> JobRecord] BY <1>0, <1>1, <1>c
  <2>2. worker' \in [Workers -> WorkerRecord] BY <1>0, <1>1, <1>c
  <2> QED BY <2>1, <2>2, <1>0, <1>1 DEF TypeOK
<1>3. /\ \A i \in Jobs \ {j} : jobs'[i] = jobs[i]
      /\ \A v \in Workers \ {w} : worker'[v] = worker[v]
      /\ jobs'[j].status = "processing" /\ jobs'[j].lockedBy = t
      /\ jobs'[j].stale = FALSE /\ jobs'[j].attempts = jobs[j].attempts + 1
      /\ jobs'[j].deferred = jobs[j].deferred
      /\ worker'[w].pc = "claimed" /\ worker'[w].job = j /\ worker'[w].token = t
      /\ worker'[w].attempts = jobs[j].attempts + 1
  BY <1>0, <1>1, <1>c DEF Holding
<1>4. WorkerShape'
  <2> SUFFICES ASSUME NEW v \in Workers PROVE WorkerShape!(v)'
    BY DEF WorkerShape
  <2>1. CASE v = w BY <2>1, <1>3
  <2>2. CASE v # w
    <3>1. WorkerShape!(v) BY DEF IInv, WorkerShape
    <3>2. worker'[v] = worker[v] BY <2>2, <1>3
    <3> QED BY <3>1, <3>2, <1>3
  <2> QED BY <2>1, <2>2
<1>5. TokensUnique' BY <1>0, <1>1, <1>3 DEF IInv, TokensUnique, Fresh
<1>6. ClaimCounted' BY <1>0, <1>1, <1>3, <1>c DEF IInv, ClaimCounted, Claimable
<1>7. ASSUME NEW v \in Workers, NEW i \in Jobs, Owns(v, i)'
      PROVE  (v = w /\ i = j) \/ (v # w /\ i # j /\ Owns(v, i))
  <2>1. worker'[v].job = i /\ jobs'[i].status = "processing"
          /\ jobs'[i].lockedBy = worker'[v].token
    BY <1>7 DEF Owns
  <2>2. CASE v = w BY <2>1, <2>2, <1>3
  <2>3. CASE v # w
    <3>1. worker'[v] = worker[v] /\ worker[v].token # t
      BY <2>3, <1>1, <1>3 DEF Fresh
    <3>2. i # j BY <2>1, <3>1, <1>3
    <3> QED BY <2>1, <2>3, <3>1, <3>2, <1>3 DEF Owns
  <2> QED BY <2>2, <2>3
<1>8. OwnerKnows' BY <1>1, <1>3, <1>7 DEF IInv, OwnerKnows
<1>9. Owns(w, j)' BY <1>3 DEF Owns
<1>10. ASSUME NEW i \in Jobs PROVE BudgetToSpare!(i)'
  <2>1. CASE i = j
    <3>1. jobs[j].attempts < MaxAttempts + faults[j]
      BY <1>1 DEF IInv, BudgetToSpare, Claimable
    <3>2. ~Abandoned(j)' BY <1>9 DEF Abandoned
    <3> QED BY <2>1, <3>1, <3>2, <1>b, <1>c, <1>1, <1>3
  <2>2. CASE i # j
    <3>1. ASSUME NEW v \in Workers, Owns(v, i) PROVE Owns(v, i)'
      BY <2>2, <3>1, <1>1, <1>3, <1>0, TokenAssumption DEF Owns, IInv, WorkerShape
    <3>2. Abandoned(i)' => Abandoned(i) BY <3>1 DEF Abandoned
    <3> QED BY <2>2, <3>2, <1>1, <1>3 DEF IInv, BudgetToSpare
  <2> QED BY <2>1, <2>2
<1>11. BudgetToSpare' BY <1>10 DEF BudgetToSpare
<1>12. FailedOnlyWhenExhausted' BY <1>3 DEF IInv, FailedOnlyWhenExhausted
<1>13. \A i \in Jobs : OutcomeKept(i) /\ EffectsKept(i)
  BY <1>1, <1>3 DEF OutcomeKept, EffectsKept, Claimable, Live
<1>14. ASSUME NEW i \in Jobs PROVE Balanced(i)
  <2>1. CASE i = j
    <3>1. Attempting(i)' \subseteq Attempting(i) \cup {w} BY <1>3 DEF Attempting
    <3> QED BY <2>1, <3>1, <1>1, <1>3 DEF Balanced, Started
  <2>2. CASE i # j
    <3>1. Attempting(i)' \subseteq Attempting(i) BY <2>2, <1>3 DEF Attempting
    <3> QED BY <2>2, <3>1, <1>1, <1>3 DEF Balanced, Left
  <2> QED BY <2>1, <2>2
<1> QED BY <1>2, <1>4, <1>5, <1>6, <1>8, <1>11, <1>12, <1>13, <1>14 DEF IInv, SoundStep

\* CheckClaim, CheckAccess and Deliver move the worker's control only.
LEMMA ControlStep ==
  ASSUME IInv, NEW w \in Workers,
         \/ CheckClaim(w)
         \/ CheckAccess(w)
         \/ \E seen, throws \in BOOLEAN : Deliver(w, seen, throws)
  PROVE  SoundStep
<1> USE AttemptsAssumption, TokenAssumption, EntityAssumption
<1>0. /\ TypeOK /\ worker \in [Workers -> WorkerRecord] /\ delivered \in [Jobs -> Nat]
      /\ worker[w].pc # "idle" /\ worker[w].job \in Jobs
  BY DEF IInv, TypeOK, WorkerShape, CheckClaim, CheckAccess, Deliver
<1>1. UNCHANGED <<jobs, caller, access, sync, faults>>
  BY DEF CheckClaim, CheckAccess, Deliver
<1>m. \E pc \in WorkerStates \ {"idle", "superseding"} :
        /\ worker' = [worker EXCEPT ![w].pc = pc]
        /\ pc = "returned" => \/ ~Owns(w, worker[w].job)
                             \/ delivered'[worker[w].job] >= 1
  <2>1. CASE CheckClaim(w)
    <3>1. CASE Owns(w, worker[w].job)
      <4>1. worker' = [worker EXCEPT ![w].pc = "admitted"]
        BY <2>1, <3>1 DEF CheckClaim, MoveTo
      <4>2. "admitted" \in WorkerStates \ {"idle", "superseding"} BY DEF WorkerStates
      <4>3. "admitted" # "returned" OBVIOUS
      <4> QED BY <4>1, <4>2, <4>3, Zenon
    <3>2. CASE ~Owns(w, worker[w].job)
      <4>1. worker' = [worker EXCEPT ![w].pc = "returned"]
        BY <2>1, <3>2 DEF CheckClaim, MoveTo
      <4>2. "returned" \in WorkerStates \ {"idle", "superseding"} BY DEF WorkerStates
      <4> QED BY <3>2, <4>1, <4>2, Zenon
    <3> QED BY <3>1, <3>2
  <2>2. CASE CheckAccess(w)
    BY <2>2, <1>0 DEF CheckAccess, MoveTo, WorkerStates
  <2>3. ASSUME NEW seen \in BOOLEAN, NEW throws \in BOOLEAN, Deliver(w, seen, throws)
        PROVE  <1>m!:
    <3>1. throws \/ delivered'[worker[w].job] >= 1
      BY <2>3, <1>0 DEF Deliver
    <3>2. CASE throws
      <4>1. worker' = [worker EXCEPT ![w].pc = "errored"]
        BY <2>3, <3>2 DEF Deliver, MoveTo
      <4>2. "errored" \in WorkerStates \ {"idle", "superseding"} BY DEF WorkerStates
      <4>3. "errored" # "returned" OBVIOUS
      <4> QED BY <4>1, <4>2, <4>3, Zenon
    <3>3. CASE ~throws BY <2>3, <3>1, <3>3 DEF Deliver, MoveTo, WorkerStates
    <3> QED BY <3>2, <3>3
  <2> QED BY <2>1, <2>2, <2>3
<1>2. PICK pc \in WorkerStates \ {"idle", "superseding"} :
        /\ worker' = [worker EXCEPT ![w].pc = pc]
        /\ pc = "returned" => \/ ~Owns(w, worker[w].job)
                             \/ delivered'[worker[w].job] >= 1
  BY <1>m
<1>3. /\ delivered' \in [Jobs -> Nat]
      /\ \A j \in Jobs : delivered'[j] >= delivered[j] /\ EffectsKept(j)
  BY <1>0 DEF CheckClaim, CheckAccess, Deliver, EffectsKept, IInv, WorkerShape
<1>4. TypeOK'
  <2>1. [worker[w] EXCEPT !.pc = pc] \in WorkerRecord BY <1>0, WorkerMoved
  <2>2. worker' = [worker EXCEPT ![w] = [worker[w] EXCEPT !.pc = pc]] BY <1>2
  <2>3. worker' \in [Workers -> WorkerRecord] BY <1>0, <2>1, <2>2
  <2> QED BY <2>3, <1>0, <1>1, <1>3 DEF TypeOK
<1>5. /\ \A v \in Workers \ {w} : worker'[v] = worker[v]
      /\ worker'[w].pc = pc /\ worker'[w].job = worker[w].job
      /\ worker'[w].token = worker[w].token /\ worker'[w].attempts = worker[w].attempts
  BY <1>0, <1>2
<1>6. WorkerShape' BY <1>0, <1>1, <1>2, <1>5 DEF IInv, WorkerShape
<1>7. TokensUnique' BY <1>0, <1>2, <1>5 DEF IInv, TokensUnique
<1>8. ASSUME NEW v \in Workers, NEW j \in Jobs PROVE Owns(v, j)' <=> Owns(v, j)
  BY <1>1, <1>5 DEF Owns
<1>9. ASSUME NEW v \in Workers, NEW j \in Jobs, Owns(v, j)'
      PROVE  /\ worker'[v].attempts = jobs'[j].attempts
             /\ worker'[v].pc = "returned" => delivered'[j] >= 1
             /\ worker'[v].pc # "superseding"
  <2>1. Owns(v, j) BY <1>8, <1>9
  <2>2. worker[v].attempts = jobs[j].attempts /\ (worker[v].pc = "returned" => delivered[j] >= 1)
          /\ worker[v].pc # "superseding"
    BY <2>1 DEF IInv, OwnerKnows
  <2>3. CASE v = w
    BY <2>1, <2>2, <2>3, <1>1, <1>2, <1>5 DEF Owns
  <2>4. CASE v # w
    BY <2>2, <2>4, <1>0, <1>1, <1>3, <1>5
  <2> QED BY <2>3, <2>4
<1>10. OwnerKnows' BY <1>9 DEF OwnerKnows
<1>11. \A j \in Jobs : Abandoned(j)' <=> Abandoned(j) BY <1>8 DEF Abandoned
<1>12. BudgetToSpare' BY <1>1, <1>11 DEF IInv, BudgetToSpare
<1>13. ClaimCounted' /\ FailedOnlyWhenExhausted'
  BY <1>1 DEF IInv, ClaimCounted, FailedOnlyWhenExhausted
<1>14. \A j \in Jobs : OutcomeKept(j) BY <1>1 DEF OutcomeKept
<1>15. ASSUME NEW i \in Jobs PROVE Balanced(i)
  <2>1. CASE CheckClaim(w) \/ CheckAccess(w)
    <3>1. worker[w].pc \in {"claimed", "admitted"} /\ delivered' = delivered
      BY <2>1 DEF CheckClaim, CheckAccess
    <3>2. Attempting(i)' \subseteq Attempting(i) BY <3>1, <1>5 DEF Attempting
    <3> QED BY <3>1, <3>2, <1>1 DEF Balanced, Left
  <2>2. ASSUME NEW seen \in BOOLEAN, NEW throws \in BOOLEAN, Deliver(w, seen, throws)
        PROVE  Balanced(i)
    <3>1. /\ worker[w].pc = "running"
          /\ worker' = [worker EXCEPT ![w].pc = IF throws THEN "errored" ELSE "returned"]
      BY <2>2, Zenon DEF Deliver, MoveTo
    <3>2. worker'[w].pc \in {"errored", "returned"} BY <3>1, <1>0, <1>5
    <3>3. Attempting(i)' \subseteq Attempting(i) \ {w} BY <3>2, <1>5 DEF Attempting
    <3>4. \/ delivered'[i] = delivered[i]
          \/ i = worker[w].job /\ delivered'[i] = delivered[i] + 1
      BY <2>2, <1>0 DEF Deliver
    <3>5. CASE delivered'[i] = delivered[i] BY <3>3, <3>5, <1>1 DEF Balanced, Left
    <3>6. CASE i = worker[w].job /\ delivered'[i] = delivered[i] + 1
      <4>1. w \in Attempting(i) BY <3>1, <3>6 DEF Attempting
      <4> QED BY <3>3, <3>6, <4>1, <1>1 DEF Balanced, Ended
    <3> QED BY <3>4, <3>5, <3>6
  <2> QED BY <2>1, <2>2
<1> QED BY <1>3, <1>4, <1>6, <1>7, <1>10, <1>12, <1>13, <1>14, <1>15 DEF IInv, SoundStep

\* The worker gives up whatever it holds: an acknowledgement writes r to the
\* document if the claim still matches, and nothing otherwise.
LEMMA ReleaseStep ==
  ASSUME IInv, NEW w \in Workers, NEW r, worker[w].pc # "idle",
         Owns(w, worker[w].job) =>
           /\ r \in JobRecord
           /\ r.status \in {"completed", "pending", "failed"}
           /\ r.status = "pending" => r.attempts < MaxAttempts + faults[worker[w].job]
           /\ r.attempts <= MaxAttempts + faults[worker[w].job]
           /\ r.status = "failed" => r.attempts >= MaxAttempts
           /\ r.status = "completed" => delivered[worker[w].job] >= 1
           /\ \/ r.attempts = jobs[worker[w].job].attempts
              \/ w \in Attempting(worker[w].job) /\ r.attempts = jobs[worker[w].job].attempts - 1,
         jobs' = IF Owns(w, worker[w].job) THEN [jobs EXCEPT ![worker[w].job] = r]
                 ELSE jobs,
         \/ worker' = [worker EXCEPT ![w] = IdleWorker]
         \/ worker' = [worker EXCEPT ![w].pc = "superseding"],
         UNCHANGED <<caller, access, sync, delivered, faults>>
  PROVE  SoundStep
<1> USE AttemptsAssumption, TokenAssumption, EntityAssumption
<1> DEFINE j == worker[w].job
<1>0. /\ TypeOK /\ worker \in [Workers -> WorkerRecord] /\ jobs \in [Jobs -> JobRecord]
      /\ j \in Jobs /\ worker[w].token \in Tokens /\ jobs[j].status # "absent"
  BY DEF IInv, TypeOK, WorkerShape
<1>1. \/ Owns(w, j) /\ jobs' = [jobs EXCEPT ![j] = r]
      \/ ~Owns(w, j) /\ jobs' = jobs
  OBVIOUS
<1>2. /\ \A v \in Workers \ {w} : worker'[v] = worker[v]
      /\ \/ worker'[w] = IdleWorker
         \/ /\ worker'[w].pc = "superseding" /\ worker'[w].job = j
            /\ worker'[w].token = worker[w].token
            /\ worker'[w] \in WorkerRecord
  <2>1. "superseding" \in WorkerStates BY DEF WorkerStates
  <2>2. [worker[w] EXCEPT !.pc = "superseding"] \in WorkerRecord
    BY <1>0, <2>1, WorkerMoved
  <2>3. CASE worker' = [worker EXCEPT ![w] = IdleWorker] BY <1>0, <2>3
  <2>4. CASE worker' = [worker EXCEPT ![w].pc = "superseding"]
    <3>1. worker' = [worker EXCEPT ![w] = [worker[w] EXCEPT !.pc = "superseding"]]
      BY <2>4
    <3>2. worker'[w] = [worker[w] EXCEPT !.pc = "superseding"] BY <1>0, <3>1
    <3>3. worker'[w].pc = "superseding" /\ worker'[w].job = j
            /\ worker'[w].token = worker[w].token
      BY <1>0, <2>4 DEF WorkerRecord
    <3> QED BY <1>0, <2>2, <2>4, <3>2, <3>3
  <2> QED BY <2>3, <2>4
<1>3. TypeOK'
  <2>1. jobs' \in [Jobs -> JobRecord] BY <1>0, <1>1
  <2>2. IdleWorker \in WorkerRecord BY DEF WorkerRecord, WorkerStates
  <2>3. worker' \in [Workers -> WorkerRecord] BY <1>0, <1>2, <2>2
  <2> QED BY <1>0, <2>1, <2>3 DEF TypeOK
<1>4. \A i \in Jobs : i # j => jobs'[i] = jobs[i]
  BY <1>0, <1>1
<1>5. jobs[j] # jobs'[j] =>
        /\ jobs'[j].status \in {"completed", "pending", "failed"}
        /\ jobs'[j] = r /\ Owns(w, j)
  BY <1>0, <1>1
<1>6. \A i \in Jobs : jobs[i].status # "absent" => jobs'[i].status # "absent"
  BY <1>4, <1>5
<1>7. WorkerShape'
  <2> SUFFICES ASSUME NEW v \in Workers PROVE WorkerShape!(v)'
    BY DEF WorkerShape
  <2>1. CASE v = w BY <2>1, <1>0, <1>2, <1>6
  <2>2. CASE v # w
    <3>1. WorkerShape!(v) BY DEF IInv, WorkerShape
    <3> QED BY <2>2, <3>1, <1>2, <1>6
  <2> QED BY <2>1, <2>2
<1>8. TokensUnique' BY <1>2 DEF IInv, TokensUnique
<1>9. ASSUME NEW i \in Jobs PROVE ~Owns(w, i)'
  <2>1. CASE worker'[w] = IdleWorker BY <2>1 DEF Owns
  <2>2. CASE worker'[w].job = j /\ worker'[w].token = worker[w].token
    <3>1. CASE Owns(w, j)
      <4>1. jobs'[j].status # "processing" BY <3>1, <1>0, <1>1
      <4> QED BY <2>2, <4>1 DEF Owns
    <3>2. CASE ~Owns(w, j)
      <4>1. jobs' = jobs BY <3>2, <1>1
      <4> QED BY <2>2, <3>2, <4>1 DEF Owns
    <3> QED BY <3>1, <3>2
  <2> QED BY <2>1, <2>2, <1>2
<1>10. ASSUME NEW v \in Workers, NEW i \in Jobs, Owns(v, i)'
       PROVE  v # w /\ Owns(v, i) /\ jobs'[i] = jobs[i]
  <2>1. v # w /\ worker'[v] = worker[v] BY <1>9, <1>10, <1>2
  <2>2. jobs'[i] = jobs[i] BY <1>10, <1>4, <1>5 DEF Owns
  <2> QED BY <2>1, <2>2, <1>10 DEF Owns
<1>11. OwnerKnows' BY <1>2, <1>10 DEF IInv, OwnerKnows
<1>12. ClaimCounted' BY <1>4, <1>5 DEF IInv, ClaimCounted
<1>13. FailedOnlyWhenExhausted' BY <1>4, <1>5 DEF IInv, FailedOnlyWhenExhausted
<1>14. ASSUME NEW i \in Jobs PROVE BudgetToSpare!(i)'
  <2>1. CASE jobs'[i] = jobs[i]
    <3>1. ASSUME Abandoned(i)', jobs[i].status = "processing" PROVE Abandoned(i)
      <4>1. ASSUME NEW v \in Workers, Owns(v, i) PROVE FALSE
        <5>1. CASE v = w
          <6>1. i = j /\ Owns(w, j) BY <4>1, <5>1 DEF Owns
          <6>2. jobs'[j].status # "processing" BY <6>1, <1>0, <1>1
          <6> QED BY <6>1, <6>2, <2>1, <3>1
        <5>2. CASE v # w
          <6>1. Owns(v, i)' BY <4>1, <5>2, <2>1, <1>2 DEF Owns
          <6> QED BY <6>1, <3>1 DEF Abandoned
        <5> QED BY <5>1, <5>2
      <4> QED BY <4>1 DEF Abandoned
    <3> QED BY <2>1, <3>1 DEF IInv, BudgetToSpare
  <2>2. CASE jobs'[i] # jobs[i]
    <3>1. i = j /\ jobs'[i] = r /\ Owns(w, j) BY <2>2, <1>4, <1>5
    <3> QED BY <3>1
  <2> QED BY <2>1, <2>2
<1>15. BudgetToSpare' BY <1>14 DEF BudgetToSpare
<1>16. \A i \in Jobs : EffectsKept(i) BY DEF EffectsKept
<1>17. ASSUME NEW i \in Jobs PROVE OutcomeKept(i)
  <2>1. CASE i = j /\ Owns(w, j)
    <3>1. jobs'[j] = r /\ jobs[j].status = "processing"
      BY <2>1, <1>0, <1>1 DEF Owns
    <3> QED BY <2>1, <3>1 DEF OutcomeKept, Live
  <2>2. CASE ~(i = j /\ Owns(w, j))
    <3>1. jobs'[i] = jobs[i] BY <2>2, <1>4, <1>5
    <3> QED BY <3>1 DEF OutcomeKept
  <2> QED BY <2>1, <2>2
<1>18. ASSUME NEW i \in Jobs PROVE Balanced(i)
  <2>1. Attempting(i)' \subseteq Attempting(i) \ {w} BY <1>2 DEF Attempting
  <2>2. jobs'[i].status = "absent" => jobs'[i] = jobs[i] BY <1>4, <1>5
  <2>3. CASE jobs'[i].attempts = jobs[i].attempts BY <2>1, <2>2, <2>3 DEF Balanced, Left
  <2>4. CASE jobs'[i].attempts # jobs[i].attempts
    <3>1. i = j /\ jobs'[i] = r /\ Owns(w, j) BY <2>4, <1>4, <1>5
    <3>2. w \in Attempting(i) /\ jobs'[i].attempts = jobs[i].attempts - 1 BY <2>4, <3>1
    <3> QED BY <2>1, <2>2, <3>2 DEF Balanced, Ended
  <2> QED BY <2>3, <2>4
<1> QED BY <1>3, <1>7, <1>8, <1>11, <1>12, <1>13, <1>15, <1>16, <1>17, <1>18 DEF IInv, SoundStep

\* What an acknowledgement writes is a document without a claim.
LEMMA JobReleased ==
  ASSUME NEW r \in JobRecord
  PROVE  /\ [r EXCEPT !.lockedBy = NoToken, !.stale = FALSE] \in JobRecord
         /\ [r EXCEPT !.lockedBy = NoToken, !.stale = FALSE].status = r.status
         /\ [r EXCEPT !.lockedBy = NoToken, !.stale = FALSE].attempts = r.attempts
  BY DEF JobRecord

\* The three acknowledgements of processOne are sound, by the owner of the claim or by
\* a worker that has lost it.
LEMMA AckStep ==
  ASSUME IInv, NEW w \in Workers, Complete(w) \/ Defer(w) \/ Fail(w)
  PROVE  SoundStep
<1> USE AttemptsAssumption, TokenAssumption, EntityAssumption
<1> DEFINE j == worker[w].job
<1>0. /\ TypeOK /\ worker \in [Workers -> WorkerRecord] /\ jobs \in [Jobs -> JobRecord]
      /\ faults \in [Jobs -> Nat]
      /\ worker[w].pc # "idle" /\ j \in Jobs
  BY DEF IInv, TypeOK, WorkerShape, Complete, Defer, Fail
<1>1. jobs[j] \in JobRecord /\ jobs[j].attempts \in Nat /\ faults[j] \in Nat
        /\ jobs[j].due \in BOOLEAN /\ jobs[j].deferred \in BOOLEAN
  BY <1>0 DEF JobRecord
<1>2. /\ jobs[j].attempts <= MaxAttempts + faults[j]
      /\ Owns(w, j) => jobs[j].attempts >= 1 /\ worker[w].attempts = jobs[j].attempts
  BY <1>0 DEF IInv, BudgetToSpare, ClaimCounted, OwnerKnows, Owns
<1>r. ASSUME NEW q \in JobRecord, q.status \in {"completed", "pending", "failed"},
             Acknowledge(w, q),
             Owns(w, j) =>
               /\ q.status = "pending" => q.attempts < MaxAttempts + faults[j]
               /\ q.attempts <= MaxAttempts + faults[j]
               /\ q.status = "failed" => q.attempts >= MaxAttempts
               /\ q.status = "completed" => delivered[j] >= 1
               /\ \/ q.attempts = jobs[j].attempts
                  \/ w \in Attempting(j) /\ q.attempts = jobs[j].attempts - 1,
             \/ worker' = [worker EXCEPT ![w] = IdleWorker]
             \/ worker' = [worker EXCEPT ![w].pc = "superseding"],
             UNCHANGED <<caller, access, sync, delivered, faults>>
      PROVE  SoundStep
  <2> DEFINE r == [q EXCEPT !.lockedBy = NoToken, !.stale = FALSE]
  <2>1. r \in JobRecord /\ r.status = q.status /\ r.attempts = q.attempts
    BY <1>r, JobReleased
  <2>2. jobs' = IF Owns(w, j) THEN [jobs EXCEPT ![j] = r] ELSE jobs
    BY <1>r DEF Acknowledge
  <2> HIDE DEF r
  <2> QED BY <1>0, <1>r, <2>1, <2>2, ReleaseStep
<1>3. CASE Complete(w)
  <2> DEFINE q == [jobs[j] EXCEPT !.status = "completed"]
  <2>1. q \in JobRecord /\ q.status = "completed" /\ q.attempts = jobs[j].attempts
    BY <1>1 DEF JobRecord, Statuses, Live
  <2>2. Acknowledge(w, q) BY <1>3 DEF Complete
  <2>3. \/ worker' = [worker EXCEPT ![w] = IdleWorker]
        \/ worker' = [worker EXCEPT ![w].pc = "superseding"]
    BY <1>3 DEF Complete, MoveTo
  <2>4. UNCHANGED <<caller, access, sync, delivered, faults>> BY <1>3 DEF Complete
  <2>5. Owns(w, j) => delivered[j] >= 1 BY <1>0, <1>3 DEF Complete, IInv, OwnerKnows
  <2> HIDE DEF q
  <2> QED BY <1>2, <1>r, <2>1, <2>2, <2>3, <2>4, <2>5
<1>4. CASE Defer(w) /\ Owns(w, j)
  <2> DEFINE q == [jobs[j] EXCEPT !.status = "pending", !.deferred = TRUE,
                                  !.attempts = @ - 1]
  <2>0. jobs[j].attempts - 1 \in Nat BY <1>1, <1>2, <1>4
  <2>1. q \in JobRecord /\ q.status = "pending" /\ q.attempts = jobs[j].attempts - 1
    BY <1>1, <2>0 DEF JobRecord, Statuses, Live
  <2>2. Acknowledge(w, q) BY <1>4 DEF Defer
  <2>3. worker' = [worker EXCEPT ![w] = IdleWorker] BY <1>4 DEF Defer
  <2>4. UNCHANGED <<caller, access, sync, delivered, faults>> BY <1>4 DEF Defer
  <2>6. w \in Attempting(j) BY <1>4 DEF Defer, Attempting
  <2> HIDE DEF q
  <2>5. q.attempts < MaxAttempts + faults[j] /\ q.attempts <= MaxAttempts + faults[j]
    BY <1>1, <1>2, <2>1
  <2> QED BY <1>r, <2>1, <2>2, <2>3, <2>4, <2>5, <2>6
<1>5. CASE Fail(w) /\ Owns(w, j)
  <2> DEFINE status == IF Spent(worker[w].attempts) THEN "failed" ELSE "pending"
             q == [jobs[j] EXCEPT !.due = FALSE, !.status = status]
  <2>0. status \in {"completed", "pending", "failed"} OBVIOUS
  <2>5. status # "completed" OBVIOUS
  <2>s. /\ status = "failed" => jobs[j].attempts >= MaxAttempts
        /\ status = "pending" => jobs[j].attempts < MaxAttempts + faults[j]
    BY <1>1, <1>2, <1>5 DEF Spent
  <2>2. Acknowledge(w, q) BY <1>5 DEF Fail
  <2>3. worker' = [worker EXCEPT ![w] = IdleWorker] BY <1>5 DEF Fail
  <2>4. UNCHANGED <<caller, access, sync, delivered, faults>> BY <1>5 DEF Fail
  <2> HIDE DEF status
  <2>1. q \in JobRecord /\ q.status = status /\ q.attempts = jobs[j].attempts
    BY <1>1, <2>0 DEF JobRecord, Statuses, Live
  <2> HIDE DEF q
  <2> QED BY <1>2, <1>r, <2>0, <2>5, <2>s, <2>1, <2>2, <2>3, <2>4
<1>6. CASE (Defer(w) \/ Fail(w)) /\ ~Owns(w, j)
  <2>1. jobs' = jobs /\ worker' = [worker EXCEPT ![w] = IdleWorker]
          /\ UNCHANGED <<caller, access, sync, delivered, faults>>
    BY <1>6 DEF Defer, Fail, Acknowledge
  <2> QED BY <1>0, <1>6, <2>1, ReleaseStep
<1> QED BY <1>3, <1>4, <1>5, <1>6

\* A worker that retires dead jobs holds no claim.
LEMMA SupersedeStep ==
  ASSUME IInv, NEW w \in Workers, SupersedeFailed(w)
  PROVE  SoundStep
<1> DEFINE retired == RetireFailed(jobs[worker[w].job].entity, worker[w].job)
<1>0. /\ TypeOK /\ worker \in [Workers -> WorkerRecord] /\ jobs \in [Jobs -> JobRecord]
  BY DEF IInv, TypeOK
<1>1. /\ jobs' = retired /\ worker' = [worker EXCEPT ![w] = IdleWorker]
      /\ UNCHANGED <<caller, access, sync, delivered, faults>>
      /\ worker[w].pc = "superseding"
  BY DEF SupersedeFailed
<1>2. retired \in [Jobs -> JobRecord]
  BY <1>0 DEF RetireFailed, JobRecord, Statuses, Live
<1>3. \A j \in Jobs : Quiet(jobs[j], retired[j])
  <2> SUFFICES ASSUME NEW j \in Jobs PROVE Quiet(jobs[j], retired[j])
    OBVIOUS
  <2>1. \/ retired[j] = jobs[j]
        \/ jobs[j].status = "failed" /\ retired[j] = [jobs[j] EXCEPT !.status = "cancelled"]
    BY DEF RetireFailed
  <2>2. jobs[j] \in JobRecord BY <1>0
  <2>3. CASE retired[j] = jobs[j] BY <2>3 DEF Quiet
  <2>4. CASE jobs[j].status = "failed" /\ retired[j] = [jobs[j] EXCEPT !.status = "cancelled"]
    <3>1. retired[j].status = "cancelled" /\ retired[j].attempts = jobs[j].attempts
      BY <2>2, <2>4 DEF JobRecord
    <3> QED BY <2>4, <3>1 DEF Quiet
  <2> QED BY <2>1, <2>3, <2>4
<1>4. IdleWorker \in WorkerRecord BY DEF WorkerRecord, WorkerStates
<1> HIDE DEF retired
<1>5. TypeOK' BY <1>0, <1>1, <1>2, <1>4 DEF TypeOK
<1>6. \A j \in Jobs : ~Owns(w, j) BY <1>1 DEF IInv, OwnerKnows
<1>7. \A v \in Workers : \/ worker'[v] = worker[v]
                         \/ worker'[v] = IdleWorker /\ \A j \in Jobs : ~Owns(v, j)
  BY <1>0, <1>1, <1>6
<1> QED BY <1>1, <1>3, <1>5, <1>7, QuietStep

\* A crash leaves the claim on the document and pays for it with a fault.
LEMMA CrashStep ==
  ASSUME IInv, NEW w \in Workers, Crash(w)
  PROVE  SoundStep
<1> USE AttemptsAssumption, TokenAssumption, EntityAssumption
<1> DEFINE j == worker[w].job
<1>0. /\ TypeOK /\ worker \in [Workers -> WorkerRecord] /\ jobs \in [Jobs -> JobRecord]
      /\ faults \in [Jobs -> 0 .. MaxFaults] /\ j \in Jobs
  BY DEF IInv, TypeOK, WorkerShape, Crash
<1>1. /\ faults[j] < MaxFaults /\ faults' = [faults EXCEPT ![j] = faults[j] + 1]
      /\ worker' = [worker EXCEPT ![w] = IdleWorker]
      /\ UNCHANGED <<jobs, caller, access, sync, delivered>>
  BY DEF Crash
<1>2. faults' \in [Jobs -> 0 .. MaxFaults]
  <2>1. faults[j] + 1 \in 0 .. MaxFaults BY <1>0, <1>1
  <2> QED BY <1>0, <1>1, <2>1
<1>3. /\ \A v \in Workers \ {w} : worker'[v] = worker[v]
      /\ worker'[w] = IdleWorker
      /\ faults'[j] = faults[j] + 1 /\ \A i \in Jobs \ {j} : faults'[i] = faults[i]
  BY <1>0, <1>1
<1>4. IdleWorker \in WorkerRecord BY DEF WorkerRecord, WorkerStates
<1>5. TypeOK' BY <1>0, <1>1, <1>2, <1>4 DEF TypeOK
<1>6. WorkerShape' /\ TokensUnique'
  BY <1>1, <1>3 DEF IInv, WorkerShape, TokensUnique
<1>7. ASSUME NEW v \in Workers, NEW i \in Jobs, Owns(v, i)'
      PROVE  v # w /\ Owns(v, i) /\ worker'[v] = worker[v]
  <2>1. v # w BY <1>3, <1>7 DEF Owns
  <2> QED BY <2>1, <1>1, <1>3, <1>7 DEF Owns
<1>8. OwnerKnows' BY <1>1, <1>7 DEF IInv, OwnerKnows
<1>9. ASSUME NEW i \in Jobs PROVE BudgetToSpare!(i)'
  <2>0. jobs[i].attempts \in Nat /\ jobs[i].attempts <= MaxAttempts + faults[i]
          /\ faults[i] \in Nat
    BY <1>0 DEF IInv, BudgetToSpare, JobRecord
  <2>1. CASE i = j BY <2>0, <2>1, <1>1, <1>3
  <2>2. CASE i # j
    <3>1. \A v \in Workers : Owns(v, i) => Owns(v, i)'
      BY <2>2, <1>1, <1>3 DEF Owns
    <3>2. Abandoned(i)' => Abandoned(i) BY <3>1 DEF Abandoned
    <3> QED BY <2>2, <3>2, <1>1, <1>3 DEF IInv, BudgetToSpare
  <2> QED BY <2>1, <2>2
<1>10. BudgetToSpare' BY <1>9 DEF BudgetToSpare
<1>11. ClaimCounted' /\ FailedOnlyWhenExhausted'
  BY <1>1 DEF IInv, ClaimCounted, FailedOnlyWhenExhausted
<1>12. \A i \in Jobs : OutcomeKept(i) /\ EffectsKept(i)
  BY <1>1 DEF OutcomeKept, EffectsKept
<1>13. ASSUME NEW i \in Jobs PROVE Balanced(i)
  <2>1. Attempting(i)' \subseteq Attempting(i) BY <1>3 DEF Attempting
  <2> QED BY <2>1, <1>1 DEF Balanced, Left
<1> QED BY <1>5, <1>6, <1>8, <1>10, <1>11, <1>12, <1>13 DEF IInv, SoundStep

\* A lease that runs out under a live worker is paid for by a fault, that of an
\* abandoned claim was paid for by the crash.
LEMMA LeaseExpiresStep ==
  ASSUME IInv, NEW j \in Jobs, LeaseExpires(j)
  PROVE  SoundStep
<1> USE AttemptsAssumption
<1> DEFINE aged == [jobs[j] EXCEPT !.stale = TRUE]
<1>0. /\ TypeOK /\ jobs \in [Jobs -> JobRecord] /\ faults \in [Jobs -> 0 .. MaxFaults]
  BY DEF IInv, TypeOK
<1>1. /\ jobs[j].status = "processing" /\ jobs' = [jobs EXCEPT ![j] = aged]
      /\ UNCHANGED <<worker, caller, access, sync, delivered>>
      /\ \/ Abandoned(j) /\ faults' = faults
         \/ faults[j] < MaxFaults /\ faults' = [faults EXCEPT ![j] = faults[j] + 1]
  BY DEF LeaseExpires
<1>2. /\ aged \in JobRecord /\ aged.status = jobs[j].status /\ aged.stale
      /\ aged.attempts = jobs[j].attempts /\ aged.lockedBy = jobs[j].lockedBy
      /\ aged.deferred = jobs[j].deferred /\ aged.entity = jobs[j].entity
      /\ jobs[j].attempts \in Nat
  <2>1. jobs[j] \in JobRecord BY <1>0
  <2> QED BY <2>1 DEF JobRecord
<1> HIDE DEF aged
<1>3. \A i \in Jobs : /\ jobs'[i].status = jobs[i].status
                      /\ jobs'[i].attempts = jobs[i].attempts
                      /\ jobs'[i].lockedBy = jobs[i].lockedBy
                      /\ jobs'[i].deferred = jobs[i].deferred
                      /\ i # j => jobs'[i] = jobs[i]
  BY <1>0, <1>1, <1>2
<1>4. faults' \in [Jobs -> 0 .. MaxFaults] /\ \A i \in Jobs : faults[i] <= faults'[i]
  <2>1. CASE faults' = faults BY <2>1, <1>0
  <2>2. CASE faults[j] < MaxFaults /\ faults' = [faults EXCEPT ![j] = faults[j] + 1]
    <3>1. faults[j] + 1 \in 0 .. MaxFaults BY <1>0, <2>2
    <3> QED BY <3>1, <2>2, <1>0
  <2> QED BY <2>1, <2>2, <1>1
<1>5. TypeOK'
  <2>1. jobs' \in [Jobs -> JobRecord] BY <1>0, <1>1, <1>2
  <2> QED BY <2>1, <1>0, <1>1, <1>4 DEF TypeOK
<1>6. \A v \in Workers, i \in Jobs : Owns(v, i)' <=> Owns(v, i)
  BY <1>1, <1>3 DEF Owns
<1>7. WorkerShape' BY <1>1, <1>3 DEF IInv, WorkerShape
<1>8. TokensUnique' BY <1>1 DEF IInv, TokensUnique
<1>9. ClaimCounted' BY <1>3 DEF IInv, ClaimCounted
<1>10. OwnerKnows' BY <1>1, <1>3, <1>6 DEF IInv, OwnerKnows
<1>11. FailedOnlyWhenExhausted' BY <1>3 DEF IInv, FailedOnlyWhenExhausted
<1>12. ASSUME NEW i \in Jobs PROVE BudgetToSpare!(i)'
  <2>0. /\ jobs[i].attempts \in Nat /\ faults[i] \in Nat /\ faults'[i] \in Nat
        /\ faults[i] <= faults'[i] /\ jobs[i].attempts <= MaxAttempts + faults[i]
    BY <1>0, <1>4 DEF IInv, BudgetToSpare, JobRecord
  <2>1. CASE i # j
    <3>1. Abandoned(i)' <=> Abandoned(i) BY <1>6 DEF Abandoned
    <3> QED BY <2>0, <2>1, <3>1, <1>3 DEF IInv, BudgetToSpare
  <2>2. CASE i = j
    <3>1. CASE Abandoned(j)
      BY <2>0, <2>2, <3>1, <1>1, <1>3 DEF IInv, BudgetToSpare
    <3>2. CASE ~Abandoned(j)
      <4>1. faults'[j] = faults[j] + 1 BY <1>0, <1>1, <3>2
      <4> QED BY <2>0, <2>2, <4>1, <1>3
    <3> QED BY <3>1, <3>2
  <2> QED BY <2>1, <2>2
<1>13. BudgetToSpare' BY <1>12 DEF BudgetToSpare
<1>14. \A i \in Jobs : OutcomeKept(i) /\ EffectsKept(i)
  BY <1>1, <1>3 DEF OutcomeKept, EffectsKept
<1>15. ASSUME NEW i \in Jobs PROVE Balanced(i)
  <2>1. Attempting(i)' \subseteq Attempting(i) BY <1>1 DEF Attempting
  <2> QED BY <2>1, <1>1, <1>3 DEF Balanced, Left
<1> QED BY <1>5, <1>7, <1>8, <1>9, <1>10, <1>11, <1>13, <1>14, <1>15 DEF IInv, SoundStep

-----------------------------------------------------------------------------
(* Every step is sound.                                                    *)

\* Every step keeps the invariant and is a step of the contract, or none.
LEMMA NextStep ==
  ASSUME IInv, [Next]_vars
  PROVE  SoundStep
<1>1. CASE UNCHANGED vars
  <2>1. TypeOK' BY <1>1 DEF vars, IInv, TypeOK
  <2> QED BY <1>1, <2>1, UntouchedStep DEF vars
<1>2. ASSUME NEW c \in Callers,
             \/ \E e \in Entities : \E past \in SUBSET {e} : ScheduleCheck(c, e, past)
             \/ \E E \in SUBSET Entities : \E past \in SUBSET E :
                   ScheduleManyCheck(c, E, past)
             \/ ScheduleCancel(c)
             \/ \E e \in Entities, j \in Jobs : ScheduleCreate(c, e, j)
             \/ CallerAborts(c)
      PROVE  SoundStep
  BY <1>2, ScheduleStep, ElsewhereStep
<1>3. ASSUME NEW e \in Entities,
             \/ \E past \in SUBSET {e}, j \in Jobs : ScheduleInTransaction(e, past, j)
             \/ Cancel(e)
             \/ ResolveFailed(e)
      PROVE  SoundStep
  BY <1>3, ScheduleStep, MaintenanceStep
<1>4. CASE CancelOrganization \/ StartDeletion
  BY <1>4, MaintenanceStep, ElsewhereStep
<1>5. ASSUME NEW w \in Workers,
             \/ \E j \in Jobs, t \in Tokens : Claim(w, j, t)
             \/ CheckClaim(w) \/ CheckAccess(w)
             \/ \E seen, throws \in BOOLEAN : Deliver(w, seen, throws)
             \/ Complete(w) \/ SupersedeFailed(w) \/ Defer(w) \/ Fail(w) \/ Crash(w)
      PROVE  SoundStep
  BY <1>5, ClaimStep, ControlStep, AckStep, SupersedeStep, CrashStep
<1>6. ASSUME NEW j \in Jobs, RunAtReached(j) \/ LeaseExpires(j) PROVE SoundStep
  BY <1>6, MaintenanceStep, LeaseExpiresStep
<1>7. ASSUME NEW s \in Syncs,
             \/ \E a \in {"active", "locked"} : ChangeAccess(s, a)
             \/ ReadAccess(s) \/ ApplySync(s) \/ SyncFails(s)
      PROVE  SoundStep
  BY <1>7, MaintenanceStep, ElsewhereStep
<1> QED BY <1>1, <1>2, <1>3, <1>4, <1>5, <1>6, <1>7 DEF Next

\* The inductive invariant holds: the shape of claims, tokens and budgets behind all
\* the theorems below.
THEOREM Inductive == Spec => []IInv
<1>1. IInv /\ [Next]_vars => IInv' BY NextStep DEF SoundStep
<1> QED BY InitIInv, <1>1, PTL DEF Spec

-----------------------------------------------------------------------------
(* The theorems.                                                           *)

\* Type correctness: no history of claims, deferrals and crashes takes attempts
\* below zero or a worker out of its states.
THEOREM TypeCorrect == Spec => []TypeOK
<1>1. IInv => TypeOK BY DEF IInv
<1> QED BY <1>1, Inductive, PTL

\* The lock tokens make a claim exclusive: of all workers that think they process
\* a job, at most one passes the filter of an acknowledgement.
THEOREM Exclusive == Spec => []ClaimIsExclusive
<1>1. IInv => ClaimIsExclusive
  <2> SUFFICES ASSUME IInv, NEW v \in Workers, NEW w \in Workers, NEW j \in Jobs,
                      Owns(v, j), Owns(w, j)
               PROVE  v = w
    BY DEF ClaimIsExclusive
  <2>1. worker[v].pc # "idle" /\ worker[w].pc # "idle"
    BY EntityAssumption DEF IInv, WorkerShape, Owns
  <2>2. worker[v].token = worker[w].token BY DEF Owns
  <2> QED BY <2>1, <2>2 DEF IInv, TokensUnique
<1> QED BY <1>1, Inductive, PTL

\* resumeBackgroundWork finds every deferred live job: none of them is processing.
THEOREM ResumeComplete == Spec => []ResumeFindsEveryDeferredJob
<1>1. IInv => ResumeFindsEveryDeferredJob
  BY DEF IInv, ClaimCounted, ResumeFindsEveryDeferredJob, Live
<1> QED BY <1>1, Inductive, PTL

\* The queue implements JobContract: whoever lost whichever claim, a job is
\* acknowledged at most once, after its effect, and never comes back.
THEOREM Implements == Spec => ImplementsContract
<1>1. Init => Contract!Init
  <2> SUFFICES ASSUME Init PROVE Contract!Init
    OBVIOUS
  <2>1. \A j \in Jobs : jobs[j] = NoJob
    BY Zenon DEF Init
  <2>2. ASSUME NEW j \in Jobs
        PROVE  (IF jobs[j].status \in Live THEN "open" ELSE jobs[j].status) = "absent"
    <3>1. jobs[j].status = "absent" BY <2>1
    <3> QED BY <3>1 DEF Live
  <2>3. \A j \in Jobs : delivered[j] \in Nat /\ delivered[j] = 0 BY DEF Init
  <2>5. {j \in Jobs : delivered[j] > 0} = {} BY <2>3
  <2>6. [j \in Jobs |-> IF jobs[j].status \in Live THEN "open" ELSE jobs[j].status]
          = [j \in Jobs |-> "absent"]
    BY <2>2, Zenon
  <2> QED BY <2>5, <2>6 DEF Contract!Init
<1>2. ASSUME IInv, [Next]_vars PROVE [Contract!Next]_(Contract!contractVars)
  <2>0. /\ TypeOK /\ TypeOK' /\ jobs \in [Jobs -> JobRecord] /\ jobs' \in [Jobs -> JobRecord]
        /\ delivered \in [Jobs -> Nat] /\ delivered' \in [Jobs -> Nat]
        /\ \A j \in Jobs : OutcomeKept(j) /\ EffectsKept(j)
    BY <1>2, NextStep DEF SoundStep, IInv, TypeOK
  <2>1. \A j \in Jobs : jobs[j].status \in Statuses /\ jobs'[j].status \in Statuses
    BY <2>0 DEF JobRecord
  <2>2. ASSUME NEW j \in Jobs PROVE Contract!JobStep(j)
    <3>1. OutcomeKept(j) /\ jobs[j].status \in Statuses /\ jobs'[j].status \in Statuses
            /\ delivered[j] \in Nat
      BY <2>0, <2>1, <2>2
    <3>2. CASE jobs[j].status = jobs'[j].status BY <3>2 DEF Contract!JobStep
    <3>3. CASE jobs[j].status = "absent" /\ jobs'[j].status \in Live
      BY <3>3 DEF Contract!JobStep, Live
    <3>4. CASE jobs[j].status \in Live /\ jobs'[j].status \in Live \cup {"failed", "cancelled"}
      BY <3>4 DEF Contract!JobStep, Live
    <3>5. CASE jobs[j].status \in Live /\ jobs'[j].status = "completed" /\ delivered[j] >= 1
      <4>1. delivered[j] > 0 BY <3>1, <3>5
      <4> QED BY <3>5, <4>1 DEF Contract!JobStep, Live
    <3>6. CASE jobs[j].status = "failed" /\ jobs'[j].status = "cancelled"
      BY <3>6 DEF Contract!JobStep, Live
    <3> QED BY <3>1, <3>2, <3>3, <3>4, <3>5, <3>6 DEF OutcomeKept
  <2>3. ASSUME NEW j \in Jobs PROVE Contract!Perform(j)
    <3>1. CASE delivered'[j] = delivered[j] BY <3>1 DEF Contract!Perform
    <3>2. CASE jobs[j].status # "absent" /\ delivered'[j] > delivered[j]
      <4>1. delivered'[j] > 0 BY <2>0, <2>3, <3>2
      <4> QED BY <3>2, <4>1 DEF Contract!Perform, Live
    <3> QED BY <2>0, <2>3, <3>1, <3>2 DEF EffectsKept
  <2>4. Contract!Next
    BY <2>1, <2>2, <2>3 DEF Contract!Next, Statuses, Live
  <2> QED BY <2>4
<1> QED BY <1>1, <1>2, Inductive, PTL DEF Spec, ImplementsContract, Contract!Spec

-----------------------------------------------------------------------------
(* Why the attempts of a job bound its effects: the document counts every  *)
(* effect, and beside them every worker that has claimed the job and may   *)
(* still perform one, whether or not its claim is still good.  A claim     *)
(* adds such a worker with its attempt, a delivery turns it into an        *)
(* effect, and a deferral gives back the attempt of a worker that leaves.  *)

\* Effects and the workers that may add one never outnumber the attempts.
EffectsPaid ==
  \A j \in Jobs :
    /\ delivered[j] + Cardinality(Attempting(j)) <= jobs[j].attempts
    /\ jobs[j].status = "absent" => jobs[j].attempts = 0

\* The number of workers is a number, and so the sum one of integers.
LEMMA AttemptingFinite ==
  ASSUME NEW j
  PROVE  /\ IsFiniteSet(Attempting(j)) /\ Cardinality(Attempting(j)) \in Nat
         /\ \A S \in SUBSET Attempting(j) : IsFiniteSet(S) /\ Cardinality(S) \in Nat
                                             /\ Cardinality(S) <= Cardinality(Attempting(j))
<1>1. Attempting(j) \in SUBSET Workers BY DEF Attempting
<1>2. IsFiniteSet(Attempting(j)) BY <1>1, WorkersAssumption, FS_Subset
<1>3. Cardinality(Attempting(j)) \in Nat BY <1>2, FS_CardinalityType
<1>4. ASSUME NEW S \in SUBSET Attempting(j)
      PROVE  IsFiniteSet(S) /\ Cardinality(S) \in Nat /\ Cardinality(S) <= Cardinality(Attempting(j))
  <2>1. IsFiniteSet(S) /\ Cardinality(S) <= Cardinality(Attempting(j)) BY <1>2, FS_Subset
  <2>2. Cardinality(S) \in Nat BY <2>1, FS_CardinalityType
  <2> QED BY <2>1, <2>2
<1> QED BY <1>2, <1>3, <1>4

\* Nothing has an effect, and no worker may yet perform one.
LEMMA InitEffects == Init => EffectsPaid
<1> SUFFICES ASSUME Init, NEW j \in Jobs
             PROVE  /\ delivered[j] + Cardinality(Attempting(j)) <= jobs[j].attempts
                    /\ jobs[j].status = "absent" => jobs[j].attempts = 0
  BY DEF EffectsPaid
<1>1. Attempting(j) = {} BY DEF Attempting, Init, IdleWorker
<1>2. Cardinality(Attempting(j)) = 0 BY <1>1, FS_EmptySet
<1>3. jobs[j] = NoJob /\ delivered[j] = 0 BY Zenon DEF Init
<1> QED BY <1>2, <1>3 DEF NoJob

\* A balanced step keeps the bound: what one worker may add has been paid for.
LEMMA BalancedStep ==
  ASSUME IInv, TypeOK', EffectsPaid, \A j \in Jobs : Balanced(j)
  PROVE  EffectsPaid'
<1> SUFFICES ASSUME NEW j \in Jobs
             PROVE  delivered'[j] + Cardinality(Attempting(j)') <= jobs'[j].attempts
  BY DEF EffectsPaid, Balanced
<1> DEFINE A == Attempting(j)
           B == Attempting(j)'
<1>1. /\ delivered[j] \in Nat /\ delivered'[j] \in Nat
      /\ jobs[j] \in JobRecord /\ jobs'[j] \in JobRecord
  BY DEF IInv, TypeOK
<1>2. jobs[j].attempts \in Nat /\ jobs'[j].attempts \in Nat BY <1>1 DEF JobRecord
<1>3. delivered[j] + Cardinality(A) <= jobs[j].attempts BY DEF EffectsPaid
<1>4. IsFiniteSet(A) /\ Cardinality(A) \in Nat BY AttemptingFinite
<1>5. B \in SUBSET Workers BY DEF Attempting
<1>6. IsFiniteSet(B) BY <1>5, WorkersAssumption, FS_Subset
<1>7. Cardinality(B) \in Nat BY <1>6, FS_CardinalityType
<1>8. CASE Left(j)
  <2>1. B \in SUBSET A BY <1>8 DEF Left
  <2>2. Cardinality(B) <= Cardinality(A) BY <2>1, <1>4, FS_Subset
  <2>3. jobs[j].attempts <= jobs'[j].attempts BY <1>2, <1>8 DEF Left, EffectsPaid
  <2> QED BY <1>1, <1>2, <1>3, <1>4, <1>7, <1>8, <2>2, <2>3 DEF Left
<1>9. CASE Started(j)
  <2>1. PICK w \in Workers : B \subseteq A \cup {w} BY <1>9 DEF Started
  <2>2. /\ IsFiniteSet(A \cup {w})
        /\ Cardinality(A \cup {w}) = IF w \in A THEN Cardinality(A) ELSE Cardinality(A) + 1
    BY <1>4, FS_AddElement
  <2>3. Cardinality(B) <= Cardinality(A \cup {w})
    <3>1. B \in SUBSET (A \cup {w}) BY <2>1
    <3> QED BY <3>1, <2>2, FS_Subset
  <2>4. Cardinality(B) <= Cardinality(A) + 1 BY <2>2, <2>3, <1>4, <1>7
  <2> QED BY <1>1, <1>2, <1>3, <1>4, <1>7, <1>9, <2>4 DEF Started
<1>10. CASE Ended(j)
  <2>1. PICK w \in A : B \subseteq A \ {w} BY <1>10 DEF Ended
  <2>2. IsFiniteSet(A \ {w}) /\ Cardinality(A \ {w}) = Cardinality(A) - 1
    BY <1>4, FS_RemoveElement
  <2>3. Cardinality(B) <= Cardinality(A \ {w})
    <3>1. B \in SUBSET (A \ {w}) BY <2>1
    <3> QED BY <3>1, <2>2, FS_Subset
  <2>4. Cardinality(B) <= Cardinality(A) - 1 BY <2>2, <2>3
  <2> QED BY <1>1, <1>2, <1>3, <1>4, <1>7, <1>10, <2>4 DEF Ended
<1> QED BY <1>8, <1>9, <1>10 DEF Balanced

\* claimOne and processOne spend at most maxAttempts attempts and one more for
\* every crash or over-long delivery, declare a job dead only when the document's
\* own count is spent, and perform no effect that no attempt has paid for, however
\* many workers deliver the same job at once.
THEOREM Accounted == Spec => []AttemptsAccounted
<1>1. Init => IInv /\ EffectsPaid BY InitIInv, InitEffects
<1>2. IInv /\ EffectsPaid /\ [Next]_vars => IInv' /\ EffectsPaid'
  <2> SUFFICES ASSUME IInv, EffectsPaid, [Next]_vars PROVE IInv' /\ EffectsPaid'
    OBVIOUS
  <2>1. IInv' /\ \A j \in Jobs : Balanced(j) BY NextStep DEF SoundStep
  <2>2. TypeOK' BY <2>1 DEF IInv
  <2> QED BY <2>1, <2>2, BalancedStep
<1>3. IInv /\ EffectsPaid => AttemptsAccounted
  <2> SUFFICES ASSUME IInv, EffectsPaid PROVE AttemptsAccounted
    OBVIOUS
  <2>1. AttemptsWithinBudget BY DEF IInv, BudgetToSpare, AttemptsWithinBudget
  <2>2. FailedOnlyWhenExhausted BY DEF IInv
  <2>3. EffectsWithinAttempts
    <3> SUFFICES ASSUME NEW j \in Jobs PROVE delivered[j] <= jobs[j].attempts
      BY DEF EffectsWithinAttempts
    <3>1. delivered[j] \in Nat /\ jobs[j].attempts \in Nat BY DEF IInv, TypeOK, JobRecord
    <3>2. Cardinality(Attempting(j)) \in Nat BY AttemptingFinite
    <3>3. delivered[j] + Cardinality(Attempting(j)) <= jobs[j].attempts BY DEF EffectsPaid
    <3> QED BY <3>1, <3>2, <3>3
  <2> QED BY <2>1, <2>2, <2>3 DEF AttemptsAccounted
<1> QED BY <1>1, <1>2, <1>3, PTL DEF Spec
=============================================================================
