--------------------------- MODULE ViewingSchedule ---------------------------
(***************************************************************************)
(* The viewings of one tenant on one day (module/viewing), their reminders *)
(* (viewingReminder, notification) and their copies in the external        *)
(* calendar (crm/calendarSync).  Every change of a viewing runs in         *)
(* viewingTransaction, which writes the organization document before it    *)
(* reads: Begin takes that lock and the snapshot, the action that follows  *)
(* commits or the transaction aborts.  The jobs a change leaves behind are *)
(* processed later by workers that may be late, repeat or die; the queue   *)
(* itself is modelled in OperationsQueue, here a claim is only owned, lost *)
(* or acknowledged.  Which property, lead or member a request may use, and *)
(* the projections to leads and inbox in the same transaction, are         *)
(* refusals or effects outside this module: a refusal is Abort.            *)
(***************************************************************************)
EXTENDS Naturals

CONSTANTS
  Viewings, Agents, Properties,
  Windows,       \* <<startTime, endTime>>, half-open
  Requests,      \* API requests in flight
  Keys,          \* idempotency keys of public requests
  Workers,       \* processOne loops of all replicas
  Scan,          \* the maintenance run of schedulePendingCalendarSync
  NoOne, NoTx, NoJob,
  ReminderLead,  \* crm.reminders.viewingMinutesBefore
  MaxVersion,    \* bound: revisions of a viewing
  MaxTime,       \* bound: the clock
  Taken,         \* bound: the kinds of job the workers get to
  MaxFaults      \* bound: crashes, leases lost by a live worker, lapses of access

ASSUME WindowsAssumption == Windows \subseteq {w \in Nat \X Nat : w[1] < w[2]}
ASSUME BoundsAssumption ==
  ReminderLead \in Nat /\ MaxVersion \in Nat \ {0} /\ MaxTime \in Nat /\ MaxFaults \in Nat

VARIABLES
  viewings,   \* the viewings collection
  receipts,   \* viewingrequestreceipts: the answer given for a key, while it lasts
  jobs,       \* operationsjobs, by kind, viewing and scheduleVersion
  work,       \* what each worker is doing
  tx,         \* the open transactions and the snapshot each one reads
  gateway,    \* external calendar: the last revision and what it shows
  net,        \* requests on their way to the gateway
  approved,   \* the calendar provider is approved and configured
  open,       \* the tenant's access allows changes
  clock,
  reminded,   \* history: reminders sent for each viewing and version
  booked,     \* history: viewings created for a key while its receipt lasts
  faults

vars == <<viewings, receipts, jobs, work, tx, gateway, net, approved, open,
          clock, reminded, booked, faults>>

Kinds == {"reminder", "sync", "delete"}
Versions == 1 .. MaxVersion + 1
JobIds == [kind : Kinds, viewing : Viewings, version : Versions]
Processes == Requests \cup Workers \cup {Scan}
Live == {"pending", "processing"}

NoViewing == [status |-> "absent", agent |-> NoOne, property |-> NoOne,
              window |-> <<0, 0>>, version |-> 0, sync |-> "none"]
Unqueued == [status |-> "absent", owner |-> NoOne, due |-> 0, committed |-> FALSE]
Queued(due) == [Unqueued EXCEPT !.status = "pending", !.due = due]
Resting == [pc |-> "idle", job |-> NoJob, content |-> "none"]

Init ==
  /\ viewings = [v \in Viewings |-> NoViewing]
  /\ receipts = [k \in Keys |-> "none"]
  /\ jobs = [i \in JobIds |-> Unqueued]
  /\ work = [w \in Workers |-> Resting]
  /\ tx = [p \in Processes |-> NoTx]
  /\ gateway = [v \in Viewings |-> [revision |-> 0, shows |-> "none"]]
  /\ net = {}
  /\ approved \in BOOLEAN
  /\ open = TRUE
  /\ clock = 0
  /\ reminded = [i \in Viewings \X Versions |-> 0]
  /\ booked = [k \in Keys |-> 0]
  /\ faults = 0

-----------------------------------------------------------------------------
(* viewingTransaction.                                                     *)

\* Mutant: availability is read without writing the organization first.
Unlocked(p) == tx[p] = NoTx

\* The $inc of viewingMutationVersion conflicts with that of any open transaction.
LockFree(p) == \A q \in Processes : tx[q] = NoTx

QueuedSyncs == {v \in Viewings : \E n \in Versions :
                  jobs[[kind |-> "sync", viewing |-> v, version |-> n]].status \in Live}

\* The first statement, which also reads the tenant's access.
Begin(p) ==
  /\ LockFree(p)
  /\ open
  /\ p \in Workers => work[p].pc = "running" /\ work[p].job.kind = "reminder"
  /\ tx' = [tx EXCEPT ![p] = [viewings |-> viewings, receipts |-> receipts,
                              syncs |-> QueuedSyncs, at |-> clock]]
  /\ UNCHANGED <<viewings, receipts, jobs, work, gateway, net, approved, open,
                 clock, reminded, booked, faults>>

End(p) == tx' = [tx EXCEPT ![p] = NoTx]

\* A refused request, a write conflict (the driver begins again) or a crash.
Abort(p) ==
  /\ tx[p] # NoTx
  /\ End(p)
  /\ UNCHANGED <<viewings, receipts, jobs, work, gateway, net, approved, open,
                 clock, reminded, booked, faults>>

-----------------------------------------------------------------------------
(* The changes of a viewing.                                               *)

Overlap(a, b) == a[1] < b[2] /\ a[2] > b[1]

\* checkConflict over the snapshot.
Conflict(p, v, a, q, win) ==
  \E u \in Viewings \ {v} :
    LET other == tx[p].viewings[u]
    IN /\ other.status = "active"
       /\ Overlap(other.window, win)
       /\ other.agent = a \/ other.property = q

\* schedule and cancel: the live jobs of these kinds make room for the new ones,
\* which become due at new[i].
Requeued(v, kinds, new) ==
  [i \in JobIds |->
     IF i \in DOMAIN new THEN Queued(new[i])
     ELSE IF i.viewing = v /\ i.kind \in kinds /\ jobs[i].status \in Live
          THEN [jobs[i] EXCEPT !.status = "cancelled"]
          ELSE jobs[i]]

\* queueViewingEffects: a calendar job for this version and, for an active viewing
\* whose reminder time is still to come, a reminder.
Effects(v, r) ==
  LET job(kind) == [kind |-> kind, viewing |-> v, version |-> r.version]
      reminds == r.status = "active" /\ r.window[1] > clock + ReminderLead
      queued == {job(kind) : kind \in IF reminds THEN {"sync", "reminder"} ELSE {"sync"}}
  IN Requeued(v, {"reminder", "sync"},
       [i \in queued |-> IF i.kind = "sync" THEN clock ELSE r.window[1] - ReminderLead])

Store(v, r) ==
  /\ viewings' = [viewings EXCEPT ![v] = r]
  /\ jobs' = Effects(v, r)

\* createViewingInTransaction.
Create(p, v, a, q, win, status) ==
  /\ tx[p] # NoTx
  /\ viewings[v].status = "absent"
  /\ win[1] > tx[p].at
  /\ status = "active" => ~Conflict(p, v, a, q, win)
  /\ Store(v, [status |-> status, agent |-> a, property |-> q, window |-> win,
               version |-> 1, sync |-> "pending"])
  /\ End(p)

CreateViewing(p, v, a, q, win, status) ==
  /\ Create(p, v, a, q, win, status)
  /\ UNCHANGED <<receipts, work, gateway, net, approved, open, clock, reminded,
                 booked, faults>>

Seen(p, k) == tx[p].receipts[k] = "valid"

\* A key seen before replays its answer or is refused, which changes nothing; an
\* expired receipt gives way.  The unique index on the key makes a transaction
\* that lost the race for it abort.
PublicRequestViewing(p, k, v, a, q, win) ==
  /\ tx[p] # NoTx
  /\ ~Seen(p, k)
  /\ receipts[k] = tx[p].receipts[k]
  /\ Create(p, v, a, q, win, "active")
  /\ receipts' = [receipts EXCEPT ![k] = "valid"]
  /\ booked' = [booked EXCEPT ![k] = @ + 1]
  /\ UNCHANGED <<work, gateway, net, approved, open, clock, reminded, faults>>

\* updateViewing: every update is a new version, whatever it changes.  A write
\* conflict with a calendar acknowledgement aborts.
UpdateViewing(p, v, a, q, win, status) ==
  /\ tx[p] # NoTx
  /\ LET old == tx[p].viewings[v]
         moved == <<a, q, win>> # <<old.agent, old.property, old.window>>
     IN /\ old.status \in {"active", "closed"} /\ old.version < MaxVersion
        /\ viewings[v] = old
        /\ status = "active" /\ (moved \/ old.status = "closed") => win[1] > tx[p].at
        /\ status = "active" => ~Conflict(p, v, a, q, win)
        /\ Store(v, [status |-> status, agent |-> a, property |-> q, window |-> win,
                     version |-> old.version + 1, sync |-> "pending"])
  /\ End(p)
  /\ UNCHANGED <<receipts, work, gateway, net, approved, open, clock, reminded,
                 booked, faults>>

TombstoneRevision(version) == version + 1

\* deleteViewing: the row goes, a tombstone with the next revision stays.
DeleteViewing(p, v) ==
  /\ tx[p] # NoTx
  /\ LET old == tx[p].viewings[v]
     IN /\ old.status \in {"active", "closed"}
        /\ viewings[v] = old
        /\ viewings' = [viewings EXCEPT ![v] = [NoViewing EXCEPT !.status = "deleted"]]
        /\ jobs' = Requeued(v, {"reminder", "sync"},
                     [i \in {[kind |-> "delete", viewing |-> v,
                              version |-> TombstoneRevision(old.version)]} |-> clock])
  /\ End(p)
  /\ UNCHANGED <<receipts, work, gateway, net, approved, open, clock, reminded,
                 booked, faults>>

\* Mutant: the recovery scan leaves out the viewings whose last try failed.
PendingOnly(v) == tx[Scan].viewings[v].sync = "pending" /\ v \notin tx[Scan].syncs

\* What the scan finds in its own transaction: no calendar copy, and no job for it.
LostSync(v) ==
  /\ tx[Scan].viewings[v].sync # "synced"
  /\ v \notin tx[Scan].syncs

\* schedulePendingCalendarSync, for one candidate.
ScheduleSync(v) ==
  /\ tx[Scan] # NoTx
  /\ tx[Scan].viewings[v].status = "active"
  /\ LostSync(v)
  /\ jobs' = Requeued(v, {"sync"},
               [i \in {[kind |-> "sync", viewing |-> v,
                        version |-> tx[Scan].viewings[v].version]} |-> clock])
  /\ End(Scan)
  /\ UNCHANGED <<viewings, receipts, work, gateway, net, approved, open, clock,
                 reminded, booked, faults>>

-----------------------------------------------------------------------------
(* Workers.                                                                *)

Owns(w, i) == work[w].job = i /\ jobs[i].status = "processing" /\ jobs[i].owner = w

Abandoned(i) == \A w \in Workers : ~Owns(w, i)

MoveTo(w, pc) == work' = [work EXCEPT ![w].pc = pc]

\* claimOne.  A claim that still has a worker is taken over only after ten minutes.
Claim(w, i) ==
  /\ work[w].pc = "idle"
  /\ i.kind \in Taken /\ jobs[i].due <= clock
  /\ \/ jobs[i].status = "pending" /\ UNCHANGED faults
     \/ jobs[i].status = "processing" /\ Abandoned(i) /\ UNCHANGED faults
     \/ /\ jobs[i].status = "processing" /\ ~Abandoned(i)
        /\ faults < MaxFaults /\ faults' = faults + 1
  /\ jobs' = [jobs EXCEPT ![i].status = "processing", ![i].owner = w]
  /\ work' = [work EXCEPT ![w] = [pc |-> "claimed", job |-> i, content |-> "none"]]
  /\ UNCHANGED <<viewings, receipts, tx, gateway, net, approved, open, clock,
                 reminded, booked>>

\* deliver: the checks of claim and access before the effect.
Admit(w) ==
  /\ work[w].pc = "claimed"
  /\ MoveTo(w, IF ~Owns(w, work[w].job) THEN "returned"
               ELSE IF open THEN "running" ELSE "refused")
  /\ UNCHANGED <<viewings, receipts, jobs, tx, gateway, net, approved, open,
                 clock, reminded, booked, faults>>

\* Mutant: the marker of an earlier delivery is not looked at.
FencedByClaim(w) == Owns(w, work[w].job)

Fenced(w) == Owns(w, work[w].job) /\ ~jobs[work[w].job].committed

ReminderCurrent(s, i, at) ==
  /\ s[i.viewing].status = "active"
  /\ s[i.viewing].version = i.version
  /\ s[i.viewing].window[1] > at

\* deliverViewingReminder: the marker on the job is written in the same transaction
\* as the notification, and also when there is nothing to send.
Remind(w) ==
  LET i == work[w].job
  IN /\ tx[w] # NoTx
     /\ IF Fenced(w)
        THEN /\ jobs' = [jobs EXCEPT ![i].committed = TRUE]
             /\ reminded' =
                  IF ReminderCurrent(tx[w].viewings, i, tx[w].at)
                  THEN [reminded EXCEPT ![<<i.viewing, i.version>>] = @ + 1]
                  ELSE reminded
        ELSE UNCHANGED <<jobs, reminded>>
     /\ MoveTo(w, "returned")
     /\ End(w)
     /\ UNCHANGED <<viewings, receipts, gateway, net, approved, open, clock,
                    booked, faults>>

\* Mutant: the status is written whatever the version of the viewing is by now.
MarkAny(i, sync) ==
  viewings' = IF viewings[i.viewing].status \in {"active", "closed"}
              THEN [viewings EXCEPT ![i.viewing].sync = sync]
              ELSE viewings

\* Mutant: the acknowledgement upserts a row that has been deleted.
MarkUpserting(i, sync) == viewings' = [viewings EXCEPT ![i.viewing].sync = sync]

\* updateOne on the viewing, scoped to the version that was read.
Mark(i, sync) ==
  viewings' = IF /\ viewings[i.viewing].status \in {"active", "closed"}
                 /\ viewings[i.viewing].version = i.version
              THEN [viewings EXCEPT ![i.viewing].sync = sync]
              ELSE viewings

\* syncViewing reads the viewing; an obsolete job has nothing to do.
ReadViewing(w) ==
  LET i == work[w].job
      r == viewings[i.viewing]
      current == r.status \in {"active", "closed"} /\ r.version = i.version
  IN /\ work[w].pc = "running" /\ i.kind = "sync"
     /\ work' = [work EXCEPT ![w] =
                   [@ EXCEPT !.pc = IF current THEN "sending" ELSE "returned",
                             !.content = IF current THEN r.status ELSE "none"]]
     /\ UNCHANGED <<viewings, receipts, jobs, tx, gateway, net, approved, open,
                    clock, reminded, booked, faults>>

\* calendar_delete: the tombstone is its own content.
ReadTombstone(w) ==
  /\ work[w].pc = "running" /\ work[w].job.kind = "delete"
  /\ work' = [work EXCEPT ![w] = [@ EXCEPT !.pc = "sending", !.content = "deleted"]]
  /\ UNCHANGED <<viewings, receipts, jobs, tx, gateway, net, approved, open,
                 clock, reminded, booked, faults>>

\* Without a provider a viewing says so, and a tombstone is an error.
NotConfigured(w) ==
  LET i == work[w].job
  IN /\ work[w].pc = "sending" /\ ~approved
     /\ IF i.kind = "sync" THEN Mark(i, "not_configured") ELSE UNCHANGED viewings
     /\ MoveTo(w, IF i.kind = "sync" THEN "returned" ELSE "errored")
     /\ UNCHANGED <<receipts, jobs, tx, gateway, net, approved, open, clock,
                    reminded, booked, faults>>

Send(w) ==
  LET i == work[w].job
  IN /\ work[w].pc = "sending" /\ approved
     /\ net' = net \cup {[viewing |-> i.viewing, revision |-> i.version,
                          shows |-> work[w].content]}
     /\ MoveTo(w, "waiting")
     /\ UNCHANGED <<viewings, receipts, jobs, tx, gateway, approved, open, clock,
                    reminded, booked, faults>>

\* The gateway answered: it has this revision (or, the answer being late, a newer).
Confirm(w) ==
  LET i == work[w].job
  IN /\ work[w].pc = "waiting"
     /\ gateway[i.viewing].revision >= i.version
     /\ IF i.kind = "sync" THEN Mark(i, "synced") ELSE UNCHANGED viewings
     /\ MoveTo(w, "returned")
     /\ UNCHANGED <<receipts, jobs, tx, gateway, net, approved, open, clock,
                    reminded, booked, faults>>

\* A timeout, a refusal, a missing property or agent, which mark a viewing; or the
\* database fails, and nothing is marked.
EffectFails(w) ==
  LET i == work[w].job
  IN /\ work[w].pc \in {"running", "sending", "waiting"}
     /\ tx[w] = NoTx
     /\ \/ i.kind = "sync" /\ work[w].pc # "running" /\ Mark(i, "failed")
        \/ UNCHANGED viewings
     /\ MoveTo(w, "errored")
     /\ UNCHANGED <<receipts, jobs, tx, gateway, net, approved, open, clock,
                    reminded, booked, faults>>

\* The acknowledgements of processOne, conditional on the claim.  Whether an error
\* leaves attempts for a retry is decided in OperationsQueue.
Acknowledge(w) ==
  LET i == work[w].job
      result == [returned |-> {"completed"}, refused |-> {"pending"},
                 errored |-> {"pending", "failed"}]
  IN /\ work[w].pc \in DOMAIN result
     /\ \E status \in result[work[w].pc] :
          jobs' = IF Owns(w, i)
                  THEN [jobs EXCEPT ![i].status = status, ![i].owner = NoOne]
                  ELSE jobs
     /\ work' = [work EXCEPT ![w] = Resting]
     /\ UNCHANGED <<viewings, receipts, tx, gateway, net, approved, open, clock,
                    reminded, booked, faults>>

Crash(w) ==
  /\ work[w].pc # "idle"
  /\ faults < MaxFaults /\ faults' = faults + 1
  /\ work' = [work EXCEPT ![w] = Resting]
  /\ End(w)
  /\ UNCHANGED <<viewings, receipts, jobs, gateway, net, approved, open, clock,
                 reminded, booked>>

-----------------------------------------------------------------------------
(* The environment.                                                        *)

\* The gateway keeps the newest revision and drops a repeated one, as the comment
\* on send demands of it.
GatewayHandles(m) ==
  /\ m \in net
  /\ net' = net \ {m}
  /\ gateway' = IF m.revision > gateway[m.viewing].revision
                THEN [gateway EXCEPT ![m.viewing] =
                        [revision |-> m.revision, shows |-> m.shows]]
                ELSE gateway
  /\ UNCHANGED <<viewings, receipts, jobs, work, tx, approved, open, clock,
                 reminded, booked, faults>>

RequestLost(m) ==
  /\ m \in net
  /\ net' = net \ {m}
  /\ UNCHANGED <<viewings, receipts, jobs, work, tx, gateway, approved, open,
                 clock, reminded, booked, faults>>

\* A receipt lasts 24 hours; the TTL monitor removes it some time later.
ReceiptExpires(k) ==
  /\ \/ receipts[k] = "valid" /\ receipts' = [receipts EXCEPT ![k] = "expired"]
     \/ receipts[k] = "expired" /\ receipts' = [receipts EXCEPT ![k] = "none"]
  /\ booked' = [booked EXCEPT ![k] = 0]
  /\ UNCHANGED <<viewings, jobs, work, tx, gateway, net, approved, open, clock,
                 reminded, faults>>

\* A subscription or platform change writes the same organization document.
ChangeAccess ==
  /\ \A p \in Processes : tx[p] = NoTx
  /\ open' = ~open
  /\ open => faults < MaxFaults
  /\ faults' = IF open THEN faults + 1 ELSE faults
  /\ UNCHANGED <<viewings, receipts, jobs, work, tx, gateway, net, approved,
                 clock, reminded, booked>>

ApproveProvider ==
  /\ ~approved
  /\ approved' = TRUE
  /\ UNCHANGED <<viewings, receipts, jobs, work, tx, gateway, net, open, clock,
                 reminded, booked, faults>>

Tick ==
  /\ clock < MaxTime
  /\ clock' = clock + 1
  /\ UNCHANGED <<viewings, receipts, jobs, work, tx, gateway, net, approved, open,
                 reminded, booked, faults>>

-----------------------------------------------------------------------------

Request(p) ==
  \E v \in Viewings :
    \/ \E a \in Agents, q \in Properties, win \in Windows, status \in {"active", "closed"} :
         \/ CreateViewing(p, v, a, q, win, status)
         \/ UpdateViewing(p, v, a, q, win, status)
    \/ \E k \in Keys, a \in Agents, q \in Properties, win \in Windows :
         PublicRequestViewing(p, k, v, a, q, win)
    \/ DeleteViewing(p, v)

WorkerStep(w) ==
  \/ Admit(w) \/ Begin(w) \/ Remind(w) \/ ReadViewing(w) \/ ReadTombstone(w)
  \/ NotConfigured(w) \/ Send(w) \/ Confirm(w) \/ Acknowledge(w)

Next ==
  \/ \E p \in Processes : Abort(p)
  \/ \E p \in Requests : Begin(p) \/ Request(p)
  \/ Begin(Scan)
  \/ \E v \in Viewings : ScheduleSync(v)
  \/ \E w \in Workers : \/ \E i \in JobIds : Claim(w, i)
                        \/ WorkerStep(w)
                        \/ EffectFails(w)
                        \/ Crash(w)
  \/ \E m \in net : GatewayHandles(m) \/ RequestLost(m)
  \/ \E k \in Keys : ReceiptExpires(k)
  \/ ChangeAccess
  \/ ApproveProvider
  \/ Tick

Spec == Init /\ [][Next]_vars

\* The worker loop and the maintenance run poll forever, a transaction ends, a call
\* ends in an answer or a timeout, and a gateway that is asked again and again
\* answers in time at last.  Requests, crashes and access changes owe nothing.
Fairness ==
  /\ \A p \in Processes : WF_vars(Abort(p))
  /\ SF_vars(Begin(Scan)) /\ SF_vars(\E v \in Viewings : ScheduleSync(v))
  /\ \A i \in {j \in JobIds : j.kind \in Taken} : SF_vars(\E w \in Workers : Claim(w, i))
  /\ \A w \in Workers :
       /\ WF_vars(WorkerStep(w) \/ EffectFails(w))
       /\ SF_vars(Begin(w)) /\ SF_vars(Remind(w)) /\ SF_vars(ReadViewing(w))
       /\ SF_vars(Send(w)) /\ SF_vars(Confirm(w))
  /\ SF_vars(\E m \in net : GatewayHandles(m))

FairSpec == Spec /\ Fairness

-----------------------------------------------------------------------------
(* Properties.                                                             *)

ViewingRecord == [status : {"absent", "active", "closed", "deleted"},
                  agent : Agents \cup {NoOne}, property : Properties \cup {NoOne},
                  window : Windows \cup {<<0, 0>>}, version : 0 .. MaxVersion,
                  sync : {"none", "pending", "not_configured", "synced", "failed"}]
JobState == [status : Live \cup {"absent", "completed", "failed", "cancelled"},
             owner : Workers \cup {NoOne}, due : Nat, committed : BOOLEAN]

\* Every variable keeps its type, and a viewing that is gone has no fields left.
TypeOK ==
  /\ viewings \in [Viewings -> ViewingRecord]
  /\ \A v \in Viewings : viewings[v].status \in {"absent", "deleted"}
                       <=> viewings[v].sync = "none" /\ viewings[v].version = 0
  /\ receipts \in [Keys -> {"none", "valid", "expired"}]
  /\ jobs \in [JobIds -> JobState]
  /\ \A w \in Workers : work[w].job \in JobIds \cup {NoJob}
  /\ reminded \in [Viewings \X Versions -> Nat]
  /\ clock \in 0 .. MaxTime /\ faults \in 0 .. MaxFaults

Minutes == UNION {w[1] .. w[2] : w \in Windows}

\* The viewing takes the minute that begins at t.
Takes(v, t) == viewings[v].window[1] <= t /\ t < viewings[v].window[2]

BookedOncePerKey == \A k \in Keys : booked[k] <= 1

\* No interleaving of creations, updates, reactivations and public requests gives
\* an agent or a property two active viewings at overlapping times; and while the
\* receipt of a key lasts, its retries book nothing more.
NoDoubleBooking ==
  /\ BookedOncePerKey
  /\ \A u, v \in Viewings :
       /\ u # v
       /\ viewings[u].status = "active" /\ viewings[v].status = "active"
       /\ \E t \in Minutes : Takes(u, t) /\ Takes(v, t)
       => viewings[u].agent # viewings[v].agent /\ viewings[u].property # viewings[v].property

\* Retries, lost leases and crashes between the reminder's commit and its
\* acknowledgement never remind twice of one version of a viewing; and the reminder
\* of the current version of an active one is never given up without being sent,
\* unless the viewing began first.
RemindedOnce ==
  /\ \A i \in Viewings \X Versions : reminded[i] <= 1
  /\ \A v \in Viewings :
       viewings[v].status = "active"
         => LET n == viewings[v].version
                reminder == jobs[[kind |-> "reminder", viewing |-> v, version |-> n]]
            IN /\ reminder.status # "cancelled"
               /\ reminder.status = "completed"
                    => reminded[<<v, n>>] = 1 \/ viewings[v].window[1] <= clock

\* Until the viewing says what became of its version in the calendar, the version
\* has a job of its own that is queued or visibly dead.
PendingIsQueued ==
  \A v \in Viewings :
    viewings[v].sync = "pending"
      => jobs[[kind |-> "sync", viewing |-> v, version |-> viewings[v].version]].status
           \in Live \cup {"failed"}

\* A viewing is called synced only when the calendar has this very version, so that
\* the result of an older request is not taken for that of the newer schedule; and
\* once a tombstone is acknowledged the calendar does not show the viewing, and no
\* late request brings it back; and the copy of a version is never forgotten.
CalendarAgrees ==
  /\ PendingIsQueued
  /\ \A v \in Viewings :
       /\ viewings[v].sync = "synced" => gateway[v].revision = viewings[v].version
       /\ \A n \in Versions :
            jobs[[kind |-> "delete", viewing |-> v, version |-> n]].status = "completed"
              => gateway[v].shows = "deleted"

\* While access never lapses and a provider is there at last, the recovery scan and
\* the retries bring every version of an active viewing to the calendar, unless it
\* is superseded.  (What a lapse of access defers is OperationsQueue's matter.)
CalendarConverges ==
  []open /\ <>[]approved =>
    \A v \in Viewings, n \in Versions :
      (viewings[v].status = "active" /\ viewings[v].version = n)
        ~> (viewings[v].sync = "synced" \/ viewings[v].version # n
              \/ viewings[v].status # "active")
=============================================================================
