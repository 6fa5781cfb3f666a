------------------------ MODULE ViewingScheduleProofs ------------------------
(***************************************************************************)
(* What holds of a tenant's viewings for every number of requests, workers *)
(* and revisions.  Transactions exclude one another, so the snapshot that  *)
(* one reads is the state it changes, but for the calendar status, which   *)
(* workers write outside transactions; versions only grow, so a job, a     *)
(* worker or a request under way can be recognised as late.  IInv says     *)
(* this of each viewing, job, worker and request.                          *)
(***************************************************************************)
EXTENDS ViewingSchedule, TLAPS

-----------------------------------------------------------------------------
(* The inductive invariant. *)

Snapshot == [viewings : [Viewings -> ViewingRecord], receipts : [Keys -> {"none", "valid", "expired"}],
             syncs : SUBSET Viewings, at : Nat]
WorkState == [pc : {"idle", "claimed", "running", "refused", "sending", "waiting", "errored", "returned"},
              job : JobIds \cup {NoJob}, content : {"none", "active", "closed", "deleted"}]
Message == [viewing : Viewings, revision : Versions, shows : {"active", "closed", "deleted"}]

\* The types.
Shape ==
  /\ viewings \in [Viewings -> ViewingRecord]
  /\ receipts \in [Keys -> {"none", "valid", "expired"}]
  /\ jobs \in [JobIds -> JobState]
  /\ work \in [Workers -> WorkState]
  /\ tx \in [Processes -> Snapshot \cup {NoTx}]
  /\ gateway \in [Viewings -> [revision : Nat, shows : {"none", "active", "closed", "deleted"}]]
  /\ net \subseteq Message
  /\ reminded \in [Viewings \X Versions -> Nat] /\ booked \in [Keys -> Nat]
  /\ open \in BOOLEAN
  /\ clock \in 0 .. MaxTime /\ faults \in 0 .. MaxFaults

\* A viewing that is gone, or not there yet, has no fields; any other has all of them.
Empty(r) ==
  /\ r.status \in {"absent", "deleted"} <=> r.sync = "none"
  /\ r.status \in {"absent", "deleted"} <=> r.version = 0

\* At most one transaction is open, and what it has read is still so, but for what the
\* calendar is said to have.
Exclusive == \A p, q \in Processes : tx[p] # NoTx /\ tx[q] # NoTx => p = q

SameBooking(a, b) ==
  /\ a.status = b.status /\ a.agent = b.agent /\ a.property = b.property
  /\ a.window = b.window /\ a.version = b.version

Current ==
  \A p \in Processes : tx[p] # NoTx =>
    /\ \A v \in Viewings : SameBooking(tx[p].viewings[v], viewings[v])
    /\ tx[p].at <= clock

NoClash ==
  \A u, v \in Viewings :
    /\ u # v /\ viewings[u].status = "active" /\ viewings[v].status = "active"
    /\ Overlap(viewings[u].window, viewings[v].window)
    => viewings[u].agent # viewings[v].agent /\ viewings[u].property # viewings[v].property

Receipted(k) == booked[k] <= 1 /\ (receipts[k] # "valid" => booked[k] = 0)

\* What is to come has left no trace: no job has a version beyond its viewing's, and only
\* a deleted viewing has a tombstone.
RemindedOf(i) == reminded[<<i.viewing, i.version>>]

Unused(i) ==
  viewings[i.viewing].status # "deleted" /\ (i.kind = "delete" \/ i.version > viewings[i.viewing].version)
    => jobs[i] = Unqueued /\ (i.kind = "reminder" => RemindedOf(i) = 0)

\* A worker works for a job that is there, and is in a transaction only to remind.
InHand(w) ==
  LET i == work[w].job IN
    /\ work[w].pc # "idle" => i \in JobIds /\ jobs[i].status # "absent"
    /\ work[w].pc \in {"sending", "waiting"} => i.kind # "reminder"
    /\ work[w].pc = "sending" => work[w].content # "none" /\ (work[w].content = "deleted" <=> i.kind = "delete")
    /\ tx[w] # NoTx => work[w].pc = "running" /\ i.kind = "reminder"

\* A reminder was sent only if its job says so, which it also does when there was
\* nothing to send; only then is it completed.
Reminder(i) ==
  i.kind = "reminder" =>
    LET r == viewings[i.viewing] IN
      /\ RemindedOf(i) <= 1
      /\ ~jobs[i].committed => RemindedOf(i) = 0
      /\ jobs[i].status = "completed" => jobs[i].committed
      /\ r.status = "active" /\ r.version = i.version =>
           /\ jobs[i].status # "cancelled"
           /\ jobs[i].committed => RemindedOf(i) = 1 \/ r.window[1] <= clock

\* A worker that returns with its claim has done what the job was for.
Done(i) ==
  /\ i.kind = "reminder" => jobs[i].committed
  /\ i.kind = "sync" => ~(viewings[i.viewing].version = i.version /\ viewings[i.viewing].sync = "pending")
  /\ i.kind = "delete" => gateway[i.viewing].revision >= i.version

Returned(w) == work[w].pc = "returned" /\ Owns(w, work[w].job) => Done(work[w].job)

\* The calendar has heard, or will hear, of no revision beyond the viewing's, and nothing
\* later than its tombstone, of which there is one.
Tombstones ==
  \A i, j \in JobIds :
    /\ i.viewing = j.viewing /\ i.kind = "delete"
    /\ jobs[i].status # "absent" /\ jobs[j].status # "absent"
    => IF j.kind = "delete" THEN j.version = i.version ELSE j.version < i.version

Heard(v, revision, shows) ==
  /\ viewings[v].status # "deleted" => revision <= viewings[v].version /\ shows # "deleted"
  /\ \A i \in JobIds :
       i.kind = "delete" /\ i.viewing = v /\ jobs[i].status # "absent"
         => revision <= i.version /\ (revision = i.version => shows = "deleted")

Sent ==
  /\ \A m \in net : Heard(m.viewing, m.revision, m.shows)
  /\ \A v \in Viewings : Heard(v, gateway[v].revision, gateway[v].shows)

Synced(v) == viewings[v].sync = "synced" => gateway[v].revision = viewings[v].version

Pending(v) ==
  viewings[v].sync = "pending" =>
    jobs[[kind |-> "sync", viewing |-> v, version |-> viewings[v].version]].status \in Live \cup {"failed"}

Deleted(i) == i.kind = "delete" /\ jobs[i].status = "completed" => gateway[i.viewing].revision >= i.version

IInv ==
  /\ Shape
  /\ \A v \in Viewings : Empty(viewings[v])
  /\ Exclusive /\ Current
  /\ NoClash
  /\ \A k \in Keys : Receipted(k)
  /\ \A i \in JobIds : Unused(i)
  /\ \A w \in Workers : InHand(w)
  /\ \A i \in JobIds : Reminder(i)
  /\ \A w \in Workers : Returned(w)
  /\ Tombstones /\ Sent
  /\ \A v \in Viewings : Synced(v) /\ Pending(v)
  /\ \A i \in JobIds : Deleted(i)

-----------------------------------------------------------------------------
(* What a step does, point by point. *)

\* The jobs in new are queued, others of the viewing and these kinds may be cancelled.
Replaced(v, kinds, new) ==
  \A i \in JobIds :
    IF i \in new THEN jobs'[i].status = "pending" /\ ~jobs'[i].committed
    ELSE \/ jobs'[i] = jobs[i]
         \/ /\ jobs[i].status # "absent" /\ jobs'[i].status = "cancelled"
            /\ jobs'[i].committed = jobs[i].committed
            /\ i.viewing = v /\ i.kind \in kinds

Others(v) == \A u \in Viewings \ {v} : viewings'[u] = viewings[u]

\* No transaction is open that was not open before.
Fewer == \A p \in Processes : tx'[p] # NoTx => tx'[p] = tx[p]

Closed == \A p \in Processes : tx'[p] = NoTx

\* The viewing has a new version, with a calendar job and perhaps a reminder of its own.
Stored(v) ==
  /\ Others(v)
  /\ viewings[v].status # "deleted"
  /\ viewings'[v].status \in {"active", "closed"}
  /\ viewings'[v].version = viewings[v].version + 1
  /\ viewings'[v].sync = "pending"
  /\ \A u \in Viewings \ {v} :
       /\ viewings[u].status = "active" /\ viewings'[v].status = "active"
       /\ Overlap(viewings[u].window, viewings'[v].window)
       => viewings[u].agent # viewings'[v].agent /\ viewings[u].property # viewings'[v].property
  /\ \E new \in SUBSET JobIds :
       /\ Replaced(v, {"reminder", "sync"}, new)
       /\ \A i \in new : i.viewing = v /\ i.version = viewings'[v].version /\ i.kind # "delete"
       /\ [kind |-> "sync", viewing |-> v, version |-> viewings'[v].version] \in new
  /\ Closed /\ UNCHANGED <<work, gateway, net, clock, reminded>>

Tombstone(v) == [kind |-> "delete", viewing |-> v, version |-> viewings[v].version + 1]

Removed(v) ==
  /\ Others(v)
  /\ viewings[v].status \in {"active", "closed"}
  /\ viewings'[v] = [NoViewing EXCEPT !.status = "deleted"]
  /\ Tombstone(v) \in JobIds
  /\ Replaced(v, {"reminder", "sync"}, {Tombstone(v)})
  /\ Closed /\ UNCHANGED <<work, gateway, net, clock, reminded>>

Rescheduled(v) ==
  /\ viewings[v].status = "active"
  /\ LET job == [kind |-> "sync", viewing |-> v, version |-> viewings[v].version]
     IN job \in JobIds /\ Replaced(v, {"sync"}, {job})
  /\ Closed /\ UNCHANGED <<viewings, work, gateway, net, clock, reminded>>

-----------------------------------------------------------------------------
(* The types. *)

\* Making room for new jobs touches none but those of the same viewing and kinds.
LEMMA RequeuedJobs ==
  ASSUME jobs \in [JobIds -> JobState], NEW v, NEW kinds, NEW new,
         \A i \in DOMAIN new : new[i] \in Nat, jobs' = Requeued(v, kinds, new)
  PROVE  jobs' \in [JobIds -> JobState] /\ Replaced(v, kinds, DOMAIN new)
<1>1. ASSUME NEW i \in JobIds
      PROVE  /\ jobs'[i] \in JobState
             /\ IF i \in DOMAIN new THEN jobs'[i].status = "pending" /\ ~jobs'[i].committed
                ELSE \/ jobs'[i] = jobs[i]
                     \/ /\ jobs[i].status # "absent" /\ jobs'[i].status = "cancelled"
                        /\ jobs'[i].committed = jobs[i].committed
                        /\ i.viewing = v /\ i.kind \in kinds
  <2>1. jobs[i] \in JobState
    OBVIOUS
  <2>2. CASE i \in DOMAIN new
    <3>1. jobs'[i] = Queued(new[i])
      BY <2>2 DEF Requeued
    <3>2. new[i] \in Nat
      BY <2>2
    <3> QED BY <2>2, <3>1, <3>2 DEF Queued, Unqueued, JobState, Live
  <2>3. CASE i \notin DOMAIN new /\ i.viewing = v /\ i.kind \in kinds /\ jobs[i].status \in Live
    <3>1. jobs'[i] = [jobs[i] EXCEPT !.status = "cancelled"]
      BY <2>3 DEF Requeued
    <3> QED BY <2>1, <2>3, <3>1 DEF JobState, Live
  <2>4. CASE i \notin DOMAIN new /\ ~(i.viewing = v /\ i.kind \in kinds /\ jobs[i].status \in Live)
    BY <2>1, <2>4 DEF Requeued
  <2> QED BY <2>2, <2>3, <2>4
<1>2. jobs' = [i \in JobIds |-> jobs'[i]]
  BY DEF Requeued
<1> QED BY <1>1, <1>2 DEF Replaced

\* Storing a viewing queues jobs of its new version only.
LEMMA StoredJobs ==
  ASSUME jobs \in [JobIds -> JobState], clock \in Nat, NEW v \in Viewings, NEW r \in ViewingRecord,
         r.version \in Versions, r.status = "active" => r.window \in Windows,
         Store(v, r)
  PROVE  /\ jobs' \in [JobIds -> JobState]
         /\ \E new \in SUBSET JobIds :
              /\ Replaced(v, {"reminder", "sync"}, new)
              /\ \A i \in new : i.viewing = v /\ i.version = r.version /\ i.kind # "delete"
              /\ [kind |-> "sync", viewing |-> v, version |-> r.version] \in new
<1> DEFINE job(kind) == [kind |-> kind, viewing |-> v, version |-> r.version]
           reminds == r.status = "active" /\ r.window[1] > clock + ReminderLead
           queued == {job(kind) : kind \in IF reminds THEN {"sync", "reminder"} ELSE {"sync"}}
           new == [i \in queued |-> IF i.kind = "sync" THEN clock ELSE r.window[1] - ReminderLead]
<1>1. jobs' = Requeued(v, {"reminder", "sync"}, new)
  BY DEF Store, Effects
<1>2. ReminderLead \in Nat
  BY BoundsAssumption
<1>3. \A i \in DOMAIN new : new[i] \in Nat
  <2>1. ASSUME NEW i \in queued, i.kind # "sync" PROVE r.window[1] - ReminderLead \in Nat
    <3>1. reminds
      BY <2>1
    <3>2. r.window[1] \in Nat
      BY <3>1, WindowsAssumption
    <3> QED BY <3>1, <3>2, <1>2
  <2> QED BY <2>1
<1>4. /\ queued \in SUBSET JobIds
      /\ \A i \in queued : i.viewing = v /\ i.version = r.version /\ i.kind # "delete"
      /\ job("sync") \in queued
  BY DEF JobIds, Kinds
<1>5. DOMAIN new = queued
  OBVIOUS
<1> HIDE DEF new, queued
<1>6. jobs' \in [JobIds -> JobState] /\ Replaced(v, {"reminder", "sync"}, DOMAIN new)
  BY <1>1, <1>3, RequeuedJobs
<1> QED BY <1>4, <1>5, <1>6

\* A transaction that commits a viewing commits it to the state it has read.
LEMMA Commits ==
  ASSUME Shape, Exclusive, Current, NEW p \in Processes, tx[p] # NoTx, NEW v \in Viewings,
         NEW r \in ViewingRecord, r.status \in {"active", "closed"}, r.sync = "pending",
         r.window \in Windows, r.version = viewings[v].version + 1,
         viewings[v].status # "deleted",
         r.status = "active" => ~Conflict(p, v, r.agent, r.property, r.window),
         Store(v, r), End(p), UNCHANGED <<work, gateway, net, clock, reminded>>
  PROVE  /\ viewings' \in [Viewings -> ViewingRecord] /\ jobs' \in [JobIds -> JobState]
         /\ tx' \in [Processes -> Snapshot \cup {NoTx}]
         /\ Stored(v)
<1>1. viewings' = [viewings EXCEPT ![v] = r] /\ viewings \in [Viewings -> ViewingRecord]
  BY DEF Store, Shape
<1>2. viewings' \in [Viewings -> ViewingRecord] /\ viewings'[v] = r /\ Others(v)
  BY <1>1 DEF Others
<1>3. tx' \in [Processes -> Snapshot \cup {NoTx}] /\ Closed
  <2>1. tx \in [Processes -> Snapshot \cup {NoTx}] /\ tx' = [tx EXCEPT ![p] = NoTx]
    BY DEF Shape, End
  <2>2. \A q \in Processes : tx'[q] = NoTx
    BY <2>1 DEF Exclusive
  <2> QED BY <2>1, <2>2 DEF Closed
<1>4. r.version \in Versions
  <2>1. r.version \in 0 .. MaxVersion /\ viewings[v].version \in 0 .. MaxVersion
    BY DEF Shape, ViewingRecord
  <2> QED BY <2>1, BoundsAssumption DEF Versions
<1>5. clock \in Nat
  BY BoundsAssumption DEF Shape
<1>6. /\ jobs' \in [JobIds -> JobState]
      /\ \E new \in SUBSET JobIds :
           /\ Replaced(v, {"reminder", "sync"}, new)
           /\ \A i \in new : i.viewing = v /\ i.version = r.version /\ i.kind # "delete"
           /\ [kind |-> "sync", viewing |-> v, version |-> r.version] \in new
  <2>1. jobs \in [JobIds -> JobState]
    BY DEF Shape
  <2> QED BY <1>4, <1>5, <2>1, StoredJobs
<1>7. ASSUME NEW u \in Viewings \ {v}, viewings[u].status = "active", r.status = "active",
             Overlap(viewings[u].window, r.window)
      PROVE  viewings[u].agent # r.agent /\ viewings[u].property # r.property
  <2>1. SameBooking(tx[p].viewings[u], viewings[u])
    BY DEF Current
  <2> QED BY <1>7, <2>1 DEF Conflict, SameBooking
<1> QED BY <1>2, <1>3, <1>6, <1>7 DEF Stored

\* A new viewing, whoever asks for it.
LEMMA Creates ==
  ASSUME IInv, NEW p \in Processes, NEW v \in Viewings, NEW a \in Agents, NEW q \in Properties,
         NEW win \in Windows, NEW status \in {"active", "closed"}, Create(p, v, a, q, win, status),
         UNCHANGED <<work, gateway, net, clock, reminded>>
  PROVE  /\ viewings' \in [Viewings -> ViewingRecord] /\ jobs' \in [JobIds -> JobState]
         /\ tx' \in [Processes -> Snapshot \cup {NoTx}]
         /\ Stored(v)
<1> DEFINE r == [status |-> status, agent |-> a, property |-> q, window |-> win,
                 version |-> 1, sync |-> "pending"]
<1>1. /\ r \in ViewingRecord /\ r.status = status /\ r.agent = a /\ r.property = q
      /\ r.window = win /\ r.version = 1 /\ r.sync = "pending"
  BY BoundsAssumption DEF ViewingRecord
<1>2. Store(v, r) /\ End(p) /\ tx[p] # NoTx /\ viewings[v].status = "absent"
  BY DEF Create
<1>3. status = "active" => ~Conflict(p, v, a, q, win)
  BY DEF Create
<1>4. viewings[v].version = 0
  <2>1. Empty(viewings[v])
    BY DEF IInv
  <2> QED BY <1>2, <2>1 DEF Empty
<1>5. Shape /\ Exclusive /\ Current
  BY DEF IInv
<1> HIDE DEF r
<1> QED BY <1>1, <1>2, <1>3, <1>4, <1>5, Commits

\* An update changes the version that it has read.
LEMMA Updates ==
  ASSUME IInv, NEW p \in Processes, NEW v \in Viewings, NEW a \in Agents, NEW q \in Properties,
         NEW win \in Windows, NEW status \in {"active", "closed"},
         UpdateViewing(p, v, a, q, win, status)
  PROVE  /\ viewings' \in [Viewings -> ViewingRecord] /\ jobs' \in [JobIds -> JobState]
         /\ tx' \in [Processes -> Snapshot \cup {NoTx}]
         /\ Stored(v)
<1> DEFINE n == viewings[v].version + 1
           r == [status |-> status, agent |-> a, property |-> q, window |-> win,
                 version |-> n, sync |-> "pending"]
<1>1. /\ tx[p] # NoTx /\ viewings[v].status \in {"active", "closed"}
      /\ viewings[v].version < MaxVersion
      /\ status = "active" => ~Conflict(p, v, a, q, win)
      /\ Store(v, r) /\ End(p)
      /\ UNCHANGED <<work, gateway, net, clock, reminded>>
  BY DEF UpdateViewing
<1>2. Shape /\ Exclusive /\ Current
  BY DEF IInv
<1>3. n \in 0 .. MaxVersion
  <2>1. viewings[v].version \in 0 .. MaxVersion
    BY <1>2 DEF Shape, ViewingRecord
  <2> QED BY <1>1, <2>1, BoundsAssumption
<1>4. n = viewings[v].version + 1
  OBVIOUS
<1> HIDE DEF n
<1>5. /\ r \in ViewingRecord /\ r.status = status /\ r.agent = a /\ r.property = q
      /\ r.window = win /\ r.version = n /\ r.sync = "pending"
  BY <1>3 DEF ViewingRecord
<1> HIDE DEF r
<1> QED BY <1>1, <1>2, <1>4, <1>5, Commits

\* A deletion leaves the tombstone of the next revision.
LEMMA Deletes ==
  ASSUME IInv, NEW p \in Processes, NEW v \in Viewings, DeleteViewing(p, v)
  PROVE  /\ viewings' \in [Viewings -> ViewingRecord] /\ jobs' \in [JobIds -> JobState]
         /\ tx' \in [Processes -> Snapshot \cup {NoTx}]
         /\ Removed(v)
<1> DEFINE gone == [NoViewing EXCEPT !.status = "deleted"]
           new == [i \in {Tombstone(v)} |-> clock]
<1>1. Shape /\ Exclusive
  BY DEF IInv
<1>2. /\ tx[p] # NoTx /\ viewings[v].status \in {"active", "closed"}
      /\ viewings' = [viewings EXCEPT ![v] = gone]
      /\ jobs' = Requeued(v, {"reminder", "sync"}, new)
      /\ tx' = [tx EXCEPT ![p] = NoTx]
      /\ UNCHANGED <<work, gateway, net, clock, reminded>>
  BY DEF DeleteViewing, TombstoneRevision, Tombstone, End
<1>3. gone \in ViewingRecord
  BY BoundsAssumption DEF NoViewing, ViewingRecord
<1>4. viewings \in [Viewings -> ViewingRecord] /\ jobs \in [JobIds -> JobState] /\ clock \in Nat
      /\ tx \in [Processes -> Snapshot \cup {NoTx}]
  BY <1>1, BoundsAssumption DEF Shape
<1>5. viewings' \in [Viewings -> ViewingRecord] /\ viewings'[v] = gone /\ Others(v)
  BY <1>2, <1>3, <1>4 DEF Others
<1>6. Tombstone(v) \in JobIds
  <2>1. viewings[v].version \in 0 .. MaxVersion
    BY <1>4 DEF ViewingRecord
  <2> QED BY <2>1, BoundsAssumption DEF Tombstone, JobIds, Kinds, Versions
<1>7. jobs' \in [JobIds -> JobState] /\ Replaced(v, {"reminder", "sync"}, {Tombstone(v)})
  <2>1. \A i \in DOMAIN new : new[i] \in Nat
    BY <1>4
  <2>2. DOMAIN new = {Tombstone(v)}
    OBVIOUS
  <2> HIDE DEF new
  <2> QED BY <1>2, <1>4, <2>1, <2>2, RequeuedJobs
<1>8. tx' \in [Processes -> Snapshot \cup {NoTx}] /\ Closed
  BY <1>1, <1>2, <1>4 DEF Exclusive, Closed
<1> QED BY <1>2, <1>5, <1>6, <1>7, <1>8 DEF Removed

\* The recovery scan queues the version that the viewing still has.
LEMMA Schedules ==
  ASSUME IInv, NEW v \in Viewings, ScheduleSync(v)
  PROVE  /\ jobs' \in [JobIds -> JobState]
         /\ tx' \in [Processes -> Snapshot \cup {NoTx}]
         /\ Rescheduled(v)
<1> DEFINE job == [kind |-> "sync", viewing |-> v, version |-> viewings[v].version]
           new == [i \in {job} |-> clock]
<1>1. Shape /\ Exclusive /\ Current /\ Empty(viewings[v]) /\ Scan \in Processes
  BY DEF IInv, Processes
<1>2. tx[Scan] # NoTx /\ SameBooking(tx[Scan].viewings[v], viewings[v])
  BY <1>1 DEF ScheduleSync, Current
<1>3. viewings[v].status = "active"
  BY <1>2 DEF ScheduleSync, SameBooking
<1>4. /\ jobs' = Requeued(v, {"sync"}, new)
      /\ tx' = [tx EXCEPT ![Scan] = NoTx]
      /\ UNCHANGED <<viewings, work, gateway, net, clock, reminded>>
  BY <1>2 DEF ScheduleSync, SameBooking, End
<1>5. viewings \in [Viewings -> ViewingRecord] /\ jobs \in [JobIds -> JobState] /\ clock \in Nat
      /\ tx \in [Processes -> Snapshot \cup {NoTx}]
  BY <1>1, BoundsAssumption DEF Shape
<1>6. job \in JobIds
  <2>1. viewings[v].version \in 0 .. MaxVersion
    BY <1>5 DEF ViewingRecord
  <2>2. viewings[v].version # 0
    BY <1>1, <1>3 DEF Empty
  <2> QED BY <2>1, <2>2, BoundsAssumption DEF JobIds, Kinds, Versions
<1>7. jobs' \in [JobIds -> JobState] /\ Replaced(v, {"sync"}, {job})
  <2>1. \A i \in DOMAIN new : new[i] \in Nat
    BY <1>5
  <2>2. DOMAIN new = {job}
    OBVIOUS
  <2> HIDE DEF new
  <2> QED BY <1>4, <1>5, <2>1, <2>2, RequeuedJobs
<1>8. tx' \in [Processes -> Snapshot \cup {NoTx}] /\ Closed
  BY <1>1, <1>2, <1>4, <1>5 DEF Exclusive, Closed
<1> QED BY <1>3, <1>4, <1>6, <1>7, <1>8 DEF Rescheduled

-----------------------------------------------------------------------------
(* What a worker's step does. *)

OtherWork(w) == \A u \in Workers \ {w} : work'[u] = work[u]
OtherJobs(i) == \A j \in JobIds \ {i} : jobs'[j] = jobs[j]

Unmoved == UNCHANGED <<viewings, gateway, net, clock>>

Claimed(w, i) ==
  /\ OtherWork(w) /\ OtherJobs(i) /\ tx[w] = NoTx
  /\ work'[w].pc = "claimed" /\ work'[w].job = i
  /\ jobs[i].status # "absent"
  /\ jobs'[i].status = "processing" /\ jobs'[i].owner = w /\ jobs'[i].committed = jobs[i].committed
  /\ Unmoved /\ UNCHANGED <<tx, reminded>>

\* The reminder is sent, or there is nothing to send any more, or the claim is lost.
Sends(i) ==
  /\ viewings[i.viewing].status = "active" /\ viewings[i.viewing].version = i.version
       /\ ~(viewings[i.viewing].window[1] <= clock)
     => reminded'[<<i.viewing, i.version>>] = RemindedOf(i) + 1
  /\ reminded'[<<i.viewing, i.version>>] \in {RemindedOf(i), RemindedOf(i) + 1}
  /\ \A k \in (Viewings \X Versions) \ {<<i.viewing, i.version>>} : reminded'[k] = reminded[k]

Reminding(w, i) ==
  /\ OtherWork(w) /\ OtherJobs(i)
  /\ work[w].pc = "running" /\ i = work[w].job /\ i.kind = "reminder"
  /\ work'[w].pc = "returned" /\ work'[w].job = i
  /\ jobs'[i].status = jobs[i].status /\ jobs'[i].owner = jobs[i].owner
  /\ \/ Fenced(w) /\ jobs'[i].committed /\ Sends(i)
     \/ ~Fenced(w) /\ UNCHANGED <<jobs, reminded>>
  /\ Unmoved /\ Closed

\* The worker goes on with the same job.
Proceeding(w) ==
  /\ OtherWork(w) /\ work'[w].job = work[w].job
  /\ work[w].pc # "idle" /\ tx[w] = NoTx
  /\ work'[w].pc \in {"running", "refused", "sending", "returned"}
  /\ work'[w].pc = "sending" =>
       /\ work[w].job.kind # "reminder" /\ work'[w].content # "none"
       /\ work'[w].content = "deleted" <=> work[w].job.kind = "delete"
  /\ work'[w].pc = "returned" /\ Owns(w, work[w].job) =>
       /\ work[w].job.kind = "sync"
       /\ ~(/\ viewings[work[w].job.viewing].status \in {"active", "closed"}
            /\ viewings[work[w].job.viewing].version = work[w].job.version)
  /\ Unmoved /\ UNCHANGED <<jobs, tx, reminded>>

\* The worker drops its job or dies.
Leaving(w) ==
  /\ OtherWork(w) /\ work'[w].pc = "idle"
  /\ Unmoved /\ UNCHANGED <<jobs, reminded>> /\ Fewer /\ tx'[w] = NoTx

Acknowledging(w, i) ==
  /\ OtherWork(w) /\ OtherJobs(i) /\ work'[w].pc = "idle" /\ i = work[w].job
  /\ tx[w] = NoTx
  /\ Owns(w, i) /\ jobs'[i].committed = jobs[i].committed
  /\ \/ jobs'[i].status \in {"pending", "failed"}
     \/ jobs'[i].status = "completed" /\ work[w].pc = "returned"
  /\ Unmoved /\ UNCHANGED <<tx, reminded>>

\* What the worker did is written on the viewing, if that is still the same version.
Marking(w) ==
  LET i == work[w].job
  IN /\ OtherWork(w) /\ work[w].pc # "idle" /\ work'[w].job = i /\ i \in JobIds /\ tx[w] = NoTx
     /\ work'[w].pc \in {"returned", "errored"}
     /\ \/ UNCHANGED viewings
        \/ /\ Others(i.viewing) /\ i.kind = "sync"
           /\ viewings[i.viewing].status \in {"active", "closed"}
           /\ viewings[i.viewing].version = i.version
           /\ SameBooking(viewings'[i.viewing], viewings[i.viewing])
           /\ viewings'[i.viewing].sync \in {"not_configured", "synced", "failed"}
           /\ viewings'[i.viewing].sync = "synced" => gateway[i.viewing].revision >= i.version
     /\ work'[w].pc = "returned" =>
          /\ i.kind \in {"sync", "delete"}
          /\ i.kind = "delete" => gateway[i.viewing].revision >= i.version
          /\ i.kind = "sync" => \/ UNCHANGED viewings /\ viewings[i.viewing].version # i.version
                                \/ UNCHANGED viewings /\ viewings[i.viewing].sync = "none"
                                \/ viewings'[i.viewing].sync # "pending"
     /\ UNCHANGED <<jobs, tx, gateway, net, clock, reminded>>

Sending(w) ==
  LET i == work[w].job
  IN /\ OtherWork(w) /\ work[w].pc = "sending" /\ tx[w] = NoTx
     /\ work'[w].pc = "waiting" /\ work'[w].job = i
     /\ net' = net \cup {[viewing |-> i.viewing, revision |-> i.version, shows |-> work[w].content]}
     /\ UNCHANGED <<viewings, jobs, tx, gateway, clock, reminded>>

\* Where a worker stands, and on what.
LEMMA Stands ==
  ASSUME IInv, NEW w \in Workers
  PROVE  /\ work \in [Workers -> WorkState] /\ work[w] \in WorkState
         /\ tx \in [Processes -> Snapshot \cup {NoTx}] /\ w \in Processes
         /\ jobs \in [JobIds -> JobState]
         /\ work[w].pc # "idle" => work[w].job \in JobIds /\ jobs[work[w].job].status # "absent"
         /\ work[w].pc # "running" => tx[w] = NoTx
         /\ clock \in Nat
<1>1. Shape /\ InHand(w) /\ w \in Processes
  BY DEF IInv, Processes
<1>2. clock \in Nat
  BY <1>1, BoundsAssumption DEF Shape
<1> QED BY <1>1, <1>2 DEF Shape, InHand

\* A claim gives the job to the worker.
LEMMA Claims ==
  ASSUME IInv, NEW w \in Workers, NEW i \in JobIds, Claim(w, i)
  PROVE  /\ jobs' \in [JobIds -> JobState] /\ work' \in [Workers -> WorkState]
         /\ Claimed(w, i)
<1>1. /\ work \in [Workers -> WorkState] /\ jobs \in [JobIds -> JobState]
      /\ work[w].pc # "running" => tx[w] = NoTx
  BY Stands
<1>2. /\ jobs' = [jobs EXCEPT ![i].status = "processing", ![i].owner = w]
      /\ work[w].pc = "idle"
      /\ work' = [work EXCEPT ![w] = [pc |-> "claimed", job |-> i, content |-> "none"]]
      /\ jobs[i].status \in {"pending", "processing"}
      /\ Unmoved /\ UNCHANGED <<tx, reminded>>
  BY DEF Claim, Unmoved
<1>3. /\ jobs' \in [JobIds -> JobState] /\ OtherJobs(i)
      /\ jobs'[i].status = "processing" /\ jobs'[i].owner = w /\ jobs'[i].committed = jobs[i].committed
  BY <1>1, <1>2 DEF JobState, Live, OtherJobs
<1>4. /\ work' \in [Workers -> WorkState] /\ OtherWork(w)
      /\ work'[w].pc = "claimed" /\ work'[w].job = i
  BY <1>1, <1>2 DEF WorkState, OtherWork
<1> QED BY <1>1, <1>2, <1>3, <1>4 DEF Claimed

\* A worker whose pc alone changes keeps its job.
LEMMA Moves ==
  ASSUME work \in [Workers -> WorkState], NEW w \in Workers,
         NEW pc \in {"idle", "claimed", "running", "refused", "sending", "waiting", "errored", "returned"},
         MoveTo(w, pc)
  PROVE  /\ work' \in [Workers -> WorkState] /\ OtherWork(w)
         /\ work'[w].pc = pc /\ work'[w].job = work[w].job
BY DEF MoveTo, WorkState, OtherWork

\* Admission leaves the worker with its job, running, refused or without its claim.
LEMMA Admits ==
  ASSUME IInv, NEW w \in Workers, Admit(w)
  PROVE  work' \in [Workers -> WorkState] /\ Proceeding(w)
<1> DEFINE pc == IF ~Owns(w, work[w].job) THEN "returned" ELSE IF open THEN "running" ELSE "refused"
<1>1. work[w].pc = "claimed" /\ MoveTo(w, pc) /\ Unmoved /\ UNCHANGED <<jobs, tx, reminded>>
  BY DEF Admit, Unmoved
<1>2. pc \in {"returned", "running", "refused"} /\ (Owns(w, work[w].job) => pc # "returned")
  OBVIOUS
<1> HIDE DEF pc
<1>3. work \in [Workers -> WorkState] /\ tx[w] = NoTx
  BY <1>1, Stands
<1>4. /\ work' \in [Workers -> WorkState] /\ OtherWork(w)
      /\ work'[w].pc = pc /\ work'[w].job = work[w].job
  BY <1>1, <1>2, <1>3, Moves
<1> QED BY <1>1, <1>2, <1>3, <1>4 DEF Proceeding

\* A calendar job that is current takes its content from the viewing.
LEMMA Reads ==
  ASSUME IInv, NEW w \in Workers, ReadViewing(w)
  PROVE  work' \in [Workers -> WorkState] /\ Proceeding(w)
<1> DEFINE i == work[w].job
           r == viewings[i.viewing]
           current == r.status \in {"active", "closed"} /\ r.version = i.version
           after == [work[w] EXCEPT !.pc = IF current THEN "sending" ELSE "returned",
                                    !.content = IF current THEN r.status ELSE "none"]
<1>1. /\ work[w].pc = "running" /\ i.kind = "sync"
      /\ work' = [work EXCEPT ![w] = after]
      /\ Unmoved /\ UNCHANGED <<jobs, tx, reminded>>
  BY DEF ReadViewing, Unmoved
<1>2. work \in [Workers -> WorkState] /\ work[w] \in WorkState
  BY Stands
<1>3. tx[w] = NoTx
  BY <1>1 DEF IInv, InHand
<1>4. /\ after \in WorkState /\ after.job = i
      /\ current => after.pc = "sending" /\ after.content = r.status /\ r.status \in {"active", "closed"}
      /\ ~current => after.pc = "returned"
  BY <1>2 DEF WorkState
<1> HIDE DEF after
<1>5. work' \in [Workers -> WorkState] /\ OtherWork(w) /\ work'[w] = after
  BY <1>1, <1>2, <1>4 DEF OtherWork
<1> QED BY <1>1, <1>3, <1>4, <1>5 DEF Proceeding

\* A tombstone is its own content.
LEMMA Deleting ==
  ASSUME IInv, NEW w \in Workers, ReadTombstone(w)
  PROVE  work' \in [Workers -> WorkState] /\ Proceeding(w)
<1> DEFINE after == [work[w] EXCEPT !.pc = "sending", !.content = "deleted"]
<1>1. /\ work[w].pc = "running" /\ work[w].job.kind = "delete"
      /\ work' = [work EXCEPT ![w] = after]
      /\ Unmoved /\ UNCHANGED <<jobs, tx, reminded>>
  BY DEF ReadTombstone, Unmoved
<1>2. work \in [Workers -> WorkState] /\ work[w] \in WorkState
  BY Stands
<1>3. tx[w] = NoTx
  BY <1>1 DEF IInv, InHand
<1>4. after \in WorkState /\ after.job = work[w].job /\ after.pc = "sending" /\ after.content = "deleted"
  BY <1>2 DEF WorkState
<1> HIDE DEF after
<1>5. work' \in [Workers -> WorkState] /\ OtherWork(w) /\ work'[w] = after
  BY <1>1, <1>2, <1>4 DEF OtherWork
<1> QED BY <1>1, <1>3, <1>4, <1>5 DEF Proceeding

\* A crash ends what the worker was doing, its transaction too.
LEMMA Dies ==
  ASSUME IInv, NEW w \in Workers, Crash(w)
  PROVE  /\ work' \in [Workers -> WorkState] /\ tx' \in [Processes -> Snapshot \cup {NoTx}]
         /\ Leaving(w)
<1>1. /\ work \in [Workers -> WorkState] /\ w \in Processes
      /\ tx \in [Processes -> Snapshot \cup {NoTx}]
  BY Stands
<1>2. /\ work' = [work EXCEPT ![w] = Resting] /\ tx' = [tx EXCEPT ![w] = NoTx]
      /\ Unmoved /\ UNCHANGED <<jobs, reminded>>
  BY DEF Crash, End, Unmoved
<1>3. work' \in [Workers -> WorkState] /\ OtherWork(w) /\ work'[w].pc = "idle"
  BY <1>1, <1>2 DEF Resting, WorkState, OtherWork
<1>4. tx' \in [Processes -> Snapshot \cup {NoTx}] /\ Fewer /\ tx'[w] = NoTx
  BY <1>1, <1>2 DEF Fewer
<1> QED BY <1>2, <1>3, <1>4 DEF Leaving

\* An acknowledgement counts only for the worker that still has the claim.
LEMMA Acknowledges ==
  ASSUME IInv, NEW w \in Workers, Acknowledge(w)
  PROVE  /\ work' \in [Workers -> WorkState] /\ jobs' \in [JobIds -> JobState]
         /\ tx' = tx
         /\ Leaving(w) \/ Acknowledging(w, work[w].job)
<1> DEFINE i == work[w].job
           result == [returned |-> {"completed"}, refused |-> {"pending"},
                      errored |-> {"pending", "failed"}]
<1>1. /\ work \in [Workers -> WorkState] /\ jobs \in [JobIds -> JobState]
      /\ work[w].pc # "running" => tx[w] = NoTx
      /\ work[w].pc # "idle" => i \in JobIds
  BY Stands
<1>2. /\ work[w].pc \in {"returned", "refused", "errored"}
      /\ work' = [work EXCEPT ![w] = Resting]
      /\ Unmoved /\ UNCHANGED <<tx, reminded>>
  BY DEF Acknowledge, Unmoved
<1>3. PICK status \in result[work[w].pc] :
        jobs' = IF Owns(w, i) THEN [jobs EXCEPT ![i].status = status, ![i].owner = NoOne] ELSE jobs
  BY Zenon DEF Acknowledge
<1>4. /\ status \in {"completed", "pending", "failed"}
      /\ status = "completed" => work[w].pc = "returned"
  BY <1>2
<1>5. work' \in [Workers -> WorkState] /\ OtherWork(w) /\ work'[w].pc = "idle"
  BY <1>1, <1>2 DEF Resting, WorkState, OtherWork
<1>6. CASE ~Owns(w, i)
  BY <1>3, <1>1, <1>2, <1>4, <1>5, <1>6 DEF Leaving, Fewer
<1>7. CASE Owns(w, i)
  <2>1. i \in JobIds /\ tx[w] = NoTx
    BY <1>1, <1>2
  <2>2. /\ jobs' \in [JobIds -> JobState] /\ OtherJobs(i)
        /\ jobs'[i].status = status /\ jobs'[i].committed = jobs[i].committed
    BY <1>3, <1>1, <1>4, <1>7, <2>1 DEF JobState, Live, OtherJobs
  <2> QED BY <1>2, <1>4, <1>5, <1>7, <2>1, <2>2 DEF Acknowledging
<1> QED BY <1>6, <1>7

\* The marker on the job and the reminder are written together, and from the state that
\* the transaction has read.
LEMMA Reminds ==
  ASSUME IInv, NEW w \in Workers, Remind(w)
  PROVE  /\ work' \in [Workers -> WorkState] /\ jobs' \in [JobIds -> JobState]
         /\ tx' \in [Processes -> Snapshot \cup {NoTx}]
         /\ reminded' \in [Viewings \X Versions -> Nat]
         /\ Reminding(w, work[w].job) /\ work[w].job \in JobIds
<1> DEFINE i == work[w].job
           k == <<i.viewing, i.version>>
<1>1. Shape /\ Exclusive /\ Current /\ InHand(w) /\ w \in Processes
  BY DEF IInv, Processes
<1>2. /\ tx[w] # NoTx /\ MoveTo(w, "returned") /\ tx' = [tx EXCEPT ![w] = NoTx] /\ Unmoved
  BY DEF Remind, End, Unmoved
<1>3. work[w].pc = "running" /\ i \in JobIds /\ i.kind = "reminder"
  BY <1>1, <1>2 DEF InHand
<1>4. i.viewing \in Viewings /\ k \in Viewings \X Versions /\ i.version \in Versions
  BY <1>3 DEF JobIds
<1>5. /\ work' \in [Workers -> WorkState] /\ OtherWork(w)
      /\ work'[w].pc = "returned" /\ work'[w].job = i
  <2>1. work \in [Workers -> WorkState]
    BY <1>1 DEF Shape
  <2> QED BY <1>2, <2>1, Moves
<1>6. tx' \in [Processes -> Snapshot \cup {NoTx}] /\ Closed
  BY <1>1, <1>2 DEF Shape, Exclusive, Closed
<1>7. /\ jobs \in [JobIds -> JobState] /\ jobs[i] \in JobState
      /\ reminded \in [Viewings \X Versions -> Nat]
  BY <1>1, <1>3 DEF Shape
<1>8. CASE ~Fenced(w)
  <2>1. UNCHANGED <<jobs, reminded>>
    BY <1>8 DEF Remind
  <2> QED BY <1>2, <1>3, <1>5, <1>6, <1>7, <1>8, <2>1 DEF Reminding, OtherJobs
<1>9. CASE Fenced(w)
  <2>1. /\ jobs' = [jobs EXCEPT ![i].committed = TRUE]
        /\ reminded' = IF ReminderCurrent(tx[w].viewings, i, tx[w].at)
                       THEN [reminded EXCEPT ![k] = @ + 1] ELSE reminded
    BY <1>9 DEF Remind
  <2>2. /\ jobs' \in [JobIds -> JobState] /\ OtherJobs(i)
        /\ jobs'[i].status = jobs[i].status /\ jobs'[i].owner = jobs[i].owner /\ jobs'[i].committed
    <3>1. jobs' \in [JobIds -> JobState] /\ jobs'[i] = [jobs[i] EXCEPT !.committed = TRUE]
      BY <1>3, <1>7, <2>1 DEF JobState
    <3> QED BY <1>3, <1>7, <2>1, <3>1 DEF JobState, OtherJobs
  <2>3. /\ reminded' \in [Viewings \X Versions -> Nat]
        /\ \A l \in (Viewings \X Versions) \ {k} : reminded'[l] = reminded[l]
        /\ reminded'[k] \in {reminded[k], reminded[k] + 1}
        /\ ReminderCurrent(tx[w].viewings, i, tx[w].at) => reminded'[k] = reminded[k] + 1
    <3> HIDE DEF k
    <3>1. k \in Viewings \X Versions /\ reminded[k] \in Nat
      BY <1>4, <1>7
    <3> QED BY <1>7, <2>1, <3>1
  <2>4. ASSUME viewings[i.viewing].status = "active", viewings[i.viewing].version = i.version,
               ~(viewings[i.viewing].window[1] <= clock)
        PROVE  ReminderCurrent(tx[w].viewings, i, tx[w].at)
    <3>1. SameBooking(tx[w].viewings[i.viewing], viewings[i.viewing]) /\ tx[w].at <= clock
      BY <1>1, <1>2, <1>4 DEF Current
    <3>2. tx[w].at \in Nat /\ clock \in Nat
      <4>1. tx[w] \in Snapshot
        BY <1>1, <1>2 DEF Shape
      <4> QED BY <1>1, <4>1, BoundsAssumption DEF Snapshot, Shape
    <3>3. viewings[i.viewing].window[1] \in Nat
      <4>1. viewings[i.viewing].window \in Windows \cup {<<0, 0>>}
        BY <1>1, <1>4 DEF Shape, ViewingRecord
      <4> QED BY <4>1, WindowsAssumption
    <3> QED BY <2>4, <3>1, <3>2, <3>3 DEF ReminderCurrent, SameBooking
  <2>5. Sends(i)
    BY <2>3, <2>4 DEF Sends, RemindedOf
  <2> QED BY <1>2, <1>3, <1>5, <1>6, <1>9, <2>2, <2>3, <2>5 DEF Reminding
<1> QED BY <1>8, <1>9

\* A viewing is marked only if it is there and still has the version of the job.
LEMMA Marks ==
  ASSUME Shape, NEW i \in JobIds, NEW sync \in {"not_configured", "synced", "failed"}, Mark(i, sync)
  PROVE  /\ viewings' \in [Viewings -> ViewingRecord]
         /\ \/ /\ UNCHANGED viewings
               /\ ~(/\ viewings[i.viewing].status \in {"active", "closed"}
                    /\ viewings[i.viewing].version = i.version)
            \/ /\ Others(i.viewing)
               /\ viewings[i.viewing].status \in {"active", "closed"}
               /\ viewings[i.viewing].version = i.version
               /\ SameBooking(viewings'[i.viewing], viewings[i.viewing])
               /\ viewings'[i.viewing].sync = sync
<1>1. viewings \in [Viewings -> ViewingRecord] /\ i.viewing \in Viewings
  BY DEF Shape, JobIds
<1>2. CASE viewings[i.viewing].status \in {"active", "closed"} /\ viewings[i.viewing].version = i.version
  <2>1. viewings' = [viewings EXCEPT ![i.viewing].sync = sync]
    BY <1>2 DEF Mark
  <2>2. viewings' \in [Viewings -> ViewingRecord]
        /\ viewings'[i.viewing] = [viewings[i.viewing] EXCEPT !.sync = sync]
    BY <1>1, <2>1 DEF ViewingRecord
  <2>3. viewings[i.viewing] \in ViewingRecord
    BY <1>1
  <2>4. SameBooking(viewings'[i.viewing], viewings[i.viewing]) /\ viewings'[i.viewing].sync = sync
    BY <2>2, <2>3 DEF ViewingRecord, SameBooking
  <2> QED BY <1>1, <1>2, <2>1, <2>2, <2>4 DEF Others
<1>3. CASE ~(viewings[i.viewing].status \in {"active", "closed"} /\ viewings[i.viewing].version = i.version)
  BY <1>1, <1>3 DEF Mark
<1> QED BY <1>2, <1>3

\* Without a provider the viewing says so, and the tombstone waits.
LEMMA Unconfigured ==
  ASSUME IInv, NEW w \in Workers, NotConfigured(w)
  PROVE  /\ work' \in [Workers -> WorkState] /\ viewings' \in [Viewings -> ViewingRecord]
         /\ Marking(w)
<1> DEFINE i == work[w].job
           pc == IF i.kind = "sync" THEN "returned" ELSE "errored"
<1>1. Shape /\ InHand(w) /\ w \in Processes
  BY DEF IInv, Processes
<1>2. /\ work[w].pc = "sending" /\ MoveTo(w, pc)
      /\ IF i.kind = "sync" THEN Mark(i, "not_configured") ELSE UNCHANGED viewings
      /\ UNCHANGED <<jobs, tx, gateway, net, clock, reminded>>
  BY DEF NotConfigured
<1>3. i \in JobIds /\ tx[w] = NoTx /\ i.viewing \in Viewings
  BY <1>1, <1>2 DEF InHand, JobIds
<1>4. pc \in {"returned", "errored"} /\ (pc = "returned" => i.kind = "sync")
  OBVIOUS
<1> HIDE DEF pc
<1>5. /\ work' \in [Workers -> WorkState] /\ OtherWork(w)
      /\ work'[w].pc = pc /\ work'[w].job = i
  <2>1. work \in [Workers -> WorkState]
    BY <1>1 DEF Shape
  <2> QED BY <1>2, <1>4, <2>1, Moves
<1>6. CASE i.kind = "sync"
  <2>1. Mark(i, "not_configured")
    BY <1>2, <1>6
  <2>2. /\ viewings' \in [Viewings -> ViewingRecord]
        /\ \/ /\ UNCHANGED viewings
              /\ ~(/\ viewings[i.viewing].status \in {"active", "closed"}
                   /\ viewings[i.viewing].version = i.version)
           \/ /\ Others(i.viewing)
              /\ viewings[i.viewing].status \in {"active", "closed"}
              /\ viewings[i.viewing].version = i.version
              /\ SameBooking(viewings'[i.viewing], viewings[i.viewing])
              /\ viewings'[i.viewing].sync = "not_configured"
    BY <1>1, <1>3, <2>1, Marks
  <2>3. Empty(viewings[i.viewing]) /\ viewings[i.viewing] \in ViewingRecord
    BY <1>1, <1>3 DEF IInv, Shape
  <2> QED BY <1>2, <1>3, <1>4, <1>5, <1>6, <2>2, <2>3 DEF Marking, Empty, ViewingRecord
<1>7. CASE i.kind # "sync"
  BY <1>1, <1>2, <1>3, <1>4, <1>5, <1>7 DEF Marking, Shape
<1> QED BY <1>6, <1>7

\* The answer of the gateway is proof that it has this revision or a later one.
LEMMA Confirmed ==
  ASSUME IInv, NEW w \in Workers, Confirm(w)
  PROVE  /\ work' \in [Workers -> WorkState] /\ viewings' \in [Viewings -> ViewingRecord]
         /\ Marking(w)
<1> DEFINE i == work[w].job
<1>1. Shape /\ InHand(w) /\ w \in Processes
  BY DEF IInv, Processes
<1>2. /\ work[w].pc = "waiting" /\ MoveTo(w, "returned")
      /\ gateway[i.viewing].revision >= i.version
      /\ IF i.kind = "sync" THEN Mark(i, "synced") ELSE UNCHANGED viewings
      /\ UNCHANGED <<jobs, tx, gateway, net, clock, reminded>>
  BY DEF Confirm
<1>3. i \in JobIds /\ tx[w] = NoTx /\ i.viewing \in Viewings /\ i.kind \in {"sync", "delete"}
  BY <1>1, <1>2 DEF InHand, JobIds, Kinds
<1>4. /\ work' \in [Workers -> WorkState] /\ OtherWork(w)
      /\ work'[w].pc = "returned" /\ work'[w].job = i
  <2>1. work \in [Workers -> WorkState]
    BY <1>1 DEF Shape
  <2> QED BY <1>2, <2>1, Moves
<1>5. CASE i.kind = "sync"
  <2>1. Mark(i, "synced")
    BY <1>2, <1>5
  <2>2. /\ viewings' \in [Viewings -> ViewingRecord]
        /\ \/ /\ UNCHANGED viewings
              /\ ~(/\ viewings[i.viewing].status \in {"active", "closed"}
                   /\ viewings[i.viewing].version = i.version)
           \/ /\ Others(i.viewing)
              /\ viewings[i.viewing].status \in {"active", "closed"}
              /\ viewings[i.viewing].version = i.version
              /\ SameBooking(viewings'[i.viewing], viewings[i.viewing])
              /\ viewings'[i.viewing].sync = "synced"
    BY <1>1, <1>3, <2>1, Marks
  <2>3. Empty(viewings[i.viewing]) /\ viewings[i.viewing] \in ViewingRecord
    BY <1>1, <1>3 DEF IInv, Shape
  <2> QED BY <1>2, <1>3, <1>4, <1>5, <2>2, <2>3 DEF Marking, Empty, ViewingRecord
<1>6. CASE i.kind # "sync"
  BY <1>1, <1>2, <1>3, <1>4, <1>6 DEF Marking, Shape
<1> QED BY <1>5, <1>6

\* A call that fails marks the viewing or leaves it, and is retried or given up.
LEMMA Fails ==
  ASSUME IInv, NEW w \in Workers, EffectFails(w)
  PROVE  /\ work' \in [Workers -> WorkState] /\ viewings' \in [Viewings -> ViewingRecord]
         /\ Marking(w)
<1> DEFINE i == work[w].job
<1>1. Shape /\ InHand(w) /\ w \in Processes
  BY DEF IInv, Processes
<1>2. /\ work[w].pc \in {"running", "sending", "waiting"} /\ MoveTo(w, "errored") /\ tx[w] = NoTx
      /\ (i.kind = "sync" /\ Mark(i, "failed")) \/ UNCHANGED viewings
      /\ UNCHANGED <<jobs, tx, gateway, net, clock, reminded>>
  BY DEF EffectFails
<1>3. i \in JobIds /\ i.viewing \in Viewings
  BY <1>1, <1>2 DEF InHand, JobIds
<1>4. /\ work' \in [Workers -> WorkState] /\ OtherWork(w)
      /\ work'[w].pc = "errored" /\ work'[w].job = i
  <2>1. work \in [Workers -> WorkState]
    BY <1>1 DEF Shape
  <2> QED BY <1>2, <2>1, Moves
<1>5. CASE i.kind = "sync" /\ Mark(i, "failed")
  <2>1. /\ viewings' \in [Viewings -> ViewingRecord]
        /\ \/ UNCHANGED viewings
           \/ /\ Others(i.viewing)
              /\ viewings[i.viewing].status \in {"active", "closed"}
              /\ viewings[i.viewing].version = i.version
              /\ SameBooking(viewings'[i.viewing], viewings[i.viewing])
              /\ viewings'[i.viewing].sync = "failed"
    BY <1>1, <1>3, <1>5, Marks
  <2> QED BY <1>2, <1>3, <1>4, <1>5, <2>1 DEF Marking
<1>6. CASE UNCHANGED viewings
  BY <1>1, <1>2, <1>3, <1>4, <1>6 DEF Marking, Shape
<1> QED BY <1>2, <1>5, <1>6

\* A request carries the job's revision and what was read for it.
LEMMA Carries ==
  ASSUME IInv, NEW w \in Workers, Send(w)
  PROVE  /\ work' \in [Workers -> WorkState] /\ net' \subseteq Message
         /\ Sending(w)
<1> DEFINE i == work[w].job
           m == [viewing |-> i.viewing, revision |-> i.version, shows |-> work[w].content]
<1>1. Shape /\ InHand(w) /\ w \in Processes
  BY DEF IInv, Processes
<1>2. /\ work[w].pc = "sending" /\ MoveTo(w, "waiting") /\ net' = net \cup {m}
      /\ UNCHANGED <<viewings, jobs, tx, gateway, clock, reminded>>
  BY DEF Send
<1>3. i \in JobIds /\ tx[w] = NoTx /\ work[w].content # "none"
  BY <1>1, <1>2 DEF InHand
<1>4. /\ work' \in [Workers -> WorkState] /\ OtherWork(w)
      /\ work'[w].pc = "waiting" /\ work'[w].job = i
  <2>1. work \in [Workers -> WorkState]
    BY <1>1 DEF Shape
  <2> QED BY <1>2, <2>1, Moves
<1>5. m \in Message
  <2>1. work[w] \in WorkState
    BY <1>1 DEF Shape
  <2> QED BY <1>3, <2>1 DEF WorkState, JobIds, Message
<1> QED BY <1>1, <1>2, <1>3, <1>4, <1>5 DEF Sending, Shape

-----------------------------------------------------------------------------
(* The types, and the steps of the environment. *)

\* The gateway takes over what is newer than what it has.
Handling(m) ==
  /\ m \in net /\ net' \subseteq net
  /\ \A v \in Viewings : gateway'[v] =
       IF v = m.viewing /\ m.revision > gateway[v].revision
       THEN [revision |-> m.revision, shows |-> m.shows] ELSE gateway[v]
  /\ UNCHANGED <<viewings, jobs, work, tx, clock, reminded>>

\* Handling a request is of that kind.
LEMMA Handles ==
  ASSUME Shape, NEW m \in net, GatewayHandles(m)
  PROVE  /\ net' \subseteq Message
         /\ gateway' \in [Viewings -> [revision : Nat, shows : {"none", "active", "closed", "deleted"}]]
         /\ Handling(m)
<1>1. m \in Message /\ gateway \in [Viewings -> [revision : Nat, shows : {"none", "active", "closed", "deleted"}]]
  BY DEF Shape
<1>2. m.viewing \in Viewings /\ m.revision \in Nat /\ m.shows \in {"none", "active", "closed", "deleted"}
  BY <1>1, BoundsAssumption DEF Message, Versions
<1>3. /\ gateway' = IF m.revision > gateway[m.viewing].revision
                    THEN [gateway EXCEPT ![m.viewing] = [revision |-> m.revision, shows |-> m.shows]]
                    ELSE gateway
      /\ net' = net \ {m}
      /\ UNCHANGED <<viewings, jobs, work, tx, clock, reminded>>
  BY DEF GatewayHandles
<1>4. gateway' \in [Viewings -> [revision : Nat, shows : {"none", "active", "closed", "deleted"}]]
  BY <1>1, <1>2, <1>3
<1>5. net' \subseteq net /\ net' \subseteq Message
  BY <1>3 DEF Shape
<1> QED BY <1>1, <1>2, <1>3, <1>4, <1>5 DEF Handling

\* A transaction begins when no other is open, and reads the state as it is.
Beginning(p) ==
  /\ \A q \in Processes : tx[q] = NoTx
  /\ \A q \in Processes \ {p} : tx'[q] = NoTx
  /\ tx'[p].viewings = viewings /\ tx'[p].at = clock
  /\ p \in Workers => work[p].pc = "running" /\ work[p].job.kind = "reminder"
  /\ Unmoved /\ UNCHANGED <<jobs, work, reminded>>

\* Beginning is of that kind.
LEMMA Begins ==
  ASSUME Shape, NEW p \in Processes, Begin(p)
  PROVE  tx' \in [Processes -> Snapshot \cup {NoTx}] /\ Beginning(p)
<1> DEFINE read == [viewings |-> viewings, receipts |-> receipts, syncs |-> QueuedSyncs, at |-> clock]
<1>1. /\ tx' = [tx EXCEPT ![p] = read]
      /\ \A q \in Processes : tx[q] = NoTx
      /\ p \in Workers => work[p].pc = "running" /\ work[p].job.kind = "reminder"
      /\ Unmoved /\ UNCHANGED <<jobs, work, reminded>>
  BY DEF Begin, LockFree, Unmoved
<1>2. read \in Snapshot /\ read.viewings = viewings /\ read.at = clock
  <2>1. QueuedSyncs \in SUBSET Viewings
    BY DEF QueuedSyncs
  <2>2. clock \in Nat
    BY BoundsAssumption DEF Shape
  <2> HIDE DEF QueuedSyncs
  <2> QED BY <2>1, <2>2 DEF Snapshot, Shape
<1> HIDE DEF read
<1>3. tx \in [Processes -> Snapshot \cup {NoTx}]
  BY DEF Shape
<1>4. tx' \in [Processes -> Snapshot \cup {NoTx}] /\ tx'[p] = read /\ \A q \in Processes \ {p} : tx'[q] = NoTx
  BY <1>1, <1>2, <1>3
<1> QED BY <1>1, <1>2, <1>4 DEF Beginning

\* Nothing that the calendar and the jobs depend on changes, but that time may pass.
Idling ==
  /\ UNCHANGED <<viewings, gateway, jobs, work, reminded>> /\ net' \subseteq net
  /\ Fewer /\ clock' >= clock

\* What any step is.
Step ==
  \/ \E v \in Viewings : Stored(v) \/ Removed(v) \/ Rescheduled(v)
  \/ \E w \in Workers, i \in JobIds : Claimed(w, i) \/ Reminding(w, i) \/ Acknowledging(w, i)
  \/ \E w \in Workers : Proceeding(w) \/ Leaving(w) \/ Marking(w) \/ Sending(w)
  \/ \E m \in net : Handling(m)
  \/ \E p \in Processes : Beginning(p)
  \/ Idling

\* The part of the types that most actions leave alone.
Rest ==
  /\ receipts \in [Keys -> {"none", "valid", "expired"}] /\ booked \in [Keys -> Nat]
  /\ open \in BOOLEAN
  /\ clock \in 0 .. MaxTime /\ faults \in 0 .. MaxFaults

Database ==
  /\ viewings \in [Viewings -> ViewingRecord]
  /\ jobs \in [JobIds -> JobState]
  /\ work \in [Workers -> WorkState]
  /\ tx \in [Processes -> Snapshot \cup {NoTx}]
  /\ gateway \in [Viewings -> [revision : Nat, shows : {"none", "active", "closed", "deleted"}]]
  /\ net \subseteq Message
  /\ reminded \in [Viewings \X Versions -> Nat]

\* Every step keeps the types of what is shared, and is of one of these kinds.
LEMMA Steps ==
  ASSUME IInv, Next
  PROVE  Database' /\ Step
<1>1. Shape /\ Database
  BY DEF IInv, Shape, Database
<1>2. ASSUME NEW p \in Processes, Abort(p) PROVE Database' /\ Step
  <2>1. /\ tx' = [tx EXCEPT ![p] = NoTx]
        /\ UNCHANGED <<viewings, jobs, work, gateway, net, clock, reminded>>
    BY <1>2 DEF Abort, End
  <2>2. tx' \in [Processes -> Snapshot \cup {NoTx}] /\ Fewer
    BY <1>1, <2>1 DEF Database, Fewer
  <2>3. clock' >= clock
    BY <1>1, <2>1, BoundsAssumption DEF Shape
  <2> QED BY <1>1, <2>1, <2>2, <2>3 DEF Database, Step, Idling
<1>3. ASSUME NEW p \in Processes, Begin(p) PROVE Database' /\ Step
  <2>1. tx' \in [Processes -> Snapshot \cup {NoTx}] /\ Beginning(p)
    BY <1>1, <1>3, Begins
  <2> QED BY <1>1, <2>1 DEF Database, Step, Beginning, Unmoved
<1>4. ASSUME NEW p \in Requests, Request(p) PROVE Database' /\ Step
  <2>1. p \in Processes
    BY DEF Processes
  <2>2. ASSUME NEW v \in Viewings, Stored(v), viewings' \in [Viewings -> ViewingRecord],
               jobs' \in [JobIds -> JobState], tx' \in [Processes -> Snapshot \cup {NoTx}]
        PROVE  Database' /\ Step
    BY <1>1, <2>2 DEF Database, Step, Stored
  <2>3. ASSUME NEW v \in Viewings, NEW a \in Agents, NEW q \in Properties, NEW win \in Windows,
               NEW status \in {"active", "closed"}, CreateViewing(p, v, a, q, win, status)
        PROVE  Database' /\ Step
    BY <2>1, <2>2, <2>3, Creates DEF CreateViewing
  <2>4. ASSUME NEW v \in Viewings, NEW a \in Agents, NEW q \in Properties, NEW win \in Windows,
               NEW status \in {"active", "closed"}, UpdateViewing(p, v, a, q, win, status)
        PROVE  Database' /\ Step
    BY <2>1, <2>2, <2>4, Updates
  <2>5. ASSUME NEW v \in Viewings, NEW k \in Keys, NEW a \in Agents, NEW q \in Properties,
               NEW win \in Windows, PublicRequestViewing(p, k, v, a, q, win)
        PROVE  Database' /\ Step
    <3>1. Create(p, v, a, q, win, "active") /\ UNCHANGED <<work, gateway, net, clock, reminded>>
      BY <2>5 DEF PublicRequestViewing
    <3> QED BY <2>1, <2>2, <3>1, Creates
  <2>6. ASSUME NEW v \in Viewings, DeleteViewing(p, v) PROVE Database' /\ Step
    <3>1. /\ viewings' \in [Viewings -> ViewingRecord] /\ jobs' \in [JobIds -> JobState]
          /\ tx' \in [Processes -> Snapshot \cup {NoTx}]
          /\ Removed(v)
      BY <2>1, <2>6, Deletes
    <3> QED BY <1>1, <3>1 DEF Database, Step, Removed
  <2> QED BY <1>4, <2>3, <2>4, <2>5, <2>6 DEF Request
<1>5. ASSUME NEW v \in Viewings, ScheduleSync(v) PROVE Database' /\ Step
  <2>1. /\ jobs' \in [JobIds -> JobState] /\ tx' \in [Processes -> Snapshot \cup {NoTx}]
        /\ Rescheduled(v)
    BY <1>5, Schedules
  <2> QED BY <1>1, <2>1 DEF Database, Step, Rescheduled
<1>6. ASSUME NEW w \in Workers, NEW i \in JobIds, Claim(w, i) PROVE Database' /\ Step
  <2>1. /\ jobs' \in [JobIds -> JobState] /\ work' \in [Workers -> WorkState]
        /\ Claimed(w, i)
    BY <1>6, Claims
  <2> QED BY <1>1, <2>1 DEF Database, Step, Claimed, Unmoved
<1>7. ASSUME NEW w \in Workers, Admit(w) \/ ReadViewing(w) \/ ReadTombstone(w) PROVE Database' /\ Step
  <2>1. work' \in [Workers -> WorkState] /\ Proceeding(w)
    BY <1>7, Admits, Reads, Deleting
  <2> QED BY <1>1, <2>1 DEF Database, Step, Proceeding, Unmoved
<1>8. ASSUME NEW w \in Workers, Remind(w) PROVE Database' /\ Step
  <2>1. /\ work' \in [Workers -> WorkState] /\ jobs' \in [JobIds -> JobState]
        /\ tx' \in [Processes -> Snapshot \cup {NoTx}]
        /\ reminded' \in [Viewings \X Versions -> Nat]
        /\ Reminding(w, work[w].job) /\ work[w].job \in JobIds
    BY <1>8, Reminds
  <2> QED BY <1>1, <2>1 DEF Database, Step, Reminding, Unmoved
<1>9. ASSUME NEW w \in Workers, NotConfigured(w) \/ Confirm(w) \/ EffectFails(w) PROVE Database' /\ Step
  <2>1. /\ work' \in [Workers -> WorkState] /\ viewings' \in [Viewings -> ViewingRecord]
        /\ Marking(w)
    BY <1>9, Unconfigured, Confirmed, Fails
  <2> QED BY <1>1, <2>1 DEF Database, Step, Marking
<1>10. ASSUME NEW w \in Workers, Send(w) PROVE Database' /\ Step
  <2>1. /\ work' \in [Workers -> WorkState] /\ net' \subseteq Message
        /\ Sending(w)
    BY <1>10, Carries
  <2> QED BY <1>1, <2>1 DEF Database, Step, Sending
<1>11. ASSUME NEW w \in Workers, Acknowledge(w) PROVE Database' /\ Step
  <2>1. /\ work' \in [Workers -> WorkState] /\ jobs' \in [JobIds -> JobState] /\ tx' = tx
        /\ Leaving(w) \/ Acknowledging(w, work[w].job)
    BY <1>11, Acknowledges
  <2>2. work[w].job \in JobIds
    <3>1. work[w].pc # "idle"
      BY <1>11 DEF Acknowledge
    <3> QED BY <3>1, Stands
  <2> QED BY <1>1, <2>1, <2>2 DEF Database, Step, Leaving, Acknowledging, Unmoved
<1>12. ASSUME NEW w \in Workers, Crash(w) PROVE Database' /\ Step
  <2>1. /\ work' \in [Workers -> WorkState] /\ tx' \in [Processes -> Snapshot \cup {NoTx}]
        /\ Leaving(w)
    BY <1>12, Dies
  <2> QED BY <1>1, <2>1 DEF Database, Step, Leaving, Unmoved
<1>13. ASSUME NEW m \in net, GatewayHandles(m) PROVE Database' /\ Step
  <2>1. /\ net' \subseteq Message
        /\ gateway' \in [Viewings -> [revision : Nat, shows : {"none", "active", "closed", "deleted"}]]
        /\ Handling(m)
    BY <1>1, <1>13, Handles
  <2> QED BY <1>1, <2>1 DEF Database, Step, Handling
<1>14. ASSUME \/ \E m \in net : RequestLost(m)
              \/ \E k \in Keys : ReceiptExpires(k)
              \/ ChangeAccess \/ ApproveProvider \/ Tick
       PROVE  Database' /\ Step
  <2>1. /\ UNCHANGED <<viewings, jobs, work, tx, gateway, reminded>> /\ net' \subseteq net
        /\ clock' \in {clock, clock + 1}
    BY <1>14 DEF RequestLost, ReceiptExpires, ChangeAccess, ApproveProvider, Tick
  <2>2. clock' >= clock
    BY <1>1, <2>1, BoundsAssumption DEF Shape
  <2> QED BY <1>1, <2>1, <2>2 DEF Database, Step, Idling, Fewer
<1>15. Requests \subseteq Processes /\ Workers \subseteq Processes /\ Scan \in Processes
  BY DEF Processes
<1> QED BY <1>2, <1>3, <1>4, <1>5, <1>6, <1>7, <1>8, <1>9, <1>10, <1>11, <1>12, <1>13, <1>14, <1>15
    DEF Next, WorkerStep

\* What a request leaves alone.
LEMMA Requesting ==
  ASSUME NEW p \in Requests, Request(p)
  PROVE  /\ UNCHANGED <<open, clock, faults>>
         /\ \/ UNCHANGED <<receipts, booked>>
            \/ \E v \in Viewings, k \in Keys, a \in Agents, q \in Properties, win \in Windows :
                 PublicRequestViewing(p, k, v, a, q, win)
<1>1. ASSUME NEW v, NEW a, NEW q, NEW win, NEW status,
             \/ CreateViewing(p, v, a, q, win, status)
             \/ UpdateViewing(p, v, a, q, win, status)
             \/ DeleteViewing(p, v)
      PROVE  UNCHANGED <<open, clock, faults, receipts, booked>>
  BY <1>1 DEF CreateViewing, UpdateViewing, DeleteViewing
<1>2. ASSUME NEW v, NEW k, NEW a, NEW q, NEW win, PublicRequestViewing(p, k, v, a, q, win)
      PROVE  UNCHANGED <<open, clock, faults>>
  BY <1>2 DEF PublicRequestViewing
<1>3. PICK v \in Viewings :
        \/ \E a \in Agents, q \in Properties, win \in Windows, status \in {"active", "closed"} :
             CreateViewing(p, v, a, q, win, status) \/ UpdateViewing(p, v, a, q, win, status)
        \/ \E k \in Keys, a \in Agents, q \in Properties, win \in Windows :
             PublicRequestViewing(p, k, v, a, q, win)
        \/ DeleteViewing(p, v)
  BY Zenon DEF Request
<1> QED BY <1>1, <1>2, <1>3

\* A key is booked for only while it has no receipt, and then it has one.
LEMMA Receipts ==
  ASSUME IInv, Next
  PROVE  Rest' /\ \A k \in Keys : Receipted(k)'
<1>1. Rest /\ clock \in Nat /\ faults \in Nat
  BY BoundsAssumption DEF IInv, Shape, Rest
<1>2. \A k \in Keys : booked[k] \in Nat /\ receipts[k] \in {"none", "valid", "expired"}
  BY <1>1 DEF Rest
<1>3. \A k \in Keys : Receipted(k)
  BY DEF IInv
<1>4. CASE UNCHANGED <<receipts, booked>>
  <2>1. /\ open' \in BOOLEAN
        /\ clock' \in 0 .. MaxTime /\ faults' \in 0 .. MaxFaults
    <3>1. ASSUME UNCHANGED <<open, clock, faults>> PROVE open' \in BOOLEAN /\ clock' \in 0 .. MaxTime /\ faults' \in 0 .. MaxFaults
      BY <1>1, <3>1 DEF Rest
    <3>2. ASSUME NEW w \in Workers, NEW i \in JobIds, Claim(w, i)
          PROVE  open' \in BOOLEAN /\ clock' \in 0 .. MaxTime /\ faults' \in 0 .. MaxFaults
      BY <1>1, <3>2, BoundsAssumption DEF Rest, Claim
    <3>3. ASSUME NEW w \in Workers, Crash(w)
          PROVE  open' \in BOOLEAN /\ clock' \in 0 .. MaxTime /\ faults' \in 0 .. MaxFaults
      BY <1>1, <3>3, BoundsAssumption DEF Rest, Crash
    <3>4. ASSUME ChangeAccess
          PROVE  open' \in BOOLEAN /\ clock' \in 0 .. MaxTime /\ faults' \in 0 .. MaxFaults
      <4>1. UNCHANGED clock /\ faults' \in {faults, faults + 1} /\ (faults' = faults \/ faults < MaxFaults)
        BY <3>4 DEF ChangeAccess
      <4>2. open' \in BOOLEAN
        BY <3>4, Zenon DEF ChangeAccess
      <4> QED BY <1>1, <4>1, <4>2, BoundsAssumption DEF Rest
    <3>5. ASSUME Tick
          PROVE  open' \in BOOLEAN /\ clock' \in 0 .. MaxTime /\ faults' \in 0 .. MaxFaults
      BY <1>1, <3>5, BoundsAssumption DEF Rest, Tick
    <3>6. ASSUME NEW p \in Requests, Request(p) PROVE UNCHANGED <<open, clock, faults>>
      BY <3>6, Requesting
    <3>7. ASSUME NEW w \in Workers, WorkerStep(w) \/ EffectFails(w) PROVE UNCHANGED <<open, clock, faults>>
      BY <3>7 DEF WorkerStep, Admit, Begin, Remind, ReadViewing, ReadTombstone, NotConfigured,
                  Send, Confirm, Acknowledge, EffectFails
    <3>8. ASSUME \/ \E p \in Processes : Abort(p) \/ Begin(p)
                 \/ \E v \in Viewings : ScheduleSync(v)
                 \/ \E m \in net : GatewayHandles(m) \/ RequestLost(m)
                 \/ \E k \in Keys : ReceiptExpires(k)
                 \/ ApproveProvider
          PROVE  UNCHANGED <<open, clock, faults>>
      BY <3>8 DEF Abort, Begin, ScheduleSync, GatewayHandles, RequestLost, ReceiptExpires, ApproveProvider
    <3>9. Requests \subseteq Processes /\ Scan \in Processes
      BY DEF Processes
    <3> QED BY <3>1, <3>2, <3>3, <3>4, <3>5, <3>6, <3>7, <3>8, <3>9 DEF Next
  <2> QED BY <1>1, <1>3, <1>4, <2>1 DEF Rest, Receipted
<1>5. ASSUME NEW p \in Requests, NEW v \in Viewings, NEW k \in Keys, NEW a \in Agents,
             NEW q \in Properties, NEW win \in Windows, PublicRequestViewing(p, k, v, a, q, win)
      PROVE  Rest' /\ \A l \in Keys : Receipted(l)'
  <2>1. /\ receipts[k] # "valid"
        /\ receipts' = [receipts EXCEPT ![k] = "valid"]
        /\ booked' = [booked EXCEPT ![k] = @ + 1]
        /\ UNCHANGED <<open, clock, faults>>
    BY <1>5 DEF PublicRequestViewing, Seen
  <2>2. booked[k] = 0
    BY <1>3, <2>1 DEF Receipted
  <2>3. Rest'
    BY <1>1, <2>1 DEF Rest
  <2>4. receipts'[k] = "valid" /\ booked'[k] = 1
    BY <1>1, <2>1, <2>2 DEF Rest
  <2>5. \A l \in Keys \ {k} : receipts'[l] = receipts[l] /\ booked'[l] = booked[l]
    BY <1>1, <2>1 DEF Rest
  <2> QED BY <1>3, <2>3, <2>4, <2>5 DEF Receipted
<1>6. ASSUME NEW k \in Keys, ReceiptExpires(k)
      PROVE  Rest' /\ \A l \in Keys : Receipted(l)'
  <2>1. /\ receipts' = [receipts EXCEPT ![k] = "expired"] \/ receipts' = [receipts EXCEPT ![k] = "none"]
        /\ booked' = [booked EXCEPT ![k] = 0]
        /\ UNCHANGED <<open, clock, faults>>
    BY <1>6 DEF ReceiptExpires
  <2>2. Rest'
    BY <1>1, <2>1 DEF Rest
  <2>3. receipts'[k] # "valid" /\ booked'[k] = 0
    BY <1>1, <2>1 DEF Rest
  <2>4. \A l \in Keys \ {k} : receipts'[l] = receipts[l] /\ booked'[l] = booked[l]
    BY <1>1, <2>1 DEF Rest
  <2> QED BY <1>3, <2>2, <2>3, <2>4 DEF Receipted
<1>7. \/ UNCHANGED <<receipts, booked>>
      \/ \E p \in Requests, v \in Viewings, k \in Keys, a \in Agents, q \in Properties, win \in Windows :
           PublicRequestViewing(p, k, v, a, q, win)
      \/ \E k \in Keys : ReceiptExpires(k)
  <2>1. ASSUME NEW p \in Requests, Request(p)
        PROVE  \/ UNCHANGED <<receipts, booked>>
               \/ \E v \in Viewings, k \in Keys, a \in Agents, q \in Properties, win \in Windows :
                    PublicRequestViewing(p, k, v, a, q, win)
    BY <2>1, Requesting
  <2>2. ASSUME NEW w \in Workers,
               WorkerStep(w) \/ EffectFails(w) \/ Crash(w) \/ \E i \in JobIds : Claim(w, i)
        PROVE  UNCHANGED <<receipts, booked>>
    BY <2>2 DEF WorkerStep, Admit, Begin, Remind, ReadViewing, ReadTombstone, NotConfigured,
                Send, Confirm, Acknowledge, EffectFails, Crash, Claim
  <2>3. ASSUME \/ \E p \in Processes : Abort(p) \/ Begin(p)
               \/ \E v \in Viewings : ScheduleSync(v)
               \/ \E m \in net : GatewayHandles(m) \/ RequestLost(m)
               \/ ChangeAccess \/ ApproveProvider \/ Tick
        PROVE  UNCHANGED <<receipts, booked>>
    BY <2>3 DEF Abort, Begin, ScheduleSync, GatewayHandles, RequestLost, ChangeAccess,
                ApproveProvider, Tick
  <2>4. Requests \subseteq Processes /\ Scan \in Processes
    BY DEF Processes
  <2> QED BY <2>1, <2>2, <2>3, <2>4 DEF Next
<1> QED BY <1>4, <1>5, <1>6, <1>7

-----------------------------------------------------------------------------
(* Viewings and transactions. *)

Remarked(v) ==
  /\ SameBooking(viewings'[v], viewings[v])
  /\ viewings[v].status \in {"active", "closed"}
  /\ viewings'[v].sync \in {"not_configured", "synced", "failed"}
  /\ viewings'[v].sync = "synced" => gateway[v].revision >= viewings[v].version
  /\ UNCHANGED <<jobs, gateway>>

\* A viewing is stored, removed or marked, or stays as it is.
LEMMA Changes ==
  ASSUME IInv, Step, NEW v \in Viewings
  PROVE  Stored(v) \/ Removed(v) \/ Remarked(v) \/ viewings'[v] = viewings[v]
<1>1. ASSUME NEW u \in Viewings, Stored(u) \/ Removed(u) \/ Rescheduled(u)
      PROVE  Stored(v) \/ Removed(v) \/ viewings'[v] = viewings[v]
  <2>1. CASE u = v
    BY <1>1, <2>1 DEF Rescheduled
  <2>2. CASE u # v
    BY <1>1, <2>2 DEF Stored, Removed, Rescheduled, Others
  <2> QED BY <2>1, <2>2
<1>2. ASSUME NEW w \in Workers, Marking(w)
      PROVE  Remarked(v) \/ viewings'[v] = viewings[v]
  <2> DEFINE i == work[w].job
  <2>1. CASE UNCHANGED viewings
    BY <2>1
  <2>2. CASE ~UNCHANGED viewings
    <3>1. /\ Others(i.viewing)
          /\ viewings[i.viewing].status \in {"active", "closed"}
          /\ viewings[i.viewing].version = i.version
          /\ SameBooking(viewings'[i.viewing], viewings[i.viewing])
          /\ viewings'[i.viewing].sync \in {"not_configured", "synced", "failed"}
          /\ viewings'[i.viewing].sync = "synced" => gateway[i.viewing].revision >= i.version
          /\ UNCHANGED <<jobs, gateway>>
      BY <1>2, <2>2 DEF Marking
    <3> QED BY <3>1 DEF Remarked, Others
  <2> QED BY <2>1, <2>2
<1>3. ASSUME NEW w \in Workers,
             \/ \E i \in JobIds : Claimed(w, i) \/ Reminding(w, i) \/ Acknowledging(w, i)
             \/ Proceeding(w) \/ Leaving(w) \/ Sending(w)
      PROVE  UNCHANGED viewings
  BY <1>3 DEF Claimed, Reminding, Acknowledging, Proceeding, Leaving, Sending, Unmoved
<1>4. ASSUME (\E m \in net : Handling(m)) \/ (\E p \in Processes : Beginning(p)) \/ Idling
      PROVE  UNCHANGED viewings
  BY <1>4 DEF Handling, Beginning, Idling, Unmoved
<1> QED BY <1>1, <1>2, <1>3, <1>4 DEF Step

\* What the record of a viewing holds.
LEMMA Record ==
  ASSUME NEW r \in ViewingRecord
  PROVE  /\ r.version \in Nat /\ r.version \in 0 .. MaxVersion
         /\ r.window[1] \in Nat /\ r.window[2] \in Nat
<1>1. r.version \in 0 .. MaxVersion /\ r.window \in Windows \cup {<<0, 0>>}
  BY DEF ViewingRecord
<1> QED BY <1>1, WindowsAssumption, BoundsAssumption

\* The fields of a viewing stay full or empty.
LEMMA Emptied ==
  ASSUME IInv, Database', Step, NEW v \in Viewings
  PROVE  Empty(viewings'[v])
<1>1. /\ Empty(viewings[v]) /\ viewings[v] \in ViewingRecord /\ viewings'[v] \in ViewingRecord
  BY DEF IInv, Shape, Database
<1>2. viewings[v].version \in Nat
  BY <1>1, Record
<1>3. CASE Stored(v)
  BY <1>2, <1>3 DEF Stored, Empty
<1>4. CASE Removed(v)
  BY <1>4 DEF Removed, Empty, NoViewing
<1>5. CASE Remarked(v)
  BY <1>1, <1>5 DEF Remarked, Empty, SameBooking
<1>6. CASE viewings'[v] = viewings[v]
  BY <1>1, <1>6
<1> QED BY <1>3, <1>4, <1>5, <1>6, Changes

\* No two active viewings ever clash.
LEMMA Clashes ==
  ASSUME IInv, Database', Step
  PROVE  NoClash'
<1> SUFFICES ASSUME NEW u \in Viewings, NEW v \in Viewings, u # v,
                    viewings'[u].status = "active", viewings'[v].status = "active",
                    Overlap(viewings'[u].window, viewings'[v].window)
             PROVE  /\ viewings'[u].agent # viewings'[v].agent
                    /\ viewings'[u].property # viewings'[v].property
  BY DEF NoClash
<1>1. NoClash
  BY DEF IInv
<1>2. /\ viewings[u] \in ViewingRecord /\ viewings[v] \in ViewingRecord
      /\ viewings'[u] \in ViewingRecord /\ viewings'[v] \in ViewingRecord
  BY DEF IInv, Shape, Database
<1>3. CASE Stored(v)
  <2>1. viewings'[u] = viewings[u]
    BY <1>3 DEF Stored, Others
  <2> QED BY <1>3, <2>1 DEF Stored
<1>4. CASE Stored(u)
  <2>1. viewings'[v] = viewings[v]
    BY <1>4 DEF Stored, Others
  <2>2. Overlap(viewings[v].window, viewings'[u].window)
    BY <1>2, <2>1, Record DEF Overlap
  <2> QED BY <1>4, <2>1, <2>2 DEF Stored
<1>5. CASE ~Stored(u) /\ ~Stored(v)
  <2>1. ~Removed(u) /\ ~Removed(v)
    BY DEF Removed, NoViewing
  <2>2. SameBooking(viewings'[u], viewings[u]) /\ SameBooking(viewings'[v], viewings[v])
    BY <1>5, <2>1, Changes DEF Remarked, SameBooking
  <2> QED BY <1>1, <2>2 DEF NoClash, SameBooking
<1> QED BY <1>3, <1>4, <1>5

\* A transaction excludes the others and reads what stays so until it ends.
LEMMA Excludes ==
  ASSUME IInv, Database', Rest', Step
  PROVE  Exclusive' /\ Current'
<1>1. Exclusive /\ Current /\ clock \in Nat /\ clock' \in Nat
  BY BoundsAssumption DEF IInv, Shape, Rest
<1>2. CASE Closed
  BY <1>2 DEF Closed, Exclusive, Current
<1>3. ASSUME Fewer, clock' >= clock,
             \A v \in Viewings : SameBooking(viewings'[v], viewings[v])
      PROVE  Exclusive' /\ Current'
  <2>1. Exclusive'
    BY <1>1, <1>3 DEF Exclusive, Fewer
  <2>2. ASSUME NEW p \in Processes, tx'[p] # NoTx
        PROVE  /\ \A v \in Viewings : SameBooking(tx'[p].viewings[v], viewings'[v])
               /\ tx'[p].at <= clock'
    <3>1. tx'[p] = tx[p]
      BY <1>3, <2>2 DEF Fewer
    <3>2. tx[p].at \in Nat
      BY <2>2, <3>1 DEF IInv, Shape, Snapshot
    <3> QED BY <1>1, <1>3, <2>2, <3>1, <3>2 DEF Current, SameBooking
  <2> QED BY <2>1, <2>2 DEF Current
<1>4. ASSUME NEW p \in Processes, Beginning(p)
      PROVE  Exclusive' /\ Current'
  <2>1. /\ \A q \in Processes \ {p} : tx'[q] = NoTx
        /\ tx'[p].viewings = viewings /\ tx'[p].at = clock /\ UNCHANGED <<viewings, clock>>
    BY <1>4 DEF Beginning, Unmoved
  <2> QED BY <1>1, <2>1 DEF Exclusive, Current, SameBooking
<1>5. ASSUME NEW v \in Viewings, Stored(v) \/ Removed(v) \/ Rescheduled(v) PROVE Closed
  BY <1>5 DEF Stored, Removed, Rescheduled
<1>6. ASSUME NEW w \in Workers, NEW i \in JobIds, Reminding(w, i) PROVE Closed
  BY <1>6 DEF Reminding
<1>7. ASSUME NEW w \in Workers,
             \/ \E i \in JobIds : Claimed(w, i) \/ Acknowledging(w, i)
             \/ Proceeding(w) \/ Leaving(w) \/ Sending(w)
      PROVE  Fewer /\ UNCHANGED <<viewings, clock>>
  BY <1>7 DEF Claimed, Acknowledging, Proceeding, Leaving, Sending, Unmoved, Fewer
<1>8. ASSUME NEW w \in Workers, Marking(w)
      PROVE  Fewer /\ UNCHANGED clock /\ \A v \in Viewings : SameBooking(viewings'[v], viewings[v])
  <2>1. Fewer /\ UNCHANGED clock
    BY <1>8 DEF Marking, Fewer
  <2>2. ASSUME NEW v \in Viewings PROVE SameBooking(viewings'[v], viewings[v])
    BY <1>8 DEF Marking, Others, SameBooking
  <2> QED BY <2>1, <2>2
<1>9. ASSUME (\E m \in net : Handling(m)) \/ Idling
      PROVE  Fewer /\ clock' >= clock /\ UNCHANGED viewings
  <2>1. CASE \E m \in net : Handling(m)
    BY <1>1, <2>1 DEF Handling, Fewer
  <2>2. CASE Idling
    BY <2>2 DEF Idling
  <2> QED BY <1>9, <2>1, <2>2
<1>10. UNCHANGED viewings => \A v \in Viewings : SameBooking(viewings'[v], viewings[v])
  BY DEF SameBooking
<1>11. UNCHANGED clock => clock' >= clock
  BY <1>1
<1>12. \/ Closed
       \/ \E p \in Processes : Beginning(p)
       \/ Fewer /\ clock' >= clock /\ \A v \in Viewings : SameBooking(viewings'[v], viewings[v])
  BY <1>5, <1>6, <1>7, <1>8, <1>9, <1>10, <1>11 DEF Step
<1> QED BY <1>2, <1>3, <1>4, <1>12

-----------------------------------------------------------------------------
(* Jobs and reminders. *)

ReminderStays(i) == i.kind = "reminder" => reminded'[<<i.viewing, i.version>>] = RemindedOf(i)

JobStays(i) == jobs'[i] = jobs[i] /\ ReminderStays(i)

Enqueued(i) ==
  /\ jobs'[i].status = "pending" /\ ~jobs'[i].committed /\ ReminderStays(i)
  /\ \/ Stored(i.viewing) /\ i.kind # "delete" /\ i.version = viewings'[i.viewing].version
     \/ Removed(i.viewing) /\ i.kind = "delete" /\ i.version = viewings[i.viewing].version + 1
     \/ Rescheduled(i.viewing) /\ i.kind = "sync" /\ i.version = viewings[i.viewing].version

Cancelled(i) ==
  /\ jobs[i].status # "absent" /\ jobs'[i].status = "cancelled"
  /\ jobs'[i].committed = jobs[i].committed /\ ReminderStays(i) /\ i.kind # "delete"
  /\ \/ Stored(i.viewing) \/ Removed(i.viewing)
     \/ Rescheduled(i.viewing) /\ i.kind = "sync" /\ i.version # viewings[i.viewing].version

Processed(i) ==
  \E w \in Workers : \/ Claimed(w, i)
                     \/ Reminding(w, i) /\ Fenced(w)
                     \/ Acknowledging(w, i)

\* A job is left alone, queued, cancelled or worked on.
LEMMA JobChanges ==
  ASSUME IInv, Step, NEW i \in JobIds
  PROVE  JobStays(i) \/ Enqueued(i) \/ Cancelled(i) \/ Processed(i)
<1>1. i.viewing \in Viewings /\ i.version \in Versions /\ i.kind \in Kinds
  BY DEF JobIds
<1>2. UNCHANGED reminded => ReminderStays(i)
  BY DEF ReminderStays, RemindedOf
<1>3. ASSUME NEW v \in Viewings, Stored(v) PROVE JobStays(i) \/ Enqueued(i) \/ Cancelled(i)
  <2>1. PICK new \in SUBSET JobIds :
          /\ Replaced(v, {"reminder", "sync"}, new)
          /\ \A j \in new : j.viewing = v /\ j.version = viewings'[v].version /\ j.kind # "delete"
    BY <1>3 DEF Stored
  <2>2. ReminderStays(i)
    BY <1>2, <1>3 DEF Stored
  <2>3. CASE i \in new
    BY <1>3, <2>1, <2>2, <2>3 DEF Replaced, Enqueued
  <2>4. CASE i \notin new
    BY <1>3, <2>1, <2>2, <2>4 DEF Replaced, JobStays, Cancelled
  <2> QED BY <2>3, <2>4
<1>4. ASSUME NEW v \in Viewings, Removed(v) PROVE JobStays(i) \/ Enqueued(i) \/ Cancelled(i)
  <2>1. Replaced(v, {"reminder", "sync"}, {Tombstone(v)})
    BY <1>4 DEF Removed
  <2>2. ReminderStays(i)
    BY <1>2, <1>4 DEF Removed
  <2>3. CASE i = Tombstone(v)
    <3>1. jobs'[i].status = "pending" /\ ~jobs'[i].committed
      BY <2>1, <2>3 DEF Replaced
    <3>2. i.viewing = v /\ i.kind = "delete" /\ i.version = viewings[v].version + 1
      BY <2>3 DEF Tombstone
    <3> QED BY <1>4, <2>2, <3>1, <3>2 DEF Enqueued
  <2>4. CASE i # Tombstone(v)
    BY <1>4, <2>1, <2>2, <2>4 DEF Replaced, JobStays, Cancelled
  <2> QED BY <2>3, <2>4
<1>5. ASSUME NEW v \in Viewings, Rescheduled(v) PROVE JobStays(i) \/ Enqueued(i) \/ Cancelled(i)
  <2> DEFINE job == [kind |-> "sync", viewing |-> v, version |-> viewings[v].version]
  <2>1. Replaced(v, {"sync"}, {job})
    BY <1>5 DEF Rescheduled
  <2>2. ReminderStays(i)
    BY <1>2, <1>5 DEF Rescheduled
  <2>3. CASE i = job
    <3>1. jobs'[i].status = "pending" /\ ~jobs'[i].committed
      BY <2>1, <2>3 DEF Replaced
    <3> QED BY <1>5, <2>2, <2>3, <3>1 DEF Enqueued
  <2>4. CASE i # job
    <3>1. i.viewing = v /\ i.kind = "sync" => i.version # viewings[v].version
      BY <2>4 DEF JobIds
    <3>2. \/ jobs'[i] = jobs[i]
          \/ /\ jobs[i].status # "absent" /\ jobs'[i].status = "cancelled"
             /\ jobs'[i].committed = jobs[i].committed
             /\ i.viewing = v /\ i.kind = "sync"
      BY <2>1, <2>4 DEF Replaced
    <3> QED BY <1>5, <2>2, <3>1, <3>2 DEF JobStays, Cancelled
  <2> QED BY <2>3, <2>4
<1>6. ASSUME NEW w \in Workers, NEW j \in JobIds, Claimed(w, j) \/ Acknowledging(w, j)
      PROVE  JobStays(i) \/ Processed(i)
  <2>1. CASE j = i
    BY <1>6, <2>1 DEF Processed
  <2>2. CASE j # i
    BY <1>2, <1>6, <2>2 DEF Claimed, Acknowledging, OtherJobs, JobStays
  <2> QED BY <2>1, <2>2
<1>7. ASSUME NEW w \in Workers, NEW j \in JobIds, Reminding(w, j)
      PROVE  JobStays(i) \/ Processed(i)
  <2>1. CASE ~Fenced(w)
    BY <1>2, <1>7, <2>1 DEF Reminding, JobStays
  <2>2. CASE Fenced(w) /\ j = i
    BY <1>7, <2>2 DEF Processed
  <2>3. CASE Fenced(w) /\ j # i
    <3>1. jobs'[i] = jobs[i]
      BY <1>7, <2>3 DEF Reminding, OtherJobs
    <3>2. ASSUME i.kind = "reminder" PROVE <<i.viewing, i.version>> # <<j.viewing, j.version>>
      BY <1>7, <2>3, <3>2 DEF Reminding, JobIds
    <3>3. Sends(j)
      BY <1>7, <2>3 DEF Reminding
    <3>4. ReminderStays(i)
      <4>1. <<i.viewing, i.version>> \in Viewings \X Versions
        BY <1>1
      <4> QED BY <3>2, <3>3, <4>1 DEF Sends, ReminderStays, RemindedOf
    <3> QED BY <3>1, <3>4 DEF JobStays
  <2> QED BY <2>1, <2>2, <2>3
<1>8. ASSUME NEW w \in Workers, Proceeding(w) \/ Leaving(w) \/ Marking(w) \/ Sending(w)
      PROVE  JobStays(i)
  BY <1>2, <1>8 DEF Proceeding, Leaving, Marking, Sending, JobStays
<1>9. ASSUME (\E m \in net : Handling(m)) \/ (\E p \in Processes : Beginning(p)) \/ Idling
      PROVE  JobStays(i)
  BY <1>2, <1>9 DEF Handling, Beginning, Idling, JobStays
<1> QED BY <1>3, <1>4, <1>5, <1>6, <1>7, <1>8, <1>9 DEF Step

\* A job that is there stays, and one that comes is queued.
LEMMA Lasting ==
  ASSUME IInv, Step, NEW i \in JobIds
  PROVE  /\ jobs[i].status # "absent" => jobs'[i].status # "absent"
         /\ jobs'[i].status # "absent" => jobs[i].status # "absent" \/ Enqueued(i)
<1>1. CASE JobStays(i)
  BY <1>1 DEF JobStays
<1>2. CASE Enqueued(i)
  BY <1>2 DEF Enqueued
<1>3. CASE Cancelled(i)
  BY <1>3 DEF Cancelled
<1>4. CASE Processed(i)
  BY <1>4 DEF Processed, Claimed, Reminding, Fenced, Acknowledging, Owns
<1> QED BY <1>1, <1>2, <1>3, <1>4, JobChanges

\* A job that is there has no version beyond its viewing's.
LEMMA Reached ==
  ASSUME IInv, NEW i \in JobIds, jobs[i].status # "absent"
  PROVE  /\ i.viewing \in Viewings
         /\ viewings[i.viewing].status # "deleted"
              => i.kind # "delete" /\ i.version <= viewings[i.viewing].version
<1>1. Unused(i) /\ i.viewing \in Viewings /\ i.version \in Nat
  BY BoundsAssumption DEF IInv, JobIds, Versions
<1>2. viewings[i.viewing].version \in Nat
  BY <1>1, Record DEF IInv, Shape
<1> QED BY <1>1, <1>2 DEF Unused, Unqueued

\* The version of a viewing grows until it is deleted, and then it stays deleted.
LEMMA Grows ==
  ASSUME IInv, Database', Step, NEW v \in Viewings
  PROVE  /\ viewings[v].version \in Nat /\ viewings'[v].version \in Nat
         /\ viewings'[v].status # "deleted" =>
              viewings[v].status # "deleted" /\ viewings'[v].version >= viewings[v].version
<1>1. viewings[v].version \in Nat /\ viewings'[v].version \in Nat
  <2>1. viewings[v] \in ViewingRecord /\ viewings'[v] \in ViewingRecord
    BY DEF IInv, Shape, Database
  <2> QED BY <2>1, Record
<1>2. CASE Stored(v)
  BY <1>1, <1>2 DEF Stored
<1>3. CASE Removed(v)
  BY <1>1, <1>3 DEF Removed, NoViewing
<1>4. CASE Remarked(v) \/ viewings'[v] = viewings[v]
  BY <1>1, <1>4 DEF Remarked, SameBooking
<1> QED BY <1>1, <1>2, <1>3, <1>4, Changes

\* What is to come is left alone.
LEMMA UnusedStays ==
  ASSUME IInv, Database', Step, NEW i \in JobIds
  PROVE  Unused(i)'
<1>1. i.viewing \in Viewings /\ i.version \in Nat /\ Unused(i)
  BY BoundsAssumption DEF IInv, JobIds, Versions
<1> SUFFICES ASSUME viewings'[i.viewing].status # "deleted",
                    i.kind = "delete" \/ i.version > viewings'[i.viewing].version
             PROVE  /\ jobs'[i] = Unqueued
                    /\ i.kind = "reminder" => reminded'[<<i.viewing, i.version>>] = 0
  BY DEF Unused, RemindedOf, Unqueued
<1>2. jobs[i] = Unqueued /\ (i.kind = "reminder" => RemindedOf(i) = 0)
  <2>1. /\ viewings[i.viewing].status # "deleted"
        /\ viewings'[i.viewing].version >= viewings[i.viewing].version
        /\ viewings[i.viewing].version \in Nat /\ viewings'[i.viewing].version \in Nat
    BY <1>1, Grows
  <2> QED BY <1>1, <2>1 DEF Unused
<1>3. jobs[i].status = "absent"
  BY <1>2 DEF Unqueued
<1>4. ~Enqueued(i)
  <2>1. ASSUME Rescheduled(i.viewing) PROVE viewings'[i.viewing] = viewings[i.viewing]
    BY <2>1 DEF Rescheduled
  <2>2. viewings'[i.viewing].version \in Nat
    BY <1>1, Grows
  <2>3. ~Removed(i.viewing)
    BY DEF Removed, NoViewing
  <2> QED BY <1>1, <2>1, <2>2, <2>3 DEF Enqueued
<1>5. JobStays(i)
  <2>1. ~Cancelled(i) /\ ~Processed(i)
    BY <1>3 DEF Cancelled, Processed, Claimed, Fenced, Acknowledging, Owns, Reminding
  <2> QED BY <1>4, <2>1, JobChanges
<1> QED BY <1>2, <1>5 DEF JobStays, ReminderStays

\* A reminder stays sent once, and only for good is its job without one.
LEMMA ReminderKept ==
  ASSUME IInv, Database', Rest', Step, clock' >= clock, NEW i \in JobIds, i.kind = "reminder"
  PROVE  Reminder(i)'
<1> DEFINE v == i.viewing
           k == <<i.viewing, i.version>>
<1>1. /\ v \in Viewings /\ i.version \in Nat /\ Reminder(i) /\ Unused(i)
      /\ reminded[k] \in Nat /\ reminded'[k] \in Nat
      /\ viewings[v].version \in Nat
      /\ viewings[v].window[1] \in Nat /\ clock \in Nat /\ clock' \in Nat
  <2>1. v \in Viewings /\ i.version \in Versions /\ i.version \in Nat
    BY BoundsAssumption DEF JobIds, Versions
  <2>2. /\ viewings[v] \in ViewingRecord
        /\ reminded \in [Viewings \X Versions -> Nat] /\ reminded' \in [Viewings \X Versions -> Nat]
    BY <2>1 DEF IInv, Shape, Database
  <2>3. clock \in Nat /\ clock' \in Nat
    BY BoundsAssumption DEF IInv, Shape, Rest
  <2>4. Reminder(i) /\ Unused(i)
    BY DEF IInv
  <2> QED BY <2>1, <2>2, <2>3, <2>4, Record
<1>2. ASSUME viewings'[v].status = "active", viewings'[v].version = i.version
      PROVE  \/ /\ viewings[v].status = "active" /\ viewings[v].version = i.version
                /\ viewings'[v].window = viewings[v].window
             \/ jobs[i] = Unqueued
  <2>1. CASE Stored(v)
    BY <1>1, <1>2, <2>1 DEF Stored, Unused
  <2>2. CASE Removed(v)
    BY <1>2, <2>2 DEF Removed, NoViewing
  <2>3. CASE Remarked(v) \/ viewings'[v] = viewings[v]
    BY <1>2, <2>3 DEF Remarked, SameBooking
  <2> QED BY <1>1, <2>1, <2>2, <2>3, Changes
<1>3. /\ RemindedOf(i) <= 1
      /\ ~jobs[i].committed => RemindedOf(i) = 0
      /\ jobs[i].status = "completed" => jobs[i].committed
      /\ viewings[v].status = "active" /\ viewings[v].version = i.version =>
           /\ jobs[i].status # "cancelled"
           /\ jobs[i].committed => RemindedOf(i) = 1 \/ viewings[v].window[1] <= clock
  BY <1>1 DEF Reminder
<1> SUFFICES /\ reminded'[k] <= 1
             /\ ~jobs'[i].committed => reminded'[k] = 0
             /\ jobs'[i].status = "completed" => jobs'[i].committed
             /\ viewings'[v].status = "active" /\ viewings'[v].version = i.version =>
                  /\ jobs'[i].status # "cancelled"
                  /\ jobs'[i].committed => reminded'[k] = 1 \/ viewings'[v].window[1] <= clock'
  BY DEF Reminder, RemindedOf
<1>4. ASSUME reminded'[k] = RemindedOf(i), jobs'[i].committed = jobs[i].committed,
             jobs'[i].status = "cancelled" => jobs[i].status = "cancelled",
             jobs'[i].status = "completed" => jobs[i].committed
      PROVE  /\ reminded'[k] <= 1
             /\ ~jobs'[i].committed => reminded'[k] = 0
             /\ jobs'[i].status = "completed" => jobs'[i].committed
             /\ viewings'[v].status = "active" /\ viewings'[v].version = i.version =>
                  /\ jobs'[i].status # "cancelled"
                  /\ jobs'[i].committed => reminded'[k] = 1 \/ viewings'[v].window[1] <= clock'
  <2>1. CASE jobs[i] = Unqueued
    BY <1>3, <1>4, <2>1 DEF Unqueued
  <2>2. CASE jobs[i] # Unqueued
    BY <1>1, <1>2, <1>3, <1>4, <2>2
  <2> QED BY <2>1, <2>2
<1>5. CASE JobStays(i)
  BY <1>3, <1>4, <1>5 DEF JobStays, ReminderStays
<1>6. CASE Enqueued(i)
  <2>1. Stored(v) /\ i.version = viewings'[v].version /\ reminded'[k] = RemindedOf(i)
    BY <1>6 DEF Enqueued, ReminderStays
  <2>2. RemindedOf(i) = 0
    BY <1>1, <2>1 DEF Stored, Unused
  <2> QED BY <1>6, <2>1, <2>2 DEF Enqueued
<1>7. CASE Cancelled(i)
  <2>1. /\ Stored(v) \/ Removed(v)
        /\ jobs[i].status # "absent" /\ jobs'[i].status = "cancelled"
        /\ jobs'[i].committed = jobs[i].committed /\ reminded'[k] = RemindedOf(i)
    BY <1>7 DEF Cancelled, ReminderStays
  <2>2. ~(viewings'[v].status = "active" /\ viewings'[v].version = i.version)
    <3>1. CASE Stored(v)
      BY <1>1, <2>1, <3>1 DEF Stored, Unused, Unqueued
    <3>2. CASE Removed(v)
      BY <3>2 DEF Removed, NoViewing
    <3> QED BY <2>1, <3>1, <3>2
  <2> QED BY <1>3, <2>1, <2>2
<1>8. CASE Processed(i)
  <2>1. PICK w \in Workers : \/ Claimed(w, i)
                             \/ Reminding(w, i) /\ Fenced(w)
                             \/ Acknowledging(w, i)
    BY <1>8 DEF Processed
  <2>2. CASE Claimed(w, i)
    BY <1>4, <2>2 DEF Claimed, RemindedOf
  <2>3. CASE Reminding(w, i) /\ Fenced(w)
    <3>1. /\ Sends(i) /\ jobs'[i].committed /\ jobs'[i].status = jobs[i].status
          /\ i = work[w].job /\ UNCHANGED <<viewings, clock>>
      BY <2>3 DEF Reminding, Unmoved
    <3>2. ~jobs[i].committed /\ jobs[i].status = "processing"
      BY <2>3, <3>1 DEF Fenced, Owns
    <3> QED BY <1>3, <3>1, <3>2 DEF Sends
  <2>4. CASE Acknowledging(w, i)
    <3>1. jobs'[i].status = "completed" => jobs[i].committed
      <4>1. Returned(w)
        BY DEF IInv
      <4> QED BY <2>4, <4>1 DEF Acknowledging, Returned, Done
    <3> QED BY <1>4, <2>4, <3>1 DEF Acknowledging, RemindedOf
  <2> QED BY <2>1, <2>2, <2>3, <2>4
<1> QED BY <1>5, <1>6, <1>7, <1>8, JobChanges

-----------------------------------------------------------------------------
(* Workers. *)

\* The calendar never goes back.
LEMMA Forward ==
  ASSUME IInv, Step, NEW v \in Viewings
  PROVE  /\ gateway[v].revision \in Nat
         /\ \/ gateway'[v] = gateway[v]
            \/ \E m \in net : /\ m.viewing = v /\ m.revision > gateway[v].revision
                              /\ gateway'[v] = [revision |-> m.revision, shows |-> m.shows]
                              /\ UNCHANGED <<viewings, jobs>>
<1>1. gateway[v].revision \in Nat
  BY DEF IInv, Shape
<1>2. CASE \E m \in net : Handling(m)
  BY <1>1, <1>2 DEF Handling
<1>3. ASSUME NEW u \in Viewings, Stored(u) \/ Removed(u) \/ Rescheduled(u) PROVE UNCHANGED gateway
  BY <1>3 DEF Stored, Removed, Rescheduled
<1>4. ASSUME NEW w \in Workers,
             \/ \E i \in JobIds : Claimed(w, i) \/ Reminding(w, i) \/ Acknowledging(w, i)
             \/ Proceeding(w) \/ Leaving(w) \/ Marking(w) \/ Sending(w)
      PROVE  UNCHANGED gateway
  BY <1>4 DEF Claimed, Reminding, Acknowledging, Proceeding, Leaving, Marking, Sending, Unmoved
<1>5. ASSUME (\E p \in Processes : Beginning(p)) \/ Idling PROVE UNCHANGED gateway
  BY <1>5 DEF Beginning, Idling, Unmoved
<1> QED BY <1>1, <1>2, <1>3, <1>4, <1>5 DEF Step

\* What a job was for stays done while the claim lasts.
LEMMA DoneStays ==
  ASSUME IInv, Database', Step, NEW i \in JobIds, Done(i),
         jobs[i].status = "processing", jobs'[i].status = "processing"
  PROVE  Done(i)'
<1> DEFINE v == i.viewing
<1>1. /\ v \in Viewings /\ i.version \in Nat /\ viewings[v].version \in Nat
      /\ viewings[v].status # "deleted" => i.version <= viewings[v].version
  <2>1. v \in Viewings /\ i.version \in Nat
    BY BoundsAssumption DEF JobIds, Versions
  <2>2. viewings[v] \in ViewingRecord
    BY <2>1 DEF IInv, Shape
  <2>3. viewings[v].status # "deleted" => i.version <= viewings[v].version
    BY Reached
  <2> QED BY <2>1, <2>2, <2>3, Record
<1>2. ASSUME i.kind = "reminder" PROVE jobs'[i].committed
  <2>1. jobs[i].committed
    BY <1>2 DEF Done
  <2>2. CASE JobStays(i)
    BY <2>1, <2>2 DEF JobStays
  <2>3. CASE Processed(i)
    BY <2>1, <2>3 DEF Processed, Claimed, Reminding, Acknowledging
  <2> QED BY <2>2, <2>3, JobChanges DEF Enqueued, Cancelled
<1>3. ASSUME i.kind = "sync"
      PROVE  ~(viewings'[v].version = i.version /\ viewings'[v].sync = "pending")
  <2>1. ~(viewings[v].version = i.version /\ viewings[v].sync = "pending")
    BY <1>3 DEF Done
  <2>2. CASE Stored(v)
    BY <1>1, <2>2 DEF Stored
  <2>3. CASE Removed(v)
    BY <2>3 DEF Removed, NoViewing
  <2>4. CASE Remarked(v) \/ viewings'[v] = viewings[v]
    BY <2>1, <2>4 DEF Remarked
  <2> QED BY <1>1, <2>2, <2>3, <2>4, Changes
<1>4. ASSUME i.kind = "delete" PROVE gateway'[v].revision >= i.version
  <2>1. gateway[v].revision >= i.version /\ gateway[v].revision \in Nat
    BY <1>1, <1>4, Forward DEF Done
  <2>2. CASE gateway'[v] = gateway[v]
    BY <2>1, <2>2
  <2>3. ASSUME NEW m \in net, m.revision > gateway[v].revision,
               gateway'[v] = [revision |-> m.revision, shows |-> m.shows]
        PROVE  gateway'[v].revision >= i.version
    <3>1. m.revision \in Nat
      BY BoundsAssumption DEF IInv, Shape, Message, Versions
    <3> QED BY <1>1, <2>1, <2>3, <3>1
  <2> QED BY <1>1, <2>2, <2>3, Forward
<1> QED BY <1>2, <1>3, <1>4 DEF Done

\* A worker that another one does not touch.
LEMMA HandKept ==
  ASSUME IInv, Step, NEW w \in Workers, work'[w] = work[w],
         tx'[w] # NoTx => \/ tx[w] # NoTx
                          \/ work[w].pc = "running" /\ work[w].job.kind = "reminder"
  PROVE  InHand(w)'
<1>1. InHand(w)
  BY DEF IInv
<1>2. work[w].pc # "idle" => work[w].job \in JobIds /\ jobs'[work[w].job].status # "absent"
  BY <1>1, Lasting DEF InHand
<1> QED BY <1>1, <1>2 DEF InHand

\* A worker has a job that is there, and a transaction only to remind.
LEMMA Hands ==
  ASSUME IInv, Step, NEW w \in Workers
  PROVE  InHand(w)'
<1>1. w \in Processes /\ InHand(w)
  BY DEF IInv, Processes
<1>2. ASSUME NEW v \in Viewings, Stored(v) \/ Removed(v) \/ Rescheduled(v) PROVE InHand(w)'
  <2>1. work' = work /\ tx'[w] = NoTx
    BY <1>1, <1>2 DEF Stored, Removed, Rescheduled, Closed
  <2> QED BY <2>1, HandKept
<1>3. ASSUME NEW u \in Workers, u # w,
             \/ \E i \in JobIds : Claimed(u, i) \/ Reminding(u, i) \/ Acknowledging(u, i)
             \/ Proceeding(u) \/ Leaving(u) \/ Marking(u) \/ Sending(u)
      PROVE  InHand(w)'
  <2>1. OtherWork(u) /\ (tx'[w] # NoTx => tx[w] # NoTx)
    BY <1>1, <1>3 DEF Claimed, Reminding, Acknowledging, Proceeding, Leaving, Marking, Sending,
                      Closed, Fewer
  <2>2. work'[w] = work[w]
    BY <1>3, <2>1 DEF OtherWork
  <2> QED BY <2>1, <2>2, HandKept
<1>4. ASSUME NEW i \in JobIds, Claimed(w, i) PROVE InHand(w)'
  <2>1. /\ work'[w].pc = "claimed" /\ work'[w].job = i /\ tx'[w] = NoTx
        /\ jobs'[i].status # "absent"
    BY <1>4 DEF Claimed
  <2> QED BY <2>1 DEF InHand
<1>5. ASSUME NEW i \in JobIds, Reminding(w, i) PROVE InHand(w)'
  <2>1. work'[w].pc = "returned" /\ work'[w].job = i /\ tx'[w] = NoTx
    BY <1>1, <1>5 DEF Reminding, Closed
  <2>2. jobs'[i].status # "absent"
    <3>1. jobs'[i].status = jobs[i].status
      BY <1>5 DEF Reminding
    <3>2. jobs[i].status # "absent"
      BY <1>1, <1>5 DEF Reminding, InHand
    <3> QED BY <3>1, <3>2
  <2> QED BY <2>1, <2>2 DEF InHand
<1>6. ASSUME (\E i \in JobIds : Acknowledging(w, i)) \/ Leaving(w) PROVE InHand(w)'
  <2>1. work'[w].pc = "idle" /\ tx'[w] = NoTx
    BY <1>6 DEF Acknowledging, Leaving
  <2> QED BY <2>1 DEF InHand
<1>7. ASSUME Proceeding(w) PROVE InHand(w)'
  <2>1. /\ work'[w].job = work[w].job /\ tx'[w] = NoTx /\ work[w].pc # "idle"
        /\ work'[w].pc \in {"running", "refused", "sending", "returned"}
        /\ work'[w].pc = "sending" =>
             /\ work[w].job.kind # "reminder" /\ work'[w].content # "none"
             /\ work'[w].content = "deleted" <=> work[w].job.kind = "delete"
        /\ UNCHANGED jobs
    BY <1>7 DEF Proceeding
  <2>2. work[w].job \in JobIds /\ jobs[work[w].job].status # "absent"
    BY <1>1, <2>1 DEF InHand
  <2> QED BY <2>1, <2>2 DEF InHand
<1>8. ASSUME Marking(w) PROVE InHand(w)'
  <2>1. /\ work'[w].job = work[w].job /\ tx'[w] = NoTx /\ work[w].job \in JobIds
        /\ work'[w].pc \in {"returned", "errored"} /\ UNCHANGED jobs /\ work[w].pc # "idle"
    BY <1>8 DEF Marking
  <2>2. jobs[work[w].job].status # "absent"
    BY <1>1, <2>1 DEF InHand
  <2> QED BY <2>1, <2>2 DEF InHand
<1>9. ASSUME Sending(w) PROVE InHand(w)'
  <2>1. /\ work'[w].job = work[w].job /\ tx'[w] = NoTx /\ work[w].pc = "sending"
        /\ work'[w].pc = "waiting" /\ UNCHANGED jobs
    BY <1>9 DEF Sending
  <2>2. work[w].job \in JobIds /\ jobs[work[w].job].status # "absent" /\ work[w].job.kind # "reminder"
    BY <1>1, <2>1 DEF InHand
  <2> QED BY <2>1, <2>2 DEF InHand
<1>10. ASSUME NEW p \in Processes, Beginning(p) PROVE InHand(w)'
  <2>1. /\ work' = work
        /\ p = w \/ tx'[w] = NoTx
        /\ p = w => work[w].pc = "running" /\ work[w].job.kind = "reminder"
    BY <1>1, <1>10 DEF Beginning
  <2> QED BY <2>1, HandKept
<1>11. ASSUME (\E m \in net : Handling(m)) \/ Idling PROVE InHand(w)'
  <2>1. work' = work /\ (tx'[w] # NoTx => tx[w] # NoTx)
    BY <1>1, <1>11 DEF Handling, Idling, Fewer
  <2> QED BY <2>1, HandKept
<1> QED BY <1>2, <1>3, <1>4, <1>5, <1>6, <1>7, <1>8, <1>9, <1>10, <1>11 DEF Step

\* Nobody but the worker that claims a job comes to own it.
LEMMA Owned ==
  ASSUME IInv, Step, NEW w \in Workers, NEW i \in JobIds,
         jobs'[i].status = "processing", jobs'[i].owner = w, ~Claimed(w, i)
  PROVE  jobs[i].status = "processing" /\ jobs[i].owner = w
<1>1. CASE JobStays(i)
  BY <1>1 DEF JobStays
<1>2. CASE Processed(i)
  BY <1>2 DEF Processed, Claimed, Reminding, Acknowledging
<1> QED BY <1>1, <1>2, JobChanges DEF Enqueued, Cancelled

\* A worker returns with its claim only when the job is done.
LEMMA Returns ==
  ASSUME IInv, Database', Step, NEW w \in Workers
  PROVE  Returned(w)'
<1> SUFFICES ASSUME NEW i \in {work'[w].job}, work'[w].pc = "returned",
                    jobs'[i].status = "processing", jobs'[i].owner = w
             PROVE  Done(i)'
  BY DEF Returned, Owns
<1>1. i \in JobIds /\ i = work'[w].job
  BY Hands DEF InHand
<1>2. jobs[i].status = "processing" /\ jobs[i].owner = w
  <2>1. ~Claimed(w, i)
    BY DEF Claimed
  <2> QED BY <1>1, <2>1, Owned
<1>3. Returned(w) /\ Empty(viewings[i.viewing]) /\ viewings[i.viewing] \in ViewingRecord
  BY <1>1 DEF IInv, Shape, JobIds
<1>4. CASE work'[w] = work[w]
  BY <1>1, <1>2, <1>3, <1>4, DoneStays DEF Returned, Owns
<1>5. CASE Proceeding(w)
  <2>1. /\ i = work[w].job /\ Owns(w, i)
        /\ UNCHANGED viewings
    BY <1>1, <1>2, <1>5 DEF Proceeding, Owns, Unmoved
  <2>2. /\ i.kind = "sync"
        /\ ~(viewings[i.viewing].status \in {"active", "closed"} /\ viewings[i.viewing].version = i.version)
    BY <1>5, <2>1 DEF Proceeding
  <2> QED BY <1>3, <2>1, <2>2 DEF Done, Empty, ViewingRecord
<1>6. CASE Marking(w)
  <2>1. i = work[w].job /\ UNCHANGED gateway
    BY <1>1, <1>6 DEF Marking
  <2>2. /\ i.kind \in {"sync", "delete"}
        /\ i.kind = "delete" => gateway[i.viewing].revision >= i.version
        /\ i.kind = "sync" => \/ UNCHANGED viewings /\ viewings[i.viewing].version # i.version
                              \/ UNCHANGED viewings /\ viewings[i.viewing].sync = "none"
                              \/ viewings'[i.viewing].sync # "pending"
    BY <1>6, <2>1 DEF Marking
  <2> QED BY <2>1, <2>2 DEF Done
<1>7. ASSUME NEW j \in JobIds, Reminding(w, j) PROVE Done(i)'
  <2>1. j = i /\ i.kind = "reminder" /\ i = work[w].job
    BY <1>1, <1>7 DEF Reminding
  <2>2. jobs'[i].committed
    BY <1>2, <1>7, <2>1 DEF Reminding, Fenced, Owns
  <2> QED BY <2>1, <2>2 DEF Done
<1>8. ASSUME NEW v \in Viewings, Stored(v) \/ Removed(v) \/ Rescheduled(v) PROVE work'[w] = work[w]
  BY <1>8 DEF Stored, Removed, Rescheduled
<1>9. ASSUME NEW u \in Workers, u # w,
             \/ \E j \in JobIds : Claimed(u, j) \/ Reminding(u, j) \/ Acknowledging(u, j)
             \/ Proceeding(u) \/ Leaving(u) \/ Marking(u) \/ Sending(u)
      PROVE  work'[w] = work[w]
  <2>1. OtherWork(u)
    BY <1>9 DEF Claimed, Reminding, Acknowledging, Proceeding, Leaving, Marking, Sending
  <2> QED BY <1>9, <2>1 DEF OtherWork
<1>10. ASSUME (\E m \in net : Handling(m)) \/ (\E p \in Processes : Beginning(p)) \/ Idling
       PROVE  work'[w] = work[w]
  BY <1>10 DEF Handling, Beginning, Idling
<1>11. ~(\E j \in JobIds : Claimed(w, j) \/ Acknowledging(w, j)) /\ ~Leaving(w) /\ ~Sending(w)
  BY DEF Claimed, Acknowledging, Leaving, Sending
<1> QED BY <1>4, <1>5, <1>6, <1>7, <1>8, <1>9, <1>10, <1>11 DEF Step

-----------------------------------------------------------------------------
(* The calendar. *)

\* A viewing that is deleted has one tombstone, later than all its jobs.
LEMMA TombstonesStay ==
  ASSUME IInv, Database', Step
  PROVE  Tombstones'
<1> SUFFICES ASSUME NEW i \in JobIds, NEW j \in JobIds, i.viewing = j.viewing, i.kind = "delete",
                    jobs'[i].status # "absent", jobs'[j].status # "absent"
             PROVE  IF j.kind = "delete" THEN j.version = i.version ELSE j.version < i.version
  BY DEF Tombstones
<1> DEFINE v == i.viewing
<1>1. /\ v \in Viewings /\ i.version \in Nat /\ j.version \in Nat /\ Tombstones
      /\ viewings[v].version \in Nat
  <2>1. v \in Viewings /\ i.version \in Nat /\ j.version \in Nat
    BY BoundsAssumption DEF JobIds, Versions
  <2> QED BY <2>1, Grows DEF IInv
<1>2. CASE Enqueued(i)
  <2>1. Removed(v) /\ i.version = viewings[v].version + 1
    BY <1>2 DEF Enqueued
  <2>2. viewings[v].status \in {"active", "closed"} /\ viewings'[v].status = "deleted"
        /\ viewings'[v].version = 0
    BY <2>1 DEF Removed, NoViewing
  <2>3. CASE Enqueued(j)
    <3>1. ~Stored(v)
      BY <2>2 DEF Stored
    <3>2. ~Rescheduled(v)
      BY <2>2 DEF Rescheduled
    <3> QED BY <2>1, <2>3, <3>1, <3>2 DEF Enqueued
  <2>4. CASE ~Enqueued(j)
    <3>1. jobs[j].status # "absent"
      BY <2>4, Lasting
    <3>2. j.kind # "delete" /\ j.version <= viewings[v].version
      BY <2>2, <3>1, Reached
    <3> QED BY <1>1, <2>1, <3>2
  <2> QED BY <2>3, <2>4
<1>3. CASE ~Enqueued(i)
  <2>1. jobs[i].status # "absent"
    BY <1>3, Lasting
  <2>2. viewings[v].status = "deleted"
    BY <2>1, Reached
  <2>3. ~Enqueued(j)
    BY <2>2 DEF Enqueued, Stored, Removed, Rescheduled
  <2>4. jobs[j].status # "absent"
    BY <2>3, Lasting
  <2> QED BY <1>1, <2>1, <2>4 DEF Tombstones
<1> QED BY <1>2, <1>3

\* What was not too new for the calendar stays so.
LEMMA HeardStays ==
  ASSUME IInv, Database', Step, NEW v \in Viewings, NEW revision \in Nat, NEW shows,
         Heard(v, revision, shows)
  PROVE  Heard(v, revision, shows)'
<1>1. /\ viewings'[v].status # "deleted" => revision <= viewings'[v].version /\ shows # "deleted"
  BY Grows DEF Heard
<1>2. ASSUME NEW i \in JobIds, i.kind = "delete", i.viewing = v, jobs'[i].status # "absent"
      PROVE  revision <= i.version /\ (revision = i.version => shows = "deleted")
  <2>1. CASE jobs[i].status # "absent"
    BY <1>2, <2>1 DEF Heard
  <2>2. CASE Enqueued(i)
    <3>1. Removed(v) /\ i.version = viewings[v].version + 1
      BY <1>2, <2>2 DEF Enqueued
    <3>2. revision <= viewings[v].version
      BY <3>1 DEF Removed, Heard
    <3>3. viewings[v].version \in Nat
      BY Grows
    <3> QED BY <3>1, <3>2, <3>3
  <2> QED BY <1>2, <2>1, <2>2, Lasting
<1> QED BY <1>1, <1>2 DEF Heard

\* A request for a job that is there is not too new either.
LEMMA SentHeard ==
  ASSUME IInv, NEW w \in Workers, work[w].pc = "sending"
  PROVE  LET i == work[w].job IN
           i \in JobIds /\ Heard(i.viewing, i.version, work[w].content)
<1> DEFINE i == work[w].job
<1>1. /\ i \in JobIds /\ jobs[i].status # "absent" /\ i.kind # "reminder"
      /\ work[w].content = "deleted" <=> i.kind = "delete"
  BY DEF IInv, InHand
<1>2. viewings[i.viewing].status # "deleted" => i.version <= viewings[i.viewing].version /\ i.kind # "delete"
  BY <1>1, Reached
<1>3. ASSUME NEW j \in JobIds, j.kind = "delete", j.viewing = i.viewing, jobs[j].status # "absent"
      PROVE  i.version <= j.version /\ (i.version = j.version => work[w].content = "deleted")
  <2>1. IF i.kind = "delete" THEN i.version = j.version ELSE i.version < j.version
    BY <1>1, <1>3 DEF IInv, Tombstones
  <2>2. i.version \in Nat /\ j.version \in Nat
    BY <1>1, BoundsAssumption DEF JobIds, Versions
  <2> QED BY <1>1, <2>1, <2>2
<1> QED BY <1>1, <1>2, <1>3 DEF Heard

\* The requests under way are those sent before, and perhaps that of a worker.
LEMMA Underway ==
  ASSUME IInv, Step
  PROVE  \A m \in net' : m \in net \/ \E w \in Workers :
           /\ work[w].pc = "sending"
           /\ m = [viewing |-> work[w].job.viewing, revision |-> work[w].job.version,
                   shows |-> work[w].content]
<1>1. ASSUME NEW u \in Viewings, Stored(u) \/ Removed(u) \/ Rescheduled(u) PROVE net' = net
  BY <1>1 DEF Stored, Removed, Rescheduled
<1>2. ASSUME NEW w \in Workers,
             \/ \E i \in JobIds : Claimed(w, i) \/ Reminding(w, i) \/ Acknowledging(w, i)
             \/ Proceeding(w) \/ Leaving(w) \/ Marking(w)
      PROVE  net' = net
  BY <1>2 DEF Claimed, Reminding, Acknowledging, Proceeding, Leaving, Marking, Unmoved
<1>3. ASSUME (\E m \in net : Handling(m)) \/ (\E p \in Processes : Beginning(p)) \/ Idling
      PROVE  net' \subseteq net
  BY <1>3 DEF Handling, Beginning, Idling, Unmoved
<1>4. ASSUME NEW w \in Workers, Sending(w)
      PROVE  /\ work[w].pc = "sending"
             /\ net' = net \cup {[viewing |-> work[w].job.viewing, revision |-> work[w].job.version,
                                  shows |-> work[w].content]}
  BY <1>4 DEF Sending
<1> QED BY <1>1, <1>2, <1>3, <1>4 DEF Step

\* No request and no copy is ever too new.
LEMMA SentStays ==
  ASSUME IInv, Database', Step
  PROVE  Sent'
<1>1. Sent /\ net \subseteq Message
  BY DEF IInv, Shape
<1>2. ASSUME NEW m \in net PROVE Heard(m.viewing, m.revision, m.shows)'
  <2>1. m.viewing \in Viewings /\ m.revision \in Nat
    BY <1>1, BoundsAssumption DEF Message, Versions
  <2>2. Heard(m.viewing, m.revision, m.shows)
    BY <1>1 DEF Sent
  <2> QED BY <2>1, <2>2, HeardStays
<1>3. ASSUME NEW m \in net' PROVE Heard(m.viewing, m.revision, m.shows)'
  <2>1. CASE m \in net
    BY <1>2, <2>1
  <2>2. ASSUME NEW w \in Workers, work[w].pc = "sending",
               m = [viewing |-> work[w].job.viewing, revision |-> work[w].job.version,
                    shows |-> work[w].content]
        PROVE  Heard(m.viewing, m.revision, m.shows)'
    <3>1. PICK i \in JobIds : i = work[w].job
      BY <2>2, SentHeard
    <3>2. Heard(m.viewing, m.revision, m.shows)
      BY <2>2, SentHeard
    <3>3. m.viewing \in Viewings /\ m.revision \in Nat
      BY <2>2, <3>1, BoundsAssumption DEF JobIds, Versions
    <3> QED BY <3>2, <3>3, HeardStays
  <2> QED BY <2>1, <2>2, Underway
<1>4. ASSUME NEW v \in Viewings PROVE Heard(v, gateway[v].revision, gateway[v].shows)'
  <2>1. CASE gateway'[v] = gateway[v]
    <3>1. PICK r \in Nat : r = gateway[v].revision
      BY Forward
    <3>2. PICK shows : shows = gateway[v].shows
      OBVIOUS
    <3>3. Heard(v, r, shows)
      BY <1>1, <3>1, <3>2 DEF Sent
    <3>4. Heard(v, r, shows)'
      BY <3>3, HeardStays
    <3> QED BY <2>1, <3>1, <3>2, <3>4
  <2>2. ASSUME NEW m \in net, m.viewing = v,
               gateway'[v] = [revision |-> m.revision, shows |-> m.shows]
        PROVE  Heard(v, gateway[v].revision, gateway[v].shows)'
    BY <1>2, <2>2
  <2> QED BY <2>1, <2>2, Forward
<1> QED BY <1>3, <1>4 DEF Sent

\* What a viewing says of its copy stays true, and its job stays until it says so.
LEMMA CopyKept ==
  ASSUME IInv, Database', Step, NEW v \in Viewings
  PROVE  Synced(v)' /\ Pending(v)'
<1>1. /\ Synced(v) /\ Pending(v) /\ Empty(viewings[v]) /\ Sent
      /\ viewings[v].version \in Nat /\ viewings[v].version \in 0 .. MaxVersion
      /\ gateway[v].revision \in Nat
  BY Record, Forward DEF IInv, Shape
<1>2. CASE Stored(v)
  <2>1. PICK new \in SUBSET JobIds :
          /\ Replaced(v, {"reminder", "sync"}, new)
          /\ [kind |-> "sync", viewing |-> v, version |-> viewings'[v].version] \in new
    BY <1>2 DEF Stored
  <2>2. jobs'[[kind |-> "sync", viewing |-> v, version |-> viewings'[v].version]].status = "pending"
    BY <2>1 DEF Replaced
  <2> QED BY <1>2, <2>2 DEF Stored, Synced, Pending, Live
<1>3. CASE Removed(v)
  BY <1>3 DEF Removed, NoViewing, Synced, Pending
<1>4. CASE Remarked(v)
  <2>1. gateway[v].revision <= viewings[v].version
    BY <1>1, <1>4 DEF Remarked, Sent, Heard
  <2> QED BY <1>1, <1>4, <2>1 DEF Remarked, SameBooking, Synced, Pending
<1>5. CASE viewings'[v] = viewings[v] /\ ~Stored(v) /\ ~Removed(v)
  <2>1. Synced(v)'
    <3>1. CASE gateway'[v] = gateway[v]
      BY <1>1, <1>5, <3>1 DEF Synced
    <3>2. ASSUME viewings[v].sync = "synced", NEW m \in net, m.viewing = v,
                 m.revision > gateway[v].revision
          PROVE  FALSE
      <4>1. gateway[v].revision = viewings[v].version /\ viewings[v].status # "deleted"
        BY <1>1, <3>2 DEF Synced, Empty
      <4>2. Heard(v, m.revision, m.shows)
        BY <1>1, <3>2 DEF Sent
      <4>3. m.revision \in Nat
        BY BoundsAssumption DEF IInv, Shape, Message, Versions
      <4> QED BY <1>1, <3>2, <4>1, <4>2, <4>3 DEF Heard
    <3> QED BY <1>5, <3>1, <3>2, Forward DEF Synced
  <2>2. ASSUME viewings[v].sync = "pending", NEW i \in JobIds,
               i.kind = "sync", i.viewing = v, i.version = viewings[v].version
        PROVE  jobs'[i].status \in Live \cup {"failed"}
    <3>1. jobs[i].status \in Live \cup {"failed"}
      <4>1. i = [kind |-> "sync", viewing |-> v, version |-> viewings[v].version]
        BY <2>2 DEF JobIds
      <4> QED BY <1>1, <2>2, <4>1 DEF Pending
    <3>2. CASE JobStays(i)
      BY <3>1, <3>2 DEF JobStays
    <3>3. CASE Enqueued(i)
      BY <3>3 DEF Enqueued, Live
    <3>4. ~Cancelled(i)
      BY <1>5, <2>2 DEF Cancelled
    <3>5. ASSUME NEW w \in Workers,
                 Claimed(w, i) \/ Reminding(w, i) \/ Acknowledging(w, i)
          PROVE  jobs'[i].status \in Live \cup {"failed"}
      <4>1. Returned(w)
        BY DEF IInv
      <4>2. CASE Claimed(w, i)
        BY <4>2 DEF Claimed, Live
      <4>3. CASE Acknowledging(w, i)
        BY <2>2, <4>1, <4>3 DEF Acknowledging, Returned, Done, Live
      <4> QED BY <2>2, <3>5, <4>2, <4>3 DEF Reminding
    <3> QED BY <2>2, <3>2, <3>3, <3>4, <3>5, JobChanges DEF Processed
  <2>3. ASSUME viewings[v].sync = "pending"
        PROVE  LET i == [kind |-> "sync", viewing |-> v, version |-> viewings[v].version]
               IN  i \in JobIds /\ i.kind = "sync" /\ i.viewing = v /\ i.version = viewings[v].version
    <3>1. viewings[v].version # 0
      BY <1>1, <2>3 DEF Empty
    <3> QED BY <1>1, <3>1, BoundsAssumption DEF JobIds, Kinds, Versions
  <2> QED BY <1>5, <2>1, <2>2, <2>3 DEF Pending
<1> QED BY <1>2, <1>3, <1>4, <1>5, Changes

\* A tombstone is acknowledged only when the calendar has it, and the calendar keeps it.
LEMMA DeletedStays ==
  ASSUME IInv, Database', Step, NEW i \in JobIds
  PROVE  Deleted(i)'
<1> SUFFICES ASSUME i.kind = "delete", jobs'[i].status = "completed"
             PROVE  gateway'[i.viewing].revision >= i.version
  BY DEF Deleted
<1>1. i.viewing \in Viewings /\ i.version \in Nat /\ gateway[i.viewing].revision \in Nat
  BY BoundsAssumption, Forward DEF JobIds, Versions
<1>2. gateway[i.viewing].revision >= i.version
  <2>1. CASE JobStays(i)
    BY <2>1 DEF IInv, Deleted, JobStays
  <2>2. ASSUME NEW w \in Workers, Acknowledging(w, i)
        PROVE  gateway[i.viewing].revision >= i.version
    <3>1. Returned(w)
      BY DEF IInv
    <3> QED BY <2>2, <3>1 DEF Acknowledging, Returned, Done
  <2>3. ~Enqueued(i) /\ ~Cancelled(i)
    BY DEF Enqueued, Cancelled
  <2> QED BY <2>1, <2>2, <2>3, JobChanges DEF Processed, Claimed, Reminding
<1>3. ASSUME NEW m \in net, m.revision > gateway[i.viewing].revision,
             gateway'[i.viewing] = [revision |-> m.revision, shows |-> m.shows]
      PROVE  gateway'[i.viewing].revision >= i.version
  <2>1. m.revision \in Nat
    BY BoundsAssumption DEF IInv, Shape, Message, Versions
  <2> QED BY <1>1, <1>2, <1>3, <2>1
<1> QED BY <1>1, <1>2, <1>3, Forward

-----------------------------------------------------------------------------
(* The theorems. *)

\* The first state: nothing is booked, queued or under way.
LEMMA Initially ==
  ASSUME Init PROVE IInv
<1>1. /\ \A v \in Viewings : viewings[v] = NoViewing
      /\ \A i \in JobIds : jobs[i] = Unqueued
      /\ \A w \in Workers : work[w] = Resting
      /\ \A p \in Processes : tx[p] = NoTx
      /\ \A v \in Viewings : gateway[v] = [revision |-> 0, shows |-> "none"]
      /\ \A k \in Keys : receipts[k] = "none" /\ booked[k] = 0
      /\ net = {}
      /\ \A i \in Viewings \X Versions : reminded[i] = 0
  BY DEF Init
<1>2. /\ NoViewing \in ViewingRecord /\ Unqueued \in JobState /\ Resting \in WorkState
      /\ NoViewing.status = "absent" /\ NoViewing.sync = "none" /\ NoViewing.version = 0
      /\ Unqueued.status = "absent" /\ Unqueued.committed = FALSE
      /\ Resting.pc = "idle"
  BY BoundsAssumption DEF NoViewing, ViewingRecord, Unqueued, JobState, Live, Resting, WorkState
<1>3. Shape
  BY <1>2, BoundsAssumption DEF Init, Shape
<1>4. /\ \A v \in Viewings : Empty(viewings[v]) /\ Synced(v) /\ Pending(v)
      /\ Exclusive /\ Current /\ NoClash /\ \A k \in Keys : Receipted(k)
  BY <1>1, <1>2 DEF Empty, Synced, Pending, Exclusive, Current, NoClash, Receipted
<1>5. ASSUME NEW i \in JobIds PROVE Unused(i) /\ Reminder(i) /\ Deleted(i)
  <2>1. <<i.viewing, i.version>> \in Viewings \X Versions /\ i.viewing \in Viewings
    BY DEF JobIds
  <2> QED BY <1>1, <1>2, <2>1 DEF Unused, Reminder, RemindedOf, Deleted
<1>6. \A w \in Workers : InHand(w) /\ Returned(w)
  BY <1>1, <1>2 DEF InHand, Returned, Processes
<1>7. Tombstones
  BY <1>1, <1>2 DEF Tombstones
<1>8. Sent
  BY <1>1, <1>2 DEF Sent, Heard
<1> QED BY <1>3, <1>4, <1>5, <1>6, <1>7, <1>8 DEF IInv

\* Every step keeps the invariant.
LEMMA Onward ==
  ASSUME IInv, [Next]_vars PROVE IInv'
<1>1. CASE UNCHANGED vars
  <2>1. UNCHANGED <<viewings, receipts, jobs, work, tx, gateway, net, open, clock, reminded, booked, faults>>
    BY <1>1 DEF vars
  <2>2. Shape' /\ (\A v \in Viewings : Empty(viewings[v]))' /\ Exclusive' /\ Current' /\ NoClash'
    BY <2>1 DEF IInv, Shape, Exclusive, Current, NoClash, SameBooking
  <2>3. /\ \A k \in Keys : Receipted(k)'
        /\ \A i \in JobIds : Unused(i)' /\ Reminder(i)' /\ Deleted(i)'
    BY <2>1 DEF IInv, Receipted, Unused, Reminder, RemindedOf, Deleted
  <2>4. \A w \in Workers : InHand(w)' /\ Returned(w)'
    BY <2>1 DEF IInv, InHand, Returned, Owns, Done
  <2>5. Tombstones' /\ Sent'
    BY <2>1 DEF IInv, Tombstones, Sent, Heard
  <2>6. \A v \in Viewings : Synced(v)' /\ Pending(v)'
    BY <2>1 DEF IInv, Synced, Pending
  <2> QED BY <2>2, <2>3, <2>4, <2>5, <2>6 DEF IInv
<1>2. CASE Next
  <2>1. Database' /\ Step /\ Rest' /\ \A k \in Keys : Receipted(k)'
    BY <1>2, Steps, Receipts
  <2>2. Shape'
    BY <2>1 DEF Database, Rest, Shape
  <2>3. clock' >= clock
    <3>1. clock \in Nat
      BY BoundsAssumption DEF IInv, Shape
    <3>2. ASSUME NEW v \in Viewings, Stored(v) \/ Removed(v) \/ Rescheduled(v) PROVE clock' = clock
      BY <3>2 DEF Stored, Removed, Rescheduled
    <3>3. ASSUME NEW w \in Workers,
                 \/ \E i \in JobIds : Claimed(w, i) \/ Reminding(w, i) \/ Acknowledging(w, i)
                 \/ Proceeding(w) \/ Leaving(w) \/ Marking(w) \/ Sending(w)
          PROVE  clock' = clock
      BY <3>3 DEF Claimed, Reminding, Acknowledging, Proceeding, Leaving, Marking, Sending, Unmoved
    <3>4. ASSUME (\E m \in net : Handling(m)) \/ (\E p \in Processes : Beginning(p))
          PROVE  clock' = clock
      BY <3>4 DEF Handling, Beginning, Unmoved
    <3>5. clock' = clock \/ Idling
      BY <2>1, <3>2, <3>3, <3>4 DEF Step
    <3> QED BY <3>1, <3>5 DEF Idling
  <2>4. \A v \in Viewings : Empty(viewings'[v])
    BY <2>1, Emptied
  <2>5. NoClash' /\ Exclusive' /\ Current'
    BY <2>1, Clashes, Excludes
  <2>6. \A i \in JobIds : Unused(i)' /\ Deleted(i)'
    BY <2>1, UnusedStays, DeletedStays
  <2>7. \A i \in JobIds : Reminder(i)'
    <3> SUFFICES ASSUME NEW i \in JobIds PROVE Reminder(i)'
      OBVIOUS
    <3>1. CASE i.kind = "reminder"
      BY <2>1, <2>3, <3>1, ReminderKept
    <3>2. CASE i.kind # "reminder"
      BY <3>2 DEF Reminder
    <3> QED BY <3>1, <3>2
  <2>8. \A w \in Workers : InHand(w)' /\ Returned(w)'
    BY <2>1, Hands, Returns
  <2>9. Tombstones' /\ Sent'
    BY <2>1, TombstonesStay, SentStays
  <2>10. \A v \in Viewings : Synced(v)' /\ Pending(v)'
    BY <2>1, CopyKept
  <2> QED BY <2>1, <2>2, <2>4, <2>5, <2>6, <2>7, <2>8, <2>9, <2>10 DEF IInv
<1> QED BY <1>1, <1>2

\* The inductive invariant holds in every state, of every instance.
THEOREM Inductive == Spec => []IInv
<1>1. Init => IInv
  BY Initially
<1>2. IInv /\ [Next]_vars => IInv'
  BY Onward
<1> QED BY <1>1, <1>2, PTL DEF Spec

\* Every variable keeps its type, and a viewing that is gone has no fields left.
THEOREM TypeCorrect == Spec => []TypeOK
<1>1. IInv => TypeOK
  <2> SUFFICES ASSUME IInv PROVE TypeOK
    OBVIOUS
  <2>1. Shape /\ \A v \in Viewings : Empty(viewings[v])
    BY DEF IInv
  <2>2. \A w \in Workers : work[w].job \in JobIds \cup {NoJob}
    BY <2>1 DEF Shape, WorkState
  <2> QED BY <2>1, <2>2 DEF Shape, Empty, TypeOK
<1> QED BY <1>1, Inductive, PTL

\* No interleaving of creations, updates, reactivations and public requests books an agent
\* or a property twice for one minute, nor anything twice for one key while its receipt lasts.
THEOREM NeverDoubleBooked == Spec => []NoDoubleBooking
<1>1. IInv => NoDoubleBooking
  <2> SUFFICES ASSUME IInv PROVE NoDoubleBooking
    OBVIOUS
  <2>1. BookedOncePerKey
    BY DEF IInv, Receipted, BookedOncePerKey
  <2>2. ASSUME NEW u \in Viewings, NEW v \in Viewings, u # v,
               viewings[u].status = "active", viewings[v].status = "active",
               NEW t \in Minutes, Takes(u, t), Takes(v, t)
        PROVE  viewings[u].agent # viewings[v].agent /\ viewings[u].property # viewings[v].property
    <3>1. t \in Nat
      BY WindowsAssumption DEF Minutes
    <3>2. viewings[u] \in ViewingRecord /\ viewings[v] \in ViewingRecord
      BY DEF IInv, Shape
    <3>3. Overlap(viewings[u].window, viewings[v].window)
      BY <2>2, <3>1, <3>2, Record DEF Takes, Overlap
    <3> QED BY <2>2, <3>3 DEF IInv, NoClash
  <2> QED BY <2>1, <2>2 DEF NoDoubleBooking
<1> QED BY <1>1, Inductive, PTL

\* No retry, lost lease or crash reminds twice of one version of a viewing, and the reminder
\* of the current version of an active one is not given up unsent before the viewing begins.
THEOREM AlwaysRemindedOnce == Spec => []RemindedOnce
<1>1. IInv => RemindedOnce
  <2> SUFFICES ASSUME IInv PROVE RemindedOnce
    OBVIOUS
  <2> DEFINE job(v, n) == [kind |-> "reminder", viewing |-> v, version |-> n]
  <2>1. ASSUME NEW v \in Viewings, NEW n \in Versions
        PROVE  /\ reminded[<<v, n>>] <= 1
               /\ viewings[v].status = "active" /\ viewings[v].version = n =>
                    /\ jobs[job(v, n)].status # "cancelled"
                    /\ jobs[job(v, n)].status = "completed"
                         => reminded[<<v, n>>] = 1 \/ viewings[v].window[1] <= clock
    <3>1. /\ job(v, n) \in JobIds /\ job(v, n).kind = "reminder"
          /\ job(v, n).viewing = v /\ job(v, n).version = n
      BY DEF JobIds, Kinds
    <3> HIDE DEF job
    <3>2. Reminder(job(v, n))
      BY <3>1 DEF IInv
    <3> QED BY <3>1, <3>2 DEF Reminder, RemindedOf
  <2>2. ASSUME NEW i \in Viewings \X Versions PROVE reminded[i] <= 1
    <3>1. i = <<i[1], i[2]>> /\ i[1] \in Viewings /\ i[2] \in Versions
      OBVIOUS
    <3> QED BY <2>1, <3>1
  <2>3. ASSUME NEW v \in Viewings, viewings[v].status = "active"
        PROVE  viewings[v].version \in Versions
    <3>1. viewings[v] \in ViewingRecord /\ Empty(viewings[v])
      BY DEF IInv, Shape
    <3> QED BY <2>3, <3>1, Record, BoundsAssumption DEF Empty, Versions
  <2> QED BY <2>1, <2>2, <2>3 DEF RemindedOnce
<1> QED BY <1>1, Inductive, PTL

\* A viewing is called synced only when the calendar has its version, an acknowledged
\* tombstone is never undone by a late request, and the copy of a version is not forgotten.
THEOREM CalendarAlwaysAgrees == Spec => []CalendarAgrees
<1>1. IInv => CalendarAgrees
  <2> SUFFICES ASSUME IInv PROVE CalendarAgrees
    OBVIOUS
  <2>1. PendingIsQueued
    BY DEF IInv, Pending, PendingIsQueued
  <2>2. \A v \in Viewings : viewings[v].sync = "synced" => gateway[v].revision = viewings[v].version
    BY DEF IInv, Synced
  <2>3. ASSUME NEW v \in Viewings, NEW i \in JobIds, i.kind = "delete", i.viewing = v,
               jobs[i].status = "completed"
        PROVE  gateway[v].shows = "deleted"
    <3>1. gateway[v].revision >= i.version
      BY <2>3 DEF IInv, Deleted
    <3>2. gateway[v].revision <= i.version /\ (gateway[v].revision = i.version => gateway[v].shows = "deleted")
      BY <2>3 DEF IInv, Sent, Heard
    <3>3. gateway[v].revision \in Nat /\ i.version \in Nat
      BY BoundsAssumption DEF IInv, Shape, JobIds, Versions
    <3> QED BY <3>1, <3>2, <3>3
  <2>4. ASSUME NEW v \in Viewings, NEW n \in Versions
        PROVE  [kind |-> "delete", viewing |-> v, version |-> n] \in JobIds
    BY DEF JobIds, Kinds
  <2> QED BY <2>1, <2>2, <2>3, <2>4 DEF CalendarAgrees
<1> QED BY <1>1, Inductive, PTL
=============================================================================
