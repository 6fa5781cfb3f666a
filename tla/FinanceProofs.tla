---------------------------- MODULE FinanceProofs ----------------------------
(***************************************************************************)
(* Proofs about the money of a tenant: manual journals enter the books as  *)
(* somebody else has seen them, a closed year is sealed, a unit is sold    *)
(* once, and the books follow the records.                                 *)
(*                                                                         *)
(* Every operation of the records, of purchases and of sales touches the   *)
(* ledger in one way only, by a transaction that posts at most two         *)
(* journals and reverses at most one (Keeping).  What such a transaction   *)
(* may do to a journal that is there, and what it says of one that is new, *)
(* is a frame (Appends), under which the first invariants are kept.        *)
(*                                                                         *)
(* That the books follow the records is an invariant of each record: its   *)
(* journals answer for it (Answers).  A step has to show that of what it   *)
(* writes alone, because it leaves every other record's journals as they   *)
(* are but for what a user reverses (Beside, Others).  The amounts that    *)
(* several records share are sums over finite sets, whose laws come first. *)
(***************************************************************************)
EXTENDS Finance, FiniteSetTheorems, SequenceTheorems, WellFoundedInduction, TLAPS

-----------------------------------------------------------------------------
(* Facts about the data. *)

\* A set of naturals has a least element.
LEMMA Least ==
  ASSUME NEW T \in SUBSET Nat, T # {}
  PROVE  \E x \in T : \A y \in T : x <= y
<1>1. IsWellFoundedOn(OpToRel(<, Nat), Nat)
  BY NatLessThanWellFounded
<1> DEFINE R == OpToRel(<, Nat)
<1>2. \A x, y \in Nat : <<y, x>> \in R <=> y < x
  BY DEF OpToRel
<1> HIDE DEF R
<1>3. IsWellFoundedOn(R, Nat)
  BY <1>1 DEF R
<1>4. PICK x \in T : \A y \in T : ~(<<y, x>> \in R)
  BY <1>3, WFMin
<1>5. ASSUME NEW y \in T PROVE x <= y
  <2>1. x \in Nat /\ y \in Nat
    OBVIOUS
  <2>2. <<y, x>> \in R <=> y < x
    BY <2>1, <1>2, Zenon
  <2>3. ~(y < x)
    BY <2>2, <1>4, Zenon
  <2> QED
    BY <2>1, <2>3, SMT
<1> QED
  BY <1>5

\* The last period of a year is a period of that year.
LEMMA LastPeriod ==
  ASSUME NEW y \in Years
  PROVE  Max(PeriodsOf(y)) \in PeriodsOf(y)
<1> DEFINE P == PeriodsOf(y)
           n == Cardinality(Periods)
           T == {n - p : p \in P}
<1>1. P \subseteq Periods /\ P # {}
  BY DEF Years, PeriodsOf
<1>2. Periods = 1 .. n /\ n \in Nat
  BY CalendarAssumption, FS_CardinalityType
<1>3. T \in SUBSET Nat /\ T # {}
  BY <1>1, <1>2
<1> HIDE DEF P, T
<1>4. PICK x \in T : \A z \in T : x <= z
  BY <1>3, Least
<1>5. PICK p \in P : x = n - p
  BY DEF T
<1>6. ASSUME NEW q \in P PROVE p >= q
  <2>1. n - p <= n - q
    BY <1>4, <1>5 DEF T
  <2> QED
    BY <2>1, <1>1, <1>2
<1>7. \E m \in P : \A q \in P : m >= q
  BY <1>6
<1>8. Max(P) \in P
  BY <1>7 DEF Max
<1> QED
  BY <1>8 DEF P

-----------------------------------------------------------------------------
(* Journals. *)

\* An entry of the ledger, and a sequence of them.
IsEntry(e) ==
  e = [source |-> e.source, account |-> e.account, amount |-> e.amount, period |-> e.period,
       status |-> e.status, byHand |-> e.byHand, maker |-> e.maker, checker |-> e.checker,
       seen |-> e.seen]
AreEntries(js) == (\E S : js \in Seq(S)) /\ \A j \in DOMAIN js : IsEntry(js[j])

\* What a record posts: neither a manual journal nor the closing of a year.
Plain(e) == IsEntry(e) /\ e.source[1] \notin {"closing", "manual"} /\ e.status = "POSTED"
Postings(news) ==
  \/ news = <<>>
  \/ \E e : Plain(e) /\ news = <<e>>
  \/ \E e, f : Plain(e) /\ Plain(f) /\ news = <<e, f>>

\* ks is js with entries of the periods ps after it, and some that stood reversed.
Kept(e, f) ==
  /\ f.source = e.source /\ f.period = e.period /\ f.amount = e.amount
  /\ f.maker = e.maker /\ f.checker = e.checker /\ f.seen = e.seen
  /\ f.status = e.status \/ (e.status = "POSTED" /\ f.status = "REVERSED")
Grows(js, ks, ps) ==
  /\ AreEntries(ks)
  /\ \A j \in DOMAIN js : j \in DOMAIN ks /\ Kept(js[j], ks[j])
  /\ \A j \in DOMAIN ks \ DOMAIN js :
       /\ \A k \in DOMAIN js : k < j
       /\ ks[j].source[1] \notin {"closing", "manual"}
       /\ ks[j].period \in ps

\* An entry appended to entries.
LEMMA AppendEntry ==
  ASSUME NEW js, AreEntries(js), NEW e, IsEntry(e)
  PROVE  /\ AreEntries(Append(js, e))
         /\ Len(js) \in Nat /\ DOMAIN js = 1 .. Len(js)
         /\ DOMAIN Append(js, e) = 1 .. Len(js) + 1
         /\ \A j \in DOMAIN js : Append(js, e)[j] = js[j]
         /\ Append(js, e)[Len(js) + 1] = e
<1>1. PICK S : js \in Seq(S)
  BY DEF AreEntries
<1> DEFINE A == S \cup {e}
           ks == Append(js, e)
<1>2. js \in Seq(A) /\ e \in A
  BY <1>1
<1> HIDE DEF A
<1>3. /\ ks \in Seq(A)
      /\ Len(js) \in Nat /\ DOMAIN js = 1 .. Len(js)
      /\ DOMAIN ks = 1 .. Len(js) + 1
      /\ \A j \in DOMAIN js : ks[j] = js[j]
      /\ ks[Len(js) + 1] = e
  BY <1>2
<1> HIDE DEF ks
<1>4. \A j \in DOMAIN ks : IsEntry(ks[j])
  BY <1>3 DEF AreEntries
<1> QED
  BY <1>3, <1>4 DEF AreEntries, ks

\* Entries of which one is changed.
LEMMA ChangeEntry ==
  ASSUME NEW js, AreEntries(js), NEW j, NEW e, IsEntry(e)
  PROVE  /\ AreEntries([js EXCEPT ![j] = e])
         /\ DOMAIN [js EXCEPT ![j] = e] = DOMAIN js
         /\ \A k \in DOMAIN js : [js EXCEPT ![j] = e][k] = IF k = j THEN e ELSE js[k]
<1>1. PICK S : js \in Seq(S)
  BY DEF AreEntries
<1> DEFINE A == S \cup {e}
           ks == [js EXCEPT ![j] = e]
<1>2. js \in Seq(A) /\ e \in A
  BY <1>1
<1> HIDE DEF A
<1>3. ks \in Seq(A)
  <2>1. Len(js) \in Nat /\ js \in [1 .. Len(js) -> A]
    BY <1>2
  <2>2. ks \in [1 .. Len(js) -> A]
    BY <1>2, <2>1
  <2> QED
    BY <2>1, <2>2
<1>4. DOMAIN ks = DOMAIN js /\ \A k \in DOMAIN js : ks[k] = IF k = j THEN e ELSE js[k]
  BY <1>2
<1> HIDE DEF ks
<1>5. \A k \in DOMAIN ks : IsEntry(ks[k])
  BY <1>4 DEF AreEntries
<1> QED
  BY <1>3, <1>4, <1>5 DEF AreEntries, ks

\* A posting is one more entry, or none.
LEMMA PostingGrows ==
  ASSUME NEW js, AreEntries(js), NEW ks, NEW ps, Grows(js, ks, ps), NEW e, Plain(e)
  PROVE  Grows(js, PostedOnce(ks, e), ps \cup {e.period})
<1>1. CASE From(ks, e.source) # {}
  BY <1>1 DEF PostedOnce, Grows
<1>2. CASE From(ks, e.source) = {}
  <2> DEFINE ls == Append(ks, e)
  <2>1. AreEntries(ks) /\ IsEntry(e)
    BY DEF Grows, Plain
  <2>2. /\ AreEntries(ls)
        /\ Len(ks) \in Nat /\ DOMAIN ks = 1 .. Len(ks)
        /\ DOMAIN ls = 1 .. Len(ks) + 1
        /\ \A j \in DOMAIN ks : ls[j] = ks[j]
        /\ ls[Len(ks) + 1] = e
    BY <2>1, AppendEntry
  <2>3. Len(js) \in Nat /\ DOMAIN js = 1 .. Len(js)
    BY DEF AreEntries
  <2> HIDE DEF ls
  <2>4. \A j \in DOMAIN js : j \in DOMAIN ls /\ Kept(js[j], ls[j])
    BY <2>2 DEF Grows
  <2>5. ASSUME NEW j \in DOMAIN ls \ DOMAIN js
        PROVE  /\ \A k \in DOMAIN js : k < j
               /\ ls[j].source[1] \notin {"closing", "manual"}
               /\ ls[j].period \in ps \cup {e.period}
    <3>1. CASE j \in DOMAIN ks
      BY <3>1, <2>2, <2>5 DEF Grows
    <3>2. CASE j = Len(ks) + 1
      <4>1. \A k \in DOMAIN js : k \in DOMAIN ks
        BY DEF Grows
      <4>2. \A k \in DOMAIN js : k < j
        BY <4>1, <3>2, <2>2, <2>3
      <4> QED
        BY <4>2, <3>2, <2>2 DEF Plain
    <3> QED
      BY <3>1, <3>2, <2>2
  <2>6. Grows(js, ls, ps \cup {e.period})
    BY <2>2, <2>4, <2>5 DEF Grows
  <2> QED
    BY <2>6, <1>2 DEF PostedOnce, ls
<1> QED
  BY <1>1, <1>2

\* An entry that is reversed.
LEMMA ReversedEntry ==
  ASSUME NEW x, IsEntry(x), x.status = "POSTED", NEW byHands, NEW r,
         r = [x EXCEPT !.status = "REVERSED", !.byHand = byHands]
  PROVE  IsEntry(r) /\ Kept(x, r)
<1>1. PICK so, ac, am, pe, st, bh, ma, ch, se :
        x = [source |-> so, account |-> ac, amount |-> am, period |-> pe, status |-> st,
             byHand |-> bh, maker |-> ma, checker |-> ch, seen |-> se]
  BY DEF IsEntry
<1>2. r = [source |-> so, account |-> ac, amount |-> am, period |-> pe, status |-> "REVERSED",
           byHand |-> byHands, maker |-> ma, checker |-> ch, seen |-> se]
  BY <1>1
<1>3. IsEntry(r)
  BY <1>2 DEF IsEntry
<1>4. Kept(x, r)
  BY <1>1, <1>2 DEF Kept
<1> QED
  BY <1>3, <1>4

\* So is a reversal, which leaves the rest of what it reverses as it was.
LEMMA ReversalGrows ==
  ASSUME NEW js, AreEntries(js), NEW j, js[j].status = "POSTED", NEW p, NEW byHands
  PROVE  Grows(js, Reversed(js, j, p, byHands), {p})
<1> DEFINE ks == [js EXCEPT ![j].status = "REVERSED", ![j].byHand = byHands]
           r == [js[j] EXCEPT !.status = "REVERSED", !.byHand = byHands]
           e == Entry(<<"reversal", j, 0>>, js[j].account, 0 - js[j].amount, p)
           ls == Append(ks, e)
<1>1. IsEntry(e) /\ e.source[1] = "reversal" /\ e.period = p
  BY DEF Entry, IsEntry
<1>2. Len(js) \in Nat /\ DOMAIN js = 1 .. Len(js)
  BY DEF AreEntries
<1>3. /\ AreEntries(ks) /\ DOMAIN ks = DOMAIN js
      /\ \A k \in DOMAIN js : Kept(js[k], ks[k])
  <2>1. CASE j \in DOMAIN js
    <3>1. ks = [js EXCEPT ![j] = r]
      BY <2>1 DEF AreEntries
    <3>2. IsEntry(js[j])
      BY <2>1 DEF AreEntries
    <3>3. IsEntry(r) /\ Kept(js[j], r)
      BY <3>2, ReversedEntry
    <3> HIDE DEF ks, r
    <3>4. /\ AreEntries(ks) /\ DOMAIN ks = DOMAIN js
          /\ \A k \in DOMAIN js : ks[k] = IF k = j THEN r ELSE js[k]
      BY <3>1, <3>3, ChangeEntry
    <3>5. \A k \in DOMAIN js : Kept(js[k], ks[k])
      BY <3>3, <3>4 DEF Kept
    <3> QED
      BY <3>4, <3>5
  <2>2. CASE j \notin DOMAIN js
    <3>1. PICK S : js \in Seq(S)
      BY DEF AreEntries
    <3>2. ks = js
      BY <2>2, <3>1
    <3> QED
      BY <3>2 DEF Kept
  <2> QED
    BY <2>1, <2>2
<1> HIDE DEF ks, e
<1>4. /\ AreEntries(ls)
      /\ Len(ks) \in Nat /\ DOMAIN ks = 1 .. Len(ks)
      /\ DOMAIN ls = 1 .. Len(ks) + 1
      /\ \A k \in DOMAIN ks : ls[k] = ks[k]
      /\ ls[Len(ks) + 1] = e
  BY <1>1, <1>3, AppendEntry
<1> HIDE DEF ls
<1>5. Grows(js, ls, {p})
  BY <1>1, <1>2, <1>3, <1>4 DEF Grows
<1> QED
  BY <1>5 DEF ls, ks, e, Reversed

\* So is all that a transaction posts and reverses, in the periods it asked for.
LEMMA BookedGrows ==
  ASSUME AreEntries(journals), NEW old, NEW news, Postings(news)
  PROVE  Grows(journals, Booked(old, news),
               (IF Stands(old) THEN {today} ELSE {}) \cup {news[n].period : n \in DOMAIN news})
<1> DEFINE js == IF Stands(old) THEN Reversed(journals, old, today, FALSE) ELSE journals
           ps == IF Stands(old) THEN {today} ELSE {}
<1>1. Grows(journals, js, ps)
  <2>1. CASE Stands(old)
    BY <2>1, ReversalGrows DEF Stands
  <2>2. CASE ~Stands(old)
    BY <2>2 DEF Grows, AreEntries, Kept
  <2> QED
    BY <2>1, <2>2
<1> HIDE DEF js, ps
<1> USE DEF PostedAll
<1>2. CASE news = <<>>
  <2>1. PostedAll(js, news) = js /\ {news[n].period : n \in DOMAIN news} = {}
    BY <1>2
  <2> QED
    BY <2>1, <1>1 DEF Booked, js, ps
<1>3. ASSUME NEW e, Plain(e), news = <<e>>
      PROVE  Grows(journals, PostedAll(js, news), ps \cup {news[n].period : n \in DOMAIN news})
  <2>1. PostedAll(js, news) = PostedOnce(js, e) /\ {news[n].period : n \in DOMAIN news} = {e.period}
    BY <1>3
  <2> QED
    BY <2>1, <1>1, <1>3, PostingGrows
<1>4. ASSUME NEW e, Plain(e), NEW f, Plain(f), news = <<e, f>>
      PROVE  Grows(journals, PostedAll(js, news), ps \cup {news[n].period : n \in DOMAIN news})
  <2>1. /\ PostedAll(js, news) = PostedOnce(PostedOnce(js, e), f)
        /\ {news[n].period : n \in DOMAIN news} = {e.period, f.period}
    BY <1>4
  <2>2. Grows(journals, PostedOnce(js, e), ps \cup {e.period})
    BY <1>1, <1>4, PostingGrows
  <2>3. Grows(journals, PostedOnce(PostedOnce(js, e), f), (ps \cup {e.period}) \cup {f.period})
    BY <2>2, <1>4, PostingGrows
  <2>4. (ps \cup {e.period}) \cup {f.period} = ps \cup {e.period, f.period}
    OBVIOUS
  <2> QED
    BY <2>1, <2>3, <2>4
<1> QED
  BY <1>2, <1>3, <1>4 DEF Postings, Booked, js, ps

-----------------------------------------------------------------------------
(* The invariant. *)

\* A snapshot is a record, taken by a transaction that is open.
SnapshotOk ==
  slow # None =>
    slow = [periods |-> slow.periods, years |-> slow.years, accounting |-> slow.accounting,
            settled |-> slow.settled, balances |-> slow.balances, changed |-> slow.changed,
            slow |-> TRUE]

ClosingOf(y) == From(journals, <<"closing", y, 0>>)

\* Only the closing of a year posts its closing entry, and nothing opens a year again.
EntriesOfClosed == \A y \in Years : ClosingOf(y) # {} => years[y] = "CLOSED"

\* A transaction that read a year open which was closed since has missed the number
\* of the closing entry, and every journal from that one on.
SlowMisses ==
  slow # None =>
    \A y \in Years : slow.years[y] = "OPEN" =>
      \A k \in ClosingOf(y) :
        /\ <<"sequence", y>> \in slow.changed
        /\ \A j \in DOMAIN journals : j >= k => Journal(j) \in slow.changed

LedgerInv ==
  /\ AreEntries(journals) /\ years \in [Years -> {"OPEN", "CLOSED"}]
  /\ SnapshotOk /\ EntriesOfClosed /\ SlowMisses /\ ClosedYearIsSealed

\* Whoever approved a manual journal was not its maker, and saw what it says now.
Checked(e) == e.checker \notin {None, e.maker} /\ e.seen = e.amount
InOrder(e) ==
  e.source[1] = "manual" =>
    /\ e.status = "APPROVED" => Checked(e)
    /\ e.status \in {"POSTED", "REVERSED"} /\ MakerChecker => Checked(e)
ManualsChecked == \A j \in DOMAIN journals : InOrder(journals[j])

-----------------------------------------------------------------------------
(* Transactions. *)

\* What a transaction with the view v, that writes docs, does to journals.
Appends(v, docs) ==
  /\ Commit(v, docs)
  /\ AreEntries(journals') /\ UNCHANGED years
  /\ \A j \in DOMAIN journals :
       /\ j \in DOMAIN journals' /\ journals'[j].source = journals[j].source
       /\ \/ journals'[j].period = journals[j].period
          \/ Open(v, journals'[j].period) /\ Journal(j) \in docs
  /\ \A j \in DOMAIN journals' \ DOMAIN journals :
       /\ \A k \in DOMAIN journals : k < j
       /\ journals'[j].source[1] # "closing"
       /\ Open(v, journals'[j].period)
       /\ {Journal(j), <<"sequence", YearOf[journals'[j].period]>>} \subseteq docs

\* A transaction either began just now, and if another is open, that one misses what
\* it writes; or it is the open one, and has missed nothing of what it writes.
LEMMA Committed ==
  ASSUME SnapshotOk, NEW v \in Views, NEW docs, Commit(v, docs)
  PROVE  \/ v = Here /\ slow = None /\ slow' = None
         \/ /\ v = Here /\ slow # None
            /\ slow' = [slow EXCEPT !.changed = slow.changed \cup docs]
         \/ v = slow /\ slow # None /\ slow' = None /\ docs \cap slow.changed = {}
<1>1. CASE v = Here
  <2>1. Here.slow = FALSE
    BY DEF Here
  <2>2. CASE slow = None
    BY <1>1, <2>2 DEF Commit
  <2>3. CASE slow # None
    BY <1>1, <2>1, <2>3 DEF Commit
  <2> QED
    BY <2>2, <2>3
<1>2. CASE v = slow /\ slow # None
  <2>1. slow.slow = TRUE
    BY <1>2 DEF SnapshotOk
  <2> QED
    BY <1>2, <2>1 DEF Commit
<1> QED
  BY <1>1, <1>2 DEF Views

\* What is missed grows, and the rest of a snapshot stays.
LEMMA Missed ==
  ASSUME SnapshotOk, slow # None, NEW docs,
         slow' = [slow EXCEPT !.changed = slow.changed \cup docs]
  PROVE  /\ SnapshotOk'
         /\ slow'.years = slow.years /\ slow'.changed = slow.changed \cup docs
<1>1. PICK pe, ye, ac, se, ba, ch :
        slow = [periods |-> pe, years |-> ye, accounting |-> ac, settled |-> se,
                balances |-> ba, changed |-> ch, slow |-> TRUE]
  BY DEF SnapshotOk
<1>2. slow' = [periods |-> pe, years |-> ye, accounting |-> ac, settled |-> se,
               balances |-> ba, changed |-> ch \cup docs, slow |-> TRUE]
  BY <1>1
<1> QED
  BY <1>1, <1>2 DEF SnapshotOk

\* A transaction that books keeps to the frame.
LEMMA BookAppends ==
  ASSUME AreEntries(journals), ManualsChecked, NEW v, NEW old, NEW news, NEW docs,
         Postings(news), Book(v, old, news, docs)
  PROVE  ManualsChecked' /\ \E all : Appends(v, all)
<1> DEFINE ps == (IF Stands(old) THEN {today} ELSE {}) \cup {news[n].period : n \in DOMAIN news}
           new == {Journal(j) : j \in DOMAIN journals' \ DOMAIN journals}
           all == docs \cup (IF old # 0 THEN {Journal(old)} ELSE {})
                    \cup (IF Stands(old) THEN Sequence(today) ELSE {})
                    \cup (UNION {Sequence(news[n].period) : n \in DOMAIN news})
                    \cup new
<1>1. Grows(journals, journals', ps)
  BY BookedGrows DEF Book
<1>2. Commit(v, all) /\ UNCHANGED years
  BY DEF Book
<1>3. \A p \in ps : Open(v, p) /\ <<"sequence", YearOf[p]>> \in all
  BY DEF Book, Accepts, Sequence
<1>4. \A j \in DOMAIN journals' \ DOMAIN journals : Journal(j) \in all
  <2>1. \A j \in DOMAIN journals' \ DOMAIN journals : Journal(j) \in new
    OBVIOUS
  <2> HIDE DEF new
  <2> QED
    BY <2>1
<1> HIDE DEF ps, all
<1>5. Appends(v, all)
  BY <1>1, <1>2, <1>3, <1>4 DEF Appends, Grows, Kept
<1>6. ASSUME NEW j \in DOMAIN journals' PROVE InOrder(journals'[j])
  <2>1. CASE j \in DOMAIN journals
    <3>1. InOrder(journals[j]) /\ Kept(journals[j], journals'[j])
      BY <2>1, <1>1 DEF Grows, ManualsChecked
    <3> QED
      BY <3>1 DEF InOrder, Kept, Checked
  <2>2. CASE j \notin DOMAIN journals
    BY <2>2, <1>1 DEF Grows, InOrder
  <2> QED
    BY <2>1, <2>2
<1> QED
  BY <1>5, <1>6 DEF ManualsChecked

\* The frame keeps what the closing of a year needs: whoever posts in a year has read
\* it open and takes one of its numbers, and whoever moves a journal writes that.
LEMMA AppendsStep ==
  ASSUME LedgerInv, NEW v \in Views, NEW docs, Appends(v, docs)
  PROVE  LedgerInv'
<1> USE DEF LedgerInv
<1>1. /\ \/ v = Here /\ slow = None /\ slow' = None
         \/ /\ v = Here /\ slow # None
            /\ slow' = [slow EXCEPT !.changed = slow.changed \cup docs]
         \/ v = slow /\ slow # None /\ slow' = None /\ docs \cap slow.changed = {}
  BY Committed DEF Appends
<1>2. SnapshotOk'
  BY <1>1, Missed DEF SnapshotOk
<1>3. \A y \in Years : ClosingOf(y)' = ClosingOf(y)
  <2> SUFFICES ASSUME NEW y \in Years, NEW j
               PROVE  j \in ClosingOf(y)' <=> j \in ClosingOf(y)
    BY DEF ClosingOf, From
  <2>1. <<"closing", y, 0>>[1] = "closing"
    OBVIOUS
  <2>2. j \in ClosingOf(y)' => j \in DOMAIN journals
    BY <2>1 DEF ClosingOf, From, Appends
  <2> QED
    BY <2>2 DEF ClosingOf, From, Appends
<1>4. EntriesOfClosed'
  BY <1>3 DEF EntriesOfClosed, Appends
\* No journal of a closed year may be written under the view v.
<1>5. ASSUME NEW y \in Years, NEW k \in ClosingOf(y),
             NEW j \in DOMAIN journals', j > k, Open(v, journals'[j].period),
             Journal(j) \in docs,
             <<"sequence", YearOf[journals'[j].period]>> \in docs \/ j \in DOMAIN journals,
             YearOf[journals'[j].period] = y
      PROVE  FALSE
  <2>1. v.years[y] = "OPEN"
    BY <1>5 DEF Open
  <2>2. years[y] = "CLOSED"
    BY <1>5 DEF EntriesOfClosed
  <2>3. v # Here
    BY <2>1, <2>2 DEF Here
  <2>4. v = slow /\ slow # None /\ docs \cap slow.changed = {}
    BY <1>1, <2>3
  <2>5. /\ <<"sequence", y>> \in slow.changed
        /\ \A i \in DOMAIN journals : i >= k => Journal(i) \in slow.changed
    BY <2>1, <2>4, <1>5 DEF SlowMisses
  <2>6. j \in DOMAIN journals => j >= k
    BY <1>5 DEF AreEntries, ClosingOf, From
  <2> QED
    BY <2>4, <2>5, <2>6, <1>5
<1>6. ClosedYearIsSealed'
  <2> SUFFICES ASSUME NEW y \in Years, NEW k \in ClosingOf(y)',
                      NEW j \in DOMAIN journals', j > k
               PROVE  YearOf[journals'[j].period] # y
    BY DEF ClosedYearIsSealed, ClosingOf
  <2>1. k \in ClosingOf(y)
    BY <1>3
  <2>2. CASE j \in DOMAIN journals /\ journals'[j].period = journals[j].period
    BY <2>1, <2>2 DEF ClosedYearIsSealed, ClosingOf
  <2>3. CASE j \in DOMAIN journals /\ journals'[j].period # journals[j].period
    BY <2>1, <2>3, <1>5 DEF Appends
  <2>4. CASE j \notin DOMAIN journals
    BY <2>1, <2>4, <1>5 DEF Appends
  <2> QED
    BY <2>2, <2>3, <2>4
<1>7. SlowMisses'
  <2>1. CASE slow' = None
    BY <2>1 DEF SlowMisses
  <2>2. CASE slow' # None
    <3>1. slow # None /\ slow' = [slow EXCEPT !.changed = slow.changed \cup docs]
      BY <2>2, <1>1
    <3>2. slow'.years = slow.years /\ slow'.changed = slow.changed \cup docs
      BY <3>1, Missed
    <3>3. \A j \in DOMAIN journals' \ DOMAIN journals : Journal(j) \in docs
      BY DEF Appends
    <3> QED
      BY <3>1, <3>2, <3>3, <1>3 DEF SlowMisses, ClosingOf, From
  <2> QED
    BY <2>1, <2>2
<1> QED
  BY <1>2, <1>4, <1>6, <1>7 DEF Appends

-----------------------------------------------------------------------------
(* The steps of the ledger. *)

\* What is written of an entry, field by field: when it is made, edited and approved.
LEMMA DraftedEntry ==
  ASSUME NEW so, NEW ac, NEW am, NEW pe, NEW st, NEW bh, NEW ma, NEW ch, NEW se, NEW x,
         x = [source |-> so, account |-> ac, amount |-> am, period |-> pe, status |-> st,
              byHand |-> bh, maker |-> ma, checker |-> ch, seen |-> se],
         NEW u, NEW e, e = [x EXCEPT !.status = "DRAFT", !.maker = u]
  PROVE  e = [source |-> so, account |-> ac, amount |-> am, period |-> pe, status |-> "DRAFT",
              byHand |-> bh, maker |-> u, checker |-> ch, seen |-> se]
  OBVIOUS

\* The same of an edit.
LEMMA EditedEntry ==
  ASSUME NEW so, NEW ac, NEW am, NEW pe, NEW st, NEW bh, NEW ma, NEW ch, NEW se, NEW x,
         x = [source |-> so, account |-> ac, amount |-> am, period |-> pe, status |-> st,
              byHand |-> bh, maker |-> ma, checker |-> ch, seen |-> se],
         NEW a, NEW p, NEW e, e = [x EXCEPT !.amount = a, !.period = p]
  PROVE  e = [source |-> so, account |-> ac, amount |-> a, period |-> p, status |-> st,
              byHand |-> bh, maker |-> ma, checker |-> ch, seen |-> se]
  OBVIOUS

\* The same of an approval.
LEMMA ApprovedEntry ==
  ASSUME NEW so, NEW ac, NEW am, NEW pe, NEW st, NEW bh, NEW ma, NEW ch, NEW se, NEW x,
         x = [source |-> so, account |-> ac, amount |-> am, period |-> pe, status |-> st,
              byHand |-> bh, maker |-> ma, checker |-> ch, seen |-> se],
         NEW u, NEW a, NEW e, e = [x EXCEPT !.status = "APPROVED", !.checker = u, !.seen = a]
  PROVE  e = [source |-> so, account |-> ac, amount |-> am, period |-> pe, status |-> "APPROVED",
              byHand |-> bh, maker |-> ma, checker |-> u, seen |-> a]
  OBVIOUS

\* Manual journals: whoever writes one reads it as it is, so that an approval is of
\* what is posted, and an edit is of a draft.
LEMMA OnJournalsAppends ==
  ASSUME LedgerInv, ManualsChecked, NEW v \in Views, OnJournals(v)
  PROVE  ManualsChecked' /\ \E docs : Appends(v, docs)
<1> USE DEF LedgerInv
<1>1. ASSUME NEW p \in Periods, NEW a \in Amounts, NEW u \in Users, CreateManualJournal(v, u, a, p)
      PROVE  ManualsChecked' /\ \E docs : Appends(v, docs)
  <2> DEFINE n == Len(journals) + 1
             docs == {Journal(n)} \cup Sequence(p)
  <2>0. PICK e : e = [Entry(<<"manual", n, 0>>, "income", a, p) EXCEPT !.status = "DRAFT", !.maker = u]
    OBVIOUS
  <2>1. /\ e = [source |-> <<"manual", n, 0>>, account |-> "income", amount |-> a, period |-> p,
                status |-> "DRAFT", byHand |-> FALSE, maker |-> u, checker |-> None, seen |-> 0]
    BY <2>0, DraftedEntry DEF Entry
  <2>2. /\ journals' = Append(journals, e) /\ Commit(v, docs)
        /\ UNCHANGED years /\ Open(v, p)
    BY <1>1, <2>0 DEF CreateManualJournal, Accepts
  <2>3. IsEntry(e) /\ InOrder(e) /\ e.source[1] # "closing" /\ e.period = p
    BY <2>1 DEF IsEntry, InOrder
  <2>4. /\ AreEntries(journals')
        /\ Len(journals) \in Nat /\ DOMAIN journals = 1 .. Len(journals)
        /\ DOMAIN journals' = 1 .. n
        /\ \A j \in DOMAIN journals : journals'[j] = journals[j]
        /\ journals'[n] = e
    BY <2>2, <2>3, AppendEntry
  <2>5. ManualsChecked'
    BY <2>3, <2>4 DEF ManualsChecked
  <2>6. {Journal(n), <<"sequence", YearOf[p]>>} \subseteq docs
    BY DEF Sequence
  <2>7. Appends(v, docs)
    BY <2>2, <2>3, <2>4, <2>6 DEF Appends
  <2> QED
    BY <2>5, <2>7
\* An operation that writes one journal.
<1>2. ASSUME NEW j \in DOMAIN journals, NEW e, Changes(v, j, e), IsEntry(e), InOrder(e),
             e.source = journals[j].source,
             e.period = journals[j].period \/ Open(v, e.period)
      PROVE  ManualsChecked' /\ \E docs : Appends(v, docs)
  <2>1. /\ journals' = [journals EXCEPT ![j] = e] /\ Commit(v, {Journal(j)})
        /\ UNCHANGED years
    BY <1>2 DEF Changes
  <2>2. /\ AreEntries(journals') /\ DOMAIN journals' = DOMAIN journals
        /\ \A k \in DOMAIN journals : journals'[k] = IF k = j THEN e ELSE journals[k]
    BY <2>1, <1>2, ChangeEntry
  <2>3. ManualsChecked'
    BY <2>2, <1>2 DEF ManualsChecked
  <2>4. Appends(v, {Journal(j)})
    BY <2>1, <2>2, <1>2 DEF Appends
  <2> QED
    BY <2>3, <2>4
<1>3. ASSUME NEW j \in DOMAIN journals, NEW p \in Periods, NEW a \in Amounts, UpdateDraftJournal(v, j, a, p)
      PROVE  ManualsChecked' /\ \E docs : Appends(v, docs)
  <2>10. PICK x : x = journals[j]
    OBVIOUS
  <2>0. PICK e : e = [x EXCEPT !.amount = a, !.period = p]
    OBVIOUS
  <2>1. PICK so, ac, am, pe, st, bh, ma, ch, se :
          x = [source |-> so, account |-> ac, amount |-> am, period |-> pe, status |-> st,
                         byHand |-> bh, maker |-> ma, checker |-> ch, seen |-> se]
    BY <2>10 DEF AreEntries, IsEntry
  <2>2. e = [source |-> so, account |-> ac, amount |-> a, period |-> p, status |-> st,
             byHand |-> bh, maker |-> ma, checker |-> ch, seen |-> se]
    BY <2>0, <2>1, EditedEntry
  <2>3. journals[j].status = "DRAFT" /\ Open(v, p) /\ Changes(v, j, e)
    BY <1>3, <2>10, <2>0 DEF UpdateDraftJournal, Editable
  <2>4. IsEntry(e) /\ InOrder(e) /\ e.source = journals[j].source /\ e.period = p
    BY <2>10, <2>1, <2>2, <2>3 DEF IsEntry, InOrder
  <2> QED
    BY <1>2, <2>3, <2>4
<1>4. ASSUME NEW j \in DOMAIN journals, NEW u \in Users, ApproveJournal(v, j, u)
      PROVE  ManualsChecked' /\ \E docs : Appends(v, docs)
  <2>10. PICK x : x = journals[j]
    OBVIOUS
  <2>0. PICK e : e = [x EXCEPT !.status = "APPROVED", !.checker = u, !.seen = x.amount]
    OBVIOUS
  <2>1. PICK so, ac, am, pe, st, bh, ma, ch, se :
          x = [source |-> so, account |-> ac, amount |-> am, period |-> pe, status |-> st,
                         byHand |-> bh, maker |-> ma, checker |-> ch, seen |-> se]
    BY <2>10 DEF AreEntries, IsEntry
  <2>2. e = [source |-> so, account |-> ac, amount |-> am, period |-> pe, status |-> "APPROVED",
             byHand |-> bh, maker |-> ma, checker |-> u, seen |-> am]
    <3>1. x.amount = am
      BY <2>1
    <3> QED
      BY <2>0, <2>1, <3>1, ApprovedEntry
  <2>3. u # ma /\ Changes(v, j, e)
    BY <1>4, <2>10, <2>0, <2>1 DEF ApproveJournal
  <2>4. u # None
    BY LedgerAssumption
  <2>5. IsEntry(e) /\ e.source = journals[j].source /\ e.period = journals[j].period
    BY <2>10, <2>1, <2>2 DEF IsEntry
  <2>6. InOrder(e)
    BY <2>2, <2>3, <2>4 DEF InOrder, Checked
  <2> QED
    BY <1>2, <2>3, <2>5, <2>6
<1>5. ASSUME NEW j \in DOMAIN journals, PostJournal(v, j)
      PROVE  ManualsChecked' /\ \E docs : Appends(v, docs)
  <2> DEFINE e == [journals[j] EXCEPT !.status = "POSTED"]
  <2>1. PICK so, ac, am, pe, st, bh, ma, ch, se :
          journals[j] = [source |-> so, account |-> ac, amount |-> am, period |-> pe, status |-> st,
                         byHand |-> bh, maker |-> ma, checker |-> ch, seen |-> se]
    BY DEF AreEntries, IsEntry
  <2>2. e = [source |-> so, account |-> ac, amount |-> am, period |-> pe, status |-> "POSTED",
             byHand |-> bh, maker |-> ma, checker |-> ch, seen |-> se]
    BY <2>1
  <2>3. /\ Changes(v, j, e)
        /\ Kind(j) = "manual" /\ MakerChecker => journals[j].status = "APPROVED"
    BY <1>5 DEF PostJournal
  <2> HIDE DEF e
  <2>4. IsEntry(e) /\ e.source = journals[j].source /\ e.period = journals[j].period
    BY <2>1, <2>2 DEF IsEntry
  <2>5. InOrder(journals[j])
    BY DEF ManualsChecked
  <2>6. InOrder(e)
    BY <2>1, <2>2, <2>3, <2>5 DEF InOrder, Checked, Kind
  <2> QED
    BY <1>2, <2>3, <2>4, <2>6
<1>6. ASSUME NEW j \in DOMAIN journals, DeleteDraftJournal(v, j)
      PROVE  ManualsChecked' /\ \E docs : Appends(v, docs)
  <2> DEFINE e == [journals[j] EXCEPT !.status = "deleted"]
  <2>1. PICK so, ac, am, pe, st, bh, ma, ch, se :
          journals[j] = [source |-> so, account |-> ac, amount |-> am, period |-> pe, status |-> st,
                         byHand |-> bh, maker |-> ma, checker |-> ch, seen |-> se]
    BY DEF AreEntries, IsEntry
  <2>2. e = [source |-> so, account |-> ac, amount |-> am, period |-> pe, status |-> "deleted",
             byHand |-> bh, maker |-> ma, checker |-> ch, seen |-> se]
    BY <2>1
  <2>3. Changes(v, j, e)
    BY <1>6 DEF DeleteDraftJournal
  <2> HIDE DEF e
  <2>4. IsEntry(e) /\ InOrder(e) /\ e.source = journals[j].source /\ e.period = journals[j].period
    BY <2>1, <2>2 DEF IsEntry, InOrder
  <2> QED
    BY <1>2, <2>3, <2>4
<1>7. ASSUME NEW j \in DOMAIN journals, NEW p \in Periods, ReverseJournal(v, j, p)
      PROVE  ManualsChecked' /\ \E docs : Appends(v, docs)
  <2> DEFINE docs == {Journal(j), Journal(Len(journals) + 1)} \cup Sequence(p)
  <2>1. /\ journals[j].status = "POSTED" /\ Open(v, p)
        /\ journals' = Reversed(journals, j, p, TRUE) /\ Commit(v, docs)
        /\ UNCHANGED years
    BY <1>7 DEF ReverseJournal, Accepts
  <2>2. Grows(journals, journals', {p})
    BY <2>1, ReversalGrows
  <2>3. ASSUME NEW k \in DOMAIN journals' PROVE InOrder(journals'[k])
    <3>1. CASE k \in DOMAIN journals
      <4>1. InOrder(journals[k]) /\ Kept(journals[k], journals'[k])
        BY <3>1, <2>2 DEF Grows, ManualsChecked
      <4> QED
        BY <4>1 DEF InOrder, Kept, Checked
    <3>2. CASE k \notin DOMAIN journals
      BY <3>2, <2>2 DEF Grows, InOrder
    <3> QED
      BY <3>1, <3>2
  <2>4. \A k \in DOMAIN journals' \ DOMAIN journals : k = Len(journals) + 1
    <3>1. PICK S : journals \in Seq(S)
      BY DEF AreEntries
    <3>2. DOMAIN journals' = 1 .. Len(journals) + 1
      <4> DEFINE ks == [journals EXCEPT ![j].status = "REVERSED", ![j].byHand = TRUE]
                 e == Entry(<<"reversal", j, 0>>, journals[j].account, 0 - journals[j].amount, p)
                 A == {ks[k] : k \in DOMAIN journals} \cup {e}
      <4>1. Len(journals) \in Nat /\ DOMAIN journals = 1 .. Len(journals)
        BY <3>1
      <4>2. ks \in [1 .. Len(journals) -> A] /\ e \in A
        BY <4>1, <3>1
      <4> HIDE DEF A, ks, e
      <4>3. ks \in Seq(A) /\ Len(ks) = Len(journals)
        BY <4>1, <4>2
      <4>4. DOMAIN Append(ks, e) = 1 .. Len(journals) + 1
        BY <4>2, <4>3
      <4> QED
        BY <4>4, <2>1 DEF Reversed, ks, e
    <3> QED
      BY <3>1, <3>2
  <2>5. ASSUME NEW k \in DOMAIN journals' \ DOMAIN journals
        PROVE  /\ \A i \in DOMAIN journals : i < k
               /\ journals'[k].source[1] # "closing" /\ Open(v, journals'[k].period)
               /\ {Journal(k), <<"sequence", YearOf[journals'[k].period]>>} \subseteq docs
    <3>1. journals'[k].period = p /\ journals'[k].source[1] # "closing"
      BY <2>2 DEF Grows
    <3>2. {Journal(k), <<"sequence", YearOf[p]>>} \subseteq docs
      BY <2>4 DEF Sequence
    <3> QED
      BY <3>1, <3>2, <2>1, <2>2 DEF Grows
  <2> HIDE DEF docs
  <2>6. Appends(v, docs)
    BY <2>1, <2>2, <2>5 DEF Appends, Grows, Kept
  <2> QED
    BY <2>3, <2>6 DEF ManualsChecked
<1> QED
  BY <1>1, <1>3, <1>4, <1>5, <1>6, <1>7 DEF OnJournals

\* What touches neither journals nor years nor the snapshot keeps all that is said of them.
LEMMA IdleStep ==
  ASSUME LedgerInv, ManualsChecked, UNCHANGED <<journals, years, slow>>
  PROVE  LedgerInv' /\ ManualsChecked'
BY DEF LedgerInv, ManualsChecked, SnapshotOk, EntriesOfClosed, SlowMisses, ClosedYearIsSealed,
       ClosingOf, From

\* A transaction that writes no journal and no year.
LEMMA CommitStep ==
  ASSUME LedgerInv, ManualsChecked, NEW v \in Views, NEW docs, Commit(v, docs),
         UNCHANGED <<journals, years>>
  PROVE  LedgerInv' /\ ManualsChecked'
<1>1. Appends(v, docs)
  BY DEF Appends, LedgerInv
<1>2. LedgerInv'
  BY <1>1, AppendsStep
<1>3. ManualsChecked'
  BY DEF ManualsChecked
<1> QED
  BY <1>2, <1>3

\* A transaction that begins has missed nothing: what it reads is what is there.
LEMMA BeginStep ==
  ASSUME LedgerInv, ManualsChecked, Begin
  PROVE  LedgerInv' /\ ManualsChecked'
<1>1. PICK se, ba :
        slow' = [periods |-> periods, years |-> years, accounting |-> accounting,
                 settled |-> se, balances |-> ba, changed |-> {}, slow |-> TRUE]
  BY DEF Begin, Here
<1>2. UNCHANGED <<journals, years>>
  BY DEF Begin
<1>3. SnapshotOk' /\ slow'.years = years
  BY <1>1 DEF SnapshotOk
<1>4. \A y \in Years : ClosingOf(y)' = ClosingOf(y)
  BY <1>2 DEF ClosingOf, From
<1>5. SlowMisses'
  BY <1>3, <1>4 DEF SlowMisses, LedgerInv, EntriesOfClosed
<1>6. EntriesOfClosed' /\ ClosedYearIsSealed'
  BY <1>2 DEF LedgerInv, EntriesOfClosed, ClosedYearIsSealed, ClosingOf, From
<1> QED
  BY <1>2, <1>3, <1>5, <1>6 DEF LedgerInv, ManualsChecked

\* One that is given up is forgotten.
LEMMA AbortStep ==
  ASSUME LedgerInv, ManualsChecked, Abort
  PROVE  LedgerInv' /\ ManualsChecked'
BY DEF Abort, LedgerInv, ManualsChecked, SnapshotOk, EntriesOfClosed, SlowMisses,
       ClosedYearIsSealed, ClosingOf, From

\* The closing of a year: it read the year open, so that no closing entry of it was
\* posted, or was missed; the entry it posts is the last journal of the year.
LEMMA YearEndCloseStep ==
  ASSUME LedgerInv, ManualsChecked, NEW v \in Views, NEW y \in Years, YearEndClose(v, y)
  PROVE  LedgerInv' /\ ManualsChecked'
<1> USE DEF LedgerInv
<1> DEFINE n == Len(journals) + 1
           last == Max(PeriodsOf(y))
           entry == v.balances[y] # <<0, 0>>
           e == Entry(<<"closing", y, 0>>, "none", v.balances[y][1] + v.balances[y][2], last)
           docs == {Year(y)} \cup (IF entry THEN {Journal(n)} \cup Sequence(last) ELSE {})
<1>1. /\ v.years[y] = "OPEN" /\ years' = [years EXCEPT ![y] = "CLOSED"]
      /\ journals' = IF entry THEN Append(journals, e) ELSE journals
      /\ Commit(v, docs)
  BY DEF YearEndClose
<1>2. YearOf[last] = y
  BY LastPeriod DEF PeriodsOf
<1>3. years' \in [Years -> {"OPEN", "CLOSED"}]
  BY <1>1
<1>4. \/ v = Here /\ slow = None /\ slow' = None
      \/ /\ v = Here /\ slow # None
         /\ slow' = [slow EXCEPT !.changed = slow.changed \cup docs]
      \/ v = slow /\ slow # None /\ slow' = None /\ docs \cap slow.changed = {}
  BY <1>1, Committed
<1>5. SnapshotOk'
  BY <1>4, Missed DEF SnapshotOk
<1>6. slow' # None =>
        /\ slow # None /\ v = Here
        /\ slow'.years = slow.years /\ slow'.changed = slow.changed \cup docs
  BY <1>4, Missed
<1>7. CASE ~entry
  <2>1. UNCHANGED journals /\ \A z \in Years : ClosingOf(z)' = ClosingOf(z)
    BY <1>1, <1>7 DEF ClosingOf, From
  <2> HIDE DEF docs, entry
  <2>2. EntriesOfClosed'
    BY <1>1, <2>1 DEF EntriesOfClosed
  <2>3. ClosedYearIsSealed'
    BY <2>1 DEF ClosedYearIsSealed, From
  <2>4. SlowMisses'
    BY <2>1, <1>6 DEF SlowMisses
  <2>5. ManualsChecked'
    BY <2>1 DEF ManualsChecked
  <2> QED
    BY <2>1, <2>2, <2>3, <2>4, <2>5, <1>3, <1>5
<1>8. CASE entry
  <2>1. {Journal(n), <<"sequence", y>>} \subseteq docs
    BY <1>2, <1>8 DEF Sequence
  <2>2. ClosingOf(y) = {}
    <3>1. CASE v = Here
      BY <3>1, <1>1 DEF Here, EntriesOfClosed
    <3>2. CASE v = slow /\ slow # None /\ docs \cap slow.changed = {}
      BY <3>2, <2>1, <1>1 DEF SlowMisses
    <3> QED
      BY <3>1, <3>2, <1>4
  <2>3. IsEntry(e) /\ e.source = <<"closing", y, 0>> /\ e.period = last
    BY DEF IsEntry, Entry
  <2>4. journals' = Append(journals, e)
    BY <1>1, <1>8
  <2> HIDE DEF docs, entry, e, last
  <2>5. /\ AreEntries(journals')
        /\ Len(journals) \in Nat /\ DOMAIN journals = 1 .. Len(journals)
        /\ DOMAIN journals' = 1 .. n
        /\ \A j \in DOMAIN journals : journals'[j] = journals[j]
        /\ journals'[n] = e
    BY <2>3, <2>4, AppendEntry
  <2>6. ASSUME NEW z \in Years PROVE ClosingOf(z)' = IF z = y THEN {n} ELSE ClosingOf(z)
    <3>1. \A j : j \in ClosingOf(z)' <=> j \in DOMAIN journals' /\ journals'[j].source = <<"closing", z, 0>>
      BY DEF ClosingOf, From
    <3>2. \A j : j \in ClosingOf(z) <=> j \in DOMAIN journals /\ journals[j].source = <<"closing", z, 0>>
      BY DEF ClosingOf, From
    <3>3. journals'[n].source = <<"closing", z, 0>> <=> z = y
      BY <2>3, <2>5
    <3>4. \A j \in DOMAIN journals' : j \in DOMAIN journals \/ j = n
      BY <2>5
    <3>5. n \in DOMAIN journals' /\ n \notin DOMAIN journals
      BY <2>5
    <3>6. \A j \in DOMAIN journals : j \in DOMAIN journals' /\ journals'[j] = journals[j]
      BY <2>5
    <3> HIDE DEF n
    <3>7. ASSUME NEW j PROVE j \in ClosingOf(z)' <=> j \in (IF z = y THEN {n} ELSE ClosingOf(z))
      <4>1. CASE z = y
        BY <4>1, <2>2, <3>1, <3>2, <3>3, <3>4, <3>5, <3>6
      <4>2. CASE z # y
        BY <4>2, <3>1, <3>2, <3>3, <3>4, <3>5, <3>6
      <4> QED
        BY <4>1, <4>2
    <3> QED
      BY <3>7
  <2>7. EntriesOfClosed'
    BY <1>1, <2>6 DEF EntriesOfClosed
  <2>8. ClosedYearIsSealed'
    <3> SUFFICES ASSUME NEW z \in Years, NEW k \in ClosingOf(z)', NEW j \in DOMAIN journals', j > k
                 PROVE  YearOf[journals'[j].period] # z
      BY DEF ClosedYearIsSealed, ClosingOf
    <3>1. z # y /\ k \in ClosingOf(z)
      <4>1. CASE z = y
        BY <4>1, <2>5, <2>6
      <4> QED
        BY <4>1, <2>6
    <3>2. CASE j \in DOMAIN journals
      BY <3>1, <3>2, <2>5 DEF ClosedYearIsSealed, ClosingOf
    <3>3. CASE j = n
      BY <3>1, <3>3, <2>3, <2>5, <1>2
    <3> QED
      BY <3>2, <3>3, <2>5
  <2>9. SlowMisses'
    <3> SUFFICES ASSUME slow' # None, NEW z \in Years, slow'.years[z] = "OPEN", NEW k \in ClosingOf(z)'
                 PROVE  /\ <<"sequence", z>> \in slow'.changed
                        /\ \A j \in DOMAIN journals' : j >= k => Journal(j) \in slow'.changed
      BY DEF SlowMisses
    <3>1. slow # None /\ slow.years[z] = "OPEN" /\ slow'.changed = slow.changed \cup docs
      BY <1>6
    <3>2. CASE z = y
      <4>1. k = n /\ \A j \in DOMAIN journals' : j >= k => j = n
        BY <3>2, <2>5, <2>6
      <4> QED
        BY <4>1, <3>1, <3>2, <2>1
    <3>3. CASE z # y
      <4>1. k \in ClosingOf(z)
        BY <3>3, <2>6
      <4> QED
        BY <4>1, <3>1, <2>1, <2>5 DEF SlowMisses
    <3> QED
      BY <3>2, <3>3
  <2>10. ManualsChecked'
    <3>1. InOrder(e)
      BY <2>3 DEF InOrder
    <3> QED
      BY <3>1, <2>5 DEF ManualsChecked
  <2> QED
    BY <2>5, <2>7, <2>8, <2>9, <2>10, <1>3, <1>5
<1> QED
  BY <1>7, <1>8

\* Every step of the ledger.
LEMMA LedgerStep ==
  ASSUME LedgerInv, ManualsChecked, LedgerNext
  PROVE  LedgerInv' /\ ManualsChecked'
<1>1. Here \in Views
  BY DEF Views
<1>2. ASSUME NEW v \in Views, OnJournals(v) PROVE LedgerInv' /\ ManualsChecked'
  BY <1>2, OnJournalsAppends, AppendsStep
<1>3. ASSUME NEW v \in Views, NEW p \in Periods, ReopenPeriod(v, p) PROVE LedgerInv' /\ ManualsChecked'
  BY <1>3, CommitStep DEF ReopenPeriod, SetPeriod
<1>4. ASSUME Closing PROVE LedgerInv' /\ ManualsChecked'
  <2>1. \/ UNCHANGED <<journals, years, slow>>
        \/ UNCHANGED <<journals, years>> /\ \E docs : Commit(Here, docs)
    BY <1>4 DEF Closing, ReviewPeriod, LockPeriod, ReviewAgain, ClosePeriod, UnlockPeriod,
                CloserCrashes, SetPeriod
  <2> QED
    BY <2>1, <1>1, CommitStep, IdleStep
<1>5. ASSUME NEW p \in Periods, NEW s, SetFiscalPeriodStatus(p, s) PROVE LedgerInv' /\ ManualsChecked'
  BY <1>1, <1>5, CommitStep DEF SetFiscalPeriodStatus, SetPeriod
<1>6. ASSUME PeriodPasses \/ PreviewMigration \/ ActivateAccounting PROVE LedgerInv' /\ ManualsChecked'
  BY <1>6, IdleStep DEF PeriodPasses, PreviewMigration, ActivateAccounting
<1> QED
  BY <1>2, <1>3, <1>4, <1>5, <1>6, BeginStep, AbortStep, YearEndCloseStep DEF LedgerNext

-----------------------------------------------------------------------------
(* The steps of the records, of purchases and of sales: each is one transaction *)
(* that keeps the books of what it changes.                                     *)

Keeping == \E v \in Views : \E old, news, docs : Postings(news) /\ Book(v, old, news, docs)

\* A transaction that keeps books keeps the invariant of the ledger.
LEMMA KeepingStep ==
  ASSUME LedgerInv, ManualsChecked, Keeping
  PROVE  LedgerInv' /\ ManualsChecked'
<1>1. PICK v \in Views : \E old, news, docs : Postings(news) /\ Book(v, old, news, docs)
  BY DEF Keeping
<1>2. ManualsChecked' /\ \E all : Appends(v, all)
  BY <1>1, BookAppends DEF LedgerInv
<1> QED
  BY <1>2, AppendsStep

\* What the records post, one journal or none.
LEMMA Posted ==
  ASSUME NEW kind \in {"transaction", "revenue", "accrual", "outlay"}, NEW id, NEW r, NEW account
  PROVE  Plain(Posting(kind, id, r, account))
BY DEF Plain, IsEntry, Posting, Entry

\* What is posted besides: what a payment received, and what a commission paid out.
LEMMA PostedBeside ==
  ASSUME NEW kind \in {"payment", "payout"}, NEW id, NEW amount, NEW p
  PROVE  Plain(Entry(<<kind, id, 1>>, "none", amount, p))
BY DEF Plain, IsEntry, Entry

\* One of them, under a condition.
LEMMA PostedIf ==
  ASSUME NEW b, NEW e, Plain(e)
  PROVE  Postings(IF b THEN <<e>> ELSE <<>>)
BY DEF Postings

\* Two that are put together.
LEMMA TwoPostings ==
  ASSUME NEW e, NEW f
  PROVE  <<e>> \o <<f>> = <<e, f>>
<1> DEFINE A == {e, f}
           s == <<e>>
           t == <<f>>
           u == s \o t
<1>1. s \in Seq(A) /\ t \in Seq(A) /\ Len(s) = 1 /\ Len(t) = 1 /\ s[1] = e /\ t[1] = f
  OBVIOUS
<1> HIDE DEF A, s, t
<1>2. u \in Seq(A) /\ Len(u) = 2 /\ u[1] = e /\ u[2] = f
  <2>1. /\ u \in Seq(A) /\ Len(u) = Len(s) + Len(t)
        /\ \A i \in 1 .. Len(s) + Len(t) : u[i] = IF i <= Len(s) THEN s[i] ELSE t[i - Len(s)]
    BY <1>1, ConcatProperties
  <2> HIDE DEF u
  <2> QED
    BY <2>1, <1>1
<1>3. u = [i \in 1 .. 2 |-> u[i]]
  <2> HIDE DEF u
  <2> QED BY <1>2
<1>4. u = <<e, f>>
  BY <1>2, <1>3
<1> QED
  BY <1>4 DEF u, s, t

\* And both.
LEMMA PostedBoth ==
  ASSUME NEW b, NEW c, NEW e, Plain(e), NEW f, Plain(f)
  PROVE  Postings(IF b THEN (IF c THEN <<e>> ELSE <<>>) \o <<f>> ELSE <<>>)
<1>1. CASE ~b
  BY <1>1 DEF Postings
<1>2. CASE b /\ c
  <2>1. <<e>> \o <<f>> = <<e, f>>
    BY TwoPostings
  <2> QED
    BY <1>2, <2>1 DEF Postings
<1>3. CASE b /\ ~c
  <2>1. <<>> \o <<f>> = <<f>>
    OBVIOUS
  <2> QED
    BY <1>3, <2>1 DEF Postings
<1> QED
  BY <1>1, <1>2, <1>3

\* Transactions.
LEMMA OnTransactionsKeeps ==
  ASSUME NEW v \in Views, OnTransactions(v)
  PROVE  Keeping
<1>1. Postings(<<>>)
  BY DEF Postings
<1>2. ASSUME NEW t, NEW s, NEW a, NEW p, CreateTransaction(v, t, s, a, p) PROVE Keeping
  <2> DEFINE r == [transaction[t] EXCEPT !.status = s, !.amount = a, !.period = p]
             e == Posting("transaction", t, r, "income")
             news == IF Ready(v) /\ s = "paid" THEN <<e>> ELSE <<>>
  <2>1. Book(v, 0, news, {Record(t)})
    BY <1>2 DEF CreateTransaction
  <2>2. Plain(e)
    BY Posted
  <2> HIDE DEF e
  <2>3. Postings(news)
    BY <2>2, PostedIf
  <2> QED
    BY <2>1, <2>3 DEF Keeping
<1>3. ASSUME NEW t, NEW edit, NEW status, UpdateTransaction(v, t, edit, status) PROVE Keeping
  <2> DEFINE was == transaction[t]
             paid == was.status = "paid"
             next == Given(status, was)
             leaves == Ready(v) /\ was.journal # 0 /\ paid /\ (edit # None \/ next # "paid")
             old == IF leaves THEN was.journal ELSE 0
             r == [Edited(was, edit) EXCEPT !.status = next, !.journal = IF leaves THEN 0 ELSE @]
             posts == Ready(v) /\ next = "paid" /\ (r.journal = 0 \/ edit # None \/ ~paid)
             e == Posting("transaction", t, r, "income")
             news == IF posts THEN <<e>> ELSE <<>>
  <2>1. Book(v, old, news, {Record(t)})
    BY <1>3 DEF UpdateTransaction
  <2>2. Plain(e)
    BY Posted
  <2> HIDE DEF e, posts, old
  <2>3. Postings(news)
    BY <2>2, PostedIf
  <2> QED
    BY <2>1, <2>3 DEF Keeping
<1>4. ASSUME NEW t, VoidTransaction(v, t) \/ DeleteTransaction(v, t) PROVE Keeping
  BY <1>1, <1>4 DEF VoidTransaction, DeleteTransaction, Keeping
<1> QED
  BY <1>2, <1>3, <1>4 DEF OnTransactions

\* An invoice is made.
LEMMA CreateInvoiceKeeps ==
  ASSUME NEW v \in Views, NEW i, NEW s, NEW a, NEW p, NEW also, CreateInvoice(v, i, s, a, p, also)
  PROVE  Keeping
<1> DEFINE r == [invoice[i] EXCEPT !.status = s, !.amount = a, !.period = p]
           e == Revenue(i, r)
           news == IF Ready(v) /\ s = "sent" THEN <<e>> ELSE <<>>
<1>1. Book(v, 0, news, {Record(i)} \cup also)
  BY DEF CreateInvoice
<1>2. Plain(e)
  BY Posted DEF Revenue
<1> HIDE DEF e
<1>3. Postings(news)
  BY <1>2, PostedIf
<1> QED
  BY <1>1, <1>3 DEF Keeping

\* A payment of an invoice.
LEMMA RecordInvoicePaymentKeeps ==
  ASSUME NEW v \in Views, NEW i, NEW k, NEW a, NEW p, NEW also,
         RecordInvoicePayment(v, i, k, a, p, also)
  PROVE  Keeping
<1> DEFINE n == Len(payment) + 1
           late == Ready(v) /\ invoice[i].journal = 0
           e == Revenue(i, invoice[i])
           revenue == IF late THEN <<e>> ELSE <<>>
           receipt == Entry(<<"payment", n, 1>>, "none", a, p)
           news == IF Ready(v) THEN revenue \o <<receipt>> ELSE <<>>
<1>1. Book(v, 0, news, {Record(i)} \cup also)
  BY DEF RecordInvoicePayment
<1>2. Plain(e) /\ Plain(receipt)
  BY Posted, PostedBeside DEF Revenue
<1> HIDE DEF e, receipt, late
<1>3. Postings(news)
  BY <1>2, PostedBoth
<1> QED
  BY <1>1, <1>3 DEF Keeping

\* One that is voided.
LEMMA VoidInvoicePaymentKeeps ==
  ASSUME NEW v \in Views, NEW i, NEW n, NEW unpaid, NEW also,
         VoidInvoicePayment(v, i, n, unpaid, also)
  PROVE  Keeping
<1>1. Postings(<<>>)
  BY DEF Postings
<1> QED
  BY <1>1 DEF VoidInvoicePayment, Keeping

\* Invoices.
LEMMA OnInvoicesKeeps ==
  ASSUME NEW v \in Views, OnInvoices(v)
  PROVE  Keeping
<1>1. Postings(<<>>)
  BY DEF Postings
<1>2. ASSUME NEW i, NEW edit, NEW status, UpdateInvoice(v, i, edit, status) PROVE Keeping
  <2> DEFINE was == invoice[i]
             old == IF Ready(v) /\ was.status # "draft" THEN was.journal ELSE 0
             r == [Edited(was, edit) EXCEPT !.status = Given(status, was)]
             posts == Ready(v) /\ r.status \notin Unrecognized
             e == Revenue(i, r)
             news == IF posts THEN <<e>> ELSE <<>>
  <2>1. Book(v, old, news, {Record(i)})
    BY <1>2 DEF UpdateInvoice
  <2>2. Plain(e)
    BY Posted DEF Revenue
  <2> HIDE DEF e, posts, old
  <2>3. Postings(news)
    BY <2>2, PostedIf
  <2> QED
    BY <2>1, <2>3 DEF Keeping
<1>3. ASSUME NEW i, VoidInvoice(v, i) \/ ArchiveInvoice(v, i) PROVE Keeping
  BY <1>1, <1>3 DEF VoidInvoice, ArchiveInvoice, Keeping
<1> QED
  BY <1>2, <1>3, CreateInvoiceKeeps, RecordInvoicePaymentKeeps, VoidInvoicePaymentKeeps DEF OnInvoices

\* Commissions.
LEMMA OnCommissionsKeeps ==
  ASSUME NEW v \in Views, OnCommissions(v)
  PROVE  Keeping
<1>1. Postings(<<>>)
  BY DEF Postings
<1>2. ASSUME NEW c, NEW s, NEW a, CreateCommission(v, c, s, a) PROVE Keeping
  <2> DEFINE r == [commission[c] EXCEPT !.status = s, !.amount = a, !.period = today]
             e == Accrual(c, r)
             news == IF Ready(v) /\ s = "approved" THEN <<e>> ELSE <<>>
  <2>1. Book(v, 0, news, {Record(c)})
    BY <1>2 DEF CreateCommission
  <2>2. Plain(e)
    BY Posted DEF Accrual
  <2> HIDE DEF e
  <2>3. Postings(news)
    BY <2>2, PostedIf
  <2> QED
    BY <2>1, <2>3 DEF Keeping
<1>3. ASSUME NEW c, NEW edit, NEW status, UpdateCommission(v, c, edit, status) PROVE Keeping
  <2> DEFINE was == commission[c]
             old == IF Ready(v) /\ was.status = "approved" THEN was.journal ELSE 0
             r == [Edited(was, edit) EXCEPT !.status = Given(status, was), !.period = today]
             posts == Ready(v) /\ r.status = "approved"
             e == Accrual(c, r)
             news == IF posts THEN <<e>> ELSE <<>>
  <2>1. Book(v, old, news, {Record(c)})
    BY <1>3 DEF UpdateCommission
  <2>2. Plain(e)
    BY Posted DEF Accrual
  <2> HIDE DEF e, posts, old
  <2>3. Postings(news)
    BY <2>2, PostedIf
  <2> QED
    BY <2>1, <2>3 DEF Keeping
<1>4. ASSUME NEW c, CancelCommission(v, c) \/ ArchiveCommission(v, c) PROVE Keeping
  BY <1>1, <1>4 DEF CancelCommission, ArchiveCommission, Keeping
<1>5. ASSUME NEW c, NEW p, PayCommission(v, c, p) PROVE Keeping
  <2> DEFINE late == Ready(v) /\ commission[c].journal = 0
             e == Accrual(c, commission[c])
             accrual == IF late THEN <<e>> ELSE <<>>
             payout == Entry(<<"payout", c, 1>>, "none", commission[c].amount, p)
             news == IF Ready(v) THEN accrual \o <<payout>> ELSE <<>>
  <2>1. Book(v, 0, news, {Record(c)})
    BY <1>5 DEF PayCommission
  <2>2. Plain(e) /\ Plain(payout)
    BY Posted, PostedBeside DEF Accrual
  <2> HIDE DEF e, payout, late
  <2>3. Postings(news)
    BY <2>2, PostedBoth
  <2> QED
    BY <2>1, <2>3 DEF Keeping
<1> QED
  BY <1>2, <1>3, <1>4, <1>5 DEF OnCommissions

\* Purchases and the stock.
LEMMA OnProcurementKeeps ==
  ASSUME NEW v \in Views, OnProcurement(v)
  PROVE  Keeping
<1>1. Postings(<<>>)
  BY DEF Postings
<1>2. ASSUME NEW b, NEW k, NEW a, NEW p, RecordPurchasePayment(v, b, k, a, p) PROVE Keeping
  <2> DEFINE r == [outlay[k] EXCEPT !.purchase = b, !.status = "paid", !.amount = a, !.period = p]
             e == Posting("outlay", k, r, "expense")
             news == IF Ready(v) THEN <<e>> ELSE <<>>
  <2>1. Book(v, 0, news, Serialized(b) \cup {Record(k)})
    BY <1>2 DEF RecordPurchasePayment, CreateLinkedExpense
  <2>2. Plain(e)
    BY Posted
  <2> HIDE DEF e
  <2>3. Postings(news)
    BY <2>2, PostedIf
  <2> QED
    BY <2>1, <2>3 DEF Keeping
<1>3. ASSUME NEW b, NEW q, NEW a, CreatePurchase(v, b, q, a) PROVE Keeping
  BY <1>1, <1>3 DEF CreatePurchase, Keeping
<1>4. ASSUME NEW b, NEW k, NEW q, ReceivePurchase(v, b, k, q) PROVE Keeping
  BY <1>1, <1>4 DEF ReceivePurchase, Keeping
<1>5. ASSUME NEW b, NEW k, VoidPurchasePayment(v, b, k) PROVE Keeping
  BY <1>1, <1>5 DEF VoidPurchasePayment, VoidLinkedExpense, Keeping
<1>6. ASSUME NEW b, CancelPurchase(v, b) PROVE Keeping
  BY <1>1, <1>6 DEF CancelPurchase, Keeping
<1>7. ASSUME NEW k, NEW delta, CreateMovement(v, k, delta) PROVE Keeping
  BY <1>1, <1>7 DEF CreateMovement, Keeping
<1> QED
  BY <1>2, <1>3, <1>4, <1>5, <1>6, <1>7 DEF OnProcurement, OnPurchases, OnStock

\* Sales, and what editors make of a property, which posts nothing.
LEMMA SellingKeeps ==
  ASSUME Selling
  PROVE  Keeping
<1>1. Postings(<<>>) /\ Here \in Views
  BY DEF Postings, Views
<1>2. ASSUME NEW v \in Views, OnBookings(v) PROVE Keeping
  BY <1>2, CreateInvoiceKeeps, RecordInvoicePaymentKeeps, VoidInvoicePaymentKeeps
     DEF OnBookings, CreateBooking, RecordPayment, VoidPayment
<1>3. ASSUME NEW u, NEW status, Edit(u, status) PROVE Keeping
  BY <1>1, <1>3 DEF Edit, Keeping
<1> QED
  BY <1>2, <1>3 DEF Selling, OnUnits, UpdateStatus, DeleteProperty

\* Every step of the books.
LEMMA BooksStep ==
  ASSUME LedgerInv, ManualsChecked, [Next]_vars
  PROVE  LedgerInv' /\ ManualsChecked'
<1>1. CASE UNCHANGED vars
  BY <1>1, IdleStep DEF vars, ledger
<1>2. CASE OnLedger
  BY <1>2, LedgerStep DEF OnLedger
<1>3. CASE OnRecords
  <2>1. Postings(<<>>) /\ Here \in Views
    BY DEF Postings, Views
  <2>2. ASSUME NEW i, Overdue(i) PROVE Keeping
    BY <2>1, <2>2 DEF Overdue, Keeping
  <2>3. Keeping
    BY <1>3, <2>2, OnTransactionsKeeps, OnInvoicesKeeps, OnCommissionsKeeps DEF OnRecords, RecordsNext
  <2> QED
    BY <2>3, KeepingStep
<1>4. CASE Buying
  BY <1>4, OnProcurementKeeps, KeepingStep DEF Buying
<1>5. CASE Selling
  BY <1>5, SellingKeeps, KeepingStep
<1> QED
  BY <1>1, <1>2, <1>3, <1>4, <1>5 DEF Next

\* The books hold nothing at first.
LEMMA BooksInit ==
  ASSUME Init
  PROVE  LedgerInv /\ ManualsChecked
<1>1. /\ journals = <<>> /\ years = [y \in Years |-> "OPEN"] /\ slow = None
  BY DEF Init, LedgerInit
<1>2. AreEntries(journals) /\ DOMAIN journals = {}
  BY <1>1 DEF AreEntries
<1> QED
  BY <1>1, <1>2 DEF LedgerInv, ManualsChecked, SnapshotOk, EntriesOfClosed, SlowMisses,
       ClosedYearIsSealed, ClosingOf, From

\* A year that was closed with a closing entry receives no journal after it, whatever
\* transaction read it open before (yearEndClose, nextJournalNumber).
THEOREM ClosedYearsStaySealed == Spec => []ClosedYearIsSealed
<1>1. Init => LedgerInv /\ ManualsChecked
  BY BooksInit
<1>2. LedgerInv /\ ManualsChecked /\ [Next]_vars => (LedgerInv /\ ManualsChecked)'
  BY BooksStep
<1>3. LedgerInv => ClosedYearIsSealed
  BY DEF LedgerInv
<1> QED
  BY <1>1, <1>2, <1>3, PTL DEF Spec

\* Under maker-checker no manual journal is posted that its maker alone has seen, or
\* that was edited after its approval (approveJournal, postJournal, updateDraftJournal).
THEOREM AlwaysPostedAsApproved == Spec => []PostedAsApproved
<1>1. Init => LedgerInv /\ ManualsChecked
  BY BooksInit
<1>2. LedgerInv /\ ManualsChecked /\ [Next]_vars => (LedgerInv /\ ManualsChecked)'
  BY BooksStep
<1>3. ManualsChecked => PostedAsApproved
  BY DEF ManualsChecked, InOrder, Checked, PostedAsApproved, InBooks, Kind
<1> QED
  BY <1>1, <1>2, <1>3, PTL DEF Spec

-----------------------------------------------------------------------------
(* Sales. *)

IsBooking(r) ==
  r = [status |-> r.status, unit |-> r.unit, key |-> r.key, price |-> r.price,
       due |-> r.due, paid |-> r.paid]

SalesShape ==
  /\ unit \in [Units -> EditableStatuses \cup {"deleted"}]
  /\ byHand \in [Units -> [count : Nat, status : EditableStatuses \cup {"deleted", None}]]
  /\ DOMAIN booking = Bookings /\ booking = [b \in Bookings |-> booking[b]]
  /\ \A b \in Bookings : IsBooking(booking[b])
  /\ DOMAIN invoice = Invoices

\* A booking that was made has a unit, and holds its key while it is open.
Bound(r) ==
  /\ r.status \in {"none", "Completed"} \cup OpenStatuses
  /\ IF r.status = "none" THEN r.unit = None ELSE r.unit \in Units
  /\ r.key = IF r.status \in OpenStatuses THEN r.unit ELSE None

\* Nothing is asked for a booking before it is made, nor paid.
Unasked == \A b \in Bookings :
  booking[b].status = "none" => invoice[b].status = "none" /\ invoice[b].payments = {}

\* What was set by hand was counted.
HandCounted == \A u \in Units : byHand[u].status # None => byHand[u].count > 0

SalesInv ==
  /\ SalesShape /\ \A b \in Bookings : Bound(booking[b])
  /\ Unasked /\ HandCounted /\ SoldOnce

\* What is not sold is left alone by the other steps, and so is an invoice that
\* nothing has asked for.
LEMMA ElsewhereSales ==
  ASSUME SalesInv, UNCHANGED sales, DOMAIN invoice' = DOMAIN invoice,
         \A b \in Bookings : invoice[b].status = "none" => invoice'[b] = invoice[b]
  PROVE  SalesInv'
<1>1. SalesShape'
  BY DEF SalesInv, SalesShape, sales
<1>2. Unasked'
  BY DEF SalesInv, Unasked, sales
<1>3. HandCounted'
  BY DEF SalesInv, HandCounted, sales
<1>4. SoldOnce'
  BY DEF SalesInv, SoldOnce, UnitFollowsBookings, BookingsOf, sales
<1>5. \A b \in Bookings : Bound(booking'[b])
  BY DEF SalesInv, sales
<1> QED
  BY <1>1, <1>2, <1>3, <1>4, <1>5 DEF SalesInv

\* One invoice is written: none that a booking waits to ask for.
LEMMA IssuesElsewhere ==
  ASSUME SalesInv, NEW i, NEW r, Issues(i, r), i \notin Bookings \/ invoice[i].status # "none"
  PROVE  /\ DOMAIN invoice' = DOMAIN invoice
         /\ \A b \in Bookings : invoice[b].status = "none" => invoice'[b] = invoice[b]
<1>1. invoice' = [invoice EXCEPT ![i] = r]
  BY DEF Issues
<1> QED
  BY <1>1, PaymentsAssumption DEF SalesInv, SalesShape

\* The steps of the ledger, of records and of purchases.
LEMMA OtherStepsSales ==
  ASSUME SalesInv, OnLedger \/ OnRecords \/ Buying
  PROVE  SalesInv'
<1>1. CASE OnLedger
  BY <1>1, ElsewhereSales DEF OnLedger, records
<1>2. ASSUME OnRecords
      PROVE  /\ DOMAIN invoice' = DOMAIN invoice
             /\ \A b \in Bookings : invoice[b].status = "none" => invoice'[b] = invoice[b]
  <2>1. ASSUME NEW v \in Views, OnTransactions(v) PROVE UNCHANGED invoice
    <3>1. ASSUME NEW t, NEW s, NEW a, NEW p, CreateTransaction(v, t, s, a, p) PROVE UNCHANGED invoice
      BY <3>1 DEF CreateTransaction, Saves
    <3>2. ASSUME NEW t, NEW edit, NEW s, UpdateTransaction(v, t, edit, s) PROVE UNCHANGED invoice
      BY <3>2 DEF UpdateTransaction, Saves
    <3>3. ASSUME NEW t, VoidTransaction(v, t) \/ DeleteTransaction(v, t) PROVE UNCHANGED invoice
      BY <3>3 DEF VoidTransaction, DeleteTransaction, Saves
    <3> QED
      BY <2>1, <3>1, <3>2, <3>3 DEF OnTransactions
  <2>2. ASSUME NEW v \in Views, OnCommissions(v) PROVE UNCHANGED invoice
    BY <2>2 DEF OnCommissions, CreateCommission, UpdateCommission, CancelCommission,
                ArchiveCommission, PayCommission, Owes
  <2>3. ASSUME NEW v \in Views, OnInvoices(v)
        PROVE  \E i \in Invoices \ Bookings : \E r : Issues(i, r)
    <3>1. PICK i \in Invoices \ Bookings :
            \/ \E a \in Amounts, p \in Periods :
                 \/ \E s \in {"draft", "sent"} : CreateInvoice(v, i, s, a, p, {})
                 \/ \E k \in Keys : RecordInvoicePayment(v, i, k, a, p, {})
            \/ \E edit \in Edits, s \in {"same", "draft", "sent"} : UpdateInvoice(v, i, edit, s)
            \/ VoidInvoice(v, i) \/ ArchiveInvoice(v, i)
            \/ \E n \in DOMAIN payment, unpaid \in {"sent", "overdue"} :
                 VoidInvoicePayment(v, i, n, unpaid, {})
      BY <2>3 DEF OnInvoices
    <3>2. \E r : Issues(i, r)
      BY <3>1 DEF CreateInvoice, RecordInvoicePayment, UpdateInvoice, VoidInvoice, ArchiveInvoice,
                  VoidInvoicePayment
    <3> QED
      BY <3>2
  <2>4. ASSUME NEW i \in Invoices, Overdue(i)
        PROVE  invoice[i].status # "none" /\ \E r : Issues(i, r)
    BY <2>4 DEF Overdue
  <2> QED
    BY <1>2, <2>1, <2>2, <2>3, <2>4, IssuesElsewhere DEF OnRecords, RecordsNext
<1>3. CASE OnRecords
  BY <1>2, <1>3, ElsewhereSales DEF OnRecords
<1>4. CASE Buying
  <2>1. UNCHANGED invoice
    BY <1>4 DEF Buying, OnProcurement, OnPurchases, OnStock, CreatePurchase, ReceivePurchase,
                RecordPurchasePayment, VoidPurchasePayment, CancelPurchase, CreateMovement, records
  <2> QED
    BY <1>4, <2>1, ElsewhereSales DEF Buying
<1> QED
  BY <1>1, <1>3, <1>4

\* A booking is made of a unit that is free: if there is another one of it, it was
\* completed, and somebody has put the unit on offer again since.
LEMMA CreateBookingStep ==
  ASSUME SalesInv, NEW v, NEW b \in Bookings, NEW u \in Units, NEW t, NEW status \in OpenStatuses,
         NEW p, CreateBooking(v, b, u, t, status, p)
  PROVE  SalesInv'
<1> USE DEF SalesInv
<1> DEFINE new == [status |-> status, unit |-> u, key |-> u, price |-> t.price,
                   due |-> Plan(t), paid |-> Projected(Plan(t), 0)]
<1>1. /\ booking[b].status = "none" /\ unit[u] = "open" /\ Free(u)
      /\ booking' = [booking EXCEPT ![b] = new]
      /\ unit' = [unit EXCEPT ![u] = "Reserved"]
      /\ byHand' = [byHand EXCEPT ![u].status = None]
  BY DEF CreateBooking, SetByBooking, Bookable
<1>2. PICK r : invoice' = [invoice EXCEPT ![b] = r]
  BY DEF CreateBooking, CreateInvoice, Issues
<1>3. IsBooking(new) /\ Bound(new) /\ new.unit = u /\ new.status = status
  <2>1. status # "none" /\ status \in {"none", "Completed"} \cup OpenStatuses
    BY DEF OpenStatuses
  <2> QED
    BY <2>1 DEF IsBooking, Bound
<1> HIDE DEF new
<1>4. /\ DOMAIN booking' = Bookings /\ booking' = [c \in Bookings |-> booking'[c]]
      /\ booking'[b] = new /\ \A c \in Bookings \ {b} : booking'[c] = booking[c]
  BY <1>1 DEF SalesShape
<1>5. /\ byHand'[u].status = None /\ byHand'[u].count = byHand[u].count
      /\ \A w \in Units \ {u} : byHand'[w] = byHand[w]
      /\ byHand' \in [Units -> [count : Nat, status : EditableStatuses \cup {"deleted", None}]]
  BY <1>1 DEF SalesShape
<1>6. /\ unit'[u] = "Reserved" /\ \A w \in Units \ {u} : unit'[w] = unit[w]
      /\ unit' \in [Units -> EditableStatuses \cup {"deleted"}]
  BY <1>1 DEF SalesShape, EditableStatuses
<1>7. SalesShape'
  BY <1>2, <1>3, <1>4, <1>5, <1>6 DEF SalesShape
<1>8. \A c \in Bookings : Bound(booking'[c])
  BY <1>3, <1>4
<1>9. Unasked'
  <2>1. new.status # "none"
    BY <1>3 DEF OpenStatuses
  <2>2. \A c \in Bookings \ {b} : invoice'[c] = invoice[c]
    BY <1>2, PaymentsAssumption DEF SalesShape
  <2> QED
    BY <2>1, <2>2, <1>4 DEF Unasked
<1>10. HandCounted'
  BY <1>5 DEF HandCounted
<1>11. u # None
  BY UnitsAssumption
<1>12. \A c \in Bookings : booking[c].unit = u =>
         booking[c].status \notin OpenStatuses /\ byHand[u].count > 0
  <2> SUFFICES ASSUME NEW c \in Bookings, booking[c].unit = u
               PROVE  booking[c].status \notin OpenStatuses /\ byHand[u].count > 0
    OBVIOUS
  <2>1. \A d \in BookingsOf(u) : booking[d].status \notin OpenStatuses
    BY <1>1 DEF Free, BookingsOf
  <2>2. c \in BookingsOf(u)
    BY DEF BookingsOf
  <2>3. byHand[u].status # None
    BY <2>1, <2>2, <1>1 DEF SoldOnce, UnitFollowsBookings
  <2> QED
    BY <2>1, <2>2, <2>3 DEF HandCounted
<1>13. \A w \in Units : BookingsOf(w)' = IF w = u THEN BookingsOf(u) \cup {b} ELSE BookingsOf(w)
  <2>1. booking[b].unit = None
    BY <1>1 DEF Bound
  <2> QED
    BY <2>1, <1>3, <1>4, UnitsAssumption DEF BookingsOf
<1>14. UnitFollowsBookings'
  <2> SUFFICES ASSUME NEW w \in Units
               PROVE  unit'[w] =
                        IF byHand'[w].status # None THEN byHand'[w].status
                        ELSE IF BookingsOf(w)' = {} THEN "open"
                        ELSE IF \E c \in BookingsOf(w)' : booking'[c].status \in OpenStatuses
                             THEN "Reserved" ELSE "Sold"
    BY DEF UnitFollowsBookings
  <2>1. CASE w = u
    BY <2>1, <1>3, <1>4, <1>5, <1>6, <1>13
  <2>2. CASE w # u
    <3>1. BookingsOf(w)' = BookingsOf(w) /\ b \notin BookingsOf(w)
      BY <2>2, <1>1, <1>13, UnitsAssumption DEF BookingsOf, Bound
    <3>2. \A c \in BookingsOf(w) : booking'[c] = booking[c]
      BY <3>1, <1>4 DEF BookingsOf
    <3>3. /\ unit'[w] = unit[w] /\ byHand'[w] = byHand[w]
          /\ unit[w] = IF byHand[w].status # None THEN byHand[w].status
                       ELSE IF BookingsOf(w) = {} THEN "open"
                       ELSE IF \E c \in BookingsOf(w) : booking[c].status \in OpenStatuses
                            THEN "Reserved" ELSE "Sold"
      BY <2>2, <1>5, <1>6 DEF SoldOnce, UnitFollowsBookings
    <3> QED
      BY <3>1, <3>2, <3>3
  <2> QED
    BY <2>1, <2>2
<1>15. ASSUME NEW c \in Bookings, NEW d \in Bookings, c # d,
              booking'[c].unit = booking'[d].unit, booking'[c].unit # None
       PROVE  /\ byHand'[booking'[c].unit].count > 0
              /\ ~({booking'[c].status, booking'[d].status} \subseteq OpenStatuses)
  <2>1. CASE c = b
    BY <2>1, <1>3, <1>4, <1>5, <1>12, <1>15
  <2>2. CASE d = b
    BY <2>2, <1>3, <1>4, <1>5, <1>12, <1>15
  <2>3. CASE c # b /\ d # b
    <3>1. booking'[c] = booking[c] /\ booking'[d] = booking[d]
      BY <2>3, <1>4
    <3>2. booking[c].unit \in Units
      BY <3>1, <1>15 DEF Bound
    <3>3. byHand'[booking[c].unit].count = byHand[booking[c].unit].count
      BY <3>2, <1>5
    <3> QED
      BY <3>1, <3>3, <1>15 DEF SoldOnce
  <2> QED
    BY <2>1, <2>2, <2>3
<1>16. SoldOnce'
  BY <1>14, <1>15 DEF SoldOnce
<1> QED
  BY <1>7, <1>8, <1>9, <1>10, <1>16

\* What a projection writes of the booking b.
ProjectedBooking(r, total) ==
  [status |-> IF Completes(r, total) THEN "Completed" ELSE r.status, unit |-> r.unit,
   key |-> IF Completes(r, total) THEN None ELSE r.key, price |-> r.price,
   due |-> r.due, paid |-> Projected(r.due, total)]

\* And it leaves the other bookings alone.
LEMMA ProjectWrites ==
  ASSUME SalesShape, NEW b \in Bookings, NEW total, Project(b, total)
  PROVE  /\ DOMAIN booking' = Bookings /\ booking' = [c \in Bookings |-> booking'[c]]
         /\ \A c \in Bookings \ {b} : booking'[c] = booking[c]
         /\ booking'[b] = ProjectedBooking(booking[b], total)
<1>0. PICK was : was = booking[b]
  OBVIOUS
<1> DEFINE done == Completes(was, total)
           st == IF done THEN "Completed" ELSE was.status
           key == IF done THEN None ELSE was.key
           new == booking'[b]
<1>1. IsBooking(was)
  BY <1>0 DEF SalesShape
<1>2. /\ DOMAIN booking' = Bookings /\ booking' = [c \in Bookings |-> booking'[c]]
      /\ \A c \in Bookings \ {b} : booking'[c] = booking[c]
      /\ new = [was EXCEPT !.paid = Projected(was.due, total), !.status = st, !.key = key]
  <2>1. booking' = [booking EXCEPT
          ![b].paid = Projected(was.due, total),
          ![b].status = IF done THEN "Completed" ELSE @,
          ![b].key = IF done THEN None ELSE @]
    BY <1>0 DEF Project
  <2> HIDE DEF done
  <2> DEFINE P == Projected(was.due, total)
             k1 == [booking EXCEPT ![b].paid = P]
             k2 == [k1 EXCEPT ![b].status = IF done THEN "Completed" ELSE @]
             k3 == [k2 EXCEPT ![b].key = IF done THEN None ELSE @]
             w1 == [was EXCEPT !.paid = P]
             w2 == [w1 EXCEPT !.status = st]
             w3 == [w2 EXCEPT !.key = key]
  <2>2. booking' = k3
    BY <2>1
  <2>3. w3 = [was EXCEPT !.paid = P, !.status = st, !.key = key]
    OBVIOUS
  <2>4. w1.status = was.status /\ w2.key = was.key
    BY <1>1 DEF IsBooking
  <2> HIDE DEF P, st, key
  <2>5. /\ DOMAIN k1 = Bookings /\ k1[b] = w1 /\ \A c \in Bookings \ {b} : k1[c] = booking[c]
    BY <1>0 DEF SalesShape
  <2> HIDE DEF k1, w1
  <2>6. /\ DOMAIN k2 = Bookings /\ k2[b] = w2 /\ \A c \in Bookings \ {b} : k2[c] = k1[c]
    BY <2>4, <2>5 DEF st
  <2> HIDE DEF k2, w2
  <2>7. /\ DOMAIN k3 = Bookings /\ k3[b] = w3 /\ \A c \in Bookings \ {b} : k3[c] = k2[c]
    BY <2>4, <2>6 DEF key
  <2>8. k3 = [c \in Bookings |-> k3[c]]
    BY <2>6
  <2> HIDE DEF k3, w3
  <2>9. DOMAIN booking' = Bookings /\ booking' = [c \in Bookings |-> booking'[c]]
    BY <2>2, <2>7, <2>8
  <2>10. \A c \in Bookings \ {b} : booking'[c] = booking[c]
    BY <2>2, <2>5, <2>6, <2>7
  <2>11. new = w3
    BY <2>2, <2>7
  <2> QED
    BY <2>3, <2>9, <2>10, <2>11 DEF P
<1>3. new = [status |-> st, unit |-> was.unit, key |-> key, price |-> was.price, due |-> was.due,
             paid |-> Projected(was.due, total)]
  <2>0. new = [was EXCEPT !.paid = Projected(was.due, total), !.status = st, !.key = key]
    BY <1>2
  <2> HIDE DEF st, key, new
  <2>3. PICK y : y = new
    OBVIOUS
  <2>4. PICK p : p = Projected(was.due, total)
    OBVIOUS
  <2>5. PICK s : s = st
    OBVIOUS
  <2>6. PICK k : k = key
    OBVIOUS
  <2>7. y = [was EXCEPT !.paid = p, !.status = s, !.key = k]
    BY <2>0, <2>3, <2>4, <2>5, <2>6
  <2>8. IsBooking(was)
    BY <1>1
  <2>1. y = [status |-> s, unit |-> was.unit, key |-> k, price |-> was.price, due |-> was.due, paid |-> p]
    <3>1. PICK s1, u1, c1, pr, du, pa :
            was = [status |-> s1, unit |-> u1, key |-> c1, price |-> pr, due |-> du, paid |-> pa]
      BY <2>8 DEF IsBooking
    <3>2. y = [status |-> s, unit |-> u1, key |-> k, price |-> pr, due |-> du, paid |-> p]
      BY <2>7, <3>1
    <3> QED
      BY <3>1, <3>2
  <2> QED
    BY <2>1, <2>3, <2>4, <2>5, <2>6
<1> QED
  BY <1>0, <1>2, <1>3 DEF ProjectedBooking

\* Payments are projected: the booking may be completed, which hands the unit over
\* unless it was deleted; one that was completed before changes nothing.
LEMMA ProjectStep ==
  ASSUME SalesInv, NEW b \in Bookings, NEW total, Project(b, total), booking[b].status # "none",
         NEW r, invoice' = [invoice EXCEPT ![b] = r]
  PROVE  SalesInv'
<1> USE DEF SalesInv
<1>0. PICK was : was = booking[b]
  OBVIOUS
<1> DEFINE u == was.unit
           done == Completes(was, total)
           st == IF done THEN "Completed" ELSE was.status
           key == IF done THEN None ELSE was.key
           new == booking'[b]
<1>1. u \in Units /\ IsBooking(was) /\ Bound(was) /\ was.status # "none"
  BY <1>0 DEF Bound, SalesShape
<1>2. /\ DOMAIN booking' = Bookings /\ booking' = [c \in Bookings |-> booking'[c]]
      /\ \A c \in Bookings \ {b} : booking'[c] = booking[c]
      /\ new = ProjectedBooking(was, total)
  BY <1>0, ProjectWrites
<1>3. IsBooking(new) /\ new.status = st /\ new.unit = u /\ new.key = key
  BY <1>2 DEF ProjectedBooking, IsBooking
<1>4. done => was.status \in OpenStatuses
  BY <1>1 DEF Completes, Bound
<1>5. Bound(new) /\ new.status # "none"
  <2>1. "Completed" \notin OpenStatuses
    BY DEF OpenStatuses
  <2> QED
    BY <2>1, <1>1, <1>3 DEF Bound
<1> DEFINE over == done /\ unit[u] # "deleted"
<1>6. HandedOver(b, total) = IF over THEN {u} ELSE {}
  BY <1>0 DEF HandedOver
<1>7. /\ unit' = [w \in Units |-> IF w = u /\ over THEN "Sold" ELSE unit[w]]
      /\ byHand' = [w \in Units |-> IF w = u /\ over THEN [byHand[w] EXCEPT !.status = None] ELSE byHand[w]]
  <2>1. was.status = "Completed" => ~done
    BY DEF Completes
  <2> HIDE DEF over
  <2>2. unit' = [w \in Units |-> IF w \in HandedOver(b, total) THEN "Sold" ELSE unit[w]]
    BY DEF Project
  <2>3. byHand' = [w \in Units |->
          IF w \in HandedOver(b, total) /\ was.status # "Completed"
            THEN [byHand[w] EXCEPT !.status = None] ELSE byHand[w]]
    BY <1>0 DEF Project
  <2>4. over => was.status # "Completed"
    BY <2>1 DEF over
  <2> QED
    BY <2>2, <2>3, <2>4, <1>6
<1> HIDE DEF new, st, key, done
<1>8. /\ unit' \in [Units -> EditableStatuses \cup {"deleted"}]
      /\ byHand' \in [Units -> [count : Nat, status : EditableStatuses \cup {"deleted", None}]]
      /\ \A w \in Units : byHand'[w].count = byHand[w].count
      /\ \A w \in Units \ {u} : unit'[w] = unit[w] /\ byHand'[w] = byHand[w]
      /\ over => unit'[u] = "Sold" /\ byHand'[u].status = None
      /\ ~over => unit'[u] = unit[u] /\ byHand'[u] = byHand[u]
  <2> HIDE DEF over
  <2>1. unit' \in [Units -> EditableStatuses \cup {"deleted"}]
    BY <1>7 DEF SalesShape, EditableStatuses
  <2>2. \A w \in Units : [byHand[w] EXCEPT !.status = None] \in
           [count : Nat, status : EditableStatuses \cup {"deleted", None}]
    BY DEF SalesShape
  <2>3. \A w \in Units : /\ [byHand[w] EXCEPT !.status = None].count = byHand[w].count
                         /\ [byHand[w] EXCEPT !.status = None].status = None
    BY DEF SalesShape
  <2>4. byHand' \in [Units -> [count : Nat, status : EditableStatuses \cup {"deleted", None}]]
    BY <2>2, <1>7 DEF SalesShape
  <2> QED
    BY <2>1, <2>3, <2>4, <1>1, <1>7
<1>9. SalesShape'
  BY <1>2, <1>3, <1>8 DEF SalesShape, new
<1>10. \A c \in Bookings : Bound(booking'[c])
  BY <1>2, <1>5 DEF new
<1> DEFINE Same == \A c \in Bookings \ {b} : booking'[c] = booking[c]
<1>20. Same
  BY <1>2
<1>11. Unasked'
  <2>1. \A c \in Bookings \ {b} : invoice'[c] = invoice[c]
    BY PaymentsAssumption DEF SalesShape
  <2> QED
    <3>1. \A c \in Bookings : booking'[c].status = "none" => c # b /\ booking[c].status = "none"
      BY <1>20, <1>5 DEF new
    <3> QED
      BY <2>1, <3>1 DEF Unasked
<1>12. HandCounted'
  BY <1>1, <1>8 DEF HandCounted
<1>13. \A w \in Units : BookingsOf(w)' = BookingsOf(w)
  <2>1. \A c \in Bookings : booking'[c].unit = booking[c].unit
    BY <1>0, <1>20, <1>3 DEF new
  <2> QED
    BY <2>1 DEF BookingsOf
\* The units' statuses: that of u, if the booking is completed now, has no other open booking.
<1>14. UnitFollowsBookings'
  <2> SUFFICES ASSUME NEW w \in Units
               PROVE  unit'[w] =
                        IF byHand'[w].status # None THEN byHand'[w].status
                        ELSE IF BookingsOf(w)' = {} THEN "open"
                        ELSE IF \E c \in BookingsOf(w)' : booking'[c].status \in OpenStatuses
                             THEN "Reserved" ELSE "Sold"
    BY DEF UnitFollowsBookings
  <2>1. unit[w] = IF byHand[w].status # None THEN byHand[w].status
                  ELSE IF BookingsOf(w) = {} THEN "open"
                  ELSE IF \E c \in BookingsOf(w) : booking[c].status \in OpenStatuses
                       THEN "Reserved" ELSE "Sold"
    BY DEF SoldOnce, UnitFollowsBookings
  <2>2. CASE w # u
    <3>1. \A c \in BookingsOf(w) : booking'[c] = booking[c]
      BY <2>2, <1>0, <1>2 DEF BookingsOf
    <3> QED
      BY <3>1, <2>1, <2>2, <1>8, <1>13
  <2>3. CASE w = u /\ ~done
    <3>1. new.status = was.status
      BY <2>3, <1>3 DEF st
    <3>2. \A c \in Bookings : booking'[c].status = booking[c].status
      BY <3>1, <1>0, <1>2 DEF new
    <3>3. \A c \in BookingsOf(w) : c \in Bookings
      BY DEF BookingsOf
    <3>4. unit'[w] = unit[w] /\ byHand'[w] = byHand[w]
      BY <2>3, <1>8
    <3> QED
      BY <3>2, <3>3, <3>4, <2>1, <1>13
  <2>4. CASE w = u /\ over
    <3>1. b \in BookingsOf(u)
      BY <1>0 DEF BookingsOf
    <3>2. \A c \in BookingsOf(u) : booking'[c].status \notin OpenStatuses
      <4> SUFFICES ASSUME NEW c \in BookingsOf(u) PROVE booking'[c].status \notin OpenStatuses
        OBVIOUS
      <4>1. CASE c = b
        BY <4>1, <2>4, <1>3 DEF st, new, OpenStatuses
      <4>2. CASE c # b
        <5>1. booking[c].unit = u /\ u # None /\ c \in Bookings /\ booking'[c] = booking[c]
          BY <4>2, <1>1, <1>2, UnitsAssumption DEF BookingsOf
        <5> QED
          BY <5>1, <4>2, <2>4, <1>0, <1>4 DEF SoldOnce
      <4> QED
        BY <4>1, <4>2
    <3>3. unit'[u] = "Sold" /\ byHand'[u].status = None
      BY <2>4, <1>8
    <3> QED
      BY <3>1, <3>2, <3>3, <2>4, <1>13
  <2>5. CASE w = u /\ done /\ ~over
    <3>1. unit[u] = "deleted"
      BY <2>5
    <3>2. byHand[u].status # None
      BY <3>1, <2>1, <2>5
    <3>3. unit'[w] = unit[w] /\ byHand'[w] = byHand[w]
      BY <2>5, <1>8
    <3> QED
      BY <3>2, <3>3, <2>1, <2>5
  <2> QED
    BY <2>2, <2>3, <2>4, <2>5
<1>15. \A c \in Bookings :
         /\ booking'[c].unit = booking[c].unit
         /\ booking'[c].status \in OpenStatuses => booking[c].status \in OpenStatuses
  <2>1. new.unit = was.unit /\ (new.status \in OpenStatuses => was.status \in OpenStatuses)
    BY <1>3 DEF st, OpenStatuses
  <2> QED
    BY <2>1, <1>0, <1>2 DEF new
<1>16. ASSUME NEW c \in Bookings, NEW d \in Bookings, c # d,
              booking'[c].unit = booking'[d].unit, booking'[c].unit # None
       PROVE  /\ byHand'[booking'[c].unit].count > 0
              /\ ~({booking'[c].status, booking'[d].status} \subseteq OpenStatuses)
  <2>1. booking[c].unit \in Units
    BY <1>15, <1>16 DEF Bound
  <2> QED
    BY <2>1, <1>8, <1>15, <1>16 DEF SoldOnce
<1>17. SoldOnce'
  BY <1>14, <1>16 DEF SoldOnce
<1> QED
  BY <1>9, <1>10, <1>11, <1>12, <1>17

\* A status set by hand is counted, and the bookings stay as they are.
LEMMA EditStep ==
  ASSUME SalesInv, NEW u \in Units, NEW status \in EditableStatuses \cup {"deleted"}, Edit(u, status)
  PROVE  SalesInv'
<1> USE DEF SalesInv
<1>1. /\ unit' = [unit EXCEPT ![u] = status] /\ UNCHANGED <<invoice, booking>>
      /\ byHand' = [byHand EXCEPT ![u] = [count |-> byHand[u].count + 1, status |-> status]]
  BY DEF Edit, records
<1>2. status # None
  BY UnitsAssumption
<1>3. /\ unit' \in [Units -> EditableStatuses \cup {"deleted"}]
      /\ unit'[u] = status /\ \A w \in Units \ {u} : unit'[w] = unit[w]
  BY <1>1 DEF SalesShape
<1>4. byHand[u].count \in Nat
  BY DEF SalesShape
<1>5. /\ byHand' \in [Units -> [count : Nat, status : EditableStatuses \cup {"deleted", None}]]
      /\ byHand'[u].count > 0 /\ byHand'[u].status = status
      /\ \A w \in Units \ {u} : byHand'[w] = byHand[w]
  BY <1>1, <1>4 DEF SalesShape
<1>6. SalesShape'
  <2>1. /\ DOMAIN booking' = Bookings /\ booking' = [b \in Bookings |-> booking'[b]]
        /\ \A b \in Bookings : IsBooking(booking'[b])
        /\ DOMAIN invoice' = Invoices
    BY <1>1 DEF SalesShape
  <2> QED
    BY <2>1, <1>3, <1>5 DEF SalesShape
<1>7. Unasked' /\ \A b \in Bookings : Bound(booking'[b])
  BY <1>1 DEF Unasked
<1>8. HandCounted'
  BY <1>5 DEF HandCounted
<1>9. \A w \in Units : BookingsOf(w)' = BookingsOf(w)
  BY <1>1 DEF BookingsOf
<1>10. UnitFollowsBookings'
  <2> SUFFICES ASSUME NEW w \in Units
               PROVE  unit'[w] =
                        IF byHand'[w].status # None THEN byHand'[w].status
                        ELSE IF BookingsOf(w)' = {} THEN "open"
                        ELSE IF \E c \in BookingsOf(w)' : booking'[c].status \in OpenStatuses
                             THEN "Reserved" ELSE "Sold"
    BY DEF UnitFollowsBookings
  <2>1. CASE w = u
    BY <2>1, <1>2, <1>3, <1>5
  <2>2. CASE w # u
    BY <2>2, <1>1, <1>3, <1>5, <1>9 DEF SoldOnce, UnitFollowsBookings
  <2> QED
    BY <2>1, <2>2
<1>11. SoldOnce'
  <2> SUFFICES ASSUME NEW c \in Bookings, NEW d \in Bookings, c # d,
                      booking'[c].unit = booking'[d].unit, booking'[c].unit # None
               PROVE  /\ byHand'[booking'[c].unit].count > 0
                      /\ ~({booking'[c].status, booking'[d].status} \subseteq OpenStatuses)
    BY <1>10 DEF SoldOnce
  <2>1. booking[c].unit \in Units
    BY <1>1 DEF Bound
  <2>2. /\ byHand[booking[c].unit].count > 0
        /\ ~({booking[c].status, booking[d].status} \subseteq OpenStatuses)
    BY <1>1 DEF SoldOnce
  <2> QED
    BY <2>1, <2>2, <1>1, <1>5
<1> QED
  BY <1>6, <1>7, <1>8, <1>11

\* Every step keeps what is said of sales: the payments of a booking exist only once
\* it was made, so that the projection of one finds its unit.
LEMMA SalesStep ==
  ASSUME SalesInv, [Next]_vars
  PROVE  SalesInv'
<1>1. CASE UNCHANGED vars
  BY <1>1, ElsewhereSales DEF vars, records
<1>2. ASSUME NEW v, NEW b \in Bookings, NEW k, NEW a, NEW p, RecordPayment(v, b, k, a, p)
      PROVE  SalesInv'
  <2>1. PICK total : Project(b, total)
    BY <1>2 DEF RecordPayment
  <2>2. booking[b].status # "none" /\ \E r : invoice' = [invoice EXCEPT ![b] = r]
    BY <1>2 DEF RecordPayment, RecordInvoicePayment, Issues
  <2> QED
    BY <2>1, <2>2, ProjectStep
<1>3. ASSUME NEW v, NEW b \in Bookings, NEW n, NEW unpaid, VoidPayment(v, b, n, unpaid)
      PROVE  SalesInv'
  <2>1. PICK total : Project(b, total)
    BY <1>3 DEF VoidPayment
  <2>2. n \in invoice[b].payments /\ \E r : invoice' = [invoice EXCEPT ![b] = r]
    BY <1>3 DEF VoidPayment, VoidInvoicePayment, Issues, Active
  <2>3. booking[b].status # "none"
    BY <2>2 DEF SalesInv, Unasked
  <2> QED
    BY <2>1, <2>2, <2>3, ProjectStep
<1>4. ASSUME NEW v \in Views, OnBookings(v) PROVE SalesInv'
  BY <1>2, <1>3, <1>4, CreateBookingStep DEF OnBookings
<1>5. ASSUME OnUnits PROVE SalesInv'
  BY <1>5, EditStep DEF OnUnits, UpdateStatus, DeleteProperty
<1> QED
  BY <1>1, <1>4, <1>5, OtherStepsSales DEF Next, Selling

\* Nothing is sold at first.
LEMMA NothingSold ==
  ASSUME Init
  PROVE  SalesInv
<1>1. /\ unit = [u \in Units |-> "open"]
      /\ booking = [b \in Bookings |->
           [status |-> "none", unit |-> None, key |-> None, price |-> 0, due |-> <<>>, paid |-> <<>>]]
      /\ byHand = [u \in Units |-> [count |-> 0, status |-> None]]
      /\ invoice = [i \in Invoices |->
           [status |-> "none", amount |-> 0, period |-> 1, version |-> 0, journal |-> 0,
            paid |-> 0, payments |-> {}]]
  BY DEF Init, SalesInit, RecordsInit
<1>2. SalesShape
  BY <1>1 DEF SalesShape, IsBooking, EditableStatuses
<1>3. \A b \in Bookings : Bound(booking[b])
  BY <1>1 DEF Bound, OpenStatuses
<1>4. Unasked /\ HandCounted
  BY <1>1, PaymentsAssumption DEF Unasked, HandCounted
<1>5. \A u \in Units : BookingsOf(u) = {}
  BY <1>1, UnitsAssumption DEF BookingsOf
<1>6. UnitFollowsBookings
  BY <1>1, <1>5 DEF UnitFollowsBookings
<1>7. SoldOnce
  BY <1>1, <1>6 DEF SoldOnce
<1> QED
  BY <1>2, <1>3, <1>4, <1>7 DEF SalesInv

\* A unit is not sold twice (createBooking against other bookings, payments and edits).
THEOREM AlwaysSoldOnce == Spec => []SoldOnce
<1>1. Init => SalesInv
  BY NothingSold
<1>2. SalesInv /\ [Next]_vars => SalesInv'
  BY SalesStep
<1>3. SalesInv => SoldOnce
  BY DEF SalesInv
<1> QED
  BY <1>1, <1>2, <1>3, PTL DEF Spec

-----------------------------------------------------------------------------
(* Sums over finite sets.                                                  *)

\* What the library takes out of a set next.
Chosen(s) == CHOOSE x \in s : TRUE

\* g sums f over every subset of S.
Sums(f, S, g) == g = [s \in SUBSET S |-> IF s = {} THEN 0 ELSE f[Chosen(s)] + g[s \ {Chosen(s)}]]

Summing(f, S) == CHOOSE g : Sums(f, S, g)

\* What is chosen from a set that is not empty is in it.
LEMMA ChosenIn == \A s : s # {} => Chosen(s) \in s
BY DEF Chosen

\* The library's sum is the last value of the recursive function it defines.
LEMMA SumIs ==
  ASSUME NEW f, NEW S
  PROVE  SumFunctionOnSet(f, S) = Summing(f, S)[S]
BY DEF SumFunctionOnSet, FoldFunctionOnSet, MapThenFoldSet, Summing, Sums, Chosen

\* Among subsets of a finite set there is one that contains no other of them: every
\* induction on the sets summed is an appeal to it.
LEMMA Smallest ==
  ASSUME NEW S, IsFiniteSet(S), NEW B \in SUBSET SUBSET S, B # {}
  PROVE  \E m \in B : \A y \in B : y \subseteq m => y = m
<1> DEFINE R == StrictSubsetOrdering(S)
<1>1. FiniteSubsetsOf(S) = SUBSET S BY FS_FiniteSubsetsOfFinite
<1>2. IsWellFoundedOn(R, SUBSET S) BY <1>1, FS_StrictSubsetOrderingWellFounded
<1>3. \E m \in B : \A y \in B : ~ (<<y, m>> \in R)
  <2> HIDE DEF R
  <2> QED BY <1>2, WFMin
<1>4. PICK m \in B : \A y \in B : ~ (<<y, m>> \in R) BY <1>3
<1>5. ASSUME NEW y \in B, y \subseteq m, y # m PROVE FALSE
  <2>1. <<y, m>> \in (SUBSET S) \X (SUBSET S) OBVIOUS
  <2>2. <<y, m>> \in R BY <1>5, <2>1 DEF StrictSubsetOrdering
  <2> QED BY <1>4, <2>2
<1> QED BY <1>5

\* Two such functions agree on the sets that both sum.
LEMMA SumsAgree ==
  ASSUME NEW f, NEW S, NEW T, IsFiniteSet(T), NEW g, NEW h, Sums(f, S, g), Sums(f, T, h), T \subseteq S
  PROVE  \A s \in SUBSET T : g[s] = h[s]
<1> DEFINE B == {s \in SUBSET T : g[s] # h[s]}
<1> SUFFICES ASSUME B # {} PROVE FALSE OBVIOUS
<1>1. PICK m \in B : \A y \in B : y \subseteq m => y = m
  <2>1. B \in SUBSET SUBSET T OBVIOUS
  <2> HIDE DEF B
  <2> QED BY <2>1, Smallest
<1>2. /\ g[m] = IF m = {} THEN 0 ELSE f[Chosen(m)] + g[m \ {Chosen(m)}]
      /\ h[m] = IF m = {} THEN 0 ELSE f[Chosen(m)] + h[m \ {Chosen(m)}]
  BY DEF Sums
<1>3. CASE m = {} BY <1>2, <1>3
<1>4. CASE m # {}
  <2>1. Chosen(m) \in m BY <1>4, ChosenIn
  <2>2. m \ {Chosen(m)} \in SUBSET T /\ m \ {Chosen(m)} # m BY <2>1
  <2>3. m \ {Chosen(m)} \notin B BY <1>1, <2>2
  <2> QED BY <1>2, <1>4, <2>2, <2>3
<1> QED BY <1>3, <1>4

\* The recursion has a solution: for a smallest set without one, the solutions on
\* smaller sets make it up.
LEMMA SummingExists ==
  ASSUME NEW f, NEW S, IsFiniteSet(S)
  PROVE  Sums(f, S, Summing(f, S))
<1> DEFINE B == {s \in SUBSET S : ~Sums(f, s, Summing(f, s))}
<1> SUFFICES ASSUME B # {} PROVE FALSE
  OBVIOUS
<1>1. PICK m \in B : \A y \in B : y \subseteq m => y = m
  <2>1. B \in SUBSET SUBSET S OBVIOUS
  <2> HIDE DEF B
  <2> QED BY <2>1, Smallest
<1>2. \A s \in SUBSET m : s # m => Sums(f, s, Summing(f, s)) BY <1>1
<1> DEFINE g == [s \in SUBSET m |-> IF s = {} THEN 0
                   ELSE f[Chosen(s)] + Summing(f, s \ {Chosen(s)})[s \ {Chosen(s)}]]
<1>3. ASSUME NEW s \in SUBSET m, s # {}
      PROVE  g[s \ {Chosen(s)}] = Summing(f, s \ {Chosen(s)})[s \ {Chosen(s)}]
  <2> DEFINE r == s \ {Chosen(s)}
  <2>1. r \in SUBSET m /\ r # m BY <1>3, ChosenIn
  <2>2. Sums(f, r, Summing(f, r)) BY <1>2, <2>1
  <2>3. Summing(f, r)[r] = IF r = {} THEN 0 ELSE f[Chosen(r)] + Summing(f, r)[r \ {Chosen(r)}]
    <3> HIDE DEF r
    <3> QED BY <2>2 DEF Sums
  <2>4. ASSUME r # {} PROVE Summing(f, r)[r \ {Chosen(r)}] = Summing(f, r \ {Chosen(r)})[r \ {Chosen(r)}]
    <3> DEFINE q == r \ {Chosen(r)}
    <3>1. q \subseteq r /\ q \in SUBSET m /\ q # m BY <2>1, <2>4, ChosenIn
    <3>2. Sums(f, q, Summing(f, q)) BY <1>2, <3>1
    <3>3. IsFiniteSet(q) BY <3>1, FS_Subset
    <3> HIDE DEF q, r
    <3>4. Summing(f, r)[q] = Summing(f, q)[q]
      <4>1. \A s1 \in SUBSET q : Summing(f, r)[s1] = Summing(f, q)[s1]
        BY <2>2, <3>1, <3>2, <3>3, SumsAgree
      <4> QED BY <4>1
    <3> QED BY <3>4 DEF q
  <2>5. g[r] = IF r = {} THEN 0 ELSE f[Chosen(r)] + Summing(f, r \ {Chosen(r)})[r \ {Chosen(r)}]
    <3> HIDE DEF r
    <3> QED BY <2>1
  <2> HIDE DEF g, r
  <2>6. g[r] = Summing(f, r)[r] BY <2>3, <2>4, <2>5
  <2> QED BY <2>6 DEF r
<1>4. Sums(f, m, g)
  <2>1. \A s \in SUBSET m : g[s] = IF s = {} THEN 0 ELSE f[Chosen(s)] + g[s \ {Chosen(s)}]
    <3> SUFFICES ASSUME NEW s \in SUBSET m
                 PROVE  g[s] = IF s = {} THEN 0 ELSE f[Chosen(s)] + g[s \ {Chosen(s)}]
      OBVIOUS
    <3>1. g[s] = IF s = {} THEN 0 ELSE f[Chosen(s)] + Summing(f, s \ {Chosen(s)})[s \ {Chosen(s)}]
      OBVIOUS
    <3> HIDE DEF g
    <3> QED BY <1>3, <3>1
  <2>2. g = [s \in SUBSET m |-> g[s]] OBVIOUS
  <2> HIDE DEF g
  <2> QED BY <2>1, <2>2 DEF Sums
<1>5. Sums(f, m, Summing(f, m))
  <2> HIDE DEF g
  <2>1. \E k : Sums(f, m, k) BY <1>4
  <2> QED BY <2>1 DEF Summing
<1> QED BY <1>1, <1>5

\* Nothing sums to nothing.
LEMMA SumEmpty == ASSUME NEW f PROVE SumFunctionOnSet(f, {}) = 0
<1>1. IsFiniteSet({}) BY FS_EmptySet
<1>2. Sums(f, {}, Summing(f, {})) BY <1>1, SummingExists
<1> QED BY <1>2, SumIs DEF Sums

\* A sum is the chosen term and the sum of the others.
LEMMA SumChosen ==
  ASSUME NEW f, NEW S, IsFiniteSet(S), S # {}
  PROVE  SumFunctionOnSet(f, S) = f[Chosen(S)] + SumFunctionOnSet(f, S \ {Chosen(S)})
<1> DEFINE T == S \ {Chosen(S)}
<1>1. IsFiniteSet(T) /\ T \subseteq S BY FS_Subset
<1>2. T \in SUBSET S OBVIOUS
<1>3. Sums(f, S, Summing(f, S)) BY SummingExists
<1>4. Sums(f, T, Summing(f, T))
  <2> HIDE DEF T
  <2> QED BY <1>1, SummingExists
<1>5. Summing(f, S)[S] = f[Chosen(S)] + Summing(f, S)[T] BY <1>3 DEF Sums
<1> HIDE DEF T
<1>6. \A s \in SUBSET T : Summing(f, S)[s] = Summing(f, T)[s]
  <2> DEFINE g == Summing(f, S)
             h == Summing(f, T)
  <2>1. Sums(f, S, g) /\ Sums(f, T, h) BY <1>3, <1>4
  <2> HIDE DEF g, h
  <2>2. \A s \in SUBSET T : g[s] = h[s] BY <1>1, <2>1, SumsAgree
  <2> QED BY <2>2 DEF g, h
<1>7. Summing(f, S)[T] = Summing(f, T)[T] BY <1>6
<1>8. SumFunctionOnSet(f, S) = f[Chosen(S)] + SumFunctionOnSet(f, T) BY <1>5, <1>7, SumIs
<1> QED BY <1>8 DEF T

\* Equal terms have equal sums.
LEMMA SumSame ==
  ASSUME NEW f, NEW g, NEW S, IsFiniteSet(S), \A x \in S : f[x] = g[x]
  PROVE  SumFunctionOnSet(f, S) = SumFunctionOnSet(g, S)
<1> DEFINE B == {s \in SUBSET S : SumFunctionOnSet(f, s) # SumFunctionOnSet(g, s)}
<1> SUFFICES ASSUME B # {} PROVE FALSE
  OBVIOUS
<1>1. PICK m \in B : \A y \in B : y \subseteq m => y = m
  <2>1. B \in SUBSET SUBSET S OBVIOUS
  <2> HIDE DEF B
  <2> QED BY <2>1, Smallest
<1>2. m # {} BY SumEmpty
<1>3. IsFiniteSet(m) BY FS_Subset
<1>4. Chosen(m) \in m /\ m \ {Chosen(m)} # m BY <1>2, ChosenIn
<1>5. m \ {Chosen(m)} \notin B BY <1>1, <1>4
<1>6. SumFunctionOnSet(f, m \ {Chosen(m)}) = SumFunctionOnSet(g, m \ {Chosen(m)}) BY <1>5
<1>7. SumFunctionOnSet(f, m) = f[Chosen(m)] + SumFunctionOnSet(f, m \ {Chosen(m)}) BY <1>2, <1>3, SumChosen
<1>8. SumFunctionOnSet(g, m) = g[Chosen(m)] + SumFunctionOnSet(g, m \ {Chosen(m)}) BY <1>2, <1>3, SumChosen
<1>9. f[Chosen(m)] = g[Chosen(m)] BY <1>4
<1> QED BY <1>6, <1>7, <1>8, <1>9

\* Integers sum to an integer.
LEMMA SumInt ==
  ASSUME NEW f, NEW S, IsFiniteSet(S), \A x \in S : f[x] \in Int
  PROVE  SumFunctionOnSet(f, S) \in Int
<1> DEFINE B == {s \in SUBSET S : SumFunctionOnSet(f, s) \notin Int}
<1> SUFFICES ASSUME B # {} PROVE FALSE
  OBVIOUS
<1>1. PICK m \in B : \A y \in B : y \subseteq m => y = m
  <2>1. B \in SUBSET SUBSET S OBVIOUS
  <2> HIDE DEF B
  <2> QED BY <2>1, Smallest
<1>2. m # {} BY SumEmpty
<1>3. IsFiniteSet(m) BY FS_Subset
<1>4. Chosen(m) \in m /\ m \ {Chosen(m)} # m BY <1>2, ChosenIn
<1>5. m \ {Chosen(m)} \notin B BY <1>1, <1>4
<1>6. SumFunctionOnSet(f, m \ {Chosen(m)}) \in Int BY <1>5
<1>7. SumFunctionOnSet(f, m) = f[Chosen(m)] + SumFunctionOnSet(f, m \ {Chosen(m)}) BY <1>2, <1>3, SumChosen
<1>8. f[Chosen(m)] \in Int BY <1>4
<1>9. SumFunctionOnSet(f, m) \in Int BY <1>6, <1>7, <1>8
<1> QED BY <1>9

\* Naturals sum to a natural.
LEMMA SumNat ==
  ASSUME NEW f, NEW S, IsFiniteSet(S), \A x \in S : f[x] \in Nat
  PROVE  SumFunctionOnSet(f, S) \in Nat
<1> DEFINE B == {s \in SUBSET S : SumFunctionOnSet(f, s) \notin Nat}
<1> SUFFICES ASSUME B # {} PROVE FALSE
  OBVIOUS
<1>1. PICK m \in B : \A y \in B : y \subseteq m => y = m
  <2>1. B \in SUBSET SUBSET S OBVIOUS
  <2> HIDE DEF B
  <2> QED BY <2>1, Smallest
<1>2. m # {} BY SumEmpty
<1>3. IsFiniteSet(m) BY FS_Subset
<1>4. Chosen(m) \in m /\ m \ {Chosen(m)} # m BY <1>2, ChosenIn
<1>5. m \ {Chosen(m)} \notin B BY <1>1, <1>4
<1>6. SumFunctionOnSet(f, m \ {Chosen(m)}) \in Nat BY <1>5
<1>7. SumFunctionOnSet(f, m) = f[Chosen(m)] + SumFunctionOnSet(f, m \ {Chosen(m)}) BY <1>2, <1>3, SumChosen
<1>8. f[Chosen(m)] \in Nat BY <1>4
<1>9. SumFunctionOnSet(f, m) \in Nat BY <1>6, <1>7, <1>8
<1> QED BY <1>9

\* Any term can be taken out, not only the one that is chosen.
LEMMA SumOut ==
  ASSUME NEW f, NEW S, IsFiniteSet(S), \A y \in S : f[y] \in Int
  PROVE  \A x \in S : SumFunctionOnSet(f, S) = f[x] + SumFunctionOnSet(f, S \ {x})
<1> DEFINE Out(s) == \A x \in s : SumFunctionOnSet(f, s) = f[x] + SumFunctionOnSet(f, s \ {x})
           B == {s \in SUBSET S : ~Out(s)}
<1> SUFFICES ASSUME B # {} PROVE FALSE
  OBVIOUS
<1>1. PICK m \in B : \A y \in B : y \subseteq m => y = m
  <2>1. B \in SUBSET SUBSET S OBVIOUS
  <2> HIDE DEF B
  <2> QED BY <2>1, Smallest
<1>2. PICK x \in m : SumFunctionOnSet(f, m) # f[x] + SumFunctionOnSet(f, m \ {x}) OBVIOUS
<1> DEFINE c == Chosen(m)
           r == m \ {c, x}
<1>3. c \in m BY ChosenIn
<1>4. IsFiniteSet(m) BY FS_Subset
<1>5. SumFunctionOnSet(f, m) = f[c] + SumFunctionOnSet(f, m \ {c}) BY <1>3, <1>4, SumChosen
<1>6. c # x BY <1>2, <1>5
<1>7. Out(m \ {c}) /\ Out(m \ {x})
  <2>1. m \ {c} \in SUBSET S /\ m \ {x} \in SUBSET S OBVIOUS
  <2>2. m \ {c} # m /\ m \ {x} # m BY <1>3
  <2>3. m \ {c} \subseteq m /\ m \ {x} \subseteq m OBVIOUS
  <2> HIDE DEF Out, c
  <2> QED BY <1>1, <2>1, <2>2, <2>3
<1>8. x \in m \ {c} /\ c \in m \ {x} BY <1>3, <1>6
<1>9. (m \ {c}) \ {x} = r /\ (m \ {x}) \ {c} = r OBVIOUS
<1>10. /\ SumFunctionOnSet(f, m \ {c}) = f[x] + SumFunctionOnSet(f, r)
       /\ SumFunctionOnSet(f, m \ {x}) = f[c] + SumFunctionOnSet(f, r)
  <2> HIDE DEF c, r
  <2> QED BY <1>7, <1>8, <1>9
<1>11. f[c] \in Int /\ f[x] \in Int BY <1>3
<1>12. SumFunctionOnSet(f, r) \in Int
  <2>1. IsFiniteSet(r) BY <1>4, FS_Subset
  <2>2. \A y \in r : f[y] \in Int OBVIOUS
  <2> HIDE DEF r
  <2> QED BY <2>1, <2>2, SumInt
<1> HIDE DEF c, r, Out
<1> QED BY <1>2, <1>5, <1>10, <1>11, <1>12

\* g is f with one argument more.
OneMore(f, g, S, x) ==
  /\ IsFiniteSet(S) /\ x \notin S
  /\ f \in [S -> Int] /\ g \in [S \cup {x} -> Int] /\ \A y \in S : g[y] = f[y]

\* The same with functions summed over their domains: one argument more is one term more.
LEMMA TotalWith ==
  ASSUME NEW f, NEW g, NEW S, NEW x, OneMore(f, g, S, x)
  PROVE  SumFunction(g) = SumFunction(f) + g[x] /\ SumFunction(f) \in Int
<1> USE DEF OneMore
<1> DEFINE T == S \cup {x}
<1>1. DOMAIN f = S /\ DOMAIN g = T /\ T \ {x} = S /\ x \in T OBVIOUS
<1>2. IsFiniteSet(T) BY FS_AddElement
<1>3. \A y \in T : g[y] \in Int OBVIOUS
<1>4. SumFunctionOnSet(f, S) \in Int
  <2>1. \A y \in S : f[y] \in Int OBVIOUS
  <2> QED BY <2>1, SumInt
<1>5. g[x] \in Int BY <1>1, <1>3
<1> HIDE DEF T
<1>6. SumFunctionOnSet(g, T) = g[x] + SumFunctionOnSet(g, S) BY <1>1, <1>2, <1>3, SumOut
<1>7. SumFunctionOnSet(g, S) = SumFunctionOnSet(f, S) BY SumSame
<1> QED BY <1>1, <1>4, <1>5, <1>6, <1>7 DEF SumFunction

\* Nothing sums to nothing.
LEMMA TotalEmpty ==
  ASSUME NEW f, DOMAIN f = {}
  PROVE  SumFunction(f) = 0
BY SumEmpty DEF SumFunction

\* Integers sum to an integer, naturals to a natural.
LEMMA TotalTyped ==
  ASSUME NEW S, IsFiniteSet(S), NEW f
  PROVE  /\ f \in [S -> Int] => SumFunction(f) \in Int
         /\ f \in [S -> Nat] => SumFunction(f) \in Nat
<1>1. ASSUME f \in [S -> Int] PROVE SumFunction(f) \in Int
  <2>1. DOMAIN f = S /\ \A x \in S : f[x] \in Int BY <1>1
  <2> QED BY <2>1, SumInt DEF SumFunction
<1>2. ASSUME f \in [S -> Nat] PROVE SumFunction(f) \in Nat
  <2>1. DOMAIN f = S /\ \A x \in S : f[x] \in Nat BY <1>2
  <2> QED BY <2>1, SumNat DEF SumFunction
<1> QED BY <1>1, <1>2

-----------------------------------------------------------------------------
(* The journals of a record.                                               *)

\* What records post, and whether an entry is one of the record id.
RecordKinds == {"transaction", "revenue", "payment", "accrual", "payout", "outlay"}
Of(e, kind, id) == e.source[1] = kind /\ e.source[2] = id

\* The shape of an entry; only manual journals wait to be posted.
EntryOk(e) ==
  /\ IsEntry(e)
  /\ e.account \in {"income", "expense", "none"} /\ e.amount \in Int /\ e.period \in Periods
  /\ e.status \in {"DRAFT", "APPROVED", "POSTED", "REVERSED", "deleted"}
  /\ e.source[1] # "manual" => e.status \in {"POSTED", "REVERSED"}
  /\ e.byHand \in BOOLEAN /\ {e.maker, e.checker} \subseteq Users \cup {None}
EntriesOk(js) == AreEntries(js) /\ \A j \in DOMAIN js : EntryOk(js[j])

\* The journals js answer for the record id, of which `owed` is due in the books (nothing
\* is when it is 0): none stands but the one that it links to, which is of what is owed
\* unless a user reversed it, and none has a version the record has not had.
Answers(js, acc, kind, id, owed, link, version) ==
  /\ \A j \in DOMAIN js : Of(js[j], kind, id) =>
       /\ js[j].source[3] \in 1 .. version
       /\ js[j].status = "POSTED" => owed # 0 /\ j = link
  /\ link # 0 => link \in DOMAIN js /\ Of(js[link], kind, id)
  /\ owed # 0 /\ acc = "active" => link # 0
  /\ owed # 0 /\ link # 0 =>
       \/ js[link].byHand
       \/ js[link].status = "POSTED" /\ Abs(js[link].amount) = owed

\* ks is js and more, and leaves alone what is of the record id, unless a user reverses it.
SameEntry(e, f) ==
  /\ f.source = e.source /\ f.amount = e.amount
  /\ \/ f.status = e.status /\ f.byHand = e.byHand
     \/ e.status = "POSTED" /\ f.status = "REVERSED" /\ f.byHand = TRUE
Beside(js, ks, kind, id) ==
  /\ \A j \in DOMAIN js : j \in DOMAIN ks /\ ks[j].source = js[j].source
  /\ \A j \in DOMAIN ks : Of(ks[j], kind, id) => j \in DOMAIN js /\ SameEntry(js[j], ks[j])

\* What answered for a record still does after that.
LEMMA BesideAnswers ==
  ASSUME NEW js, NEW ks, NEW acc, NEW acc2, NEW kind, NEW id, NEW owed, NEW link, NEW version,
         Answers(js, acc, kind, id, owed, link, version), Beside(js, ks, kind, id),
         acc2 = "active" => acc = "active"
  PROVE  Answers(ks, acc2, kind, id, owed, link, version)
<1>1. ASSUME NEW j \in DOMAIN ks, Of(ks[j], kind, id)
      PROVE  /\ ks[j].source[3] \in 1 .. version
             /\ ks[j].status = "POSTED" => owed # 0 /\ j = link
  <2>1. j \in DOMAIN js /\ SameEntry(js[j], ks[j]) BY <1>1 DEF Beside
  <2>2. Of(js[j], kind, id) BY <1>1, <2>1 DEF SameEntry, Of
  <2> QED BY <2>1, <2>2 DEF Answers, SameEntry
<1>2. ASSUME link # 0
      PROVE  /\ link \in DOMAIN ks /\ Of(ks[link], kind, id)
             /\ link \in DOMAIN js /\ SameEntry(js[link], ks[link])
  <2>1. link \in DOMAIN js /\ Of(js[link], kind, id) BY <1>2 DEF Answers
  <2>2. link \in DOMAIN ks /\ Of(ks[link], kind, id) BY <2>1 DEF Beside, Of
  <2> QED BY <2>1, <2>2 DEF Beside
<1>3. ASSUME owed # 0, link # 0
      PROVE  \/ ks[link].byHand
             \/ ks[link].status = "POSTED" /\ Abs(ks[link].amount) = owed
  <2>1. \/ js[link].byHand
        \/ js[link].status = "POSTED" /\ Abs(js[link].amount) = owed
    BY <1>3 DEF Answers
  <2> QED BY <1>2, <1>3, <2>1 DEF SameEntry
<1> QED BY <1>1, <1>2, <1>3 DEF Answers

\* Two such steps are one.
LEMMA BesideTwice ==
  ASSUME NEW js, NEW ks, NEW ls, NEW kind, NEW id, Beside(js, ks, kind, id), Beside(ks, ls, kind, id)
  PROVE  Beside(js, ls, kind, id)
<1>1. ASSUME NEW j \in DOMAIN ls, Of(ls[j], kind, id)
      PROVE  j \in DOMAIN js /\ SameEntry(js[j], ls[j])
  <2>1. j \in DOMAIN ks /\ SameEntry(ks[j], ls[j]) BY <1>1 DEF Beside
  <2>2. Of(ks[j], kind, id) BY <1>1, <2>1 DEF SameEntry, Of
  <2>3. j \in DOMAIN js /\ SameEntry(js[j], ks[j]) BY <2>1, <2>2 DEF Beside
  <2> QED BY <2>1, <2>3 DEF SameEntry
<1> QED BY <1>1 DEF Beside

\* An entry appended, which is of another record, or of no record.
LEMMA AppendOk ==
  ASSUME NEW js, EntriesOk(js), NEW e, EntryOk(e)
  PROVE  /\ EntriesOk(Append(js, e))
         /\ \A kind, id : ~Of(e, kind, id) => Beside(js, Append(js, e), kind, id)
<1> DEFINE ks == Append(js, e)
<1>1. AreEntries(js) /\ IsEntry(e) BY DEF EntriesOk, EntryOk
<1>2. /\ AreEntries(ks)
      /\ Len(js) \in Nat /\ DOMAIN js = 1 .. Len(js)
      /\ DOMAIN ks = 1 .. Len(js) + 1
      /\ \A j \in DOMAIN js : ks[j] = js[j]
      /\ ks[Len(js) + 1] = e
  BY <1>1, AppendEntry
<1> HIDE DEF ks
<1>3. \A j \in DOMAIN ks : j \in DOMAIN js \/ j = Len(js) + 1 BY <1>2
<1>4. \A j \in DOMAIN js : j \in DOMAIN ks BY <1>2
<1>5. EntriesOk(ks) BY <1>2, <1>3 DEF EntriesOk
<1>6. ASSUME NEW kind, NEW id, ~Of(e, kind, id) PROVE Beside(js, ks, kind, id)
  BY <1>2, <1>3, <1>4, <1>6 DEF Beside, SameEntry
<1> QED BY <1>5, <1>6 DEF ks

\* So is one that is posted, unless its source was posted before.
LEMMA PostingOk ==
  ASSUME NEW js, EntriesOk(js), NEW e, EntryOk(e)
  PROVE  /\ EntriesOk(PostedOnce(js, e))
         /\ \A kind, id : ~Of(e, kind, id) => Beside(js, PostedOnce(js, e), kind, id)
<1>1. \A kind, id : Beside(js, js, kind, id) BY DEF Beside, SameEntry
<1> QED BY <1>1, AppendOk DEF PostedOnce

\* The next version of a record that has no journal standing is posted, and answers for it.
LEMMA PostingAnswers ==
  ASSUME NEW js, EntriesOk(js), NEW e, EntryOk(e), NEW acc, NEW kind, NEW id, NEW link, NEW version \in Nat,
         Answers(js, acc, kind, id, 0, link, version), e.source = <<kind, id, version + 1>>,
         e.status = "POSTED", NEW owed \in Nat \ {0}, Abs(e.amount) = owed
  PROVE  \E n \in Nat \ {0} :
           /\ From(PostedOnce(js, e), e.source) = {n}
           /\ Answers(PostedOnce(js, e), acc, kind, id, owed, n, version + 1)
<1> DEFINE ks == Append(js, e)
           n == Len(js) + 1
<1>1. AreEntries(js) /\ IsEntry(e) BY DEF EntriesOk, EntryOk
<1>2. /\ Len(js) \in Nat /\ DOMAIN js = 1 .. Len(js)
      /\ DOMAIN ks = 1 .. Len(js) + 1
      /\ \A j \in DOMAIN js : ks[j] = js[j]
      /\ ks[Len(js) + 1] = e
  BY <1>1, AppendEntry
<1>3. ASSUME NEW j \in DOMAIN js PROVE js[j].source # e.source
  <2>1. SUFFICES ASSUME js[j].source = <<kind, id, version + 1>> PROVE FALSE BY <1>3
  <2>2. Of(js[j], kind, id) /\ js[j].source[3] = version + 1 BY <2>1 DEF Of
  <2>3. version + 1 \in 1 .. version BY <2>2 DEF Answers
  <2> QED BY <2>3
<1>4. PostedOnce(js, e) = ks BY <1>3 DEF PostedOnce, From
<1> HIDE DEF ks
<1>5. \A j \in DOMAIN ks : j \in DOMAIN js \/ j = n BY <1>2
<1>6. n \in Nat \ {0} /\ n \in DOMAIN ks /\ n \notin DOMAIN js /\ ks[n] = e BY <1>2
<1>7. From(ks, e.source) = {n} BY <1>2, <1>3, <1>5, <1>6 DEF From
<1> HIDE DEF n
<1>8. Of(ks[n], kind, id) /\ ks[n].source[3] = version + 1 BY <1>6 DEF Of
<1>9. Answers(ks, acc, kind, id, owed, n, version + 1)
  <2>1. ASSUME NEW j \in DOMAIN ks, Of(ks[j], kind, id)
        PROVE  /\ ks[j].source[3] \in 1 .. version + 1
               /\ ks[j].status = "POSTED" => owed # 0 /\ j = n
    <3>1. CASE j \in DOMAIN js
      <4>1. js[j].source[3] \in 1 .. version /\ js[j].status # "POSTED" BY <1>2, <2>1, <3>1 DEF Answers
      <4> QED BY <1>2, <3>1, <4>1
    <3>2. CASE j = n BY <1>8, <3>2
    <3> QED BY <1>5, <3>1, <3>2
  <2> QED BY <1>6, <1>8, <2>1 DEF Answers
<1> QED BY <1>4, <1>6, <1>7, <1>9

\* Then the record links to it.
LEMMA LinkIs ==
  ASSUME NEW js, NEW source, NEW n, From(js, source) = {n}
  PROVE  Link(js, source) = n
BY DEF Link

\* A reversal of a journal that stands.
LEMMA ReversalIs ==
  ASSUME NEW js, EntriesOk(js), NEW j \in DOMAIN js, js[j].status = "POSTED", NEW p \in Periods, NEW byHands \in BOOLEAN
  PROVE  /\ EntriesOk(Reversed(js, j, p, byHands))
         /\ DOMAIN js \subseteq DOMAIN Reversed(js, j, p, byHands)
         /\ \A k \in DOMAIN js : /\ k # j => Reversed(js, j, p, byHands)[k] = js[k]
                                 /\ Reversed(js, j, p, byHands)[k].source = js[k].source
         /\ Reversed(js, j, p, byHands)[j].status = "REVERSED"
         /\ Reversed(js, j, p, byHands)[j].byHand = byHands
         /\ Reversed(js, j, p, byHands)[j].amount = js[j].amount
         /\ \A k \in DOMAIN Reversed(js, j, p, byHands) \ DOMAIN js :
              Reversed(js, j, p, byHands)[k].source[1] = "reversal"
<1> DEFINE r == [js[j] EXCEPT !.status = "REVERSED", !.byHand = byHands]
           ks == [js EXCEPT ![j].status = "REVERSED", ![j].byHand = byHands]
           e == Entry(<<"reversal", j, 0>>, js[j].account, 0 - js[j].amount, p)
           ls == Append(ks, e)
<1>1. AreEntries(js) /\ EntryOk(js[j]) /\ IsEntry(js[j]) BY DEF EntriesOk, EntryOk
<1>2. EntryOk(e) /\ IsEntry(e) /\ e.source[1] = "reversal"
  BY <1>1 DEF Entry, EntryOk, IsEntry
<1>3. ks = [js EXCEPT ![j] = r] BY <1>1 DEF AreEntries
<1>4. PICK so, ac, am, pe, st, bh, ma, ch, se :
        js[j] = [source |-> so, account |-> ac, amount |-> am, period |-> pe, status |-> st,
                 byHand |-> bh, maker |-> ma, checker |-> ch, seen |-> se]
  BY <1>1 DEF IsEntry
<1>5. r = [source |-> so, account |-> ac, amount |-> am, period |-> pe, status |-> "REVERSED",
           byHand |-> byHands, maker |-> ma, checker |-> ch, seen |-> se]
  <2> DEFINE x == js[j]
  <2>1. x = [source |-> so, account |-> ac, amount |-> am, period |-> pe, status |-> st,
             byHand |-> bh, maker |-> ma, checker |-> ch, seen |-> se] BY <1>4
  <2>2. r = [x EXCEPT !.status = "REVERSED", !.byHand = byHands] OBVIOUS
  <2> HIDE DEF x, r
  <2> QED BY <2>1, <2>2
<1>6. IsEntry(r) /\ EntryOk(r) /\ r.source = js[j].source /\ r.amount = js[j].amount
      /\ r.status = "REVERSED" /\ r.byHand = byHands
  <2>1. r.source = so /\ r.account = ac /\ r.amount = am /\ r.period = pe /\ r.status = "REVERSED"
        /\ r.byHand = byHands /\ r.maker = ma /\ r.checker = ch /\ r.seen = se BY <1>5
  <2>2. js[j].source = so /\ js[j].account = ac /\ js[j].amount = am /\ js[j].period = pe
        /\ js[j].maker = ma /\ js[j].checker = ch BY <1>4
  <2> HIDE DEF r
  <2>3. IsEntry(r) BY <1>5, <2>1 DEF IsEntry
  <2> QED BY <1>1, <2>1, <2>2, <2>3 DEF EntryOk
<1> HIDE DEF r, ks, e
<1>7. /\ AreEntries(ks) /\ DOMAIN ks = DOMAIN js
      /\ \A k \in DOMAIN js : ks[k] = IF k = j THEN r ELSE js[k]
  BY <1>1, <1>3, <1>6, ChangeEntry
<1>8. EntriesOk(ks) BY <1>6, <1>7 DEF EntriesOk
<1>9. EntriesOk(ls) BY <1>2, <1>8, AppendOk
<1>10. /\ DOMAIN ks = 1 .. Len(ks) /\ Len(ks) \in Nat
       /\ DOMAIN ls = 1 .. Len(ks) + 1
       /\ \A k \in DOMAIN ks : ls[k] = ks[k]
       /\ ls[Len(ks) + 1] = e
  BY <1>2, <1>7, AppendEntry
<1> HIDE DEF ls
<1>11. \A k \in DOMAIN ls \ DOMAIN js : ls[k] = e BY <1>7, <1>10
<1>12. Reversed(js, j, p, byHands) = ls BY DEF Reversed, ls, ks, e
<1>13. DOMAIN js \subseteq DOMAIN ls BY <1>7, <1>10
<1>14. \A k \in DOMAIN js : /\ k # j => ls[k] = js[k]
                            /\ ls[k].source = js[k].source
  BY <1>6, <1>7, <1>10
<1>15. ls[j] = r BY <1>7, <1>10
<1> QED BY <1>2, <1>6, <1>9, <1>11, <1>12, <1>13, <1>14, <1>15

\* A reversal is beside every other record, and beside them all when a user asked for it.
LEMMA ReversalBeside ==
  ASSUME NEW js, EntriesOk(js), NEW j \in DOMAIN js, js[j].status = "POSTED", NEW p \in Periods,
         NEW byHands \in BOOLEAN, NEW kind \in RecordKinds, NEW id, byHands = TRUE \/ ~Of(js[j], kind, id)
  PROVE  Beside(js, Reversed(js, j, p, byHands), kind, id)
<1> DEFINE ks == Reversed(js, j, p, byHands)
<1>1. /\ DOMAIN js \subseteq DOMAIN ks
      /\ \A k \in DOMAIN js : (k # j => ks[k] = js[k]) /\ ks[k].source = js[k].source
      /\ ks[j].status = "REVERSED" /\ ks[j].byHand = byHands /\ ks[j].amount = js[j].amount
      /\ \A k \in DOMAIN ks \ DOMAIN js : ks[k].source[1] = "reversal"
  BY ReversalIs
<1> HIDE DEF ks
<1>2. ASSUME NEW k \in DOMAIN ks, Of(ks[k], kind, id)
      PROVE  k \in DOMAIN js /\ SameEntry(js[k], ks[k])
  <2>1. k \in DOMAIN js BY <1>1, <1>2 DEF Of, RecordKinds
  <2>2. CASE k = j
    <3>1. Of(js[j], kind, id) BY <1>1, <1>2, <2>1, <2>2 DEF Of
    <3> QED BY <1>1, <2>2, <3>1 DEF SameEntry
  <2>3. CASE k # j BY <1>1, <2>1, <2>3 DEF SameEntry
  <2> QED BY <2>1, <2>2, <2>3
<1>3. Beside(js, ks, kind, id) BY <1>1, <1>2 DEF Beside
<1> QED BY <1>3 DEF ks

\* The journals after `old`, if it still stands, is reversed by a record's own change.
Withdrawn(js, old, p) ==
  IF old # 0 /\ js[old].status = "POSTED" THEN Reversed(js, old, p, FALSE) ELSE js

\* That is beside every other record.
LEMMA WithdrawnOk ==
  ASSUME NEW js, EntriesOk(js), NEW old, old # 0 => old \in DOMAIN js, NEW p \in Periods
  PROVE  /\ EntriesOk(Withdrawn(js, old, p))
         /\ \A kind \in RecordKinds : \A id :
              (old # 0 => ~Of(js[old], kind, id)) => Beside(js, Withdrawn(js, old, p), kind, id)
<1>1. CASE old # 0 /\ js[old].status = "POSTED"
  <2>1. Withdrawn(js, old, p) = Reversed(js, old, p, FALSE) BY <1>1 DEF Withdrawn
  <2>2. EntriesOk(Reversed(js, old, p, FALSE)) BY <1>1, ReversalIs
  <2>3. ASSUME NEW kind \in RecordKinds, NEW id, ~Of(js[old], kind, id)
        PROVE  Beside(js, Reversed(js, old, p, FALSE), kind, id)
    BY <1>1, <2>3, ReversalBeside
  <2> QED BY <1>1, <2>1, <2>2, <2>3
<1>2. CASE ~(old # 0 /\ js[old].status = "POSTED")
  <2>1. Withdrawn(js, old, p) = js BY <1>2 DEF Withdrawn
  <2>2. \A kind, id : Beside(js, js, kind, id) BY DEF Beside, SameEntry
  <2> QED BY <2>1, <2>2
<1> QED BY <1>1, <1>2

\* A record whose journal is withdrawn has none that stands.
LEMMA WithdrawnAnswers ==
  ASSUME NEW js, EntriesOk(js), NEW p \in Periods, NEW acc, NEW kind \in RecordKinds, NEW id,
         NEW owed, NEW link, NEW version, Answers(js, acc, kind, id, owed, link, version)
  PROVE  /\ Answers(Withdrawn(js, link, p), acc, kind, id, 0, link, version)
         /\ Answers(Withdrawn(js, link, p), acc, kind, id, 0, 0, version)
<1>1. CASE link # 0 /\ js[link].status = "POSTED"
  <2> DEFINE ks == Reversed(js, link, p, FALSE)
  <2>1. link \in DOMAIN js /\ Of(js[link], kind, id) BY <1>1 DEF Answers
  <2>2. /\ DOMAIN js \subseteq DOMAIN ks
        /\ \A k \in DOMAIN js : (k # link => ks[k] = js[k]) /\ ks[k].source = js[k].source
        /\ ks[link].status = "REVERSED"
        /\ \A k \in DOMAIN ks \ DOMAIN js : ks[k].source[1] = "reversal"
    <3> DEFINE b == FALSE
               l == link
    <3>1. l \in DOMAIN js /\ js[l].status = "POSTED" /\ b \in BOOLEAN BY <1>1, <2>1
    <3> HIDE DEF b, l
    <3>2. /\ DOMAIN js \subseteq DOMAIN Reversed(js, l, p, b)
          /\ \A k \in DOMAIN js : /\ k # l => Reversed(js, l, p, b)[k] = js[k]
                                  /\ Reversed(js, l, p, b)[k].source = js[k].source
          /\ Reversed(js, l, p, b)[l].status = "REVERSED"
          /\ \A k \in DOMAIN Reversed(js, l, p, b) \ DOMAIN js :
               Reversed(js, l, p, b)[k].source[1] = "reversal"
      BY <3>1, ReversalIs
    <3> QED BY <3>2 DEF b, l
  <2>3. Withdrawn(js, link, p) = ks BY <1>1 DEF Withdrawn
  <2> HIDE DEF ks
  <2>4. ASSUME NEW j \in DOMAIN ks, Of(ks[j], kind, id)
        PROVE  ks[j].source[3] \in 1 .. version /\ ks[j].status # "POSTED"
    <3>1. j \in DOMAIN js BY <2>2, <2>4 DEF Of, RecordKinds
    <3>2. Of(js[j], kind, id) BY <2>2, <2>4, <3>1 DEF Of
    <3>3. CASE j = link BY <2>2, <3>1, <3>2, <3>3 DEF Answers
    <3>4. CASE j # link BY <2>2, <3>1, <3>2, <3>4 DEF Answers
    <3> QED BY <3>3, <3>4
  <2>5. link \in DOMAIN ks /\ Of(ks[link], kind, id) BY <2>1, <2>2 DEF Of
  <2> QED BY <2>3, <2>4, <2>5 DEF Answers
<1>2. CASE ~(link # 0 /\ js[link].status = "POSTED")
  <2>1. Withdrawn(js, link, p) = js BY <1>2 DEF Withdrawn
  <2>2. AreEntries(js) BY DEF EntriesOk
  <2>3. 0 \notin DOMAIN js BY <2>2 DEF AreEntries
  <2>4. ASSUME NEW j \in DOMAIN js, Of(js[j], kind, id) PROVE js[j].status # "POSTED"
    BY <1>2, <2>3, <2>4 DEF Answers
  <2>5. Answers(js, acc, kind, id, 0, link, version) /\ Answers(js, acc, kind, id, 0, 0, version)
    BY <2>4 DEF Answers
  <2> QED BY <2>1, <2>5
<1> QED BY <1>1, <1>2

\* Nothing stands for a record that links to none, whatever is owed while the accounting is
\* not active.
LEMMA UnlinkedAnswers ==
  ASSUME NEW js, EntriesOk(js), NEW acc, NEW kind, NEW id, NEW owed, NEW version,
         Answers(js, acc, kind, id, owed, 0, version), NEW owed2, acc = "active" => owed2 = 0
  PROVE  Answers(js, acc, kind, id, owed2, 0, version)
<1>1. AreEntries(js) BY DEF EntriesOk
<1>2. 0 \notin DOMAIN js BY <1>1 DEF AreEntries
<1> QED BY <1>2 DEF Answers

-----------------------------------------------------------------------------
(* The transaction of a record.                                            *)

\* What a transaction makes of the journals.
LEMMA BookedIs ==
  ASSUME NEW old, NEW e, NEW f
  PROVE  /\ Booked(old, <<>>) = Withdrawn(journals, old, today)
         /\ Booked(old, <<e>>) = PostedOnce(Withdrawn(journals, old, today), e)
         /\ Booked(old, <<e, f>>) = PostedOnce(PostedOnce(Withdrawn(journals, old, today), e), f)
BY DEF Booked, PostedAll, Withdrawn, Stands

\* Every record but some is left alone.
Others(records2) ==
  \A kind \in RecordKinds : \A id :
    <<kind, id>> \notin records2 => Beside(journals, journals', kind, id)

\* A record's own transaction: it reverses the journal it had and posts another, or not.
\* Nothing stands for it then, or what it posts.
LEMMA OneRecord ==
  ASSUME EntriesOk(journals), today \in Periods, NEW kind \in RecordKinds, NEW id,
         NEW owed, NEW link, NEW version \in Nat,
         Answers(journals, accounting, kind, id, owed, link, version),
         NEW old, old = link \/ (old = 0 /\ owed = 0), NEW v, NEW docs
  PROVE  /\ Book(v, old, <<>>, docs) =>
              /\ EntriesOk(journals') /\ Others({<<kind, id>>})
              /\ Answers(journals', accounting', kind, id, 0, link, version)
              /\ Answers(journals', accounting', kind, id, 0, 0, version)
         /\ \A e : \A owed2 \in Nat \ {0} :
              /\ EntryOk(e) /\ e.source = <<kind, id, version + 1>> /\ e.status = "POSTED"
              /\ Abs(e.amount) = owed2 /\ Book(v, old, <<e>>, docs)
              => /\ EntriesOk(journals') /\ Others({<<kind, id>>})
                 /\ Answers(journals', accounting', kind, id, owed2,
                            Link(Booked(old, <<e>>), e.source), version + 1)
<1> DEFINE ws == Withdrawn(journals, old, today)
<1>1. old # 0 => old \in DOMAIN journals /\ Of(journals[old], kind, id) BY DEF Answers
<1>2. /\ EntriesOk(ws)
      /\ \A k \in RecordKinds : \A i : <<k, i>> # <<kind, id>> => Beside(journals, ws, k, i)
  <2>1. EntriesOk(ws) BY <1>1, WithdrawnOk
  <2>2. ASSUME NEW k \in RecordKinds, NEW i, <<k, i>> # <<kind, id>> PROVE Beside(journals, ws, k, i)
    <3>1. old # 0 => ~Of(journals[old], k, i) BY <1>1, <2>2 DEF Of
    <3> QED BY <1>1, <3>1, WithdrawnOk
  <2> QED BY <2>1, <2>2
<1>3. /\ Answers(ws, accounting, kind, id, 0, link, version)
      /\ Answers(ws, accounting, kind, id, 0, 0, version)
  <2>1. CASE old = link BY <2>1, WithdrawnAnswers
  <2>2. CASE old = 0 /\ owed = 0
    <3>1. ws = journals BY <2>2 DEF Withdrawn
    <3> HIDE DEF ws
    <3>2. Answers(ws, accounting, kind, id, 0, link, version) BY <2>2, <3>1
    <3>3. Answers(ws, accounting, kind, id, 0, 0, version) BY <3>2 DEF Answers
    <3> QED BY <3>2, <3>3
  <2> QED BY <2>1, <2>2
<1> HIDE DEF ws
<1>4. ASSUME Book(v, old, <<>>, docs)
      PROVE  /\ EntriesOk(journals') /\ Others({<<kind, id>>})
             /\ Answers(journals', accounting', kind, id, 0, link, version)
             /\ Answers(journals', accounting', kind, id, 0, 0, version)
  <2>1. journals' = ws /\ accounting' = accounting BY <1>4, BookedIs DEF Book, ws
  <2> QED BY <1>2, <1>3, <2>1 DEF Others
<1>5. ASSUME NEW e, NEW owed2 \in Nat \ {0}, EntryOk(e), e.source = <<kind, id, version + 1>>,
             e.status = "POSTED", Abs(e.amount) = owed2, Book(v, old, <<e>>, docs)
      PROVE  /\ EntriesOk(journals') /\ Others({<<kind, id>>})
             /\ Answers(journals', accounting', kind, id, owed2,
                        Link(Booked(old, <<e>>), e.source), version + 1)
  <2> DEFINE ks == PostedOnce(ws, e)
  <2>1. journals' = ks /\ Booked(old, <<e>>) = ks /\ accounting' = accounting
    BY <1>5, BookedIs DEF Book, ws
  <2>2. /\ EntriesOk(ks)
        /\ \A k, i : ~Of(e, k, i) => Beside(ws, ks, k, i)
    BY <1>2, <1>5, PostingOk
  <2>3. PICK n \in Nat \ {0} : /\ From(ks, e.source) = {n}
                               /\ Answers(ks, accounting, kind, id, owed2, n, version + 1)
    BY <1>2, <1>3, <1>5, PostingAnswers
  <2> HIDE DEF ks
  <2>4. Link(ks, e.source) = n BY <2>3, LinkIs
  <2>5. ASSUME NEW k \in RecordKinds, NEW i, <<k, i>> # <<kind, id>> PROVE Beside(journals, ks, k, i)
    <3>1. ~Of(e, k, i) BY <1>5, <2>5 DEF Of
    <3> QED BY <1>2, <2>2, <2>5, <3>1, BesideTwice
  <2> QED BY <2>1, <2>2, <2>3, <2>4, <2>5 DEF Others
<1> QED BY <1>4, <1>5

\* The record id, alone, comes to be due for `owed` in the books, and links to `link`.
Settles(kind, id, owed, link, version) ==
  /\ EntriesOk(journals') /\ Others({<<kind, id>>})
  /\ Answers(journals', accounting', kind, id, owed, link, version)

\* What a transaction that began before the accounting was ready can tell.
SlowSays == slow # None => (accounting = "active" => slow.accounting = "active")

\* Who finds the accounting not ready is right that it is not active.
LEMMA NotReady ==
  ASSUME SlowSays, NEW v \in Views, ~Ready(v)
  PROVE  accounting # "active"
<1>1. CASE v = Here
  <2>1. Here.accounting = accounting BY DEF Here
  <2> QED BY <1>1, <2>1 DEF Ready
<1>2. CASE v = slow /\ slow # None BY <1>2 DEF Ready, SlowSays
<1> QED BY <1>1, <1>2 DEF Views

\* A transaction that touches no journal leaves every record as it was.
LEMMA BooksUntouched ==
  ASSUME EntriesOk(journals), NEW v, NEW docs, Book(v, 0, <<>>, docs)
  PROVE  /\ journals' = journals /\ accounting' = accounting
         /\ EntriesOk(journals') /\ \A records2 : Others(records2)
<1>1. journals' = journals /\ accounting' = accounting BY BookedIs DEF Book, Withdrawn
<1>2. \A kind, id : Beside(journals, journals, kind, id) BY DEF Beside, SameEntry
<1> QED BY <1>1, <1>2 DEF Others

\* An entry that a record posts.
LEMMA PostingEntry ==
  ASSUME NEW kind \in RecordKinds, NEW id, NEW r, r.amount \in Nat \ {0}, r.period \in Periods,
         NEW account \in {"income", "expense"}
  PROVE  /\ EntryOk(Posting(kind, id, r, account))
         /\ Posting(kind, id, r, account).source = <<kind, id, r.version + 1>>
         /\ Posting(kind, id, r, account).status = "POSTED"
         /\ Abs(Posting(kind, id, r, account).amount) = r.amount
<1> DEFINE a == IF account = "expense" THEN 0 - r.amount ELSE r.amount
           s == <<kind, id, r.version + 1>>
           e == Entry(s, account, a, r.period)
<1>1. Posting(kind, id, r, account) = e BY DEF Posting, NextVersion
<1>2. a \in Int /\ Abs(a) = r.amount BY DEF Abs
<1>3. s[1] = kind OBVIOUS
<1> HIDE DEF a, s
<1>4. EntryOk(e) BY <1>2, <1>3 DEF EntryOk, IsEntry, Entry, RecordKinds
<1>5. e.source = s /\ e.status = "POSTED" /\ e.amount = a BY DEF Entry
<1> QED BY <1>1, <1>2, <1>4, <1>5 DEF s

\* And what is posted besides.
LEMMA ReceiptEntry ==
  ASSUME NEW kind \in RecordKinds, NEW id, NEW a \in Nat \ {0}, NEW p \in Periods
  PROVE  /\ EntryOk(Entry(<<kind, id, 1>>, "none", a, p))
         /\ Entry(<<kind, id, 1>>, "none", a, p).source = <<kind, id, 1>>
         /\ Entry(<<kind, id, 1>>, "none", a, p).status = "POSTED"
         /\ Abs(Entry(<<kind, id, 1>>, "none", a, p).amount) = a
<1> DEFINE s == <<kind, id, 1>>
           e == Entry(s, "none", a, p)
<1>1. s[1] = kind /\ Abs(a) = a BY DEF Abs
<1> HIDE DEF s
<1>2. EntryOk(e) BY <1>1 DEF EntryOk, IsEntry, Entry, RecordKinds
<1>3. e.source = s /\ e.status = "POSTED" /\ e.amount = a BY DEF Entry
<1> QED BY <1>1, <1>2, <1>3 DEF s

\* A record that posts under a condition, and withdraws the journal that it had: if it is
\* due afterwards then it has posted, or was never in books that were not ready.
LEMMA Revises ==
  ASSUME EntriesOk(journals), today \in Periods, SlowSays, NEW v \in Views,
         NEW kind \in RecordKinds, NEW id, NEW owed, NEW link, NEW version \in Nat,
         Answers(journals, accounting, kind, id, owed, link, version),
         NEW old, old = link \/ (old = 0 /\ owed = 0),
         NEW r, r.amount \in Nat \ {0}, r.period \in Periods, r.version = version, r.journal \in {0, link},
         NEW account \in {"income", "expense"}, NEW posts, NEW due,
         posts => due, due /\ ~posts => ~Ready(v) /\ r.journal = 0,
         NEW news, news = IF posts THEN <<Posting(kind, id, r, account)>> ELSE <<>>,
         NEW docs, Book(v, old, news, docs)
  PROVE  IF posts THEN Settles(kind, id, r.amount, Link(Booked(old, news), news[1].source), version + 1)
                  ELSE Settles(kind, id, IF due THEN r.amount ELSE 0, r.journal, version)
<1> DEFINE e == Posting(kind, id, r, account)
<1>1. CASE posts
  <2>1. /\ EntryOk(e) /\ e.source = <<kind, id, version + 1>> /\ e.status = "POSTED" /\ Abs(e.amount) = r.amount
    BY PostingEntry
  <2>2. news = <<e>> BY <1>1
  <2> HIDE DEF e
  <2>3. Book(v, old, <<e>>, docs)
    BY <2>2, Zenon
  <2>4. news[1] = e
    <3>1. <<e>>[1] = e OBVIOUS
    <3> QED BY <2>2, <3>1, Zenon
  <2>5. \A x : \A owed2 \in Nat \ {0} :
              /\ EntryOk(x) /\ x.source = <<kind, id, version + 1>> /\ x.status = "POSTED"
              /\ Abs(x.amount) = owed2 /\ Book(v, old, <<x>>, docs)
              => /\ EntriesOk(journals') /\ Others({<<kind, id>>})
                 /\ Answers(journals', accounting', kind, id, owed2,
                            Link(Booked(old, <<x>>), x.source), version + 1)
    BY OneRecord
  <2>6. /\ EntriesOk(journals') /\ Others({<<kind, id>>})
        /\ Answers(journals', accounting', kind, id, r.amount, Link(Booked(old, <<e>>), e.source), version + 1)
    BY <2>1, <2>3, <2>5
  <2> QED BY <1>1, <2>2, <2>4, <2>6 DEF Settles
<1>2. CASE ~posts
  <2>1. Book(v, old, <<>>, docs) BY <1>2
  <2>2. /\ EntriesOk(journals') /\ Others({<<kind, id>>})
        /\ Answers(journals', accounting', kind, id, 0, link, version)
        /\ Answers(journals', accounting', kind, id, 0, 0, version)
    BY <2>1, OneRecord
  <2>3. CASE ~due BY <1>2, <2>2, <2>3 DEF Settles
  <2>4. CASE due
    <3>1. accounting' # "active" /\ r.journal = 0 BY <1>2, <2>4, NotReady DEF Book
    <3>2. Answers(journals', accounting', kind, id, r.amount, 0, version)
      BY <2>2, <3>1 DEF Answers, EntriesOk, AreEntries
    <3> QED BY <1>2, <2>2, <2>4, <3>1, <3>2 DEF Settles
  <2> QED BY <2>3, <2>4
<1> QED BY <1>1, <1>2

\* An entry of the next version of a record, of which `due` is due.
Fresh(e, kind, id, version, due) ==
  /\ EntryOk(e) /\ e.source = <<kind, id, version + 1>> /\ e.status = "POSTED"
  /\ due \in Nat \ {0} /\ Abs(e.amount) = due /\ kind \in RecordKinds /\ version \in Nat

\* A transaction that posts for two records, neither of which is in the books.
LEMMA TwoRecords ==
  ASSUME EntriesOk(journals), NEW v, NEW docs,
         NEW kind1, NEW id1, NEW owed1, NEW version1, NEW kind2, NEW id2, NEW version2, kind1 # kind2,
         Answers(journals, accounting, kind1, id1, owed1, 0, version1),
         Answers(journals, accounting, kind2, id2, 0, 0, version2),
         NEW e, NEW due1, Fresh(e, kind1, id1, version1, due1),
         NEW f, NEW due2, Fresh(f, kind2, id2, version2, due2),
         Book(v, 0, <<e, f>>, docs)
  PROVE  /\ EntriesOk(journals') /\ Others({<<kind1, id1>>, <<kind2, id2>>})
         /\ Answers(journals', accounting', kind1, id1, due1, Link(Booked(0, <<e>>), e.source), version1 + 1)
         /\ Answers(journals', accounting', kind2, id2, due2, Link(Booked(0, <<e, f>>), f.source), version2 + 1)
<1>0. /\ kind1 \in RecordKinds /\ version1 \in Nat /\ due1 \in Nat \ {0} /\ EntryOk(e) /\ Abs(e.amount) = due1
      /\ e.source = <<kind1, id1, version1 + 1>> /\ e.status = "POSTED"
      /\ kind2 \in RecordKinds /\ version2 \in Nat /\ due2 \in Nat \ {0} /\ EntryOk(f) /\ Abs(f.amount) = due2
      /\ f.source = <<kind2, id2, version2 + 1>> /\ f.status = "POSTED"
  BY DEF Fresh
<1> DEFINE js == PostedOnce(journals, e)
           ks == PostedOnce(js, f)
<1>1. Withdrawn(journals, 0, today) = journals BY DEF Withdrawn
<1>2. Booked(0, <<e>>) = js /\ Booked(0, <<e, f>>) = ks /\ journals' = ks /\ accounting' = accounting
  BY <1>1, BookedIs DEF Book
<1>3. EntriesOk(js) /\ \A k, i : ~Of(e, k, i) => Beside(journals, js, k, i) BY <1>0, PostingOk
<1>4. Answers(journals, accounting, kind1, id1, 0, 0, version1)
  BY DEF Answers, EntriesOk, AreEntries
<1>5. PICK n \in Nat \ {0} : /\ From(js, e.source) = {n}
                             /\ Answers(js, accounting, kind1, id1, due1, n, version1 + 1)
  BY <1>0, <1>4, PostingAnswers
<1> HIDE DEF js
<1>6. EntriesOk(ks) /\ \A k, i : ~Of(f, k, i) => Beside(js, ks, k, i) BY <1>0, <1>3, PostingOk
<1>7. ~Of(e, kind2, id2) /\ ~Of(f, kind1, id1) BY <1>0 DEF Of
<1>8. Answers(js, accounting, kind2, id2, 0, 0, version2) BY <1>3, <1>7, BesideAnswers
<1>9. PICK m \in Nat \ {0} : /\ From(ks, f.source) = {m}
                             /\ Answers(ks, accounting, kind2, id2, due2, m, version2 + 1)
  BY <1>0, <1>3, <1>8, PostingAnswers
<1> HIDE DEF ks
<1>10. Answers(ks, accounting, kind1, id1, due1, n, version1 + 1) BY <1>5, <1>6, <1>7, BesideAnswers
<1>11. Link(js, e.source) = n /\ Link(ks, f.source) = m BY <1>5, <1>9, LinkIs
<1>12. ASSUME NEW k \in RecordKinds, NEW i, <<k, i>> \notin {<<kind1, id1>>, <<kind2, id2>>}
       PROVE  Beside(journals, ks, k, i)
  <2>1. ~Of(e, k, i) /\ ~Of(f, k, i) BY <1>0, <1>12 DEF Of
  <2> QED BY <1>3, <1>6, <2>1, BesideTwice
<1> QED BY <1>2, <1>6, <1>9, <1>10, <1>11, <1>12 DEF Others

-----------------------------------------------------------------------------
(* What the records say of themselves, and what the books say of them.     *)

TransactionRecord ==
  [status : {"none", "pending", "paid", "cancelled", "voided", "deleted"}, amount : Nat, period : Periods,
   version : Nat, journal : Nat]
InvoiceRecord ==
  [status : {"none", "draft", "sent", "partial", "paid", "overdue", "cancelled", "archived"},
   amount : Nat, period : Periods, version : Nat, journal : Nat, paid : Nat, payments : SUBSET Nat]
PaymentRecord ==
  [key : Keys, invoice : Invoices, amount : Nat \ {0}, status : {"paid", "voided"}, journal : Nat]
CommissionRecord ==
  [status : {"none", "pending", "approved", "paid", "cancelled", "archived"}, amount : Nat, period : Periods,
   version : Nat, journal : Nat, payout : Nat]
OutlayRecord ==
  [purchase : Purchases \cup {None}, status : {"none", "paid", "voided"}, amount : Nat, period : Periods,
   version : Nat, journal : Nat]

\* A record that was made is of an amount; before that it has no journal.
Made(r) == IF r.status = "none" THEN r.journal = 0 ELSE r.amount # 0

\* What is due of each in the books.
TransactionBook(js, acc, t, r) ==
  Answers(js, acc, "transaction", t, IF r.status = "paid" THEN r.amount ELSE 0, r.journal, r.version)
InvoiceBook(js, acc, i, r) ==
  Answers(js, acc, "revenue", i, IF r.status \notin Unrecognized THEN r.amount ELSE 0, r.journal, r.version)
PaymentBook(js, acc, n, r) ==
  Answers(js, acc, "payment", n, IF r.status = "paid" THEN r.amount ELSE 0, r.journal, 1)
AccrualBook(js, acc, c, r) ==
  Answers(js, acc, "accrual", c, IF r.status \in {"approved", "paid"} THEN r.amount ELSE 0, r.journal, r.version)
PayoutBook(js, acc, c, r) ==
  Answers(js, acc, "payout", c, IF r.status = "paid" THEN r.amount ELSE 0, r.payout,
          IF r.status = "paid" THEN 1 ELSE 0)
OutlayBook(js, acc, k, r) ==
  Answers(js, acc, "outlay", k, IF r.status = "paid" THEN r.amount ELSE 0, r.journal, r.version)

TransactionsOk ==
  /\ transaction \in [Transactions -> TransactionRecord]
  /\ \A t \in Transactions :
       Made(transaction[t]) /\ TransactionBook(journals, accounting, t, transaction[t])
InvoicesOk ==
  /\ invoice \in [Invoices -> InvoiceRecord]
  /\ \A i \in Invoices : Made(invoice[i]) /\ InvoiceBook(journals, accounting, i, invoice[i])
PaymentsOk ==
  /\ payment \in Seq(PaymentRecord)
  /\ \A n \in DOMAIN payment : PaymentBook(journals, accounting, n, payment[n])
  /\ \A n \in Nat \ {0} : n > Len(payment) => Answers(journals, accounting, "payment", n, 0, 0, 0)
CommissionsOk ==
  /\ commission \in [Commissions -> CommissionRecord]
  /\ \A c \in Commissions :
       /\ Made(commission[c]) /\ AccrualBook(journals, accounting, c, commission[c])
       /\ PayoutBook(journals, accounting, c, commission[c])
       /\ commission[c].status # "paid" => commission[c].payout = 0
OutlaysOk ==
  /\ outlay \in [Keys -> OutlayRecord]
  /\ \A k \in Keys : Made(outlay[k]) /\ OutlayBook(journals, accounting, k, outlay[k])

\* Nothing makes automatic posting active again.
Calm == accounting' = "active" => accounting = "active"

\* What a step does not write, and what is not of the records it writes, is kept.
LEMMA TransactionsKept ==
  ASSUME TransactionsOk, UNCHANGED transaction, Calm, NEW S, Others(S),
         \A t \in Transactions : <<"transaction", t>> \notin S
  PROVE  TransactionsOk'
<1>1. ASSUME NEW t \in Transactions PROVE TransactionBook(journals', accounting', t, transaction'[t])
  <2>1. "transaction" \in RecordKinds BY DEF RecordKinds
  <2>2. Beside(journals, journals', "transaction", t) BY <2>1 DEF Others
  <2>3. TransactionBook(journals, accounting, t, transaction[t]) BY DEF TransactionsOk
  <2>4. TransactionBook(journals', accounting', t, transaction[t])
    BY <2>2, <2>3, BesideAnswers DEF TransactionBook, Calm
  <2> QED BY <2>4
<1> QED BY <1>1 DEF TransactionsOk

\* Invoices.
LEMMA InvoicesKept ==
  ASSUME InvoicesOk, UNCHANGED invoice, Calm, NEW S, Others(S),
         \A i \in Invoices : <<"revenue", i>> \notin S
  PROVE  InvoicesOk'
<1>1. ASSUME NEW i \in Invoices PROVE InvoiceBook(journals', accounting', i, invoice'[i])
  <2>1. "revenue" \in RecordKinds BY DEF RecordKinds
  <2>2. Beside(journals, journals', "revenue", i) BY <2>1 DEF Others
  <2>3. InvoiceBook(journals, accounting, i, invoice[i]) BY DEF InvoicesOk
  <2>4. InvoiceBook(journals', accounting', i, invoice[i])
    BY <2>2, <2>3, BesideAnswers DEF InvoiceBook, Calm
  <2> QED BY <2>4
<1> QED BY <1>1 DEF InvoicesOk

\* Payments.
LEMMA PaymentsKept ==
  ASSUME PaymentsOk, UNCHANGED payment, Calm, NEW S, Others(S),
         \A n \in Nat \ {0} : <<"payment", n>> \notin S
  PROVE  PaymentsOk'
<1>1. "payment" \in RecordKinds BY DEF RecordKinds
<1>2. \A n \in Nat \ {0} : Beside(journals, journals', "payment", n) BY <1>1 DEF Others
<1>3. DOMAIN payment \subseteq Nat \ {0} BY DEF PaymentsOk
<1>4. ASSUME NEW n \in DOMAIN payment PROVE PaymentBook(journals', accounting', n, payment'[n])
  <2>1. PaymentBook(journals, accounting, n, payment[n]) BY DEF PaymentsOk
  <2>2. PaymentBook(journals', accounting', n, payment[n])
    BY <1>2, <1>3, <2>1, BesideAnswers DEF PaymentBook, Calm
  <2> QED BY <2>2
<1>5. ASSUME NEW n \in Nat \ {0}, n > Len(payment)
      PROVE  Answers(journals', accounting', "payment", n, 0, 0, 0)
  <2>1. Answers(journals, accounting, "payment", n, 0, 0, 0) BY <1>5 DEF PaymentsOk
  <2> QED BY <1>2, <2>1, BesideAnswers DEF Calm
<1> QED BY <1>4, <1>5 DEF PaymentsOk

\* Commissions.
LEMMA CommissionsKept ==
  ASSUME CommissionsOk, UNCHANGED commission, Calm, NEW S, Others(S),
         \A c \in Commissions : <<"accrual", c>> \notin S /\ <<"payout", c>> \notin S
  PROVE  CommissionsOk'
<1>1. ASSUME NEW c \in Commissions
      PROVE  /\ AccrualBook(journals', accounting', c, commission'[c])
             /\ PayoutBook(journals', accounting', c, commission'[c])
  <2>1. "accrual" \in RecordKinds /\ "payout" \in RecordKinds BY DEF RecordKinds
  <2>2. Beside(journals, journals', "accrual", c) /\ Beside(journals, journals', "payout", c)
    BY <2>1 DEF Others
  <2>3. AccrualBook(journals, accounting, c, commission[c]) /\ PayoutBook(journals, accounting, c, commission[c])
    BY DEF CommissionsOk
  <2>4. AccrualBook(journals', accounting', c, commission[c])
    BY <2>2, <2>3, BesideAnswers DEF AccrualBook, Calm
  <2>5. PayoutBook(journals', accounting', c, commission[c])
    BY <2>2, <2>3, BesideAnswers DEF PayoutBook, Calm
  <2> QED BY <2>4, <2>5
<1> QED BY <1>1 DEF CommissionsOk

\* Payments of purchases.
LEMMA OutlaysKept ==
  ASSUME OutlaysOk, UNCHANGED outlay, Calm, NEW S, Others(S),
         \A k \in Keys : <<"outlay", k>> \notin S
  PROVE  OutlaysOk'
<1>1. ASSUME NEW k \in Keys PROVE OutlayBook(journals', accounting', k, outlay'[k])
  <2>1. "outlay" \in RecordKinds BY DEF RecordKinds
  <2>2. Beside(journals, journals', "outlay", k) BY <2>1 DEF Others
  <2>3. OutlayBook(journals, accounting, k, outlay[k]) BY DEF OutlaysOk
  <2>4. OutlayBook(journals', accounting', k, outlay[k])
    BY <2>2, <2>3, BesideAnswers DEF OutlayBook, Calm
  <2> QED BY <2>4
<1> QED BY <1>1 DEF OutlaysOk

-----------------------------------------------------------------------------
(* The steps of transactions, invoices, payments and commissions.          *)

\* What every step of a record reads.
Legible == EntriesOk(journals) /\ today \in Periods /\ SlowSays

\* What every one of them says of the records it does not write.
Beyond(records2) == EntriesOk(journals') /\ Others(records2) /\ Calm

\* A link is a number.
LEMMA LinkTyped ==
  ASSUME NEW js, EntriesOk(js), NEW acc, NEW kind, NEW id, NEW owed, NEW link, NEW version,
         Answers(js, acc, kind, id, owed, link, version)
  PROVE  link \in Nat /\ link \in {0} \cup DOMAIN js
<1>1. AreEntries(js) BY DEF EntriesOk
<1>2. PICK S : js \in Seq(S) BY <1>1 DEF AreEntries
<1>3. DOMAIN js \subseteq Nat BY <1>2
<1>4. link = 0 \/ link \in DOMAIN js BY DEF Answers
<1> QED BY <1>3, <1>4

\* Something is not nothing.
LEMMA OneIsSome == \A e : <<e>> # <<>>
OBVIOUS

\* A transaction that is written.
LEMMA TransactionBooked ==
  ASSUME Legible, TransactionsOk, NEW v \in Views, NEW t \in Transactions,
         NEW r \in TransactionRecord, r.status # "none", r.amount # 0,
         r.version = transaction[t].version, r.journal \in {0, transaction[t].journal},
         NEW old, old = transaction[t].journal \/ (old = 0 /\ transaction[t].status # "paid"),
         NEW posts, posts => r.status = "paid",
         r.status = "paid" /\ ~posts => ~Ready(v) /\ r.journal = 0,
         NEW news, news = IF posts THEN <<Posting("transaction", t, r, "income")>> ELSE <<>>,
         NEW docs, Book(v, old, news, docs),
         transaction' = [transaction EXCEPT ![t] = Linked(r, old, news)]
  PROVE  TransactionsOk' /\ Beyond({<<"transaction", t>>})
<1> DEFINE was == transaction[t]
           owed == IF was.status = "paid" THEN was.amount ELSE 0
           due == r.status = "paid"
           link == Link(Booked(old, news), news[1].source)
           next == Linked(r, old, news)
<1>1. was \in TransactionRecord /\ Answers(journals, accounting, "transaction", t, owed, was.journal, was.version)
  BY DEF TransactionsOk, TransactionBook
<1>2. r.amount \in Nat \ {0} /\ r.period \in Periods /\ was.version \in Nat
  BY <1>1 DEF TransactionRecord
<1>3. "transaction" \in RecordKinds BY DEF RecordKinds
<1>4. IF posts THEN Settles("transaction", t, r.amount, link, was.version + 1)
               ELSE Settles("transaction", t, IF due THEN r.amount ELSE 0, r.journal, was.version)
  <2>1. old = was.journal \/ (old = 0 /\ owed = 0) OBVIOUS
  <2>2. r.version = was.version /\ r.journal \in {0, was.journal} OBVIOUS
  <2>3. posts => due OBVIOUS
  <2>4. due /\ ~posts => ~Ready(v) /\ r.journal = 0 OBVIOUS
  <2>5. EntriesOk(journals) /\ today \in Periods /\ SlowSays BY DEF Legible
  <2> DEFINE w == was.version
             l == was.journal
             acc == "income"
  <2>6. acc \in {"income", "expense"} /\ news = IF posts THEN <<Posting("transaction", t, r, acc)>> ELSE <<>>
    OBVIOUS
  <2> HIDE DEF was, owed, due, w, l, acc
  <2>7. /\ w \in Nat /\ Answers(journals, accounting, "transaction", t, owed, l, w)
        /\ old = l \/ (old = 0 /\ owed = 0)
        /\ r.version = w /\ r.journal \in {0, l}
    BY <1>1, <1>2, <2>1, <2>2 DEF w, l
  <2>8. IF posts THEN Settles("transaction", t, r.amount, Link(Booked(old, news), news[1].source), w + 1)
                 ELSE Settles("transaction", t, IF due THEN r.amount ELSE 0, r.journal, w)
    BY <1>2, <1>3, <2>3, <2>4, <2>5, <2>6, <2>7, Revises
  <2> QED BY <2>8 DEF w
<1>5. next = IF posts THEN [r EXCEPT !.version = r.version + 1, !.journal = link] ELSE r
  <2>1. CASE posts
    <3>1. news # <<>> BY <2>1, OneIsSome, Zenon
    <3> QED BY <2>1, <3>1, Zenon DEF Linked, NextVersion
  <2>2. CASE ~posts
    <3>1. news = <<>> BY <2>2
    <3> QED BY <2>2, <3>1, Zenon DEF Linked
  <2> QED BY <2>1, <2>2
<1> HIDE DEF link, next
<1>6. Beyond({<<"transaction", t>>}) BY <1>4 DEF Settles, Beyond, Calm, Book
<1>7. posts => link \in Nat BY <1>4, LinkTyped DEF Settles
<1>8. next \in TransactionRecord /\ next.status = r.status /\ next.amount = r.amount
      /\ next.journal = (IF posts THEN link ELSE r.journal)
      /\ next.version = (IF posts THEN was.version + 1 ELSE was.version)
  <2>1. CASE posts
    <3>1. next = [r EXCEPT !.version = r.version + 1, !.journal = link] /\ link \in Nat BY <1>5, <1>7, <2>1
    <3>2. r.version + 1 = was.version + 1 /\ was.version + 1 \in Nat BY <1>2
    <3> QED BY <2>1, <3>1, <3>2 DEF TransactionRecord
  <2>2. CASE ~posts
    <3>1. next = r BY <1>5, <2>2
    <3> QED BY <2>2, <3>1
  <2> QED BY <2>1, <2>2
<1>9. Made(next) BY <1>8 DEF Made
<1>10. TransactionBook(journals', accounting', t, next)
  BY <1>4, <1>8 DEF Settles, TransactionBook
<1>11. transaction' \in [Transactions -> TransactionRecord]
       /\ \A u \in Transactions : transaction'[u] = IF u = t THEN next ELSE transaction[u]
  BY <1>8 DEF TransactionsOk, next
<1>12. ASSUME NEW u \in Transactions, u # t PROVE TransactionBook(journals', accounting', u, transaction[u])
  <2>1. Beside(journals, journals', "transaction", u) BY <1>3, <1>6, <1>12 DEF Beyond, Others
  <2>2. TransactionBook(journals, accounting, u, transaction[u]) BY DEF TransactionsOk
  <2> QED BY <1>6, <2>1, <2>2, BesideAnswers DEF TransactionBook, Beyond, Calm
<1> QED BY <1>6, <1>9, <1>10, <1>11, <1>12 DEF TransactionsOk

\* An invoice that is written.
LEMMA InvoiceBooked ==
  ASSUME Legible, InvoicesOk, NEW v \in Views, NEW i \in Invoices,
         NEW r \in InvoiceRecord, r.status # "none", r.amount # 0,
         r.version = invoice[i].version, r.journal \in {0, invoice[i].journal},
         NEW old, old = invoice[i].journal \/ (old = 0 /\ ~(invoice[i].status \notin Unrecognized)),
         NEW posts, posts => r.status \notin Unrecognized,
         r.status \notin Unrecognized /\ ~posts => ~Ready(v) /\ r.journal = 0,
         NEW news, news = IF posts THEN <<Posting("revenue", i, r, "income")>> ELSE <<>>,
         NEW docs, Book(v, old, news, docs),
         invoice' = [invoice EXCEPT ![i] = Linked(r, old, news)]
  PROVE  InvoicesOk' /\ Beyond({<<"revenue", i>>})
<1> DEFINE was == invoice[i]
           owed == IF was.status \notin Unrecognized THEN was.amount ELSE 0
           due == r.status \notin Unrecognized
           link == Link(Booked(old, news), news[1].source)
           next == Linked(r, old, news)
<1>1. was \in InvoiceRecord /\ Answers(journals, accounting, "revenue", i, owed, was.journal, was.version)
  BY DEF InvoicesOk, InvoiceBook
<1>2. r.amount \in Nat \ {0} /\ r.period \in Periods /\ was.version \in Nat
  BY <1>1 DEF InvoiceRecord
<1>3. "revenue" \in RecordKinds BY DEF RecordKinds
<1>4. IF posts THEN Settles("revenue", i, r.amount, link, was.version + 1)
               ELSE Settles("revenue", i, IF due THEN r.amount ELSE 0, r.journal, was.version)
  <2>1. old = was.journal \/ (old = 0 /\ owed = 0) OBVIOUS
  <2>2. r.version = was.version /\ r.journal \in {0, was.journal} OBVIOUS
  <2>3. posts => due OBVIOUS
  <2>4. due /\ ~posts => ~Ready(v) /\ r.journal = 0 OBVIOUS
  <2>5. EntriesOk(journals) /\ today \in Periods /\ SlowSays BY DEF Legible
  <2> DEFINE w == was.version
             l == was.journal
             acc == "income"
  <2>6. acc \in {"income", "expense"} /\ news = IF posts THEN <<Posting("revenue", i, r, acc)>> ELSE <<>>
    OBVIOUS
  <2> HIDE DEF was, owed, due, w, l, acc
  <2>7. /\ w \in Nat /\ Answers(journals, accounting, "revenue", i, owed, l, w)
        /\ old = l \/ (old = 0 /\ owed = 0)
        /\ r.version = w /\ r.journal \in {0, l}
    BY <1>1, <1>2, <2>1, <2>2 DEF w, l
  <2>8. IF posts THEN Settles("revenue", i, r.amount, Link(Booked(old, news), news[1].source), w + 1)
                 ELSE Settles("revenue", i, IF due THEN r.amount ELSE 0, r.journal, w)
    BY <1>2, <1>3, <2>3, <2>4, <2>5, <2>6, <2>7, Revises
  <2> QED BY <2>8 DEF w
<1>5. next = IF posts THEN [r EXCEPT !.version = r.version + 1, !.journal = link] ELSE r
  <2>1. CASE posts
    <3>1. news # <<>> BY <2>1, OneIsSome, Zenon
    <3> QED BY <2>1, <3>1, Zenon DEF Linked, NextVersion
  <2>2. CASE ~posts
    <3>1. news = <<>> BY <2>2
    <3> QED BY <2>2, <3>1, Zenon DEF Linked
  <2> QED BY <2>1, <2>2
<1> HIDE DEF link, next
<1>6. Beyond({<<"revenue", i>>}) BY <1>4 DEF Settles, Beyond, Calm, Book
<1>7. posts => link \in Nat BY <1>4, LinkTyped DEF Settles
<1>8. next \in InvoiceRecord /\ next.status = r.status /\ next.amount = r.amount
      /\ next.journal = (IF posts THEN link ELSE r.journal)
      /\ next.version = (IF posts THEN was.version + 1 ELSE was.version)
  <2>1. CASE posts
    <3>1. next = [r EXCEPT !.version = r.version + 1, !.journal = link] /\ link \in Nat BY <1>5, <1>7, <2>1
    <3>2. r.version + 1 = was.version + 1 /\ was.version + 1 \in Nat BY <1>2
    <3> QED BY <2>1, <3>1, <3>2 DEF InvoiceRecord
  <2>2. CASE ~posts
    <3>1. next = r BY <1>5, <2>2
    <3> QED BY <2>2, <3>1
  <2> QED BY <2>1, <2>2
<1>9. Made(next) BY <1>8 DEF Made
<1>10. InvoiceBook(journals', accounting', i, next)
  BY <1>4, <1>8 DEF Settles, InvoiceBook
<1>11. invoice' \in [Invoices -> InvoiceRecord]
       /\ \A u \in Invoices : invoice'[u] = IF u = i THEN next ELSE invoice[u]
  BY <1>8 DEF InvoicesOk, next
<1>12. ASSUME NEW u \in Invoices, u # i PROVE InvoiceBook(journals', accounting', u, invoice[u])
  <2>1. Beside(journals, journals', "revenue", u) BY <1>3, <1>6, <1>12 DEF Beyond, Others
  <2>2. InvoiceBook(journals, accounting, u, invoice[u]) BY DEF InvoicesOk
  <2> QED BY <1>6, <2>1, <2>2, BesideAnswers DEF InvoiceBook, Beyond, Calm
<1> QED BY <1>6, <1>9, <1>10, <1>11, <1>12 DEF InvoicesOk

\* A commission that is written before it is paid.
LEMMA CommissionBooked ==
  ASSUME Legible, CommissionsOk, NEW v \in Views, NEW c \in Commissions,
         NEW r \in CommissionRecord, r.status # "none", r.amount # 0,
         r.status # "paid", commission[c].status # "paid", r.payout = commission[c].payout,
         r.version = commission[c].version, r.journal \in {0, commission[c].journal},
         NEW old, old = commission[c].journal \/ (old = 0 /\ ~(commission[c].status \in {"approved", "paid"})),
         NEW posts, posts => r.status \in {"approved", "paid"},
         r.status \in {"approved", "paid"} /\ ~posts => ~Ready(v) /\ r.journal = 0,
         NEW news, news = IF posts THEN <<Posting("accrual", c, r, "expense")>> ELSE <<>>,
         NEW docs, Book(v, old, news, docs),
         commission' = [commission EXCEPT ![c] = Linked(r, old, news)]
  PROVE  CommissionsOk' /\ Beyond({<<"accrual", c>>})
<1> DEFINE was == commission[c]
           owed == IF was.status \in {"approved", "paid"} THEN was.amount ELSE 0
           due == r.status \in {"approved", "paid"}
           link == Link(Booked(old, news), news[1].source)
           next == Linked(r, old, news)
<1>1. was \in CommissionRecord /\ Answers(journals, accounting, "accrual", c, owed, was.journal, was.version)
  BY DEF CommissionsOk, AccrualBook
<1>2. r.amount \in Nat \ {0} /\ r.period \in Periods /\ was.version \in Nat
  BY <1>1 DEF CommissionRecord
<1>3. "accrual" \in RecordKinds BY DEF RecordKinds
<1>4. IF posts THEN Settles("accrual", c, r.amount, link, was.version + 1)
               ELSE Settles("accrual", c, IF due THEN r.amount ELSE 0, r.journal, was.version)
  <2>1. old = was.journal \/ (old = 0 /\ owed = 0) OBVIOUS
  <2>2. r.version = was.version /\ r.journal \in {0, was.journal} OBVIOUS
  <2>3. posts => due OBVIOUS
  <2>4. due /\ ~posts => ~Ready(v) /\ r.journal = 0 OBVIOUS
  <2>5. EntriesOk(journals) /\ today \in Periods /\ SlowSays BY DEF Legible
  <2> DEFINE w == was.version
             l == was.journal
             acc == "expense"
  <2>6. acc \in {"income", "expense"} /\ news = IF posts THEN <<Posting("accrual", c, r, acc)>> ELSE <<>>
    OBVIOUS
  <2> HIDE DEF was, owed, due, w, l, acc
  <2>7. /\ w \in Nat /\ Answers(journals, accounting, "accrual", c, owed, l, w)
        /\ old = l \/ (old = 0 /\ owed = 0)
        /\ r.version = w /\ r.journal \in {0, l}
    BY <1>1, <1>2, <2>1, <2>2 DEF w, l
  <2>8. IF posts THEN Settles("accrual", c, r.amount, Link(Booked(old, news), news[1].source), w + 1)
                 ELSE Settles("accrual", c, IF due THEN r.amount ELSE 0, r.journal, w)
    BY <1>2, <1>3, <2>3, <2>4, <2>5, <2>6, <2>7, Revises
  <2> QED BY <2>8 DEF w
<1>5. next = IF posts THEN [r EXCEPT !.version = r.version + 1, !.journal = link] ELSE r
  <2>1. CASE posts
    <3>1. news # <<>> BY <2>1, OneIsSome, Zenon
    <3> QED BY <2>1, <3>1, Zenon DEF Linked, NextVersion
  <2>2. CASE ~posts
    <3>1. news = <<>> BY <2>2
    <3> QED BY <2>2, <3>1, Zenon DEF Linked
  <2> QED BY <2>1, <2>2
<1> HIDE DEF link, next
<1>6. Beyond({<<"accrual", c>>}) BY <1>4 DEF Settles, Beyond, Calm, Book
<1>7. posts => link \in Nat BY <1>4, LinkTyped DEF Settles
<1>8. next \in CommissionRecord /\ next.status = r.status /\ next.amount = r.amount /\ next.payout = r.payout
      /\ next.journal = (IF posts THEN link ELSE r.journal)
      /\ next.version = (IF posts THEN was.version + 1 ELSE was.version)
  <2>1. CASE posts
    <3>1. next = [r EXCEPT !.version = r.version + 1, !.journal = link] /\ link \in Nat BY <1>5, <1>7, <2>1
    <3>2. r.version + 1 = was.version + 1 /\ was.version + 1 \in Nat BY <1>2
    <3> QED BY <2>1, <3>1, <3>2 DEF CommissionRecord
  <2>2. CASE ~posts
    <3>1. next = r BY <1>5, <2>2
    <3> QED BY <2>2, <3>1
  <2> QED BY <2>1, <2>2
<1>9. Made(next) BY <1>8 DEF Made
<1>10. AccrualBook(journals', accounting', c, next)
  BY <1>4, <1>8 DEF Settles, AccrualBook
<1>11. commission' \in [Commissions -> CommissionRecord]
       /\ \A u \in Commissions : commission'[u] = IF u = c THEN next ELSE commission[u]
  BY <1>8 DEF CommissionsOk, next
<1>12. ASSUME NEW u \in Commissions, u # c PROVE AccrualBook(journals', accounting', u, commission[u])
  <2>1. Beside(journals, journals', "accrual", u) BY <1>3, <1>6, <1>12 DEF Beyond, Others
  <2>2. AccrualBook(journals, accounting, u, commission[u]) BY DEF CommissionsOk
  <2> QED BY <1>6, <2>1, <2>2, BesideAnswers DEF AccrualBook, Beyond, Calm
<1>13. ASSUME NEW u \in Commissions PROVE PayoutBook(journals', accounting', u, commission[u])
  <2>1. "payout" \in RecordKinds BY DEF RecordKinds
  <2>2. Beside(journals, journals', "payout", u) BY <1>6, <2>1 DEF Beyond, Others
  <2>3. PayoutBook(journals, accounting, u, commission[u]) BY DEF CommissionsOk
  <2> QED BY <1>6, <2>2, <2>3, BesideAnswers DEF PayoutBook, Beyond, Calm
<1>14. PayoutBook(journals', accounting', c, next)
  BY <1>8, <1>13 DEF PayoutBook
<1> QED BY <1>6, <1>9, <1>10, <1>11, <1>12, <1>8, <1>13, <1>14 DEF CommissionsOk

\* A payment of a purchase that is written.
LEMMA OutlayBooked ==
  ASSUME Legible, OutlaysOk, NEW v \in Views, NEW k \in Keys,
         NEW r \in OutlayRecord, r.status # "none", r.amount # 0,
         r.version = outlay[k].version, r.journal \in {0, outlay[k].journal},
         NEW old, old = outlay[k].journal \/ (old = 0 /\ ~(outlay[k].status = "paid")),
         NEW posts, posts => r.status = "paid",
         r.status = "paid" /\ ~posts => ~Ready(v) /\ r.journal = 0,
         NEW news, news = IF posts THEN <<Posting("outlay", k, r, "expense")>> ELSE <<>>,
         NEW docs, Book(v, old, news, docs),
         outlay' = [outlay EXCEPT ![k] = Linked(r, old, news)]
  PROVE  OutlaysOk' /\ Beyond({<<"outlay", k>>})
<1> DEFINE was == outlay[k]
           owed == IF was.status = "paid" THEN was.amount ELSE 0
           due == r.status = "paid"
           link == Link(Booked(old, news), news[1].source)
           next == Linked(r, old, news)
<1>1. was \in OutlayRecord /\ Answers(journals, accounting, "outlay", k, owed, was.journal, was.version)
  BY DEF OutlaysOk, OutlayBook
<1>2. r.amount \in Nat \ {0} /\ r.period \in Periods /\ was.version \in Nat
  BY <1>1 DEF OutlayRecord
<1>3. "outlay" \in RecordKinds BY DEF RecordKinds
<1>4. IF posts THEN Settles("outlay", k, r.amount, link, was.version + 1)
               ELSE Settles("outlay", k, IF due THEN r.amount ELSE 0, r.journal, was.version)
  <2>1. old = was.journal \/ (old = 0 /\ owed = 0) OBVIOUS
  <2>2. r.version = was.version /\ r.journal \in {0, was.journal} OBVIOUS
  <2>3. posts => due OBVIOUS
  <2>4. due /\ ~posts => ~Ready(v) /\ r.journal = 0 OBVIOUS
  <2>5. EntriesOk(journals) /\ today \in Periods /\ SlowSays BY DEF Legible
  <2> DEFINE w == was.version
             l == was.journal
             acc == "expense"
  <2>6. acc \in {"income", "expense"} /\ news = IF posts THEN <<Posting("outlay", k, r, acc)>> ELSE <<>>
    OBVIOUS
  <2> HIDE DEF was, owed, due, w, l, acc
  <2>7. /\ w \in Nat /\ Answers(journals, accounting, "outlay", k, owed, l, w)
        /\ old = l \/ (old = 0 /\ owed = 0)
        /\ r.version = w /\ r.journal \in {0, l}
    BY <1>1, <1>2, <2>1, <2>2 DEF w, l
  <2>8. IF posts THEN Settles("outlay", k, r.amount, Link(Booked(old, news), news[1].source), w + 1)
                 ELSE Settles("outlay", k, IF due THEN r.amount ELSE 0, r.journal, w)
    BY <1>2, <1>3, <2>3, <2>4, <2>5, <2>6, <2>7, Revises
  <2> QED BY <2>8 DEF w
<1>5. next = IF posts THEN [r EXCEPT !.version = r.version + 1, !.journal = link] ELSE r
  <2>1. CASE posts
    <3>1. news # <<>> BY <2>1, OneIsSome, Zenon
    <3> QED BY <2>1, <3>1, Zenon DEF Linked, NextVersion
  <2>2. CASE ~posts
    <3>1. news = <<>> BY <2>2
    <3> QED BY <2>2, <3>1, Zenon DEF Linked
  <2> QED BY <2>1, <2>2
<1> HIDE DEF link, next
<1>6. Beyond({<<"outlay", k>>}) BY <1>4 DEF Settles, Beyond, Calm, Book
<1>7. posts => link \in Nat BY <1>4, LinkTyped DEF Settles
<1>8. next \in OutlayRecord /\ next.status = r.status /\ next.amount = r.amount
      /\ next.journal = (IF posts THEN link ELSE r.journal)
      /\ next.version = (IF posts THEN was.version + 1 ELSE was.version)
  <2>1. CASE posts
    <3>1. next = [r EXCEPT !.version = r.version + 1, !.journal = link] /\ link \in Nat BY <1>5, <1>7, <2>1
    <3>2. r.version + 1 = was.version + 1 /\ was.version + 1 \in Nat BY <1>2
    <3> QED BY <2>1, <3>1, <3>2 DEF OutlayRecord
  <2>2. CASE ~posts
    <3>1. next = r BY <1>5, <2>2
    <3> QED BY <2>2, <3>1
  <2> QED BY <2>1, <2>2
<1>9. Made(next) BY <1>8 DEF Made
<1>10. OutlayBook(journals', accounting', k, next)
  BY <1>4, <1>8 DEF Settles, OutlayBook
<1>11. outlay' \in [Keys -> OutlayRecord]
       /\ \A u \in Keys : outlay'[u] = IF u = k THEN next ELSE outlay[u]
  BY <1>8 DEF OutlaysOk, next
<1>12. ASSUME NEW u \in Keys, u # k PROVE OutlayBook(journals', accounting', u, outlay[u])
  <2>1. Beside(journals, journals', "outlay", u) BY <1>3, <1>6, <1>12 DEF Beyond, Others
  <2>2. OutlayBook(journals, accounting, u, outlay[u]) BY DEF OutlaysOk
  <2> QED BY <1>6, <2>1, <2>2, BesideAnswers DEF OutlayBook, Beyond, Calm
<1> QED BY <1>6, <1>9, <1>10, <1>11, <1>12 DEF OutlaysOk

\* createTransaction
LEMMA CreateTransactionBooks ==
  ASSUME Legible, TransactionsOk, NEW v \in Views, NEW t \in Transactions, NEW s \in {"pending", "paid"},
         NEW a \in Amounts, NEW p \in Periods, CreateTransaction(v, t, s, a, p)
  PROVE  TransactionsOk' /\ Beyond({<<"transaction", t>>})
<1> DEFINE x == transaction[t]
           r == [x EXCEPT !.status = s, !.amount = a, !.period = p]
           posts == Ready(v) /\ s = "paid"
           news == IF posts THEN <<Posting("transaction", t, r, "income")>> ELSE <<>>
           old == 0
           docs == {Record(t)}
<1>1. x \in TransactionRecord /\ x.status = "none" /\ x.journal = 0
  BY DEF TransactionsOk, Made, CreateTransaction
<1>2. /\ Book(v, old, news, docs)
      /\ transaction' = [transaction EXCEPT ![t] = Linked(r, old, news)]
  BY DEF CreateTransaction, Saves
<1>3. a \in Nat /\ a # 0 BY LedgerAssumption
<1>4. /\ r \in TransactionRecord /\ r.status = s /\ r.amount = a /\ r.journal = 0 /\ r.version = x.version
  <2> HIDE DEF x
  <2> QED BY <1>1, <1>3 DEF TransactionRecord
<1>5. news = IF posts THEN <<Posting("transaction", t, r, "income")>> ELSE <<>> OBVIOUS
<1>6. /\ r.status # "none" /\ r.amount # 0
      /\ r.version = transaction[t].version /\ r.journal \in {0, transaction[t].journal}
      /\ old = transaction[t].journal \/ (old = 0 /\ ~(transaction[t].status = "paid"))
      /\ posts => r.status = "paid"
      /\ r.status = "paid" /\ ~posts => ~Ready(v) /\ r.journal = 0
  BY <1>1, <1>3, <1>4
<1> HIDE DEF r, posts, news, old, docs, x
<1> QED BY <1>2, <1>4, <1>5, <1>6, TransactionBooked

\* updateTransaction
LEMMA UpdateTransactionBooks ==
  ASSUME Legible, TransactionsOk, NEW v \in Views, NEW t \in Transactions, NEW edit \in Edits,
         NEW status \in {"same", "pending", "paid"}, UpdateTransaction(v, t, edit, status)
  PROVE  TransactionsOk' /\ Beyond({<<"transaction", t>>})
<1> DEFINE was == transaction[t]
           paid == was.status = "paid"
           next == Given(status, was)
           leaves == Ready(v) /\ was.journal # 0 /\ paid /\ (edit # None \/ next # "paid")
           old == IF leaves THEN was.journal ELSE 0
           journal == IF leaves THEN 0 ELSE was.journal
           r == [Edited(was, edit) EXCEPT !.status = next, !.journal = journal]
           posts == Ready(v) /\ next = "paid" /\ (r.journal = 0 \/ edit # None \/ ~paid)
           news == IF posts THEN <<Posting("transaction", t, r, "income")>> ELSE <<>>
           docs == {Record(t)}
<1>1. was \in TransactionRecord /\ was.status \in {"pending", "paid", "cancelled"} /\ was.amount # 0
  BY DEF TransactionsOk, Made, UpdateTransaction, TransactionRecord
<1>2. next \in {"pending", "paid", "cancelled"} /\ was.journal \in Nat /\ was.version \in Nat
  BY <1>1 DEF Given, TransactionRecord
<1>3. /\ was.journal # 0 => Ready(v)
      /\ Book(v, old, news, docs)
      /\ transaction' = [transaction EXCEPT ![t] = Linked(r, old, news)]
  <2>1. [Edited(was, edit) EXCEPT !.status = next, !.journal = IF leaves THEN 0 ELSE @] = r
    <3>1. DOMAIN was = {"status", "amount", "period", "version", "journal"} BY <1>1 DEF TransactionRecord
    <3>2. [Edited(was, edit) EXCEPT !.status = next].journal = was.journal
      <4> DEFINE y == was
      <4>1. CASE edit = None BY <3>1, <4>1 DEF Edited
      <4>2. CASE edit # None BY <3>1, <4>2 DEF Edited
      <4> QED BY <4>1, <4>2
    <3> QED BY <3>2
  <2> QED BY <2>1 DEF UpdateTransaction, Saves
<1>4. /\ r \in TransactionRecord /\ r.status = next /\ r.journal = journal /\ r.version = was.version
      /\ r.amount # 0 /\ (edit = None => r.amount = was.amount)
  <2>1. journal \in Nat BY <1>2
  <2>2. r = [Edited(was, edit) EXCEPT !.status = next, !.journal = journal] OBVIOUS
  <2> HIDE DEF was, next, journal, r
  <2>3. CASE edit = None
    <3>1. r = [was EXCEPT !.status = next, !.journal = journal] BY <2>2, <2>3 DEF Edited
    <3> QED BY <1>1, <1>2, <2>1, <2>3, <3>1 DEF TransactionRecord
  <2>4. CASE edit # None
    <3>1. PICK a \in Amounts, p \in Periods : edit = <<a, p>> BY <2>4 DEF Edits
    <3>2. edit[1] = a /\ edit[2] = p BY <3>1
    <3>3. r = [[was EXCEPT !.amount = a, !.period = p] EXCEPT !.status = next, !.journal = journal]
      BY <2>2, <2>4, <3>2 DEF Edited
    <3>4. a \in Nat /\ a # 0 BY LedgerAssumption
    <3> QED BY <1>1, <1>2, <2>1, <2>4, <3>3, <3>4 DEF TransactionRecord
  <2> QED BY <2>3, <2>4
<1>5. news = IF posts THEN <<Posting("transaction", t, r, "income")>> ELSE <<>> OBVIOUS
<1>6. /\ r.status # "none"
      /\ r.version = transaction[t].version /\ r.journal \in {0, transaction[t].journal}
      /\ posts => r.status = "paid"
  <2> HIDE DEF r
  <2> QED BY <1>2, <1>4
\* It is paid as it was, with the journal it had.
<1>7. CASE r.journal # 0 /\ edit = None /\ paid /\ next = "paid"
  <2>1. ~posts /\ ~leaves
    <3> HIDE DEF r, next
    <3> QED BY <1>7
  <2>0. old = 0 /\ journal = was.journal
    <3> HIDE DEF leaves
    <3> QED BY <2>1
  <2>2. news = <<>>
    <3> HIDE DEF posts
    <3> QED BY <2>1
  <2>3. Linked(r, old, news) = r BY <2>2, Zenon DEF Linked
  <2>4. Book(v, 0, <<>>, docs)
    <3> HIDE DEF old, news
    <3> QED BY <1>3, <2>0, <2>2
  <2>5. journals' = journals /\ accounting' = accounting /\ EntriesOk(journals') /\ Others({<<"transaction", t>>})
    BY <2>4, BooksUntouched DEF Legible
  <2>6. transaction' = [transaction EXCEPT ![t] = r] BY <1>3, <2>3
  <2>7. r.journal = was.journal /\ r.amount = was.amount /\ r.status = "paid"
    <3> HIDE DEF r, journal
    <3> QED BY <1>4, <1>7, <2>0
  <2> HIDE DEF r, posts, leaves, old, news, docs, next, journal
  <2>8. TransactionBook(journals, accounting, t, r)
    BY <1>4, <1>7, <2>7 DEF TransactionBook, TransactionsOk
  <2>9. /\ transaction' \in [Transactions -> TransactionRecord]
        /\ \A u \in Transactions : transaction'[u] = IF u = t THEN r ELSE transaction[u]
    BY <1>4, <2>6 DEF TransactionsOk
  <2>10. Made(r) BY <1>4, <2>7 DEF Made
  <2> QED BY <2>5, <2>8, <2>9, <2>10 DEF TransactionsOk, Beyond, Calm
<1>8. CASE ~(r.journal # 0 /\ edit = None /\ paid /\ next = "paid")
  <2>1. /\ old = transaction[t].journal \/ (old = 0 /\ ~(transaction[t].status = "paid"))
        /\ r.status = "paid" /\ ~posts => ~Ready(v) /\ r.journal = 0
    <3> HIDE DEF r
    <3> QED BY <1>3, <1>4, <1>8
  <2> HIDE DEF r, posts, news, old, docs, was, journal, next, leaves, paid
  <2> QED BY <1>3, <1>4, <1>5, <1>6, <2>1, TransactionBooked
<1> QED BY <1>7, <1>8

\* voidTransaction and deleteTransaction
LEMMA VoidTransactionBooks ==
  ASSUME Legible, TransactionsOk, NEW v \in Views, NEW t \in Transactions,
         VoidTransaction(v, t) \/ DeleteTransaction(v, t)
  PROVE  TransactionsOk' /\ Beyond({<<"transaction", t>>})
<1> DEFINE x == transaction[t]
           old == IF VoidTransaction(v, t) THEN x.journal ELSE 0
           status == IF VoidTransaction(v, t) THEN "voided" ELSE "deleted"
           r == [x EXCEPT !.status = status]
           posts == FALSE
           news == IF posts THEN <<Posting("transaction", t, r, "income")>> ELSE <<>>
           docs == {Record(t)}
<1>1. x \in TransactionRecord /\ x.status # "none" /\ x.amount # 0
  BY DEF TransactionsOk, Made, VoidTransaction, DeleteTransaction
<1>2. news = <<>> OBVIOUS
<1>3. Linked(r, old, <<>>) = r BY Zenon DEF Linked
<1>4. /\ Book(v, old, news, docs)
      /\ transaction' = [transaction EXCEPT ![t] = Linked(r, old, news)]
      /\ old = transaction[t].journal \/ (old = 0 /\ ~(transaction[t].status = "paid"))
  <2>1. CASE VoidTransaction(v, t) BY <1>3, <2>1 DEF VoidTransaction, Saves
  <2>2. CASE ~VoidTransaction(v, t) BY <1>3, <2>2 DEF DeleteTransaction, Saves
  <2> QED BY <2>1, <2>2
<1>5. /\ r \in TransactionRecord /\ r.status \in {"voided", "deleted"} /\ r.amount = x.amount
      /\ r.journal = x.journal /\ r.version = x.version
  <2>1. status \in {"voided", "deleted"} OBVIOUS
  <2> HIDE DEF x, status
  <2> QED BY <1>1, <2>1 DEF TransactionRecord
<1>6. news = IF posts THEN <<Posting("transaction", t, r, "income")>> ELSE <<>> OBVIOUS
<1>7. ~posts OBVIOUS
<1>8. /\ r.version = transaction[t].version /\ r.journal \in {0, transaction[t].journal}
      /\ r.status # "none" /\ r.amount # 0 /\ r.status # "paid"
  <2> HIDE DEF r
  <2> QED BY <1>1, <1>5
<1>9. posts => r.status = "paid" BY <1>7
<1> HIDE DEF r, posts, news, old, docs, x, status
<1> QED BY <1>4, <1>5, <1>6, <1>8, <1>9, TransactionBooked

\* Transactions.
LEMMA OnTransactionsBooks ==
  ASSUME Legible, TransactionsOk, NEW v \in Views, OnTransactions(v)
  PROVE  TransactionsOk' /\ \E t \in Transactions : Beyond({<<"transaction", t>>})
BY CreateTransactionBooks, UpdateTransactionBooks, VoidTransactionBooks DEF OnTransactions

-----------------------------------------------------------------------------
(* What payments come to.                                                  *)

PaidOf(ps, ns) == SumFunction([n \in ns |-> ps[n].amount])
Owned(ps, i) == {n \in DOMAIN ps : ps[n].invoice = i}
Standings(ps, i) == {n \in DOMAIN ps : ps[n].invoice = i /\ ps[n].status = "paid"}

\* An invoice and its payments.
Backed(ps, i, r) ==
  /\ r.payments = Owned(ps, i) /\ r.paid = PaidOf(ps, Standings(ps, i)) /\ r.paid <= r.amount
  /\ (r.status = "paid") <=> (r.paid = r.amount /\ r.status # "none")
  /\ r.status = "partial" => r.paid > 0
  /\ r.status \in {"none", "draft", "sent", "cancelled", "archived"} => r.paid = 0
InvoicesBacked ==
  /\ \A i \in Invoices : Backed(payment, i, invoice[i])
  /\ \A n, m \in DOMAIN payment : payment[n].key = payment[m].key => n = m

\* Payments are numbered, and so are finite in number.
LEMMA PaymentNumbers ==
  ASSUME NEW ps \in Seq(PaymentRecord)
  PROVE  /\ DOMAIN ps = 1 .. Len(ps) /\ Len(ps) \in Nat /\ IsFiniteSet(DOMAIN ps)
         /\ \A n \in DOMAIN ps : ps[n] \in PaymentRecord /\ ps[n].amount \in Nat \ {0}
<1>1. DOMAIN ps = 1 .. Len(ps) /\ Len(ps) \in Nat /\ \A n \in DOMAIN ps : ps[n] \in PaymentRecord
  OBVIOUS
<1>2. IsFiniteSet(1 .. Len(ps)) BY <1>1, FS_Interval
<1> QED BY <1>1, <1>2 DEF PaymentRecord

\* What some of them come to, and with one more.
LEMMA PaidOfTyped ==
  ASSUME NEW ps \in Seq(PaymentRecord), NEW ns \in SUBSET DOMAIN ps
  PROVE  PaidOf(ps, ns) \in Nat
<1> DEFINE f == [n \in ns |-> ps[n].amount]
<1>1. IsFiniteSet(ns) BY PaymentNumbers, FS_Subset
<1>2. f \in [ns -> Nat] BY PaymentNumbers
<1> HIDE DEF f
<1>3. SumFunction(f) \in Nat BY <1>1, <1>2, TotalTyped
<1> QED BY <1>3 DEF PaidOf, f

\* One payment more comes to its amount more.
LEMMA PaidOfWith ==
  ASSUME NEW ps \in Seq(PaymentRecord), NEW ns \in SUBSET DOMAIN ps, NEW m \in DOMAIN ps, m \notin ns
  PROVE  PaidOf(ps, ns \cup {m}) = PaidOf(ps, ns) + ps[m].amount
<1> DEFINE f == [n \in ns |-> ps[n].amount]
           g == [n \in ns \cup {m} |-> ps[n].amount]
<1>1. IsFiniteSet(ns) BY PaymentNumbers, FS_Subset
<1>2. f \in [ns -> Int] /\ g \in [ns \cup {m} -> Int] /\ \A y \in ns : g[y] = f[y] BY PaymentNumbers
<1>3. g[m] = ps[m].amount OBVIOUS
<1> DEFINE S == ns
           x == m
<1>4. OneMore(f, g, S, x)
  BY <1>1, <1>2 DEF OneMore
<1> HIDE DEF f, g, S, x
<1>5. SumFunction(g) = SumFunction(f) + g[x] BY <1>4, TotalWith
<1> QED BY <1>3, <1>5 DEF PaidOf, f, g, x

\* It does not depend on the others.
LEMMA PaidOfSame ==
  ASSUME NEW ps, NEW qs, NEW ns, \A n \in ns : qs[n].amount = ps[n].amount
  PROVE  PaidOf(qs, ns) = PaidOf(ps, ns)
<1>1. [n \in ns |-> qs[n].amount] = [n \in ns |-> ps[n].amount] OBVIOUS
<1> QED BY <1>1 DEF PaidOf

\* qs is ps and one payment more, and what that makes of them.
Adds(ps, qs, new, n) ==
  /\ ps \in Seq(PaymentRecord) /\ new \in PaymentRecord /\ new.status = "paid"
  /\ qs = Append(ps, new) /\ n = Len(ps) + 1
Added(ps, qs, new, n) ==
  /\ qs \in Seq(PaymentRecord) /\ DOMAIN qs = DOMAIN ps \cup {n} /\ n \in Nat \ {0} /\ n \notin DOMAIN ps
  /\ \A m \in DOMAIN ps : qs[m] = ps[m]
  /\ qs[n] = new /\ Len(qs) = n
  /\ \A i : /\ i # new.invoice => Owned(qs, i) = Owned(ps, i) /\ Standings(qs, i) = Standings(ps, i)
                                  /\ PaidOf(qs, Standings(qs, i)) = PaidOf(ps, Standings(ps, i))
            /\ i = new.invoice => /\ Owned(qs, i) = Owned(ps, i) \cup {n}
                                  /\ Standings(qs, i) = Standings(ps, i) \cup {n}
                                  /\ PaidOf(qs, Standings(qs, i)) = PaidOf(ps, Standings(ps, i)) + new.amount

\* A payment more.
LEMMA PaymentAdded ==
  ASSUME NEW ps, NEW qs, NEW new, NEW n, Adds(ps, qs, new, n)
  PROVE  Added(ps, qs, new, n)
<1>1. /\ qs \in Seq(PaymentRecord) /\ DOMAIN qs = DOMAIN ps \cup {n} /\ n \in Nat \ {0} /\ n \notin DOMAIN ps
      /\ \A m \in DOMAIN ps : qs[m] = ps[m]
      /\ qs[n] = new /\ Len(qs) = n /\ new.status = "paid"
  BY DEF Adds
<1>2. ASSUME NEW i, i # new.invoice
      PROVE  Owned(qs, i) = Owned(ps, i) /\ Standings(qs, i) = Standings(ps, i)
             /\ PaidOf(qs, Standings(qs, i)) = PaidOf(ps, Standings(ps, i))
  <2>1. Owned(qs, i) = Owned(ps, i) /\ Standings(qs, i) = Standings(ps, i)
    BY <1>1, <1>2 DEF Owned, Standings
  <2> DEFINE ns == Standings(ps, i)
  <2>2. \A m \in ns : qs[m].amount = ps[m].amount BY <1>1 DEF Standings
  <2> HIDE DEF ns
  <2>3. PaidOf(qs, ns) = PaidOf(ps, ns) BY <2>2, PaidOfSame
  <2> QED BY <2>1, <2>3 DEF ns
<1>3. ASSUME NEW i, i = new.invoice
      PROVE  /\ Owned(qs, i) = Owned(ps, i) \cup {n}
             /\ Standings(qs, i) = Standings(ps, i) \cup {n}
             /\ PaidOf(qs, Standings(qs, i)) = PaidOf(ps, Standings(ps, i)) + new.amount
  <2>1. Owned(qs, i) = Owned(ps, i) \cup {n} /\ Standings(qs, i) = Standings(ps, i) \cup {n}
    BY <1>1, <1>3 DEF Owned, Standings
  <2> DEFINE ns == Standings(ps, i)
  <2>2. ns \in SUBSET DOMAIN qs /\ n \in DOMAIN qs /\ n \notin ns /\ \A m \in ns : qs[m].amount = ps[m].amount
    BY <1>1 DEF Standings
  <2> HIDE DEF ns
  <2>3. PaidOf(qs, ns \cup {n}) = PaidOf(qs, ns) + qs[n].amount BY <1>1, <2>2, PaidOfWith
  <2>4. PaidOf(qs, ns) = PaidOf(ps, ns) BY <2>2, PaidOfSame
  <2> QED BY <1>1, <2>1, <2>3, <2>4 DEF ns
<1>4. ps \in Seq(PaymentRecord) BY DEF Adds
<1> QED BY <1>1, <1>2, <1>3, <1>4 DEF Added

\* qs is ps with one payment voided, and what that makes of them.
Drops(ps, qs, n) ==
  /\ ps \in Seq(PaymentRecord) /\ n \in DOMAIN ps /\ ps[n].status = "paid"
  /\ qs = [ps EXCEPT ![n].status = "voided"]
Dropped(ps, qs, n) ==
  /\ qs \in Seq(PaymentRecord) /\ DOMAIN qs = DOMAIN ps /\ Len(qs) = Len(ps)
  /\ \A m \in DOMAIN ps : /\ m # n => qs[m] = ps[m]
                          /\ qs[m].key = ps[m].key /\ qs[m].invoice = ps[m].invoice
                          /\ qs[m].amount = ps[m].amount /\ qs[m].journal = ps[m].journal
  /\ qs[n].status = "voided"
  /\ \A i : /\ Owned(qs, i) = Owned(ps, i)
            /\ Standings(qs, i) = Standings(ps, i) \ {n}
            /\ PaidOf(qs, Standings(qs, i)) = PaidOf(ps, Standings(ps, i) \ {n})
            /\ i # ps[n].invoice => Standings(qs, i) = Standings(ps, i)
            /\ i = ps[n].invoice =>
                 PaidOf(ps, Standings(ps, i)) = PaidOf(ps, Standings(ps, i) \ {n}) + ps[n].amount

\* One that is voided.
LEMMA PaymentVoided ==
  ASSUME NEW ps, NEW qs, NEW n, Drops(ps, qs, n)
  PROVE  Dropped(ps, qs, n)
<1>0. ps \in Seq(PaymentRecord) /\ n \in DOMAIN ps /\ ps[n].status = "paid" /\ qs = [ps EXCEPT ![n].status = "voided"]
  BY DEF Drops
<1> DEFINE x == ps[n]
           y == [x EXCEPT !.status = "voided"]
<1>1. x \in PaymentRecord BY <1>0, PaymentNumbers
<1>2. /\ y \in PaymentRecord /\ y.status = "voided" /\ y.key = x.key /\ y.invoice = x.invoice
      /\ y.amount = x.amount /\ y.journal = x.journal
  <2> HIDE DEF x
  <2> QED BY <1>1 DEF PaymentRecord
<1>3. qs = [ps EXCEPT ![n] = y] BY <1>0
<1> HIDE DEF y
<1>4. /\ qs \in Seq(PaymentRecord) /\ DOMAIN qs = DOMAIN ps /\ Len(qs) = Len(ps)
      /\ \A m \in DOMAIN ps : qs[m] = IF m = n THEN y ELSE ps[m]
  BY <1>0, <1>2, <1>3
<1>5. \A m \in DOMAIN ps : /\ m # n => qs[m] = ps[m]
                           /\ qs[m].key = ps[m].key /\ qs[m].invoice = ps[m].invoice
                           /\ qs[m].amount = ps[m].amount /\ qs[m].journal = ps[m].journal
  BY <1>2, <1>4
<1>6. ASSUME NEW i
      PROVE  /\ Owned(qs, i) = Owned(ps, i)
             /\ Standings(qs, i) = Standings(ps, i) \ {n}
             /\ PaidOf(qs, Standings(qs, i)) = PaidOf(ps, Standings(ps, i) \ {n})
  <2>1. Owned(qs, i) = Owned(ps, i) /\ Standings(qs, i) = Standings(ps, i) \ {n}
    BY <1>0, <1>2, <1>4, <1>5 DEF Owned, Standings
  <2> DEFINE ns == Standings(ps, i) \ {n}
  <2>2. \A m \in ns : qs[m].amount = ps[m].amount BY <1>5 DEF Standings
  <2> HIDE DEF ns
  <2>3. PaidOf(qs, ns) = PaidOf(ps, ns) BY ONLY <2>2, PaidOfSame
  <2> QED BY <2>1, <2>3 DEF ns
<1>7. ASSUME NEW i, i # ps[n].invoice PROVE Standings(qs, i) = Standings(ps, i)
  BY <1>0, <1>6, <1>7 DEF Standings
<1>8. ASSUME NEW i, i = ps[n].invoice
      PROVE  PaidOf(ps, Standings(ps, i)) = PaidOf(ps, Standings(ps, i) \ {n}) + ps[n].amount
  <2> DEFINE ns == Standings(ps, i) \ {n}
  <2>1. ns \in SUBSET DOMAIN ps /\ n \notin ns /\ ns \cup {n} = Standings(ps, i) BY <1>0, <1>8 DEF Standings
  <2> HIDE DEF ns
  <2>2. PaidOf(ps, ns \cup {n}) = PaidOf(ps, ns) + ps[n].amount BY <1>0, <2>1, PaidOfWith
  <2> QED BY <2>1, <2>2 DEF ns
<1> QED BY <1>0, <1>2, <1>4, <1>5, <1>6, <1>7, <1>8 DEF Dropped

-----------------------------------------------------------------------------
(* Invoices.                                                               *)

\* What a step of invoices and payments writes.
Charges == \E records2 : Beyond(records2) /\ \A x \in records2 : x[1] \in {"revenue", "payment"}

\* What links an invoice leaves the rest of it.
LEMMA LinkedInvoice ==
  ASSUME NEW r \in InvoiceRecord, NEW old, NEW news, NEW next, next = Linked(r, old, news)
  PROVE  /\ next.status = r.status /\ next.amount = r.amount /\ next.period = r.period
         /\ next.paid = r.paid /\ next.payments = r.payments
<1>1. CASE news = <<>>
  <2>1. next = r BY <1>1 DEF Linked
  <2> QED BY <2>1
<1>2. CASE news # <<>>
  <2> DEFINE l == Link(Booked(old, news), news[1].source)
  <2>1. next = [r EXCEPT !.version = r.version + 1, !.journal = l] BY <1>2, Zenon DEF Linked, NextVersion
  <2> HIDE DEF l
  <2> QED BY <2>1 DEF InvoiceRecord
<1> QED BY <1>1, <1>2

\* An invoice that is written, by a step that writes no payment.
LEMMA InvoiceWritten ==
  ASSUME Legible, InvoicesOk, PaymentsOk, InvoicesBacked, NEW v \in Views, NEW i \in Invoices,
         NEW r \in InvoiceRecord, r.status # "none", r.amount # 0,
         r.version = invoice[i].version, r.journal \in {0, invoice[i].journal},
         NEW old, old = invoice[i].journal \/ (old = 0 /\ ~(invoice[i].status \notin Unrecognized)),
         NEW posts, posts => r.status \notin Unrecognized,
         r.status \notin Unrecognized /\ ~posts => ~Ready(v) /\ r.journal = 0,
         NEW news, news = IF posts THEN <<Posting("revenue", i, r, "income")>> ELSE <<>>,
         NEW docs, Book(v, old, news, docs), Issues(i, Linked(r, old, news)), UNCHANGED payment,
         Backed(payment, i, r)
  PROVE  InvoicesOk' /\ PaymentsOk' /\ InvoicesBacked' /\ Charges
<1> DEFINE next == Linked(r, old, news)
<1>1. invoice' = [invoice EXCEPT ![i] = Linked(r, old, news)] BY DEF Issues
<1>2. InvoicesOk' /\ Beyond({<<"revenue", i>>}) BY <1>1, InvoiceBooked
<1>3. PaymentsOk'
  <2> DEFINE S == {<<"revenue", i>>}
  <2>1. Others(S) /\ Calm /\ \A n \in Nat \ {0} : <<"payment", n>> \notin S BY <1>2 DEF Beyond
  <2> HIDE DEF S
  <2> QED BY <2>1, PaymentsKept
<1>4. Charges
  <2>1. \A x \in {<<"revenue", i>>} : x[1] \in {"revenue", "payment"} OBVIOUS
  <2> QED BY <1>2, <2>1 DEF Charges
<1>5. Backed(payment, i, next)
  <2>1. /\ next.status = r.status /\ next.amount = r.amount
        /\ next.paid = r.paid /\ next.payments = r.payments
    BY LinkedInvoice
  <2> HIDE DEF next
  <2> QED BY <2>1 DEF Backed
<1>6. InvoicesBacked'
  <2>1. \A j \in Invoices : invoice'[j] = IF j = i THEN next ELSE invoice[j]
    BY <1>1 DEF InvoicesOk
  <2> HIDE DEF next
  <2> QED BY <1>5, <2>1 DEF InvoicesBacked
<1> QED BY <1>2, <1>3, <1>4, <1>6

\* createInvoice
LEMMA CreateInvoiceBooks ==
  ASSUME Legible, InvoicesOk, PaymentsOk, InvoicesBacked, NEW v \in Views, NEW i \in Invoices,
         NEW s \in {"draft", "sent"}, NEW a \in Nat \ {0}, NEW p \in Periods, NEW also,
         CreateInvoice(v, i, s, a, p, also)
  PROVE  /\ InvoicesOk' /\ PaymentsOk' /\ InvoicesBacked' /\ Charges
         /\ \A j \in Invoices : j # i => invoice'[j] = invoice[j]
         /\ invoice'[i].amount = a /\ invoice'[i].paid = 0
<1> DEFINE x == invoice[i]
           r == [x EXCEPT !.status = s, !.amount = a, !.period = p]
           posts == Ready(v) /\ s = "sent"
           news == IF posts THEN <<Posting("revenue", i, r, "income")>> ELSE <<>>
           old == 0
           docs == {Record(i)} \cup also
<1>1. /\ x \in InvoiceRecord /\ x.status = "none" /\ x.journal = 0 /\ x.paid = 0
  BY DEF InvoicesOk, Made, CreateInvoice, InvoicesBacked, Backed
<1>2. Book(v, old, news, docs) /\ Issues(i, Linked(r, old, news)) /\ UNCHANGED payment
  BY DEF CreateInvoice, Revenue
<1>3. /\ r \in InvoiceRecord /\ r.status = s /\ r.amount = a /\ r.journal = 0 /\ r.version = x.version
      /\ r.paid = 0 /\ r.payments = x.payments
  <2> HIDE DEF x
  <2> QED BY <1>1 DEF InvoiceRecord
<1>4. news = IF posts THEN <<Posting("revenue", i, r, "income")>> ELSE <<>> OBVIOUS
<1>5. /\ r.status # "none" /\ r.amount # 0
      /\ r.version = invoice[i].version /\ r.journal \in {0, invoice[i].journal}
      /\ old = invoice[i].journal \/ (old = 0 /\ ~(invoice[i].status \notin Unrecognized))
      /\ posts => r.status \notin Unrecognized
      /\ r.status \notin Unrecognized /\ ~posts => ~Ready(v) /\ r.journal = 0
  <2> HIDE DEF r
  <2> QED BY <1>1, <1>3 DEF Unrecognized
<1>6. Backed(payment, i, r)
  <2>1. Backed(payment, i, x) BY DEF InvoicesBacked
  <2> HIDE DEF r, x
  <2> QED BY <1>1, <1>3, <2>1 DEF Backed
<1>7. /\ \A j \in Invoices : j # i => invoice'[j] = invoice[j]
      /\ invoice'[i].amount = a /\ invoice'[i].paid = 0
  <2>1. invoice' = [invoice EXCEPT ![i] = Linked(r, old, news)] BY <1>2 DEF Issues
  <2> DEFINE next == Linked(r, old, news)
  <2>2. next.amount = r.amount /\ next.paid = r.paid
    <3> HIDE DEF r, old, news
    <3> QED BY <1>3, LinkedInvoice
  <2> HIDE DEF r, old, news, next
  <2>3. invoice' = [invoice EXCEPT ![i] = next] BY <2>1 DEF next
  <2> QED BY <1>3, <2>2, <2>3 DEF InvoicesOk
<1> HIDE DEF r, posts, news, old, docs, x
<1> QED BY <1>2, <1>3, <1>4, <1>5, <1>6, <1>7, InvoiceWritten

\* updateInvoice
LEMMA UpdateInvoiceBooks ==
  ASSUME Legible, InvoicesOk, PaymentsOk, InvoicesBacked, NEW v \in Views, NEW i \in Invoices, NEW edit \in Edits,
         NEW status \in {"same", "draft", "sent"}, UpdateInvoice(v, i, edit, status)
  PROVE  InvoicesOk' /\ PaymentsOk' /\ InvoicesBacked' /\ Charges
<1> DEFINE was == invoice[i]
           old == IF Ready(v) /\ was.status # "draft" THEN was.journal ELSE 0
           next == Given(status, was)
           r == [Edited(was, edit) EXCEPT !.status = next]
           posts == Ready(v) /\ r.status \notin Unrecognized
           news == IF posts THEN <<Posting("revenue", i, r, "income")>> ELSE <<>>
           docs == {Record(i)}
<1>1. /\ was \in InvoiceRecord /\ was.status \in {"draft", "sent", "overdue"} /\ was.amount # 0
      /\ was.paid = 0
  BY DEF InvoicesOk, Made, UpdateInvoice, InvoiceRecord, HasPayment
<1>2. next \in {"draft", "sent", "overdue"} /\ (next = "draft" => was.status = "draft")
  BY <1>1 DEF Given, UpdateInvoice
<1>3. /\ Book(v, old, news, docs) /\ Issues(i, Linked(r, old, news)) /\ UNCHANGED payment
      /\ was.journal # 0 => Ready(v)
  BY DEF UpdateInvoice, Revenue
<1>4. /\ r \in InvoiceRecord /\ r.status = next /\ r.journal = was.journal /\ r.version = was.version
      /\ r.amount # 0 /\ r.paid = 0 /\ r.payments = was.payments
  <2>1. was.paid = 0 BY <1>1
  <2>2. r = [Edited(was, edit) EXCEPT !.status = next] OBVIOUS
  <2> HIDE DEF was, next, r
  <2>3. CASE edit = None
    <3>1. r = [was EXCEPT !.status = next] BY <2>2, <2>3 DEF Edited
    <3> QED BY <1>1, <1>2, <2>1, <2>3, <3>1 DEF InvoiceRecord
  <2>4. CASE edit # None
    <3>1. PICK a \in Amounts, p \in Periods : edit = <<a, p>> BY <2>4 DEF Edits
    <3>2. edit[1] = a /\ edit[2] = p BY <3>1
    <3>3. r = [[was EXCEPT !.amount = a, !.period = p] EXCEPT !.status = next]
      BY <2>2, <2>4, <3>2 DEF Edited
    <3>4. a \in Nat /\ a # 0 BY LedgerAssumption
    <3> QED BY <1>1, <1>2, <2>1, <2>4, <3>3, <3>4 DEF InvoiceRecord
  <2> QED BY <2>3, <2>4
<1>5. news = IF posts THEN <<Posting("revenue", i, r, "income")>> ELSE <<>> OBVIOUS
<1>6. /\ r.status # "none"
      /\ r.version = invoice[i].version /\ r.journal \in {0, invoice[i].journal}
      /\ old = invoice[i].journal \/ (old = 0 /\ ~(invoice[i].status \notin Unrecognized))
      /\ posts => r.status \notin Unrecognized
      /\ r.status \notin Unrecognized /\ ~posts => ~Ready(v) /\ r.journal = 0
  <2> HIDE DEF r
  <2> QED BY <1>1, <1>2, <1>3, <1>4 DEF Unrecognized
<1>7. Backed(payment, i, r)
  <2>1. Backed(payment, i, was) BY DEF InvoicesBacked
  <2>2. r.amount \in Nat
    <3> HIDE DEF r
    <3> QED BY <1>4 DEF InvoiceRecord
  <2> HIDE DEF r, was, next
  <2> QED BY <1>1, <1>2, <1>4, <2>1, <2>2 DEF Backed
<1> HIDE DEF r, posts, news, old, docs, was, next
<1> QED BY <1>3, <1>4, <1>5, <1>6, <1>7, InvoiceWritten

\* voidInvoice and archiveDraftInvoice: nobody has paid.
LEMMA GiveUpInvoiceBooks ==
  ASSUME Legible, InvoicesOk, PaymentsOk, InvoicesBacked, NEW v \in Views, NEW i \in Invoices,
         VoidInvoice(v, i) \/ ArchiveInvoice(v, i)
  PROVE  InvoicesOk' /\ PaymentsOk' /\ InvoicesBacked' /\ Charges
<1> DEFINE x == invoice[i]
           old == IF VoidInvoice(v, i) THEN x.journal ELSE 0
           status == IF VoidInvoice(v, i) THEN "cancelled" ELSE "archived"
           r == [x EXCEPT !.status = status]
           posts == FALSE
           news == IF posts THEN <<Posting("revenue", i, r, "income")>> ELSE <<>>
           docs == {Record(i)}
<1>1. /\ x \in InvoiceRecord /\ x.status # "none" /\ x.amount # 0 /\ x.paid = 0
  BY DEF InvoicesOk, Made, VoidInvoice, ArchiveInvoice, NeverPaid
<1>2. news = <<>> OBVIOUS
<1>3. Linked(r, old, <<>>) = r BY Zenon DEF Linked
<1>4. /\ Book(v, old, news, docs) /\ Issues(i, Linked(r, old, news)) /\ UNCHANGED payment
      /\ old = invoice[i].journal \/ (old = 0 /\ ~(invoice[i].status \notin Unrecognized))
  <2>1. CASE VoidInvoice(v, i) BY <1>3, <2>1 DEF VoidInvoice
  <2>2. CASE ~VoidInvoice(v, i)
    <3>1. ArchiveInvoice(v, i) /\ old = 0 /\ status = "archived" BY <2>2
    <3>2. x.status \in {"draft", "cancelled"} BY <3>1 DEF ArchiveInvoice
    <3>3. Book(v, 0, <<>>, {Record(i)}) /\ Issues(i, [x EXCEPT !.status = "archived"]) /\ UNCHANGED payment
      BY <3>1 DEF ArchiveInvoice
    <3>4. Issues(i, r) BY <3>1, <3>3
    <3>5. Linked(r, old, news) = r BY <1>2, <1>3
    <3> HIDE DEF r, old, news
    <3> QED BY <1>2, <3>1, <3>2, <3>3, <3>4, <3>5 DEF Unrecognized
  <2> QED BY <2>1, <2>2
<1>5. /\ r \in InvoiceRecord /\ r.status \in {"cancelled", "archived"} /\ r.amount = x.amount
      /\ r.journal = x.journal /\ r.version = x.version /\ r.paid = 0 /\ r.payments = x.payments
  <2>1. status \in {"cancelled", "archived"} OBVIOUS
  <2> HIDE DEF x, status
  <2> QED BY <1>1, <2>1 DEF InvoiceRecord
<1>6. news = IF posts THEN <<Posting("revenue", i, r, "income")>> ELSE <<>> OBVIOUS
<1>7. ~posts OBVIOUS
<1>8. /\ r.version = invoice[i].version /\ r.journal \in {0, invoice[i].journal}
      /\ r.status # "none" /\ r.amount # 0 /\ ~(r.status \notin Unrecognized)
  <2> HIDE DEF r
  <2> QED BY <1>1, <1>5 DEF Unrecognized
<1>9. posts => r.status \notin Unrecognized BY <1>7
<1>10. Backed(payment, i, r)
  <2>1. Backed(payment, i, x) BY DEF InvoicesBacked
  <2>2. x.amount \in Nat BY <1>1 DEF InvoiceRecord
  <2> HIDE DEF r, x
  <2> QED BY <1>1, <1>5, <2>1, <2>2 DEF Backed
<1> HIDE DEF r, posts, news, old, docs, x, status
<1> QED BY <1>4, <1>5, <1>6, <1>8, <1>9, <1>10, InvoiceWritten

\* A step that writes the status of an invoice that stays due, and no journal.
LEMMA InvoiceRelabelled ==
  ASSUME Legible, InvoicesOk, NEW i \in Invoices, NEW r \in InvoiceRecord,
         r.amount = invoice[i].amount, r.version = invoice[i].version, r.journal = invoice[i].journal,
         invoice[i].status \notin Unrecognized, r.status \notin Unrecognized,
         invoice' = [invoice EXCEPT ![i] = r], NEW S, Others(S), EntriesOk(journals'), Calm,
         \A j \in Invoices : <<"revenue", j>> \notin S
  PROVE  InvoicesOk'
<1>1. "revenue" \in RecordKinds BY DEF RecordKinds
<1>2. ASSUME NEW j \in Invoices PROVE InvoiceBook(journals', accounting', j, invoice[j])
  <2>1. Beside(journals, journals', "revenue", j) BY <1>1 DEF Others
  <2>2. InvoiceBook(journals, accounting, j, invoice[j]) BY DEF InvoicesOk
  <2> QED BY <2>1, <2>2, BesideAnswers DEF InvoiceBook, Calm
<1>3. InvoiceBook(journals', accounting', i, r)
  <2>1. InvoiceBook(journals', accounting', i, invoice[i]) BY <1>2
  <2> QED BY <2>1 DEF InvoiceBook
<1>4. Made(r)
  <2>1. Made(invoice[i]) BY DEF InvoicesOk
  <2> QED BY <2>1 DEF Made, Unrecognized
<1>5. invoice' \in [Invoices -> InvoiceRecord] /\ \A j \in Invoices : invoice'[j] = IF j = i THEN r ELSE invoice[j]
  BY DEF InvoicesOk
<1> QED BY <1>2, <1>3, <1>4, <1>5 DEF InvoicesOk

\* refreshOverdueInvoices
LEMMA OverdueBooks ==
  ASSUME Legible, InvoicesOk, PaymentsOk, InvoicesBacked, NEW i \in Invoices, Overdue(i)
  PROVE  InvoicesOk' /\ PaymentsOk' /\ InvoicesBacked' /\ Charges
<1> DEFINE x == invoice[i]
           r == [x EXCEPT !.status = "overdue"]
<1>1. /\ x \in InvoiceRecord /\ x.status \in {"sent", "partial"} /\ x.paid < x.amount
      /\ Book(Here, 0, <<>>, {Record(i)}) /\ invoice' = [invoice EXCEPT ![i] = r] /\ UNCHANGED payment
  BY DEF InvoicesOk, Overdue, Issues
<1>2. EntriesOk(journals') /\ Calm /\ \A records2 : Others(records2)
  BY <1>1, BooksUntouched DEF Legible, Calm
<1>3. /\ r \in InvoiceRecord /\ r.status = "overdue" /\ r.amount = x.amount
      /\ r.journal = x.journal /\ r.version = x.version /\ r.paid = x.paid /\ r.payments = x.payments
  <2> HIDE DEF x
  <2> QED BY <1>1 DEF InvoiceRecord
<1>4. x.amount \in Nat /\ x.paid \in Nat BY <1>1 DEF InvoiceRecord
<1>5. Backed(payment, i, x) BY DEF InvoicesBacked
<1> DEFINE S == {}
<1>6. Others(S) /\ \A j \in Invoices : <<"revenue", j>> \notin S /\ \A n \in Nat \ {0} : <<"payment", n>> \notin S
  BY <1>2
<1>7. Charges
  <2>1. Beyond({}) /\ \A y \in {} : y[1] \in {"revenue", "payment"} BY <1>2 DEF Beyond
  <2> QED BY <2>1 DEF Charges
<1> HIDE DEF r, S
<1>8. InvoicesOk'
  <2>1. x.status \notin Unrecognized /\ r.status \notin Unrecognized BY <1>1, <1>3 DEF Unrecognized
  <2> QED BY <1>1, <1>2, <1>3, <1>6, <2>1, InvoiceRelabelled
<1>9. PaymentsOk'
  <2>1. \A n \in Nat \ {0} : <<"payment", n>> \notin S BY DEF S
  <2> QED BY <1>1, <1>2, <1>6, <2>1, PaymentsKept
<1>10. Backed(payment, i, r)
  <2> HIDE DEF x
  <2> QED BY <1>1, <1>3, <1>4, <1>5 DEF Backed
<1>11. InvoicesBacked'
  <2>1. \A j \in Invoices : invoice'[j] = IF j = i THEN r ELSE invoice[j]
    BY <1>1 DEF InvoicesOk
  <2> QED BY <1>1, <1>10, <2>1 DEF InvoicesBacked
<1> QED BY <1>7, <1>8, <1>9, <1>11

\* What pays a record: its receipt f is posted for the record (K2, n), and so is the record
\* (K, i), written x, if it was not posted yet.  One that was not due before is left at r.
Pays(v, K, i, x, acc, K2, n, amount, p, posted, receipt, news, docs, r, link) ==
  /\ v \in Views /\ p \in Periods /\ amount \in Nat \ {0} /\ acc \in {"income", "expense"}
  /\ K \in RecordKinds /\ K2 \in RecordKinds /\ K # K2
  /\ x.amount \in Nat \ {0} /\ x.period \in Periods /\ x.version \in Nat /\ x.journal \in Nat
  /\ Answers(journals, accounting, K, i, x.amount, x.journal, x.version)
  /\ Answers(journals, accounting, K2, n, 0, 0, 0)
  /\ posted = IF Ready(v) /\ x.journal = 0 THEN <<Posting(K, i, x, acc)>> ELSE <<>>
  /\ receipt = Entry(<<K2, n, 1>>, "none", amount, p)
  /\ news = IF Ready(v) THEN posted \o <<receipt>> ELSE <<>>
  /\ Book(v, 0, news, docs) /\ r = Linked(x, 0, posted)
  /\ link = IF Ready(v) THEN Link(Booked(0, news), receipt.source) ELSE 0
LeftAt(K, i, x, l, w, r) ==
  /\ Answers(journals', accounting', K, i, x.amount, l, w)
  /\ r = [x EXCEPT !.version = w, !.journal = l] \/ (r = x /\ l = x.journal /\ w = x.version)
PaidOff(K, i, x, K2, n, amount, r, link) ==
  /\ Beyond({<<K, i>>, <<K2, n>>}) /\ link \in Nat
  /\ Answers(journals', accounting', K2, n, amount, link, 1)
  /\ \E l, w \in Nat : LeftAt(K, i, x, l, w, r)

\* The journals then answer for both.
LEMMA BothBooked ==
  ASSUME Legible, NEW v, NEW K, NEW i, NEW x, NEW acc, NEW K2, NEW n, NEW amount, NEW p, NEW posted,
         NEW receipt, NEW news, NEW docs, NEW r, NEW link,
         Pays(v, K, i, x, acc, K2, n, amount, p, posted, receipt, news, docs, r, link)
  PROVE  PaidOff(K, i, x, K2, n, amount, r, link)
<1> DEFINE e == Posting(K, i, x, acc)
           w == x.version
           zero == 0
<1>1. /\ v \in Views /\ x.amount \in Nat \ {0} /\ x.period \in Periods /\ w \in Nat /\ x.journal \in Nat
      /\ Answers(journals, accounting, K, i, x.amount, x.journal, w) /\ amount \in Nat \ {0} /\ p \in Periods
  BY DEF Pays
<1>2. Answers(journals, accounting, K2, n, 0, 0, zero) BY DEF Pays
<1>3. K \in RecordKinds /\ K2 \in RecordKinds /\ K # K2 /\ zero \in Nat /\ acc \in {"income", "expense"} BY DEF Pays
<1>4. EntriesOk(journals) /\ today \in Periods /\ SlowSays BY DEF Legible
<1>5. /\ accounting' = accounting
      /\ posted = IF Ready(v) /\ x.journal = 0 THEN <<e>> ELSE <<>>
      /\ news = IF Ready(v) THEN posted \o <<receipt>> ELSE <<>>
      /\ receipt = Entry(<<K2, n, 1>>, "none", amount, p)
      /\ Book(v, 0, news, docs) /\ r = Linked(x, 0, posted)
      /\ link = IF Ready(v) THEN Link(Booked(0, news), receipt.source) ELSE 0
  BY DEF Book, Pays
<1>6. /\ EntryOk(e) /\ e.source = <<K, i, w + 1>> /\ e.status = "POSTED" /\ Abs(e.amount) = x.amount
  BY <1>1, <1>3, PostingEntry
<1>7. /\ EntryOk(receipt) /\ receipt.source = <<K2, n, zero + 1>> /\ receipt.status = "POSTED"
      /\ Abs(receipt.amount) = amount
  <2>1. /\ EntryOk(receipt) /\ receipt.source = <<K2, n, 1>> /\ receipt.status = "POSTED"
        /\ Abs(receipt.amount) = amount
    BY <1>1, <1>3, <1>5, ReceiptEntry
  <2>2. zero + 1 = 1 OBVIOUS
  <2> QED BY <2>1, <2>2
<1>8. CASE Ready(v) /\ x.journal = 0
  <2>1. posted = <<e>> BY <1>5, <1>8
  <2>2. news = <<e, receipt>>
    <3> HIDE DEF e
    <3>1. <<e>> \o <<receipt>> = <<e, receipt>> BY TwoPostings
    <3> QED BY <1>5, <1>8, <2>1, <3>1, Zenon
  <2> DEFINE l == Link(Booked(0, <<e>>), e.source)
             m == Link(Booked(0, <<e, receipt>>), receipt.source)
  <2>3. r = [x EXCEPT !.version = w + 1, !.journal = l]
    <3>1. r = [x EXCEPT !.version = NextVersion(x), !.journal = Link(Booked(0, posted), posted[1].source)]
      BY <1>5, <2>1, OneIsSome, Zenon DEF Linked
    <3>2. posted[1] = e
      <4>1. <<e>>[1] = e OBVIOUS
      <4> QED BY <2>1, <4>1, Zenon
    <3> HIDE DEF e
    <3> QED BY <2>1, <3>1, <3>2, Zenon DEF NextVersion
  <2>4. link = m BY <1>5, <1>8, <2>2, Zenon
  <2> HIDE DEF e, l, m, w, zero
  <2>5. Answers(journals, accounting, K, i, x.amount, 0, w) BY <1>1, <1>8
  <2>6. Book(v, 0, <<e, receipt>>, docs) BY <1>5, <2>2
  <2>7. /\ EntriesOk(journals') /\ Others({<<K, i>>, <<K2, n>>})
        /\ Answers(journals', accounting', K, i, x.amount, l, w + 1)
        /\ Answers(journals', accounting', K2, n, amount, m, zero + 1)
    <3> DEFINE a == x.amount
    <3>1. Fresh(e, K, i, w, a) /\ Fresh(receipt, K2, n, zero, amount)
      BY <1>1, <1>3, <1>6, <1>7 DEF Fresh
    <3>2. Answers(journals, accounting, K, i, a, 0, w) BY <2>5
    <3> HIDE DEF a
    <3>3. /\ EntriesOk(journals') /\ Others({<<K, i>>, <<K2, n>>})
          /\ Answers(journals', accounting', K, i, a, Link(Booked(0, <<e>>), e.source), w + 1)
          /\ Answers(journals', accounting', K2, n, amount, Link(Booked(0, <<e, receipt>>), receipt.source), zero + 1)
      <4> DEFINE u == v
                 d == amount
      <4>1. Book(u, 0, <<e, receipt>>, docs) /\ Fresh(receipt, K2, n, zero, d)
        BY <2>6, <3>1
      <4> HIDE DEF u, d
      <4>2. /\ EntriesOk(journals') /\ Others({<<K, i>>, <<K2, n>>})
            /\ Answers(journals', accounting', K, i, a, Link(Booked(0, <<e>>), e.source), w + 1)
            /\ Answers(journals', accounting', K2, n, d, Link(Booked(0, <<e, receipt>>), receipt.source), zero + 1)
        BY ONLY <1>2, <1>3, <1>4, <3>1, <3>2, <4>1, TwoRecords
      <4> QED BY <4>2 DEF d
    <3> QED BY <3>3 DEF a, l, m
  <2>8. l \in Nat /\ m \in Nat BY <2>7, LinkTyped
  <2>9. w + 1 \in Nat /\ zero + 1 = 1 BY <1>1 DEF zero
  <2>10. Answers(journals', accounting', K2, n, amount, link, 1) /\ link \in Nat BY <2>4, <2>7, <2>8, <2>9
  <2>11. Beyond({<<K, i>>, <<K2, n>>}) BY <1>5, <2>7 DEF Beyond, Calm
  <2>12. LeftAt(K, i, x, l, w + 1, r) BY <2>3, <2>7, Zenon DEF LeftAt
  <2> QED BY <2>8, <2>9, <2>10, <2>11, <2>12 DEF PaidOff
<1>9. CASE Ready(v) /\ x.journal # 0
  <2>1. posted = <<>> BY <1>5, <1>9
  <2>2. news = <<receipt>>
    <3>1. <<>> \o <<receipt>> = <<receipt>> OBVIOUS
    <3> QED BY <1>5, <1>9, <2>1, <3>1, Zenon
  <2>3. r = x BY <1>5, <2>1, Zenon DEF Linked
  <2> DEFINE m == Link(Booked(0, <<receipt>>), receipt.source)
             S == {<<K2, n>>}
  <2>4. link = m BY <1>5, <1>9, <2>2, Zenon
  <2> HIDE DEF e, m, w, zero, S
  <2>5. Book(v, 0, <<receipt>>, docs) BY <1>5, <2>2
  <2> DEFINE owed == 0
             old == 0
             from == 0
  <2>6. Answers(journals, accounting, K2, n, owed, from, zero) /\ (old = from \/ (old = 0 /\ owed = 0))
        /\ Book(v, old, <<receipt>>, docs)
    BY <1>2, <2>5
  <2> HIDE DEF owed, old, from
  <2>7. \A f : \A owed2 \in Nat \ {0} :
              /\ EntryOk(f) /\ f.source = <<K2, n, zero + 1>> /\ f.status = "POSTED"
              /\ Abs(f.amount) = owed2 /\ Book(v, old, <<f>>, docs)
              => /\ EntriesOk(journals') /\ Others({<<K2, n>>})
                 /\ Answers(journals', accounting', K2, n, owed2, Link(Booked(old, <<f>>), f.source), zero + 1)
    BY <1>3, <1>4, <2>6, OneRecord
  <2>8. /\ EntriesOk(journals') /\ Others(S)
        /\ Answers(journals', accounting', K2, n, amount, Link(Booked(old, <<receipt>>), receipt.source), zero + 1)
    BY <1>1, <1>7, <2>6, <2>7 DEF S
  <2>9. Answers(journals', accounting', K2, n, amount, m, 1)
    BY <2>8 DEF old, m, zero
  <2>10. m \in Nat BY <2>8, <2>9, LinkTyped
  <2>11. Answers(journals', accounting', K, i, x.amount, x.journal, w)
    <3>1. <<K, i>> \notin S BY <1>3 DEF S
    <3>2. Beside(journals, journals', K, i) BY <1>3, <2>8, <3>1 DEF Others
    <3> QED BY <1>1, <1>5, <3>2, BesideAnswers
  <2>12. Others({<<K, i>>, <<K2, n>>}) BY <2>8 DEF Others, S
  <2>13. Beyond({<<K, i>>, <<K2, n>>}) BY <1>5, <2>8, <2>12 DEF Beyond, Calm
  <2>14. LeftAt(K, i, x, x.journal, w, r) BY <2>3, <2>11, Zenon DEF LeftAt, w
  <2> QED BY <1>1, <2>4, <2>9, <2>10, <2>13, <2>14 DEF PaidOff
<1>10. CASE ~Ready(v)
  <2>1. posted = <<>> /\ news = <<>> /\ link = 0 BY <1>5, <1>10
  <2>2. r = x BY <1>5, <2>1, Zenon DEF Linked
  <2>3. Book(v, 0, <<>>, docs) BY <1>5, <2>1
  <2> HIDE DEF e, w, zero
  <2>4. EntriesOk(journals') /\ \A S : Others(S) BY <1>4, <2>3, BooksUntouched
  <2>5. accounting' # "active" BY <1>1, <1>4, <1>5, <1>10, NotReady
  <2>6. Others({}) BY <2>4
  <2>7. Beside(journals, journals', K, i) /\ Beside(journals, journals', K2, n)
    BY <1>3, <2>6 DEF Others
  <2>8. Answers(journals', accounting', K, i, x.amount, x.journal, w) BY <1>1, <1>5, <2>7, BesideAnswers
  <2>9. Answers(journals', accounting', K2, n, 0, 0, zero) BY <1>2, <1>5, <2>7, BesideAnswers
  <2>10. Answers(journals', accounting', K2, n, amount, 0, 1)
    BY <2>5, <2>9 DEF Answers, zero
  <2>11. Beyond({<<K, i>>, <<K2, n>>}) BY <1>5, <2>4 DEF Beyond, Calm
  <2>12. LeftAt(K, i, x, x.journal, w, r) BY <2>2, <2>8, Zenon DEF LeftAt, w
  <2> QED BY <1>1, <2>1, <2>10, <2>11, <2>12 DEF PaidOff
<1> QED BY <1>8, <1>9, <1>10

\* What a payment posts: its receipt, and the revenue of an invoice that was not posted yet.
Receives(v, i, p, amount, n, revenue, receipt, news, docs, r, link) ==
  /\ v \in Views /\ i \in Invoices /\ p \in Periods /\ amount \in Nat \ {0}
  /\ invoice[i].status \notin Unrecognized /\ n = Len(payment) + 1
  /\ revenue = IF Ready(v) /\ invoice[i].journal = 0 THEN <<Revenue(i, invoice[i])>> ELSE <<>>
  /\ receipt = Entry(<<"payment", n, 1>>, "none", amount, p)
  /\ news = IF Ready(v) THEN revenue \o <<receipt>> ELSE <<>>
  /\ Book(v, 0, news, docs) /\ r = Linked(invoice[i], 0, revenue)
  /\ link = IF Ready(v) THEN Link(Booked(0, news), receipt.source) ELSE 0

\* The journals then answer for the payment and for its invoice.
LEMMA ReceiptBooked ==
  ASSUME Legible, InvoicesOk, PaymentsOk, NEW v, NEW i, NEW p, NEW amount, NEW n, NEW revenue,
         NEW receipt, NEW news, NEW docs, NEW r, NEW link,
         Receives(v, i, p, amount, n, revenue, receipt, news, docs, r, link)
  PROVE  /\ Beyond({<<"revenue", i>>, <<"payment", n>>}) /\ link \in Nat
         /\ r \in InvoiceRecord /\ r.status = invoice[i].status /\ r.amount = invoice[i].amount
         /\ r.paid = invoice[i].paid /\ r.payments = invoice[i].payments
         /\ Answers(journals', accounting', "revenue", i, r.amount, r.journal, r.version)
         /\ Answers(journals', accounting', "payment", n, amount, link, 1)
<1> DEFINE x == invoice[i]
           K == "revenue"
           P == "payment"
           acc == "income"
<1>1. /\ x \in InvoiceRecord /\ x.amount \in Nat \ {0} /\ x.period \in Periods /\ x.version \in Nat /\ x.journal \in Nat
      /\ Answers(journals, accounting, K, i, x.amount, x.journal, x.version)
  <2>1. x \in InvoiceRecord /\ Made(x) /\ InvoiceBook(journals, accounting, i, x) BY DEF InvoicesOk, Receives
  <2>2. x.status # "none" /\ x.status \notin Unrecognized BY DEF Unrecognized, Receives
  <2> HIDE DEF x
  <2> QED BY <2>1, <2>2 DEF Made, InvoiceBook, InvoiceRecord, K
<1>2. Answers(journals, accounting, P, n, 0, 0, 0)
  <2>1. payment \in Seq(PaymentRecord) BY DEF PaymentsOk
  <2>2. n \in Nat \ {0} /\ n > Len(payment) BY <2>1 DEF Receives
  <2> QED BY <2>2 DEF PaymentsOk
<1>3. K \in RecordKinds /\ P \in RecordKinds /\ K # P /\ acc \in {"income", "expense"} BY DEF RecordKinds
<1>4. Pays(v, K, i, x, acc, P, n, amount, p, revenue, receipt, news, docs, r, link)
  <2>1. Revenue(i, x) = Posting(K, i, x, acc) BY DEF Revenue
  <2> HIDE DEF K, P, acc
  <2>2. receipt = Entry(<<P, n, 1>>, "none", amount, p) BY DEF Receives, P
  <2> QED BY <1>1, <1>2, <1>3, <2>1, <2>2, Zenon DEF Receives, Pays
<1> HIDE DEF K, P, acc, x
<1>5. PaidOff(K, i, x, P, n, amount, r, link) BY <1>4, BothBooked
<1>6. /\ Beyond({<<K, i>>, <<P, n>>}) /\ link \in Nat
      /\ Answers(journals', accounting', P, n, amount, link, 1)
  BY <1>5, Zenon DEF PaidOff
<1>7. PICK l \in Nat, w \in Nat :
        /\ Answers(journals', accounting', K, i, x.amount, l, w)
        /\ r = [x EXCEPT !.version = w, !.journal = l] \/ (r = x /\ l = x.journal /\ w = x.version)
  BY <1>5, Zenon DEF PaidOff, LeftAt
<1>8. /\ r \in InvoiceRecord /\ r.status = x.status /\ r.amount = x.amount
      /\ r.paid = x.paid /\ r.payments = x.payments /\ r.version = w /\ r.journal = l
  BY <1>1, <1>7 DEF InvoiceRecord
<1> QED BY <1>6, <1>7, <1>8 DEF K, P, x

\* An invoice and its payments after a payment more, whoever posted what of them.
LEMMA PaymentCharged ==
  ASSUME Legible, InvoicesOk, PaymentsOk, InvoicesBacked, NEW i \in Invoices,
         NEW new \in PaymentRecord, new.status = "paid", new.invoice = i, ~KeyUsed(new.key),
         payment' = Append(payment, new), NEW n, n = Len(payment) + 1,
         NEW r \in InvoiceRecord, r.amount = invoice[i].amount, r.amount # 0, r.payments = invoice[i].payments \cup {n},
         r.paid = invoice[i].paid + new.amount, r.paid <= r.amount,
         r.status = IF r.paid >= r.amount THEN "paid" ELSE "partial",
         invoice' = [invoice EXCEPT ![i] = r], Beyond({<<"revenue", i>>, <<"payment", n>>}),
         Answers(journals', accounting', "revenue", i, r.amount, r.journal, r.version),
         Answers(journals', accounting', "payment", n, new.amount, new.journal, 1)
  PROVE  InvoicesOk' /\ PaymentsOk' /\ InvoicesBacked' /\ Charges
<1> DEFINE ps == payment
           qs == payment'
           x == invoice[i]
           S == {<<"revenue", i>>, <<"payment", n>>}
<1>1. ps \in Seq(PaymentRecord) /\ qs = Append(ps, new) /\ DOMAIN ps = 1 .. Len(ps) /\ Len(ps) \in Nat
  BY DEF PaymentsOk
<1>2. /\ qs \in Seq(PaymentRecord) /\ DOMAIN qs = DOMAIN ps \cup {n} /\ n \in Nat \ {0} /\ n \notin DOMAIN ps
      /\ \A m \in DOMAIN ps : qs[m] = ps[m]
      /\ qs[n] = new /\ Len(qs) = n
      /\ \A j : /\ j # new.invoice => Owned(qs, j) = Owned(ps, j) /\ Standings(qs, j) = Standings(ps, j)
                                      /\ PaidOf(qs, Standings(qs, j)) = PaidOf(ps, Standings(ps, j))
                /\ j = new.invoice => /\ Owned(qs, j) = Owned(ps, j) \cup {n}
                                      /\ Standings(qs, j) = Standings(ps, j) \cup {n}
                                      /\ PaidOf(qs, Standings(qs, j)) = PaidOf(ps, Standings(ps, j)) + new.amount
  <2>1. Adds(ps, qs, new, n) BY <1>1 DEF Adds
  <2> HIDE DEF ps, qs
  <2>2. Added(ps, qs, new, n) BY <2>1, PaymentAdded
  <2> QED BY <2>2, Zenon DEF Added
<1>3. x \in InvoiceRecord /\ Made(x) /\ invoice' \in [Invoices -> InvoiceRecord]
      /\ \A j \in Invoices : invoice'[j] = IF j = i THEN r ELSE invoice[j]
  BY DEF InvoicesOk
<1>4. x.amount \in Nat /\ x.paid \in Nat /\ new.amount \in Nat \ {0} /\ r.amount \in Nat /\ r.paid \in Nat
  BY <1>3 DEF InvoiceRecord, PaymentRecord
<1>5. EntriesOk(journals') /\ Others(S) /\ Calm BY DEF Beyond
<1>6. "revenue" \in RecordKinds /\ "payment" \in RecordKinds BY DEF RecordKinds
<1>7. InvoicesOk'
  <2>1. r.status \notin Unrecognized /\ r.status # "none" BY DEF Unrecognized
  <2>2. InvoiceBook(journals', accounting', i, r) /\ Made(r) BY <2>1 DEF InvoiceBook, Made
  <2>3. ASSUME NEW j \in Invoices, j # i PROVE InvoiceBook(journals', accounting', j, invoice[j])
    <3>1. <<"revenue", j>> \notin S BY <2>3
    <3>2. Beside(journals, journals', "revenue", j) BY <1>5, <1>6, <3>1 DEF Others
    <3>3. InvoiceBook(journals, accounting, j, invoice[j]) BY DEF InvoicesOk
    <3> QED BY <1>5, <3>2, <3>3, BesideAnswers DEF InvoiceBook, Calm
  <2> QED BY <1>3, <2>2, <2>3 DEF InvoicesOk
<1>8. PaymentsOk'
  <2>1. ASSUME NEW m \in Nat \ {0}, m # n PROVE Beside(journals, journals', "payment", m)
    <3>1. <<"payment", m>> \notin S BY <2>1
    <3> QED BY <1>5, <1>6, <3>1 DEF Others
  <2>2. PaymentBook(journals', accounting', n, new) BY DEF PaymentBook
  <2>3. ASSUME NEW m \in DOMAIN ps PROVE PaymentBook(journals', accounting', m, qs[m])
    <3>1. PaymentBook(journals, accounting, m, ps[m]) BY DEF PaymentsOk
    <3>2. m \in Nat \ {0} /\ m # n /\ qs[m] = ps[m] BY <1>1, <1>2
    <3>3. Beside(journals, journals', "payment", m) BY <2>1, <3>2
    <3> HIDE DEF ps, qs
    <3> QED BY <1>5, <3>1, <3>2, <3>3, BesideAnswers DEF PaymentBook, Calm
  <2>4. ASSUME NEW m \in Nat \ {0}, m > n PROVE Answers(journals', accounting', "payment", m, 0, 0, 0)
    <3>1. m # n /\ m > Len(payment) BY <1>1, <1>2, <2>4
    <3>2. Answers(journals, accounting, "payment", m, 0, 0, 0) BY <3>1 DEF PaymentsOk
    <3>3. Beside(journals, journals', "payment", m) BY <2>1, <3>1
    <3> QED BY <1>5, <3>2, <3>3, BesideAnswers DEF Calm
  <2>5. \A m \in DOMAIN qs : m \in DOMAIN ps \/ m = n BY <1>2
  <2> HIDE DEF ps
  <2>6. \A m \in DOMAIN qs : PaymentBook(journals', accounting', m, qs[m]) BY <1>2, <2>2, <2>3, <2>5
  <2> QED BY <1>2, <2>4, <2>6 DEF PaymentsOk
<1>9. InvoicesBacked'
  <2>1. Backed(qs, i, r)
    <3>1. Backed(ps, i, x) BY DEF InvoicesBacked
    <3> HIDE DEF ps, qs, x
    <3> QED BY <1>2, <1>4, <3>1 DEF Backed, x
  <2>2. ASSUME NEW j \in Invoices, j # i PROVE Backed(qs, j, invoice[j])
    <3>1. Backed(ps, j, invoice[j]) BY DEF InvoicesBacked
    <3>2. Owned(qs, j) = Owned(ps, j) /\ PaidOf(qs, Standings(qs, j)) = PaidOf(ps, Standings(ps, j)) BY <1>2, <2>2
    <3> HIDE DEF ps, qs
    <3> QED BY <3>1, <3>2 DEF Backed
  <2>3. ASSUME NEW k \in DOMAIN qs, NEW m \in DOMAIN qs, qs[k].key = qs[m].key PROVE k = m
    <3>1. \A l \in DOMAIN ps : ps[l].key # new.key BY DEF KeyUsed
    <3>2. \A l1, l2 \in DOMAIN ps : ps[l1].key = ps[l2].key => l1 = l2 BY DEF InvoicesBacked
    <3> HIDE DEF ps, qs
    <3> QED BY <1>2, <2>3, <3>1, <3>2
  <2> QED BY <1>3, <2>1, <2>2, <2>3 DEF InvoicesBacked
<1>10. Charges
  <2>1. \A y \in S : y[1] \in {"revenue", "payment"} OBVIOUS
  <2> QED BY <2>1 DEF Charges
<1> QED BY <1>7, <1>8, <1>9, <1>10

\* recordInvoicePayment
LEMMA RecordInvoicePaymentBooks ==
  ASSUME Legible, InvoicesOk, PaymentsOk, InvoicesBacked, NEW v \in Views, NEW i \in Invoices, NEW k \in Keys,
         NEW amount \in Nat \ {0}, NEW p \in Periods, NEW also, RecordInvoicePayment(v, i, k, amount, p, also)
  PROVE  /\ InvoicesOk' /\ PaymentsOk' /\ InvoicesBacked' /\ Charges
         /\ \A j \in Invoices : j # i => invoice'[j] = invoice[j]
         /\ invoice'[i].amount = invoice[i].amount /\ invoice'[i].paid = invoice[i].paid + amount
         /\ invoice[i].paid + amount <= invoice[i].amount
<1> DEFINE x == invoice[i]
           n == Len(payment) + 1
           revenue == IF Ready(v) /\ x.journal = 0 THEN <<Revenue(i, x)>> ELSE <<>>
           receipt == Entry(<<"payment", n, 1>>, "none", amount, p)
           news == IF Ready(v) THEN revenue \o <<receipt>> ELSE <<>>
           r == Linked(x, 0, revenue)
           paid == x.paid + amount
           link == IF Ready(v) THEN Link(Booked(0, news), receipt.source) ELSE 0
           new == [key |-> k, invoice |-> i, amount |-> amount, status |-> "paid", journal |-> link]
           status == IF paid >= x.amount THEN "paid" ELSE "partial"
           z == [r EXCEPT !.paid = paid, !.payments = @ \cup {n}, !.status = status]
           docs == {Record(i)} \cup also
<1>1. /\ ~KeyUsed(k) /\ x.status \in {"sent", "partial", "overdue"} /\ amount <= x.amount - x.paid
      /\ Book(v, 0, news, docs) /\ payment' = Append(payment, new) /\ Issues(i, z)
  BY DEF RecordInvoicePayment, OutstandingAmount
<1>2. x \in InvoiceRecord /\ x.amount \in Nat \ {0} /\ x.paid \in Nat
  <2>1. x \in InvoiceRecord /\ Made(x) BY DEF InvoicesOk
  <2>2. x.status # "none" BY <1>1
  <2> HIDE DEF x
  <2> QED BY <2>1, <2>2 DEF Made, InvoiceRecord
<1>3. n \in Nat /\ paid \in Nat /\ paid <= x.amount /\ status \in {"paid", "partial"}
  <2>1. payment \in Seq(PaymentRecord) BY DEF PaymentsOk
  <2>2. n \in Nat BY <2>1
  <2> HIDE DEF x
  <2> QED BY <1>1, <1>2, <2>2
<1>4. /\ Beyond({<<"revenue", i>>, <<"payment", n>>}) /\ link \in Nat
      /\ r \in InvoiceRecord /\ r.status = x.status /\ r.amount = x.amount
      /\ r.paid = x.paid /\ r.payments = x.payments
      /\ Answers(journals', accounting', "revenue", i, r.amount, r.journal, r.version)
      /\ Answers(journals', accounting', "payment", n, amount, link, 1)
  <2>1. Receives(v, i, p, amount, n, revenue, receipt, news, docs, r, link)
    BY <1>1, Zenon DEF Receives, Unrecognized
  <2> HIDE DEF n, revenue, receipt, news, r, link, docs
  <2> QED BY ONLY <2>1, Legible, InvoicesOk, PaymentsOk, ReceiptBooked
<1> HIDE DEF revenue, receipt, news, r, link, docs, paid, status
<1>5. /\ z \in InvoiceRecord /\ z.status = status /\ z.amount = x.amount /\ z.paid = paid
      /\ z.payments = x.payments \cup {n} /\ z.journal = r.journal /\ z.version = r.version
  <2> HIDE DEF x, n
  <2> QED BY <1>3, <1>4 DEF InvoiceRecord
<1>6. new \in PaymentRecord /\ new.status = "paid" /\ new.invoice = i /\ new.key = k /\ new.amount = amount /\ new.journal = link
  BY <1>4 DEF PaymentRecord
<1>7. /\ invoice' = [invoice EXCEPT ![i] = z]
      /\ z.amount # 0 /\ z.paid = invoice[i].paid + new.amount /\ z.paid <= z.amount
      /\ z.status = IF z.paid >= z.amount THEN "paid" ELSE "partial"
      /\ z.amount = invoice[i].amount /\ z.payments = invoice[i].payments \cup {n} /\ ~KeyUsed(new.key)
      /\ Answers(journals', accounting', "revenue", i, z.amount, z.journal, z.version)
      /\ Answers(journals', accounting', "payment", n, new.amount, new.journal, 1)
  <2>1. invoice' = [invoice EXCEPT ![i] = z] BY <1>1 DEF Issues
  <2> HIDE DEF z, new
  <2> QED BY <1>1, <1>2, <1>3, <1>4, <1>5, <1>6, <2>1 DEF paid, status
<1>8. \A j \in Invoices : invoice'[j] = IF j = i THEN z ELSE invoice[j]
  BY <1>5, <1>7 DEF InvoicesOk
<1>9. InvoicesOk' /\ PaymentsOk' /\ InvoicesBacked' /\ Charges
  <2>1. n = Len(payment) + 1 OBVIOUS
  <2> HIDE DEF z, new, n, x
  <2> QED BY <1>1, <1>4, <1>5, <1>6, <1>7, <2>1, PaymentCharged
<1> HIDE DEF z, new
<1> QED BY <1>3, <1>5, <1>8, <1>9 DEF paid

\* voidInvoicePayment
LEMMA VoidInvoicePaymentBooks ==
  ASSUME Legible, InvoicesOk, PaymentsOk, InvoicesBacked, NEW v \in Views, NEW i \in Invoices, NEW n \in DOMAIN payment,
         NEW unpaid \in {"sent", "overdue"}, NEW also, VoidInvoicePayment(v, i, n, unpaid, also)
  PROVE  /\ InvoicesOk' /\ PaymentsOk' /\ InvoicesBacked' /\ Charges
         /\ \A j \in Invoices : j # i => invoice'[j] = invoice[j]
         /\ invoice'[i].amount = invoice[i].amount /\ invoice'[i].paid = LeftPaid(i, n)
         /\ LeftPaid(i, n) \in Nat /\ LeftPaid(i, n) < invoice[i].paid
<1> DEFINE x == invoice[i]
           y == payment[n]
           ps == payment
           qs == payment'
           left == LeftPaid(i, n)
           status == IF left >= x.amount THEN "paid" ELSE IF left > 0 THEN "partial" ELSE unpaid
           z == [x EXCEPT !.paid = left, !.status = status]
           S == {<<"payment", n>>}
           P == "payment"
           docs == {Record(i)} \cup also
<1>1. n \in Active(i) /\ Book(v, y.journal, <<>>, docs) /\ qs = [ps EXCEPT ![n].status = "voided"] /\ Issues(i, z)
  BY DEF VoidInvoicePayment
<1>2. ps \in Seq(PaymentRecord) /\ n \in Nat \ {0} /\ y \in PaymentRecord /\ y.amount \in Nat \ {0}
      /\ Answers(journals, accounting, P, n, IF y.status = "paid" THEN y.amount ELSE 0, y.journal, 1)
  <2>1. ps \in Seq(PaymentRecord) /\ PaymentBook(journals, accounting, n, y) BY DEF PaymentsOk
  <2>2. y \in PaymentRecord /\ n \in Nat \ {0} BY <2>1
  <2> HIDE DEF y
  <2> QED BY <2>1, <2>2 DEF PaymentBook, PaymentRecord
<1>3. x \in InvoiceRecord /\ Made(x) /\ Backed(ps, i, x) BY DEF InvoicesOk, InvoicesBacked
<1>4. y.status = "paid" /\ y.invoice = i
  <2>1. n \in x.payments /\ y.status # "voided" BY <1>1 DEF Active
  <2>2. x.payments = Owned(ps, i) BY <1>3 DEF Backed
  <2>3. y.invoice = i BY <2>1, <2>2 DEF Owned
  <2> HIDE DEF y
  <2> QED BY <1>2, <2>1, <2>3 DEF PaymentRecord
<1>5. left = PaidOf(ps, Standings(ps, i) \ {n})
  <2>1. x.payments = Owned(ps, i) BY <1>3 DEF Backed
  <2>2. \A m \in DOMAIN ps : ps[m].status \in {"paid", "voided"} BY <1>2, PaymentNumbers DEF PaymentRecord
  <2>3. Active(i) = Standings(ps, i) BY <2>1, <2>2 DEF Active, Owned, Standings
  <2> QED BY <2>3 DEF LeftPaid, PaidBy, PaidOf
<1>6. /\ qs \in Seq(PaymentRecord) /\ DOMAIN qs = DOMAIN ps /\ Len(qs) = Len(ps)
      /\ \A m \in DOMAIN ps : /\ m # n => qs[m] = ps[m]
                              /\ qs[m].key = ps[m].key /\ qs[m].invoice = ps[m].invoice
                              /\ qs[m].amount = ps[m].amount /\ qs[m].journal = ps[m].journal
      /\ qs[n].status = "voided"
      /\ \A j : /\ Owned(qs, j) = Owned(ps, j)
                /\ Standings(qs, j) = Standings(ps, j) \ {n}
                /\ PaidOf(qs, Standings(qs, j)) = PaidOf(ps, Standings(ps, j) \ {n})
                /\ j # ps[n].invoice => Standings(qs, j) = Standings(ps, j)
                /\ j = ps[n].invoice =>
                     PaidOf(ps, Standings(ps, j)) = PaidOf(ps, Standings(ps, j) \ {n}) + ps[n].amount
  <2>1. Drops(ps, qs, n) BY <1>1, <1>2, <1>4 DEF Drops
  <2> HIDE DEF ps, qs
  <2>2. Dropped(ps, qs, n) BY <2>1, PaymentVoided
  <2> QED BY <2>2, Zenon DEF Dropped
<1>7. left \in Nat /\ x.paid = left + y.amount
  <2>1. Standings(ps, i) \ {n} \in SUBSET DOMAIN ps BY DEF Standings
  <2>2. PaidOf(ps, Standings(ps, i) \ {n}) \in Nat BY <1>2, <2>1, PaidOfTyped
  <2> HIDE DEF ps, left
  <2>3. x.paid = PaidOf(ps, Standings(ps, i)) BY <1>3 DEF Backed
  <2>4. PaidOf(ps, Standings(ps, i)) = PaidOf(ps, Standings(ps, i) \ {n}) + ps[n].amount BY <1>4, <1>6 DEF ps
  <2> QED BY <1>5, <2>2, <2>3, <2>4 DEF ps
<1>8. x.amount \in Nat /\ x.paid \in Nat /\ x.paid <= x.amount /\ left < x.paid /\ x.paid > 0
      /\ x.status \notin Unrecognized
  <2>1. x.amount \in Nat /\ x.paid \in Nat BY <1>3 DEF InvoiceRecord
  <2>2. x.paid <= x.amount BY <1>3 DEF Backed
  <2>3. left < x.paid /\ x.paid > 0 
    <3> HIDE DEF x, y, left
    <3> QED BY <1>2, <1>7, <2>1
  <2> QED BY <1>3, <2>1, <2>2, <2>3 DEF Backed, Unrecognized
<1>9. status \in {"partial", "sent", "overdue"} /\ (status = "partial" <=> left > 0)
  <2> HIDE DEF x, left
  <2> QED BY <1>7, <1>8
<1>10. /\ z \in InvoiceRecord /\ z.status = status /\ z.amount = x.amount /\ z.paid = left /\ z.payments = x.payments
       /\ z.journal = x.journal /\ z.version = x.version
  <2> HIDE DEF x, left, status
  <2> QED BY <1>3, <1>7, <1>9 DEF InvoiceRecord
<1>11. EntriesOk(journals') /\ Others(S) /\ Calm /\ Answers(journals', accounting', P, n, 0, y.journal, 1)
  <2>1. EntriesOk(journals) /\ today \in Periods /\ P \in RecordKinds BY DEF Legible, RecordKinds
  <2> DEFINE link == y.journal
             owed == IF y.status = "paid" THEN y.amount ELSE 0
             one == 1
             u == v
  <2>2. /\ Answers(journals, accounting, P, n, owed, link, one) /\ one \in Nat
        /\ (link = link \/ (link = 0 /\ owed = 0)) /\ Book(u, link, <<>>, docs)
    BY <1>1, <1>2
  <2> HIDE DEF link, owed, one, P, u, docs
  <2>3. /\ EntriesOk(journals') /\ Others({<<P, n>>})
        /\ Answers(journals', accounting', P, n, 0, link, one)
    BY ONLY <2>1, <2>2, OneRecord
  <2> QED BY <1>1, <2>3 DEF link, one, P, Calm, Book
<1>12. invoice' = [invoice EXCEPT ![i] = z] BY <1>1 DEF Issues
<1>13. \A j \in Invoices : invoice'[j] = IF j = i THEN z ELSE invoice[j] BY <1>12 DEF InvoicesOk
<1>14. InvoicesOk'
  <2>1. z.status \notin Unrecognized
    <3> HIDE DEF z
    <3> QED BY <1>9, <1>10 DEF Unrecognized
  <2>2. \A j \in Invoices : <<"revenue", j>> \notin S OBVIOUS
  <2> HIDE DEF z, S
  <2> QED BY <1>8, <1>10, <1>11, <1>12, <2>1, <2>2, InvoiceRelabelled
<1>15. PaymentsOk'
  <2>1. ASSUME NEW m \in Nat \ {0}, m # n PROVE Beside(journals, journals', "payment", m)
    <3>1. "payment" \in RecordKinds /\ <<"payment", m>> \notin S BY <2>1 DEF RecordKinds
    <3> QED BY <1>11, <3>1 DEF Others
  <2>2. DOMAIN ps \subseteq Nat \ {0} BY <1>2
  <2>3. ASSUME NEW m \in DOMAIN ps PROVE PaymentBook(journals', accounting', m, qs[m])
    <3>1. CASE m = n
      <4>1. qs[m].status = "voided" /\ qs[m].journal = y.journal BY <1>6, <3>1
      <4> HIDE DEF qs, ps, y
      <4> QED BY <1>11, <3>1, <4>1 DEF PaymentBook
    <3>2. CASE m # n
      <4>1. PaymentBook(journals, accounting, m, ps[m]) /\ qs[m] = ps[m] BY <1>6, <3>2 DEF PaymentsOk
      <4>2. Beside(journals, journals', "payment", m) BY <2>1, <2>2, <3>2
      <4> HIDE DEF qs, ps, y
      <4> QED BY <1>11, <4>1, <4>2, BesideAnswers DEF PaymentBook, Calm
    <3> QED BY <3>1, <3>2
  <2>4. ASSUME NEW m \in Nat \ {0}, m > Len(ps) PROVE Answers(journals', accounting', "payment", m, 0, 0, 0)
    <3>1. m # n BY <1>2, <2>4
    <3>2. Answers(journals, accounting, "payment", m, 0, 0, 0) BY <2>4 DEF PaymentsOk
    <3>3. Beside(journals, journals', "payment", m) BY <2>1, <3>1
    <3> QED BY <1>11, <3>2, <3>3, BesideAnswers DEF Calm
  <2> HIDE DEF ps
  <2> QED BY <1>6, <2>3, <2>4 DEF PaymentsOk
<1>16. InvoicesBacked'
  <2>1. Backed(qs, i, z)
    <3>1. Owned(qs, i) = Owned(ps, i) /\ PaidOf(qs, Standings(qs, i)) = left BY <1>5, <1>6
    <3> HIDE DEF ps, qs, x, z, left, status
    <3> QED BY <1>3, <1>7, <1>8, <1>9, <1>10, <3>1 DEF Backed
  <2>2. ASSUME NEW j \in Invoices, j # i PROVE Backed(qs, j, invoice[j])
    <3>1. Backed(ps, j, invoice[j]) BY DEF InvoicesBacked
    <3>2. Owned(qs, j) = Owned(ps, j) /\ Standings(qs, j) = Standings(ps, j)
          /\ PaidOf(qs, Standings(qs, j)) = PaidOf(ps, Standings(ps, j) \ {n})
          /\ Standings(qs, j) = Standings(ps, j) \ {n}
      BY <1>4, <1>6, <2>2
    <3> HIDE DEF ps, qs
    <3> QED BY <3>1, <3>2 DEF Backed
  <2>3. \A k, m \in DOMAIN qs : qs[k].key = qs[m].key => k = m
    <3>1. \A k, m \in DOMAIN ps : ps[k].key = ps[m].key => k = m BY DEF InvoicesBacked
    <3> HIDE DEF ps, qs
    <3> QED BY <1>6, <3>1
  <2> HIDE DEF z
  <2> QED BY <1>13, <2>1, <2>2, <2>3 DEF InvoicesBacked
<1>17. Charges
  <2>1. \A s \in S : s[1] \in {"revenue", "payment"} OBVIOUS
  <2> HIDE DEF S
  <2>2. Beyond(S) BY <1>11 DEF Beyond
  <2> QED BY <2>1, <2>2 DEF Charges
<1> HIDE DEF z, left
<1> QED BY <1>7, <1>8, <1>10, <1>13, <1>14, <1>15, <1>16, <1>17 DEF left

\* Every step of OnInvoices, which leaves the invoices of bookings alone.
LEMMA OnInvoicesBooks ==
  ASSUME Legible, InvoicesOk, PaymentsOk, InvoicesBacked, NEW v \in Views, OnInvoices(v)
  PROVE  /\ InvoicesOk' /\ PaymentsOk' /\ InvoicesBacked' /\ Charges
         /\ \A b \in Bookings : invoice'[b] = invoice[b]
<1>1. Bookings \subseteq Invoices BY PaymentsAssumption
<1>2. PICK i \in Invoices \ Bookings :
  \/ \E a \in Amounts, p \in Periods :
       \/ \E s \in {"draft", "sent"} : CreateInvoice(v, i, s, a, p, {})
       \/ \E k \in Keys : RecordInvoicePayment(v, i, k, a, p, {})
  \/ \E edit \in Edits, s \in {"same", "draft", "sent"} :
       UpdateInvoice(v, i, edit, s)
  \/ VoidInvoice(v, i) \/ ArchiveInvoice(v, i)
  \/ \E n \in DOMAIN payment, unpaid \in {"sent", "overdue"} : VoidInvoicePayment(v, i, n, unpaid, {})
  BY DEF OnInvoices
<1>3. Amounts \subseteq Nat \ {0} BY LedgerAssumption
<1>4. InvoicesOk' /\ PaymentsOk' /\ InvoicesBacked' /\ Charges /\ \E r : Issues(i, r)
  <2>1. ASSUME NEW a \in Amounts, NEW p \in Periods, NEW s \in {"draft", "sent"}, CreateInvoice(v, i, s, a, p, {})
        PROVE  InvoicesOk' /\ PaymentsOk' /\ InvoicesBacked' /\ Charges /\ \E r : Issues(i, r)
    <3>1. a \in Nat \ {0} BY <1>3
    <3> DEFINE also == {}
               b == a
    <3>2. CreateInvoice(v, i, s, b, p, also) /\ b \in Nat \ {0} BY <2>1, <3>1
    <3> HIDE DEF also, b
    <3>3. InvoicesOk' /\ PaymentsOk' /\ InvoicesBacked' /\ Charges BY <3>2, CreateInvoiceBooks
    <3>4. \E r : Issues(i, r) BY <2>1 DEF CreateInvoice
    <3> QED BY <3>3, <3>4
  <2>2. ASSUME NEW a \in Amounts, NEW p \in Periods, NEW k \in Keys, RecordInvoicePayment(v, i, k, a, p, {})
        PROVE  InvoicesOk' /\ PaymentsOk' /\ InvoicesBacked' /\ Charges /\ \E r : Issues(i, r)
    <3>1. a \in Nat \ {0} BY <1>3
    <3> DEFINE also == {}
               b == a
    <3>2. RecordInvoicePayment(v, i, k, b, p, also) /\ b \in Nat \ {0} BY <2>2, <3>1
    <3> HIDE DEF also, b
    <3>3. InvoicesOk' /\ PaymentsOk' /\ InvoicesBacked' /\ Charges BY <3>2, RecordInvoicePaymentBooks
    <3>4. \E r : Issues(i, r) BY <2>2 DEF RecordInvoicePayment
    <3> QED BY <3>3, <3>4
  <2>3. ASSUME NEW edit \in Edits, NEW s \in {"same", "draft", "sent"}, UpdateInvoice(v, i, edit, s)
        PROVE  InvoicesOk' /\ PaymentsOk' /\ InvoicesBacked' /\ Charges /\ \E r : Issues(i, r)
    <3>1. InvoicesOk' /\ PaymentsOk' /\ InvoicesBacked' /\ Charges BY <2>3, UpdateInvoiceBooks
    <3>2. \E r : Issues(i, r) BY <2>3 DEF UpdateInvoice
    <3> QED BY <3>1, <3>2
  <2>4. ASSUME VoidInvoice(v, i) \/ ArchiveInvoice(v, i)
        PROVE  InvoicesOk' /\ PaymentsOk' /\ InvoicesBacked' /\ Charges /\ \E r : Issues(i, r)
    <3>1. InvoicesOk' /\ PaymentsOk' /\ InvoicesBacked' /\ Charges BY <2>4, GiveUpInvoiceBooks
    <3>2. \E r : Issues(i, r) BY <2>4 DEF VoidInvoice, ArchiveInvoice
    <3> QED BY <3>1, <3>2
  <2>5. ASSUME NEW n \in DOMAIN payment, NEW unpaid \in {"sent", "overdue"}, VoidInvoicePayment(v, i, n, unpaid, {})
        PROVE  InvoicesOk' /\ PaymentsOk' /\ InvoicesBacked' /\ Charges /\ \E r : Issues(i, r)
    <3> DEFINE also == {}
    <3>1. VoidInvoicePayment(v, i, n, unpaid, also) BY <2>5
    <3> HIDE DEF also
    <3>2. InvoicesOk' /\ PaymentsOk' /\ InvoicesBacked' /\ Charges BY <3>1, VoidInvoicePaymentBooks
    <3>3. \E r : Issues(i, r) BY <2>5 DEF VoidInvoicePayment
    <3> QED BY <3>2, <3>3
  <2> QED BY <1>2, <2>1, <2>2, <2>3, <2>4, <2>5
<1>5. \A b \in Bookings : invoice'[b] = invoice[b]
  <2>1. PICK r : Issues(i, r) BY <1>4
  <2> QED BY <1>1, <2>1 DEF Issues, InvoicesOk
<1> QED BY <1>4, <1>5

-----------------------------------------------------------------------------
(* Commissions.                                                            *)

\* What a step of commissions writes.
Accrues == \E records2 : Beyond(records2) /\ \A x \in records2 : x[1] \in {"accrual", "payout"}

\* A commission that is written before it is paid.
LEMMA AccrualBooked ==
  ASSUME NEW c, Beyond({<<"accrual", c>>})
  PROVE  Accrues
<1> DEFINE S == {<<"accrual", c>>}
<1>1. Beyond(S) /\ \A y \in S : y[1] \in {"accrual", "payout"} OBVIOUS
<1> HIDE DEF S
<1> QED BY <1>1 DEF Accrues

\* createCommission
LEMMA CreateCommissionBooks ==
  ASSUME Legible, CommissionsOk, NEW v \in Views, NEW c \in Commissions, NEW s \in {"pending", "approved"},
         NEW a \in Amounts, CreateCommission(v, c, s, a)
  PROVE  CommissionsOk' /\ Accrues
<1> DEFINE x == commission[c]
           r == [x EXCEPT !.status = s, !.amount = a, !.period = today]
           posts == Ready(v) /\ s = "approved"
           news == IF posts THEN <<Posting("accrual", c, r, "expense")>> ELSE <<>>
           old == 0
           docs == {Record(c)}
<1>1. /\ x \in CommissionRecord /\ x.status = "none" /\ x.journal = 0
      /\ a \in Nat \ {0} /\ today \in Periods
  BY LedgerAssumption DEF CommissionsOk, Made, CreateCommission, Legible
<1>2. Book(v, old, news, docs) /\ commission' = [commission EXCEPT ![c] = Linked(r, old, news)]
  BY DEF CreateCommission, Accrual, Owes
<1>3. /\ r \in CommissionRecord /\ r.status = s /\ r.amount = a /\ r.journal = 0 /\ r.version = x.version
      /\ r.payout = x.payout
  <2> HIDE DEF x
  <2> QED BY <1>1 DEF CommissionRecord
<1>4. news = IF posts THEN <<Posting("accrual", c, r, "expense")>> ELSE <<>> OBVIOUS
<1>5. /\ r.status # "none" /\ r.amount # 0 /\ r.status # "paid" /\ commission[c].status # "paid"
      /\ r.version = commission[c].version /\ r.journal \in {0, commission[c].journal} /\ r.payout = commission[c].payout
      /\ old = commission[c].journal \/ (old = 0 /\ ~(commission[c].status \in {"approved", "paid"}))
      /\ posts => r.status \in {"approved", "paid"}
      /\ r.status \in {"approved", "paid"} /\ ~posts => ~Ready(v) /\ r.journal = 0
  <2> HIDE DEF r
  <2> QED BY <1>1, <1>3
<1> HIDE DEF r, posts, news, old, docs, x
<1>6. CommissionsOk' /\ Beyond({<<"accrual", c>>}) BY <1>2, <1>3, <1>4, <1>5, CommissionBooked
<1> QED BY <1>6, AccrualBooked

\* updateCommission
LEMMA UpdateCommissionBooks ==
  ASSUME Legible, CommissionsOk, NEW v \in Views, NEW c \in Commissions, NEW edit \in {None} \cup (Amounts \X {today}),
         NEW status \in {"same", "pending", "approved"}, UpdateCommission(v, c, edit, status)
  PROVE  CommissionsOk' /\ Accrues
<1> DEFINE was == commission[c]
           old == IF Ready(v) /\ was.status = "approved" THEN was.journal ELSE 0
           next == Given(status, was)
           r == [Edited(was, edit) EXCEPT !.status = next, !.period = today]
           posts == Ready(v) /\ r.status = "approved"
           news == IF posts THEN <<Posting("accrual", c, r, "expense")>> ELSE <<>>
           docs == {Record(c)}
<1>1. /\ was \in CommissionRecord /\ was.status \in {"pending", "approved"} /\ was.amount # 0 /\ today \in Periods
  BY DEF CommissionsOk, Made, UpdateCommission, CommissionRecord, Legible
<1>2. next \in {"pending", "approved"} BY <1>1 DEF Given
<1>3. /\ Book(v, old, news, docs) /\ commission' = [commission EXCEPT ![c] = Linked(r, old, news)]
      /\ was.journal # 0 => Ready(v)
  BY DEF UpdateCommission, Accrual, Owes
<1>4. /\ r \in CommissionRecord /\ r.status = next /\ r.journal = was.journal /\ r.version = was.version
      /\ r.amount # 0 /\ r.payout = was.payout
  <2>1. r = [Edited(was, edit) EXCEPT !.status = next, !.period = today] OBVIOUS
  <2> HIDE DEF was, next, r
  <2>2. CASE edit = None
    <3>1. r = [was EXCEPT !.status = next, !.period = today] BY <2>1, <2>2 DEF Edited
    <3> QED BY <1>1, <1>2, <3>1 DEF CommissionRecord
  <2>3. CASE edit # None
    <3>1. PICK a \in Amounts : edit = <<a, today>> BY <2>3
    <3>2. edit[1] = a /\ edit[2] = today BY <3>1
    <3>3. r = [[was EXCEPT !.amount = a, !.period = today] EXCEPT !.status = next, !.period = today]
      BY <2>1, <2>3, <3>2 DEF Edited
    <3>4. a \in Nat /\ a # 0 BY LedgerAssumption
    <3> QED BY <1>1, <1>2, <3>3, <3>4 DEF CommissionRecord
  <2> QED BY <2>2, <2>3
<1>5. news = IF posts THEN <<Posting("accrual", c, r, "expense")>> ELSE <<>> OBVIOUS
<1>6. /\ r.status # "none" /\ r.status # "paid" /\ commission[c].status # "paid" /\ r.payout = commission[c].payout
      /\ r.version = commission[c].version /\ r.journal \in {0, commission[c].journal}
      /\ old = commission[c].journal \/ (old = 0 /\ ~(commission[c].status \in {"approved", "paid"}))
      /\ posts => r.status \in {"approved", "paid"}
      /\ r.status \in {"approved", "paid"} /\ ~posts => ~Ready(v) /\ r.journal = 0
  <2> HIDE DEF r
  <2> QED BY <1>1, <1>2, <1>3, <1>4
<1> HIDE DEF r, posts, news, old, docs, was, next
<1>7. CommissionsOk' /\ Beyond({<<"accrual", c>>}) BY <1>3, <1>4, <1>5, <1>6, CommissionBooked
<1> QED BY <1>7, AccrualBooked

\* cancelCommission and archiveCommission
LEMMA GiveUpCommissionBooks ==
  ASSUME Legible, CommissionsOk, NEW v \in Views, NEW c \in Commissions,
         CancelCommission(v, c) \/ ArchiveCommission(v, c)
  PROVE  CommissionsOk' /\ Accrues
<1> DEFINE x == commission[c]
           old == IF CancelCommission(v, c) THEN x.journal ELSE 0
           status == IF CancelCommission(v, c) THEN "cancelled" ELSE "archived"
           r == [x EXCEPT !.status = status]
           posts == FALSE
           news == IF posts THEN <<Posting("accrual", c, r, "expense")>> ELSE <<>>
           docs == {Record(c)}
<1>1. /\ x \in CommissionRecord /\ x.status \notin {"none", "paid"} /\ x.amount # 0
  BY DEF CommissionsOk, Made, CancelCommission, ArchiveCommission
<1>2. news = <<>> OBVIOUS
<1>3. Linked(r, old, <<>>) = r BY Zenon DEF Linked
<1>4. /\ Book(v, old, news, docs) /\ commission' = [commission EXCEPT ![c] = Linked(r, old, news)]
      /\ old = commission[c].journal \/ (old = 0 /\ ~(commission[c].status \in {"approved", "paid"}))
  <2>1. CASE CancelCommission(v, c) BY <1>3, <2>1 DEF CancelCommission, Owes
  <2>2. CASE ~CancelCommission(v, c)
    <3>1. ArchiveCommission(v, c) /\ old = 0 /\ status = "archived" BY <2>2
    <3>2. x.status = "cancelled" BY <3>1 DEF ArchiveCommission
    <3>3. Book(v, 0, <<>>, {Record(c)}) /\ commission' = [commission EXCEPT ![c] = [x EXCEPT !.status = "archived"]]
      BY <3>1 DEF ArchiveCommission, Owes
    <3>4. commission' = [commission EXCEPT ![c] = r] BY <3>1, <3>3
    <3>5. Linked(r, old, news) = r BY <1>2, <1>3
    <3> HIDE DEF r, old, news
    <3> QED BY <1>2, <3>1, <3>2, <3>3, <3>4, <3>5
  <2> QED BY <2>1, <2>2
<1>5. /\ r \in CommissionRecord /\ r.status \in {"cancelled", "archived"} /\ r.amount = x.amount
      /\ r.journal = x.journal /\ r.version = x.version /\ r.payout = x.payout
  <2>1. status \in {"cancelled", "archived"} OBVIOUS
  <2> HIDE DEF x, status
  <2> QED BY <1>1, <2>1 DEF CommissionRecord
<1>6. news = IF posts THEN <<Posting("accrual", c, r, "expense")>> ELSE <<>> OBVIOUS
<1>7. ~posts OBVIOUS
<1>8. /\ r.version = commission[c].version /\ r.journal \in {0, commission[c].journal} /\ r.payout = commission[c].payout
      /\ r.status # "none" /\ r.status # "paid" /\ commission[c].status # "paid" /\ r.amount # 0
      /\ ~(r.status \in {"approved", "paid"})
  <2> HIDE DEF r
  <2> QED BY <1>1, <1>5
<1>9. posts => r.status \in {"approved", "paid"} BY <1>7
<1> HIDE DEF r, posts, news, old, docs, x, status
<1>10. CommissionsOk' /\ Beyond({<<"accrual", c>>}) BY <1>4, <1>5, <1>6, <1>8, <1>9, CommissionBooked
<1> QED BY <1>10, AccrualBooked

\* payCommission
LEMMA PayCommissionBooks ==
  ASSUME Legible, CommissionsOk, NEW v \in Views, NEW c \in Commissions, NEW p \in Periods, PayCommission(v, c, p)
  PROVE  CommissionsOk' /\ Accrues
<1> DEFINE x == commission[c]
           K == "accrual"
           P == "payout"
           acc == "expense"
           accrual == IF Ready(v) /\ x.journal = 0 THEN <<Accrual(c, x)>> ELSE <<>>
           payout == Entry(<<"payout", c, 1>>, "none", x.amount, p)
           news == IF Ready(v) THEN accrual \o <<payout>> ELSE <<>>
           r == Linked(x, 0, accrual)
           link == IF Ready(v) THEN Link(Booked(0, news), payout.source) ELSE 0
           z == [r EXCEPT !.status = "paid", !.payout = link]
           docs == {Record(c)}
           S == {<<K, c>>, <<P, c>>}
<1>1. /\ x.status = "approved" /\ Book(v, 0, news, docs) /\ commission' = [commission EXCEPT ![c] = z]
  BY DEF PayCommission, Owes
<1>2. /\ x \in CommissionRecord /\ x.amount \in Nat \ {0} /\ x.period \in Periods /\ x.version \in Nat /\ x.journal \in Nat
      /\ Answers(journals, accounting, K, c, x.amount, x.journal, x.version)
      /\ Answers(journals, accounting, P, c, 0, 0, 0)
  <2>1. /\ x \in CommissionRecord /\ Made(x) /\ AccrualBook(journals, accounting, c, x)
        /\ PayoutBook(journals, accounting, c, x) /\ x.payout = 0
    BY <1>1 DEF CommissionsOk
  <2>2. x.status = "approved" BY <1>1
  <2> HIDE DEF x
  <2> QED BY <2>1, <2>2 DEF Made, AccrualBook, PayoutBook, CommissionRecord, K, P
<1>3. K \in RecordKinds /\ P \in RecordKinds /\ K # P /\ acc \in {"income", "expense"} BY DEF RecordKinds
<1>4. PaidOff(K, c, x, P, c, x.amount, r, link)
  <2>1. Accrual(c, x) = Posting(K, c, x, acc) BY DEF Accrual
  <2>2. payout = Entry(<<P, c, 1>>, "none", x.amount, p) OBVIOUS
  <2>3. /\ accrual = (IF Ready(v) /\ x.journal = 0 THEN <<Accrual(c, x)>> ELSE <<>>)
        /\ news = (IF Ready(v) THEN accrual \o <<payout>> ELSE <<>>)
        /\ r = Linked(x, 0, accrual)
        /\ link = (IF Ready(v) THEN Link(Booked(0, news), payout.source) ELSE 0)
    OBVIOUS
  <2> HIDE DEF K, P, acc, x, accrual, payout, news, r, link, docs, z
  <2> DEFINE a == x.amount
  <2>4. Pays(v, K, c, x, acc, P, c, a, p, accrual, payout, news, docs, r, link)
    BY <1>1, <1>2, <1>3, <2>1, <2>2, <2>3, Zenon DEF Pays
  <2> HIDE DEF a
  <2>5. PaidOff(K, c, x, P, c, a, r, link) BY <2>4, BothBooked
  <2> QED BY <2>5 DEF a
<1> HIDE DEF K, P, acc, x, accrual, payout, news, r, link, docs
<1>5. /\ Beyond(S) /\ link \in Nat /\ Answers(journals', accounting', P, c, x.amount, link, 1)
  BY <1>4, Zenon DEF PaidOff
<1>6. PICK l \in Nat, w \in Nat :
        /\ Answers(journals', accounting', K, c, x.amount, l, w)
        /\ r = [x EXCEPT !.version = w, !.journal = l] \/ (r = x /\ l = x.journal /\ w = x.version)
  BY <1>4, Zenon DEF PaidOff, LeftAt
<1>7. r \in CommissionRecord /\ r.amount = x.amount /\ r.version = w /\ r.journal = l
  BY <1>2, <1>6 DEF CommissionRecord
<1>8. /\ z \in CommissionRecord /\ z.status = "paid" /\ z.amount = x.amount /\ z.version = w /\ z.journal = l
      /\ z.payout = link
  BY <1>5, <1>7 DEF CommissionRecord
<1> HIDE DEF z
<1>9. Made(z) /\ AccrualBook(journals', accounting', c, z) /\ PayoutBook(journals', accounting', c, z)
  BY <1>2, <1>5, <1>6, <1>8 DEF Made, AccrualBook, PayoutBook, K, P
<1>10. EntriesOk(journals') /\ Others(S) /\ Calm BY <1>5 DEF Beyond
<1>11. ASSUME NEW d \in Commissions, d # c
       PROVE  AccrualBook(journals', accounting', d, commission[d]) /\ PayoutBook(journals', accounting', d, commission[d])
  <2>1. <<K, d>> \notin S /\ <<P, d>> \notin S BY <1>11
  <2>2. Beside(journals, journals', K, d) /\ Beside(journals, journals', P, d) BY <1>3, <1>10, <2>1 DEF Others
  <2>3. AccrualBook(journals, accounting, d, commission[d]) /\ PayoutBook(journals, accounting, d, commission[d])
    BY DEF CommissionsOk
  <2>4. AccrualBook(journals', accounting', d, commission[d])
    BY <1>10, <2>2, <2>3, BesideAnswers DEF AccrualBook, Calm, K
  <2>5. PayoutBook(journals', accounting', d, commission[d])
    BY <1>10, <2>2, <2>3, BesideAnswers DEF PayoutBook, Calm, P
  <2> QED BY <2>4, <2>5
<1>12. /\ commission' \in [Commissions -> CommissionRecord]
       /\ \A d \in Commissions : commission'[d] = IF d = c THEN z ELSE commission[d]
  BY <1>1, <1>8 DEF CommissionsOk
<1>13. CommissionsOk' BY <1>8, <1>9, <1>11, <1>12 DEF CommissionsOk
<1>14. Accrues
  <2>1. \A y \in S : y[1] \in {"accrual", "payout"} BY DEF K, P
  <2> HIDE DEF S
  <2> QED BY <1>5, <2>1 DEF Accrues
<1> QED BY <1>13, <1>14

\* Every step of OnCommissions.
LEMMA OnCommissionsBooks ==
  ASSUME Legible, CommissionsOk, NEW v \in Views, OnCommissions(v)
  PROVE  CommissionsOk' /\ Accrues
BY CreateCommissionBooks, UpdateCommissionBooks, GiveUpCommissionBooks, PayCommissionBooks DEF OnCommissions

-----------------------------------------------------------------------------
(* Payments of purchases.                                                  *)

\* An expense k, made now, of a for the purchase b.
Expends(v, k, docs, b, a, p, made) ==
  /\ v \in Views /\ k \in Keys /\ b \in Purchases /\ a \in Nat \ {0} /\ p \in Periods
  /\ outlay[k].status = "none"
  /\ made = [outlay[k] EXCEPT !.purchase = b, !.status = "paid", !.amount = a, !.period = p]
  /\ CreateLinkedExpense(v, k, made, docs)

\* createLinkedExpenseTransactionInSession
LEMMA CreateLinkedExpenseBooks ==
  ASSUME Legible, OutlaysOk, NEW v, NEW k, NEW docs, NEW b, NEW a, NEW p, NEW made,
         Expends(v, k, docs, b, a, p, made)
  PROVE  /\ OutlaysOk' /\ Beyond({<<"outlay", k>>})
         /\ \A l \in Keys : l # k => outlay'[l] = outlay[l]
         /\ outlay'[k].purchase = b /\ outlay'[k].status = "paid" /\ outlay'[k].amount = a
<1>0. /\ v \in Views /\ k \in Keys /\ b \in Purchases /\ a \in Nat \ {0} /\ p \in Periods
      /\ outlay[k].status = "none"
      /\ made = [outlay[k] EXCEPT !.purchase = b, !.status = "paid", !.amount = a, !.period = p]
      /\ CreateLinkedExpense(v, k, made, docs)
  BY Zenon DEF Expends
<1> DEFINE x == outlay[k]
           r == [x EXCEPT !.purchase = b, !.status = "paid", !.amount = a, !.period = p]
           posts == Ready(v)
           news == IF posts THEN <<Posting("outlay", k, r, "expense")>> ELSE <<>>
           old == 0
           all == docs \cup {Record(k)}
           next == Linked(r, old, news)
<1>1. /\ x \in OutlayRecord /\ x.status = "none" /\ x.journal = 0
  BY <1>0 DEF OutlaysOk, Made
<1>2. Book(v, old, news, all) /\ outlay' = [outlay EXCEPT ![k] = next]
  BY <1>0 DEF CreateLinkedExpense
<1>3. /\ r \in OutlayRecord /\ r.status = "paid" /\ r.amount = a /\ r.journal = 0 /\ r.version = x.version
      /\ r.purchase = b
  <2> HIDE DEF x
  <2> QED BY <1>0, <1>1 DEF OutlayRecord
<1>4. news = IF posts THEN <<Posting("outlay", k, r, "expense")>> ELSE <<>> OBVIOUS
<1>5. /\ r.status # "none" /\ r.amount # 0
      /\ r.version = outlay[k].version /\ r.journal \in {0, outlay[k].journal}
      /\ old = outlay[k].journal \/ (old = 0 /\ ~(outlay[k].status = "paid"))
      /\ posts => r.status = "paid"
      /\ r.status = "paid" /\ ~posts => ~Ready(v) /\ r.journal = 0
  <2>1. posts = Ready(v) OBVIOUS
  <2> HIDE DEF r, posts
  <2> QED BY <1>0, <1>1, <1>3, <2>1
<1>6. next.purchase = b /\ next.status = "paid" /\ next.amount = a
  <2>1. CASE news = <<>>
    <3>1. next = r BY <2>1, Zenon DEF Linked
    <3> HIDE DEF next, r
    <3> QED BY <1>3, <3>1
  <2>2. CASE news # <<>>
    <3> DEFINE l == Link(Booked(old, news), news[1].source)
               w == NextVersion(r)
    <3>1. next = [r EXCEPT !.version = w, !.journal = l] BY <2>2, Zenon DEF Linked
    <3> HIDE DEF l, w, r, next
    <3> QED BY <1>3, <3>1 DEF OutlayRecord
  <2> QED BY <2>1, <2>2
<1> HIDE DEF r, posts, news, old, all, x
<1>7. OutlaysOk' /\ Beyond({<<"outlay", k>>}) BY <1>0, <1>2, <1>3, <1>4, <1>5, OutlayBooked DEF next
<1> HIDE DEF next
<1>8. \A l \in Keys : outlay'[l] = IF l = k THEN next ELSE outlay[l] BY <1>2 DEF OutlaysOk
<1> QED BY <1>0, <1>6, <1>7, <1>8

\* voidLinkedExpenseTransactionInSession
LEMMA VoidLinkedExpenseBooks ==
  ASSUME Legible, OutlaysOk, NEW v \in Views, NEW k \in Keys, VoidLinkedExpense(v, k)
  PROVE  /\ OutlaysOk' /\ Beyond({<<"outlay", k>>})
         /\ \A l \in Keys : l # k => outlay'[l] = outlay[l]
         /\ outlay'[k].purchase = outlay[k].purchase /\ outlay'[k].status = "voided"
         /\ outlay'[k].amount = outlay[k].amount
<1> DEFINE x == outlay[k]
           r == [x EXCEPT !.status = "voided"]
           posts == FALSE
           news == IF posts THEN <<Posting("outlay", k, r, "expense")>> ELSE <<>>
           old == x.journal
           docs == {Record(k)}
<1>1. /\ x \in OutlayRecord /\ x.status = "paid" /\ x.amount # 0
  BY DEF OutlaysOk, Made, VoidLinkedExpense
<1>2. news = <<>> OBVIOUS
<1>3. Linked(r, old, news) = r BY <1>2, Zenon DEF Linked
<1>4. Book(v, old, <<>>, docs) /\ outlay' = [outlay EXCEPT ![k] = r] BY DEF VoidLinkedExpense
<1>5. /\ r \in OutlayRecord /\ r.status = "voided" /\ r.amount = x.amount /\ r.purchase = x.purchase
      /\ r.journal = x.journal /\ r.version = x.version
  <2> HIDE DEF x
  <2> QED BY <1>1 DEF OutlayRecord
<1>6. news = IF posts THEN <<Posting("outlay", k, r, "expense")>> ELSE <<>> OBVIOUS
<1>7. ~posts OBVIOUS
<1>8. /\ r.version = outlay[k].version /\ r.journal \in {0, outlay[k].journal}
      /\ r.status # "none" /\ r.amount # 0 /\ r.status # "paid" /\ old = outlay[k].journal
  <2>1. old = outlay[k].journal OBVIOUS
  <2> HIDE DEF r, old
  <2> QED BY <1>1, <1>5, <2>1
<1> HIDE DEF r, posts, news, old, docs, x
<1>9. Book(v, old, news, docs) /\ outlay' = [outlay EXCEPT ![k] = Linked(r, old, news)]
  BY <1>2, <1>3, <1>4
<1>10. OutlaysOk' /\ Beyond({<<"outlay", k>>}) BY <1>5, <1>6, <1>7, <1>8, <1>9, OutlayBooked
<1>11. \A l \in Keys : outlay'[l] = IF l = k THEN r ELSE outlay[l] BY <1>4 DEF OutlaysOk
<1> QED BY <1>5, <1>10, <1>11 DEF x

-----------------------------------------------------------------------------
(* Purchases and what is paid for them.                                    *)

PurchaseRecord ==
  [status : {"none", "Ordered", "PartiallyReceived", "Received", "Cancelled"},
   quantity : Nat, total : Nat, received : Nat]

\* The payments ps of purchases: those that stand for b, and what they come to.
Spending(ps, b) == {k \in Keys : ps[k].purchase = b /\ ps[k].status = "paid"}
Spent(ps, b) == SumFunction([k \in Spending(ps, b) |-> ps[k].amount])
AllSpent(ps) == {k \in Keys : ps[k].status = "paid"}

\* Finitely many payments come to a natural number.
SpentOk(ps) == ps \in [Keys -> OutlayRecord] /\ IsFiniteSet(AllSpent(ps))

\* A purchase is paid no further than its total, nor is one that was cancelled.
PaidFor(ps, b, r) ==
  /\ Spent(ps, b) <= r.total /\ r.received <= r.quantity
  /\ r.status = "none" => r.total = 0 /\ r.quantity = 0
  /\ r.status = "Cancelled" => Spent(ps, b) = 0 /\ r.received = 0
PurchasesOk ==
  /\ purchase \in [Purchases -> PurchaseRecord] /\ IsFiniteSet(AllSpent(outlay))
  /\ \A b \in Purchases : PaidFor(outlay, b, purchase[b])

\* What an open transaction has read as paid is short of nothing, unless it has missed
\* a write of the purchase.
SlowPaid ==
  slow # None =>
    /\ paidBefore \in [Purchases -> Nat]
    /\ \A b \in Purchases : Record(b) \notin slow.changed => Spent(outlay, b) <= paidBefore[b]

\* What was paid for a purchase is a natural number.
LEMMA SpentTyped ==
  ASSUME NEW ps, SpentOk(ps), NEW b
  PROVE  /\ IsFiniteSet(Spending(ps, b)) /\ Spent(ps, b) \in Nat
         /\ \A k \in Spending(ps, b) : ps[k].amount \in Nat
<1> DEFINE S == Spending(ps, b)
           f == [k \in S |-> ps[k].amount]
<1>1. S \subseteq AllSpent(ps) BY DEF Spending, AllSpent
<1>2. IsFiniteSet(S) BY <1>1, FS_Subset DEF SpentOk
<1>3. \A k \in S : ps[k].amount \in Nat BY DEF SpentOk, OutlayRecord, Spending
<1>4. f \in [S -> Nat] BY <1>3
<1> HIDE DEF f, S
<1>5. SumFunction(f) \in Nat BY <1>2, <1>4, TotalTyped
<1> QED BY <1>2, <1>3, <1>5 DEF f, S, Spent

\* It is the same while its payments are.
LEMMA SpentSame ==
  ASSUME NEW ps, NEW qs, NEW b, Spending(qs, b) = Spending(ps, b),
         \A k \in Spending(ps, b) : qs[k].amount = ps[k].amount
  PROVE  Spent(qs, b) = Spent(ps, b)
<1>1. [k \in Spending(qs, b) |-> qs[k].amount] = [k \in Spending(ps, b) |-> ps[k].amount] OBVIOUS
<1> QED BY <1>1 DEF Spent

\* One payment more, k, of those that stand for b.
OnePaid(ps, qs, b, k) ==
  /\ SpentOk(ps) /\ SpentOk(qs) /\ k \in Keys
  /\ k \notin Spending(ps, b) /\ Spending(qs, b) = Spending(ps, b) \cup {k}
  /\ \A l \in Spending(ps, b) : qs[l].amount = ps[l].amount

\* What was paid is more by that.
LEMMA SpentWith ==
  ASSUME NEW ps, NEW qs, NEW b, NEW k, OnePaid(ps, qs, b, k)
  PROVE  Spent(qs, b) = Spent(ps, b) + qs[k].amount
<1> DEFINE S == Spending(ps, b)
           f == [l \in S |-> ps[l].amount]
           T == Spending(qs, b)
           g == [l \in T |-> qs[l].amount]
<1>1. SpentOk(ps) /\ SpentOk(qs) /\ k \notin S /\ T = S \cup {k} /\ \A l \in S : qs[l].amount = ps[l].amount
  BY DEF OnePaid
<1>2. IsFiniteSet(S) /\ (\A l \in S : ps[l].amount \in Nat) /\ \A l \in T : qs[l].amount \in Nat
  BY <1>1, SpentTyped
<1> HIDE DEF S, T
<1>3. f \in [S -> Int] /\ g \in [S \cup {k} -> Int] /\ \A l \in S : g[l] = f[l] BY <1>1, <1>2
<1>4. g[k] = qs[k].amount BY <1>1
<1>5. OneMore(f, g, S, k) BY <1>1, <1>2, <1>3 DEF OneMore
<1> HIDE DEF f, g
<1>6. SumFunction(g) = SumFunction(f) + g[k] BY <1>5, TotalWith
<1> QED BY <1>4, <1>6 DEF Spent, f, g, S, T

\* qs is ps with one payment more, k, of a for b.
Spends(ps, qs, k, b, a) ==
  /\ SpentOk(ps) /\ qs \in [Keys -> OutlayRecord] /\ k \in Keys /\ ps[k].status = "none"
  /\ \A l \in Keys : l # k => qs[l] = ps[l]
  /\ qs[k].purchase = b /\ qs[k].status = "paid" /\ qs[k].amount = a

\* What b was paid grows by it, and nothing else does.
LEMMA OutlaySpent ==
  ASSUME NEW ps, NEW qs, NEW k, NEW b, NEW a, Spends(ps, qs, k, b, a)
  PROVE  /\ SpentOk(qs) /\ Spent(qs, b) = Spent(ps, b) + a
         /\ \A c : c # b => Spent(qs, c) = Spent(ps, c)
<1>1. /\ SpentOk(ps) /\ qs \in [Keys -> OutlayRecord] /\ k \in Keys /\ ps[k].status = "none"
      /\ \A l \in Keys : l # k => qs[l] = ps[l]
      /\ qs[k].purchase = b /\ qs[k].status = "paid" /\ qs[k].amount = a
  BY DEF Spends
<1>2. AllSpent(qs) = AllSpent(ps) \cup {k} BY <1>1 DEF AllSpent
<1>3. SpentOk(qs)
  <2>1. IsFiniteSet(AllSpent(ps)) BY <1>1 DEF SpentOk
  <2>2. IsFiniteSet(AllSpent(ps) \cup {k}) BY <2>1, FS_AddElement
  <2> QED BY <1>1, <1>2, <2>2 DEF SpentOk
<1>4. k \notin Spending(ps, b) /\ Spending(qs, b) = Spending(ps, b) \cup {k} BY <1>1 DEF Spending
<1>5. OnePaid(ps, qs, b, k)
  <2>1. \A l \in Spending(ps, b) : qs[l].amount = ps[l].amount BY <1>1 DEF Spending
  <2> QED BY <1>1, <1>3, <1>4, <2>1 DEF OnePaid
<1>6. Spent(qs, b) = Spent(ps, b) + a BY <1>1, <1>5, SpentWith
<1>7. ASSUME NEW c, c # b PROVE Spent(qs, c) = Spent(ps, c)
  <2>1. Spending(qs, c) = Spending(ps, c) BY <1>1, <1>7 DEF Spending
  <2>2. \A l \in Spending(ps, c) : qs[l].amount = ps[l].amount BY <1>1 DEF Spending
  <2> QED BY <2>1, <2>2, SpentSame
<1> QED BY <1>3, <1>6, <1>7

\* qs is ps without the payment k.
Unspends(ps, qs, k) ==
  /\ SpentOk(ps) /\ qs \in [Keys -> OutlayRecord] /\ k \in Keys /\ ps[k].status = "paid"
  /\ \A l \in Keys : l # k => qs[l] = ps[l]
  /\ qs[k].purchase = ps[k].purchase /\ qs[k].status = "voided" /\ qs[k].amount = ps[k].amount

\* What was paid does not grow.
LEMMA OutlayUnspent ==
  ASSUME NEW ps, NEW qs, NEW k, Unspends(ps, qs, k)
  PROVE  SpentOk(qs) /\ \A c : Spent(qs, c) \in Nat /\ Spent(ps, c) \in Nat /\ Spent(qs, c) <= Spent(ps, c)
<1>1. /\ SpentOk(ps) /\ qs \in [Keys -> OutlayRecord] /\ k \in Keys /\ ps[k].status = "paid"
      /\ \A l \in Keys : l # k => qs[l] = ps[l]
      /\ qs[k].purchase = ps[k].purchase /\ qs[k].status = "voided" /\ qs[k].amount = ps[k].amount
  BY DEF Unspends
<1>2. AllSpent(qs) \subseteq AllSpent(ps) BY <1>1 DEF AllSpent
<1>3. SpentOk(qs)
  <2>1. IsFiniteSet(AllSpent(ps)) BY <1>1 DEF SpentOk
  <2>2. IsFiniteSet(AllSpent(qs)) BY <1>2, <2>1, FS_Subset
  <2> QED BY <1>1, <2>2 DEF SpentOk
<1>4. ASSUME NEW c
      PROVE  Spent(qs, c) \in Nat /\ Spent(ps, c) \in Nat /\ Spent(qs, c) <= Spent(ps, c)
  <2>1. Spent(qs, c) \in Nat /\ Spent(ps, c) \in Nat BY <1>1, <1>3, SpentTyped
  <2>2. CASE c # ps[k].purchase
    <3>1. Spending(qs, c) = Spending(ps, c) BY <1>1, <2>2 DEF Spending
    <3>2. \A l \in Spending(ps, c) : qs[l].amount = ps[l].amount BY <1>1 DEF Spending
    <3>3. Spent(qs, c) = Spent(ps, c) BY <3>1, <3>2, SpentSame
    <3> QED BY <2>1, <3>3
  <2>3. CASE c = ps[k].purchase
    <3>1. k \notin Spending(qs, c) /\ Spending(ps, c) = Spending(qs, c) \cup {k}
      BY <1>1, <2>3 DEF Spending
    <3>2. \A l \in Spending(qs, c) : ps[l].amount = qs[l].amount BY <1>1 DEF Spending
    <3>3. OnePaid(qs, ps, c, k) BY <1>1, <1>3, <3>1, <3>2 DEF OnePaid
    <3>4. Spent(ps, c) = Spent(qs, c) + ps[k].amount BY <3>3, SpentWith
    <3>5. ps[k].amount \in Nat BY <1>1 DEF SpentOk, OutlayRecord
    <3> QED BY <2>1, <3>4, <3>5
  <2> QED BY <2>2, <2>3
<1> QED BY <1>3, <1>4

-----------------------------------------------------------------------------
(* The stock.                                                              *)

Movement ==
  [source : ({None} \X {None}) \cup (Purchases \X Keys), key : Keys \cup {None}, delta : Int \ {0}]
ReceiptsOf(ms, b) == {m \in ms : m.source \in {b} \X Keys}

\* The stock is what was moved, and what was received of a purchase is what was moved for it.
StockOk ==
  /\ IsFiniteSet(movements) /\ movements \subseteq Movement
  /\ stock \in Nat /\ stock = Moved(movements)
  /\ \A b \in Purchases : purchase[b].received = Moved(ReceiptsOf(movements, b))

\* One movement more comes to its delta more.
LEMMA MovedWith ==
  ASSUME NEW ms \in SUBSET Movement, IsFiniteSet(ms), NEW m \in Movement, m \notin ms
  PROVE  Moved(ms \cup {m}) = Moved(ms) + m.delta /\ Moved(ms) \in Int
<1> DEFINE f == [n \in ms |-> n.delta]
           T == ms \cup {m}
           g == [n \in T |-> n.delta]
           S == ms
           x == m
<1>1. \A n \in T : n.delta \in Int BY DEF Movement
<1>2. f \in [S -> Int] /\ g \in [S \cup {x} -> Int] /\ \A n \in S : g[n] = f[n] BY <1>1
<1>3. g[x] = m.delta OBVIOUS
<1>4. OneMore(f, g, S, x) BY <1>2 DEF OneMore
<1> HIDE DEF f, g, S, x
<1>5. SumFunction(g) = SumFunction(f) + g[x] /\ SumFunction(f) \in Int BY <1>4, TotalWith
<1> QED BY <1>3, <1>5 DEF Moved, f, g

\* A movement that is inserted.
LEMMA MovesStock ==
  ASSUME StockOk, NEW m \in Movement, Moves(m)
  PROVE  /\ IsFiniteSet(movements') /\ movements' \subseteq Movement
         /\ stock' = stock + m.delta /\ stock' = Moved(movements')
         /\ \A b : /\ m.source \notin {b} \X Keys => Moved(ReceiptsOf(movements', b)) = Moved(ReceiptsOf(movements, b))
                   /\ m.source \in {b} \X Keys =>
                        Moved(ReceiptsOf(movements', b)) = Moved(ReceiptsOf(movements, b)) + m.delta
<1>1. m \notin movements /\ movements' = movements \cup {m} /\ stock' = stock + m.delta
  BY DEF Moves, Insertable
<1>2. IsFiniteSet(movements) /\ movements \subseteq Movement /\ stock = Moved(movements) BY DEF StockOk
<1>3. IsFiniteSet(movements') /\ movements' \subseteq Movement BY <1>1, <1>2, FS_AddElement
<1>4. stock' = Moved(movements') BY <1>1, <1>2, MovedWith
<1>5. ASSUME NEW b
      PROVE  /\ m.source \notin {b} \X Keys => Moved(ReceiptsOf(movements', b)) = Moved(ReceiptsOf(movements, b))
             /\ m.source \in {b} \X Keys =>
                  Moved(ReceiptsOf(movements', b)) = Moved(ReceiptsOf(movements, b)) + m.delta
  <2> DEFINE ms == ReceiptsOf(movements, b)
  <2>1. ms \in SUBSET Movement /\ m \notin ms /\ ms \subseteq movements BY <1>1, <1>2 DEF ReceiptsOf
  <2>2. IsFiniteSet(ms) BY <1>2, <2>1, FS_Subset
  <2>3. /\ m.source \notin {b} \X Keys => ReceiptsOf(movements', b) = ms
        /\ m.source \in {b} \X Keys => ReceiptsOf(movements', b) = ms \cup {m}
    BY <1>1 DEF ReceiptsOf
  <2> HIDE DEF ms
  <2>4. Moved(ms \cup {m}) = Moved(ms) + m.delta BY <2>1, <2>2, MovedWith
  <2> QED BY <2>3, <2>4 DEF ms
<1> QED BY <1>1, <1>3, <1>4, <1>5

-----------------------------------------------------------------------------
(* The steps of purchases and of the stock.                                *)

\* What they write of the records.
Buys == \E records2 : Beyond(records2) /\ \A x \in records2 : x[1] = "outlay"

\* What a handler reads as paid for a purchase that it writes is short of nothing.
LEMMA ReadsPaid ==
  ASSUME SnapshotOk, SlowPaid, SpentOk(outlay), NEW v \in Views, NEW old, NEW news, NEW docs,
         Book(v, old, news, docs), NEW b \in Purchases, Record(b) \in docs
  PROVE  ReadPaid(v, b) \in Nat /\ Spent(outlay, b) <= ReadPaid(v, b)
<1>1. Paid(b) = Spent(outlay, b) BY DEF Paid, Spent, Payments, Spending
<1>2. Spent(outlay, b) \in Nat BY SpentTyped
<1>3. CASE v = Here
  <2>1. Here.slow = FALSE BY DEF Here
  <2> QED BY <1>1, <1>2, <1>3, <2>1 DEF ReadPaid
<1>4. CASE v = slow /\ slow # None
  <2>1. slow.slow = TRUE BY <1>4 DEF SnapshotOk
  <2>2. PICK all : Commit(v, docs \cup all)
    <3> DEFINE all == (IF old # 0 THEN {Journal(old)} ELSE {})
                    \cup (IF Stands(old) THEN Sequence(today) ELSE {})
                    \cup (UNION {Sequence(news[n].period) : n \in DOMAIN news})
                    \cup {Journal(j) : j \in DOMAIN journals' \ DOMAIN journals}
    <3>1. Commit(v, docs \cup all) BY DEF Book
    <3> QED BY <3>1
  <2>3. Record(b) \notin slow.changed BY <1>4, <2>2 DEF Commit
  <2> QED BY <1>4, <2>1, <2>3 DEF ReadPaid, SlowPaid
<1> QED BY <1>3, <1>4 DEF Views

\* What an open transaction has read stays so, while whoever pays for a purchase writes it.
LEMMA SlowPaidKept ==
  ASSUME SnapshotOk, SlowPaid, SpentOk(outlay), Snapshot, NEW v \in Views, NEW docs, NEW all,
         Commit(v, docs \cup all),
         \A b \in Purchases : \/ Record(b) \in docs
                              \/ Spent(outlay', b) \in Nat /\ Spent(outlay', b) <= Spent(outlay, b)
  PROVE  SlowPaid'
<1>1. CASE slow' = None BY <1>1 DEF SlowPaid
<1>2. CASE slow' # None
  <2>1. /\ slow # None
        /\ slow' = [slow EXCEPT !.changed = slow.changed \cup (docs \cup all)]
    BY <1>2, Committed
  <2>2. slow'.changed = slow.changed \cup (docs \cup all)
    <3> DEFINE ds == docs \cup all
    <3>1. slow' = [slow EXCEPT !.changed = slow.changed \cup ds] BY <2>1
    <3> HIDE DEF ds
    <3>2. slow'.changed = slow.changed \cup ds BY <2>1, <3>1, Missed
    <3> QED BY <3>2 DEF ds
  <2>3. paidBefore' = paidBefore BY <1>2, <2>1 DEF Snapshot
  <2>4. ASSUME NEW b \in Purchases, Record(b) \notin slow'.changed
        PROVE  Spent(outlay', b) <= paidBefore[b]
    <3>1. Record(b) \notin slow.changed /\ Record(b) \notin docs BY <2>2, <2>4
    <3>2. Spent(outlay, b) <= paidBefore[b] /\ paidBefore[b] \in Nat BY <2>1, <3>1 DEF SlowPaid
    <3>3. Spent(outlay', b) \in Nat /\ Spent(outlay', b) <= Spent(outlay, b) BY <3>1
    <3>4. Spent(outlay, b) \in Nat BY SpentTyped
    <3> QED BY <3>2, <3>3, <3>4
  <2> QED BY <2>1, <2>3, <2>4 DEF SlowPaid
<1> QED BY <1>1, <1>2

\* The same of a transaction that books.
LEMMA BookedSlowPaid ==
  ASSUME SnapshotOk, SlowPaid, SpentOk(outlay), Snapshot, NEW v \in Views, NEW old, NEW news, NEW docs,
         Book(v, old, news, docs),
         \A b \in Purchases : \/ Record(b) \in docs
                              \/ Spent(outlay', b) \in Nat /\ Spent(outlay', b) <= Spent(outlay, b)
  PROVE  SlowPaid'
<1> DEFINE all == (IF old # 0 THEN {Journal(old)} ELSE {})
                    \cup (IF Stands(old) THEN Sequence(today) ELSE {})
                    \cup (UNION {Sequence(news[n].period) : n \in DOMAIN news})
                    \cup {Journal(j) : j \in DOMAIN journals' \ DOMAIN journals}
<1>1. Commit(v, docs \cup all) BY DEF Book
<1> HIDE DEF all
<1> QED BY <1>1, SlowPaidKept

\* Who writes none of the payments.
LEMMA OutlaysAside ==
  ASSUME Legible, OutlaysOk, NEW v, NEW docs, Book(v, 0, <<>>, docs), UNCHANGED outlay
  PROVE  OutlaysOk' /\ Buys
<1> DEFINE S == {}
<1>1. EntriesOk(journals') /\ Calm /\ Others(S) BY BooksUntouched DEF Legible, Calm
<1>2. \A k \in Keys : <<"outlay", k>> \notin S OBVIOUS
<1>3. \A x \in S : x[1] = "outlay" OBVIOUS
<1> HIDE DEF S
<1>4. OutlaysOk' BY <1>1, <1>2, OutlaysKept
<1> QED BY <1>1, <1>3, <1>4 DEF Buys, Beyond

\* A purchase that is written, by a step that writes no payment.
LEMMA PurchaseSaved ==
  ASSUME Legible, OutlaysOk, PurchasesOk, SlowPaid, SnapshotOk, Snapshot, NEW v \in Views, NEW b \in Purchases,
         NEW docs, Book(v, 0, <<>>, docs), UNCHANGED outlay, NEW r \in PurchaseRecord, PaidFor(outlay, b, r),
         purchase' = [purchase EXCEPT ![b] = r]
  PROVE  /\ OutlaysOk' /\ Buys /\ PurchasesOk' /\ SlowPaid'
         /\ \A c \in Purchases : purchase'[c] = IF c = b THEN r ELSE purchase[c]
<1>1. SpentOk(outlay) BY DEF SpentOk, OutlaysOk, PurchasesOk
<1>2. OutlaysOk' /\ Buys BY OutlaysAside
<1>3. \A c : Spent(outlay', c) \in Nat /\ Spent(outlay', c) <= Spent(outlay, c)
  <2>1. outlay' = outlay OBVIOUS
  <2>2. \A c : Spent(outlay, c) \in Nat BY <1>1, SpentTyped
  <2> QED BY <2>1, <2>2
<1>4. SlowPaid'
  <2> DEFINE old == 0
             news == <<>>
  <2>1. Book(v, old, news, docs) OBVIOUS
  <2> HIDE DEF old, news
  <2> QED BY <1>1, <1>3, <2>1, BookedSlowPaid
<1>5. /\ purchase' \in [Purchases -> PurchaseRecord]
      /\ \A c \in Purchases : purchase'[c] = IF c = b THEN r ELSE purchase[c]
  BY DEF PurchasesOk
<1>6. \A c \in Purchases : PaidFor(outlay', c, purchase'[c])
  <2>1. outlay' = outlay OBVIOUS
  <2> QED BY <1>5, <2>1 DEF PurchasesOk
<1>7. IsFiniteSet(AllSpent(outlay')) BY DEF PurchasesOk
<1> QED BY <1>2, <1>4, <1>5, <1>6, <1>7 DEF PurchasesOk

\* What purchases and the stock are like, and come to be.
PurchasesInv == OutlaysOk /\ PurchasesOk /\ StockOk /\ SlowPaid

\* createPurchase
LEMMA CreatePurchaseBooks ==
  ASSUME Legible, PurchasesInv, SnapshotOk, Snapshot, NEW v \in Views, NEW b \in Purchases,
         NEW quantity \in Nat, NEW total \in Nat, CreatePurchase(v, b, quantity, total)
  PROVE  PurchasesInv' /\ Buys
<1> DEFINE x == purchase[b]
           r == [x EXCEPT !.status = "Ordered", !.quantity = quantity, !.total = total]
           docs == {Record(b)}
<1>1. /\ x \in PurchaseRecord /\ x.status = "none" /\ PaidFor(outlay, b, x) /\ OutlaysOk /\ PurchasesOk
      /\ StockOk /\ SlowPaid
  BY DEF PurchasesInv, PurchasesOk, CreatePurchase
<1>2. Book(v, 0, <<>>, docs) /\ purchase' = [purchase EXCEPT ![b] = r] /\ UNCHANGED <<outlay, stock, movements>>
  BY DEF CreatePurchase, Saved
<1>3. SpentOk(outlay) BY <1>1 DEF SpentOk, OutlaysOk, PurchasesOk
<1>4. /\ r \in PurchaseRecord /\ r.status = "Ordered" /\ r.quantity = quantity /\ r.total = total
      /\ r.received = x.received /\ x.received \in Nat
  <2> HIDE DEF x
  <2> QED BY <1>1 DEF PurchaseRecord
<1>5. PaidFor(outlay, b, r)
  <2>1. Spent(outlay, b) \in Nat BY <1>3, SpentTyped
  <2> HIDE DEF r, x
  <2> QED BY <1>1, <1>4, <2>1 DEF PaidFor
<1> HIDE DEF r, docs
<1>6. /\ OutlaysOk' /\ Buys /\ PurchasesOk' /\ SlowPaid'
      /\ \A c \in Purchases : purchase'[c] = IF c = b THEN r ELSE purchase[c]
  BY <1>1, <1>2, <1>4, <1>5, PurchaseSaved
<1>7. StockOk'
  <2>1. \A c \in Purchases : purchase'[c].received = purchase[c].received BY <1>4, <1>6 DEF x
  <2>2. Moved(movements') = Moved(movements) /\ \A c : ReceiptsOf(movements', c) = ReceiptsOf(movements, c)
    BY <1>2
  <2> QED BY <1>1, <1>2, <2>1, <2>2 DEF StockOk
<1> QED BY <1>6, <1>7 DEF PurchasesInv

\* receivePurchase
LEMMA ReceivePurchaseBooks ==
  ASSUME Legible, PurchasesInv, SnapshotOk, Snapshot, NEW v \in Views, NEW b \in Purchases, NEW k \in Keys,
         NEW quantity \in Nat \ {0}, ReceivePurchase(v, b, k, quantity)
  PROVE  PurchasesInv' /\ Buys
<1> DEFINE x == purchase[b]
           received == x.received + quantity
           status == IF received = x.quantity THEN "Received" ELSE "PartiallyReceived"
           r == [x EXCEPT !.received = received, !.status = status]
           docs == {Material, Record(b)}
           m == [source |-> <<b, k>>, key |-> None, delta |-> quantity]
<1>1. /\ x \in PurchaseRecord /\ x.status \in {"Ordered", "PartiallyReceived"} /\ received <= x.quantity
      /\ PaidFor(outlay, b, x) /\ OutlaysOk /\ PurchasesOk /\ StockOk /\ SlowPaid
  BY DEF PurchasesInv, PurchasesOk, ReceivePurchase
<1>2. /\ Book(v, 0, <<>>, docs) /\ purchase' = [purchase EXCEPT ![b] = r] /\ UNCHANGED outlay
      /\ Moves(m)
  BY DEF ReceivePurchase, Saved, RecordPurchaseReceipt
<1>3. received \in Nat /\ status \in {"Received", "PartiallyReceived"}
  <2> HIDE DEF x
  <2> QED BY <1>1 DEF PurchaseRecord
<1>4. /\ r \in PurchaseRecord /\ r.status = status /\ r.quantity = x.quantity /\ r.total = x.total
      /\ r.received = received
  <2> HIDE DEF x, status, received
  <2> QED BY <1>1, <1>3 DEF PurchaseRecord
<1>5. PaidFor(outlay, b, r)
  <2> HIDE DEF r, x, status, received
  <2> QED BY <1>1, <1>3, <1>4 DEF PaidFor
<1> HIDE DEF r, docs
<1>6. /\ OutlaysOk' /\ Buys /\ PurchasesOk' /\ SlowPaid'
      /\ \A c \in Purchases : purchase'[c] = IF c = b THEN r ELSE purchase[c]
  BY <1>1, <1>2, <1>4, <1>5, PurchaseSaved
<1>7. m \in Movement /\ m.source = <<b, k>> /\ m.delta = quantity BY DEF Movement
<1> HIDE DEF m
<1>8. /\ IsFiniteSet(movements') /\ movements' \subseteq Movement
      /\ stock' = stock + m.delta /\ stock' = Moved(movements')
      /\ \A c : /\ m.source \notin {c} \X Keys => Moved(ReceiptsOf(movements', c)) = Moved(ReceiptsOf(movements, c))
                /\ m.source \in {c} \X Keys =>
                     Moved(ReceiptsOf(movements', c)) = Moved(ReceiptsOf(movements, c)) + m.delta
  BY <1>1, <1>2, <1>7, MovesStock
<1>9. StockOk'
  <2>1. stock' \in Nat BY <1>1, <1>7, <1>8 DEF StockOk
  <2>2. ASSUME NEW c \in Purchases PROVE purchase'[c].received = Moved(ReceiptsOf(movements', c))
    <3>1. purchase[c].received = Moved(ReceiptsOf(movements, c)) BY <1>1 DEF StockOk
    <3>2. CASE c = b
      <4>1. m.source \in {c} \X Keys BY <1>7, <3>2
      <4> QED BY <1>4, <1>6, <1>7, <1>8, <3>1, <3>2, <4>1 DEF x
    <3>3. CASE c # b
      <4>1. m.source \notin {c} \X Keys BY <1>7, <3>3
      <4> QED BY <1>6, <1>8, <3>1, <3>3, <4>1
    <3> QED BY <3>2, <3>3
  <2> QED BY <1>8, <2>1, <2>2 DEF StockOk
<1> QED BY <1>6, <1>9 DEF PurchasesInv

\* cancelPurchase
LEMMA CancelPurchaseBooks ==
  ASSUME Legible, PurchasesInv, SnapshotOk, Snapshot, NEW v \in Views, NEW b \in Purchases, CancelPurchase(v, b)
  PROVE  PurchasesInv' /\ Buys
<1> DEFINE x == purchase[b]
           r == [x EXCEPT !.status = "Cancelled"]
           docs == {Record(b)}
           old == 0
           news == <<>>
<1>1. /\ x \in PurchaseRecord /\ x.received = 0 /\ PaidFor(outlay, b, x) /\ OutlaysOk /\ PurchasesOk
      /\ StockOk /\ SlowPaid /\ ReadPaid(v, b) = 0
  BY DEF PurchasesInv, PurchasesOk, CancelPurchase
<1>2. /\ Book(v, old, news, docs) /\ Book(v, 0, <<>>, docs) /\ purchase' = [purchase EXCEPT ![b] = r]
      /\ UNCHANGED <<outlay, stock, movements>>
  BY DEF CancelPurchase, Saved
<1>3. SpentOk(outlay) BY <1>1 DEF SpentOk, OutlaysOk, PurchasesOk
<1>4. /\ r \in PurchaseRecord /\ r.status = "Cancelled" /\ r.quantity = x.quantity /\ r.total = x.total
      /\ r.received = x.received
  <2> HIDE DEF x
  <2> QED BY <1>1 DEF PurchaseRecord
<1>5. Record(b) \in docs OBVIOUS
<1> HIDE DEF r, docs, old, news
<1>6. Spent(outlay, b) = 0
  <2>1. Spent(outlay, b) \in Nat BY <1>3, SpentTyped
  <2>2. Spent(outlay, b) <= ReadPaid(v, b) BY <1>1, <1>2, <1>3, <1>5, ReadsPaid
  <2> QED BY <1>1, <2>1, <2>2
<1>7. PaidFor(outlay, b, r)
  <2> HIDE DEF x
  <2> QED BY <1>1, <1>4, <1>6 DEF PaidFor
<1>8. /\ OutlaysOk' /\ Buys /\ PurchasesOk' /\ SlowPaid'
      /\ \A c \in Purchases : purchase'[c] = IF c = b THEN r ELSE purchase[c]
  BY <1>1, <1>2, <1>4, <1>7, PurchaseSaved
<1>9. StockOk'
  <2>1. \A c \in Purchases : purchase'[c].received = purchase[c].received BY <1>4, <1>8 DEF x
  <2>2. Moved(movements') = Moved(movements) /\ \A c : ReceiptsOf(movements', c) = ReceiptsOf(movements, c)
    BY <1>2
  <2> QED BY <1>1, <1>2, <2>1, <2>2 DEF StockOk
<1> QED BY <1>8, <1>9 DEF PurchasesInv

\* Who writes neither purchases nor the stock, but payments, keeps these.
LEMMA StockAside ==
  ASSUME StockOk, UNCHANGED <<purchase, stock, movements>>
  PROVE  StockOk'
<1>1. Moved(movements') = Moved(movements) /\ \A c : ReceiptsOf(movements', c) = ReceiptsOf(movements, c)
  OBVIOUS
<1> QED BY <1>1 DEF StockOk

\* recordPurchasePayment
LEMMA RecordPurchasePaymentBooks ==
  ASSUME Legible, PurchasesInv, SnapshotOk, Snapshot, NEW v \in Views, NEW b \in Purchases, NEW k \in Keys,
         NEW amount \in Nat \ {0}, NEW p \in Periods, RecordPurchasePayment(v, b, k, amount, p)
  PROVE  PurchasesInv' /\ Buys
<1> DEFINE x == purchase[b]
           docs == Serialized(b) \cup {Record(k)}
           r == [outlay[k] EXCEPT !.purchase = b, !.status = "paid", !.amount = amount, !.period = p]
           news == IF Ready(v) THEN <<Posting("outlay", k, r, "expense")>> ELSE <<>>
           old == 0
           serial == Serialized(b)
<1>1. /\ x \in PurchaseRecord /\ x.status \notin {"none", "Cancelled"} /\ amount <= x.total - ReadPaid(v, b)
      /\ PaidFor(outlay, b, x) /\ OutlaysOk /\ PurchasesOk /\ StockOk /\ SlowPaid /\ outlay[k].status = "none"
  BY DEF PurchasesInv, PurchasesOk, RecordPurchasePayment
<1>2. /\ Book(v, old, news, docs) /\ UNCHANGED <<purchase, stock, movements>>
      /\ CreateLinkedExpense(v, k, r, serial)
  BY DEF RecordPurchasePayment, CreateLinkedExpense
<1>3. SpentOk(outlay) BY <1>1 DEF SpentOk, OutlaysOk, PurchasesOk
<1>4. Record(b) \in docs BY DEF Serialized
<1> HIDE DEF serial, docs, news, old
<1>5. /\ OutlaysOk' /\ Beyond({<<"outlay", k>>})
      /\ \A l \in Keys : l # k => outlay'[l] = outlay[l]
      /\ outlay'[k].purchase = b /\ outlay'[k].status = "paid" /\ outlay'[k].amount = amount
  <2>1. r = [outlay[k] EXCEPT !.purchase = b, !.status = "paid", !.amount = amount, !.period = p] OBVIOUS
  <2> HIDE DEF r
  <2>2. Expends(v, k, serial, b, amount, p, r) BY <1>1, <1>2, <2>1, Zenon DEF Expends
  <2> QED BY <1>1, <2>2, CreateLinkedExpenseBooks
<1> HIDE DEF r
<1>6. /\ SpentOk(outlay') /\ Spent(outlay', b) = Spent(outlay, b) + amount
      /\ \A c : c # b => Spent(outlay', c) = Spent(outlay, c)
  <2> DEFINE ps == outlay
             qs == outlay'
  <2>1. Spends(ps, qs, k, b, amount)
    <3>1. outlay' \in [Keys -> OutlayRecord] BY <1>5 DEF OutlaysOk
    <3> QED BY <1>1, <1>3, <1>5, <3>1 DEF Spends
  <2> HIDE DEF ps, qs
  <2>2. /\ SpentOk(qs) /\ Spent(qs, b) = Spent(ps, b) + amount
        /\ \A c : c # b => Spent(qs, c) = Spent(ps, c)
    BY ONLY <2>1, OutlaySpent
  <2> QED BY <2>2 DEF ps, qs
<1>7. Spent(outlay, b) \in Nat /\ \A c : Spent(outlay, c) \in Nat BY <1>3, SpentTyped
<1>8. Spent(outlay', b) <= x.total
  <2>1. Spent(outlay, b) <= ReadPaid(v, b) /\ ReadPaid(v, b) \in Nat
    BY <1>1, <1>2, <1>3, <1>4, ReadsPaid
  <2>2. x.total \in Nat BY <1>1 DEF PurchaseRecord
  <2> HIDE DEF x
  <2> QED BY <1>1, <1>6, <1>7, <2>1, <2>2
<1>9. PurchasesOk'
  <2>1. ASSUME NEW c \in Purchases PROVE PaidFor(outlay', c, purchase[c])
    <3>1. PaidFor(outlay, c, purchase[c]) BY <1>1 DEF PurchasesOk
    <3>2. CASE c = b
      <4> HIDE DEF x
      <4>1. PaidFor(outlay', b, x) BY <1>1, <1>8 DEF PaidFor
      <4> QED BY <3>2, <4>1 DEF x
    <3>3. CASE c # b
      <4>1. Spent(outlay', c) = Spent(outlay, c) BY <1>6, <3>3
      <4> QED BY <3>1, <4>1 DEF PaidFor
    <3> QED BY <3>2, <3>3
  <2>2. purchase' = purchase BY <1>2
  <2>3. IsFiniteSet(AllSpent(outlay')) BY <1>6 DEF SpentOk
  <2> QED BY <1>1, <2>1, <2>2, <2>3 DEF PurchasesOk
<1>10. SlowPaid'
  <2>1. \A c \in Purchases : \/ Record(c) \in docs
                             \/ Spent(outlay', c) \in Nat /\ Spent(outlay', c) <= Spent(outlay, c)
    BY <1>4, <1>6, <1>7
  <2> QED BY <1>1, <1>2, <1>3, <2>1, BookedSlowPaid
<1>11. Buys
  <2>1. \A y \in {<<"outlay", k>>} : y[1] = "outlay" OBVIOUS
  <2> QED BY <1>5, <2>1 DEF Buys
<1> QED BY <1>1, <1>2, <1>5, <1>9, <1>10, <1>11, StockAside DEF PurchasesInv

\* voidPurchasePayment
LEMMA VoidPurchasePaymentBooks ==
  ASSUME Legible, PurchasesInv, SnapshotOk, Snapshot, NEW v \in Views, NEW b, NEW k \in Keys,
         VoidPurchasePayment(v, b, k)
  PROVE  PurchasesInv' /\ Buys
<1> DEFINE docs == {Record(k)}
           old == outlay[k].journal
           news == <<>>
<1>1. OutlaysOk /\ PurchasesOk /\ StockOk /\ SlowPaid BY DEF PurchasesInv
<1>2. /\ VoidLinkedExpense(v, k) /\ outlay[k].status = "paid" /\ UNCHANGED <<purchase, stock, movements>>
      /\ Book(v, old, news, docs)
  BY DEF VoidPurchasePayment, VoidLinkedExpense
<1>3. SpentOk(outlay) BY <1>1 DEF SpentOk, OutlaysOk, PurchasesOk
<1> HIDE DEF docs, old, news
<1>4. /\ OutlaysOk' /\ Beyond({<<"outlay", k>>})
      /\ \A l \in Keys : l # k => outlay'[l] = outlay[l]
      /\ outlay'[k].purchase = outlay[k].purchase /\ outlay'[k].status = "voided"
      /\ outlay'[k].amount = outlay[k].amount
  BY <1>1, <1>2, VoidLinkedExpenseBooks
<1>5. /\ SpentOk(outlay')
      /\ \A c : Spent(outlay', c) \in Nat /\ Spent(outlay, c) \in Nat /\ Spent(outlay', c) <= Spent(outlay, c)
  <2> DEFINE ps == outlay
             qs == outlay'
  <2>1. Unspends(ps, qs, k)
    <3>1. outlay' \in [Keys -> OutlayRecord] BY <1>4 DEF OutlaysOk
    <3> QED BY <1>2, <1>3, <1>4, <3>1 DEF Unspends
  <2> HIDE DEF ps, qs
  <2>2. SpentOk(qs) /\ \A c : Spent(qs, c) \in Nat /\ Spent(ps, c) \in Nat /\ Spent(qs, c) <= Spent(ps, c)
    BY ONLY <2>1, OutlayUnspent
  <2> QED BY <2>2 DEF ps, qs
<1>6. PurchasesOk'
  <2>1. ASSUME NEW c \in Purchases PROVE PaidFor(outlay', c, purchase[c])
    <3>1. PaidFor(outlay, c, purchase[c]) BY <1>1 DEF PurchasesOk
    <3>2. purchase[c].total \in Nat BY <1>1 DEF PurchasesOk, PurchaseRecord
    <3> QED BY <1>5, <3>1, <3>2 DEF PaidFor
  <2>2. purchase' = purchase BY <1>2
  <2>3. IsFiniteSet(AllSpent(outlay')) BY <1>5 DEF SpentOk
  <2> QED BY <1>1, <2>1, <2>2, <2>3 DEF PurchasesOk
<1>7. SlowPaid' BY <1>1, <1>2, <1>3, <1>5, BookedSlowPaid
<1>8. Buys
  <2>1. \A y \in {<<"outlay", k>>} : y[1] = "outlay" OBVIOUS
  <2> QED BY <1>4, <2>1 DEF Buys
<1> QED BY <1>1, <1>2, <1>4, <1>6, <1>7, <1>8, StockAside DEF PurchasesInv

\* createMovement
LEMMA CreateMovementBooks ==
  ASSUME Legible, PurchasesInv, SnapshotOk, Snapshot, NEW v \in Views, NEW k \in Keys \cup {None},
         NEW delta \in Int \ {0}, CreateMovement(v, k, delta)
  PROVE  PurchasesInv' /\ Buys
<1> DEFINE docs == {Material}
           old == 0
           news == <<>>
           m == [source |-> <<None, None>>, key |-> k, delta |-> delta]
<1>1. OutlaysOk /\ PurchasesOk /\ StockOk /\ SlowPaid BY DEF PurchasesInv
<1>2. /\ stock + delta >= 0 /\ Moves(m) /\ UNCHANGED <<purchase, outlay>>
      /\ Book(v, old, news, docs) /\ Book(v, 0, <<>>, docs)
  BY DEF CreateMovement, Covered
<1>3. SpentOk(outlay) BY <1>1 DEF SpentOk, OutlaysOk, PurchasesOk
<1>4. \A c : Spent(outlay', c) \in Nat /\ Spent(outlay', c) <= Spent(outlay, c)
  <2>1. outlay' = outlay BY <1>2
  <2>2. \A c : Spent(outlay, c) \in Nat BY <1>3, SpentTyped
  <2> QED BY <2>1, <2>2
<1>5. m \in Movement /\ m.source = <<None, None>> /\ m.delta = delta BY DEF Movement
<1> HIDE DEF docs, old, news, m
<1>6. OutlaysOk' /\ Buys BY <1>1, <1>2, OutlaysAside
<1>7. SlowPaid' BY <1>1, <1>2, <1>3, <1>4, BookedSlowPaid
<1>8. PurchasesOk'
  <2>1. outlay' = outlay /\ purchase' = purchase BY <1>2
  <2> QED BY <1>1, <2>1 DEF PurchasesOk
<1>9. /\ IsFiniteSet(movements') /\ movements' \subseteq Movement
      /\ stock' = stock + m.delta /\ stock' = Moved(movements')
      /\ \A c : m.source \notin {c} \X Keys => Moved(ReceiptsOf(movements', c)) = Moved(ReceiptsOf(movements, c))
  BY <1>1, <1>2, <1>5, MovesStock
<1>10. StockOk'
  <2>1. stock' \in Nat BY <1>1, <1>2, <1>5, <1>9 DEF StockOk
  <2>2. ASSUME NEW c \in Purchases PROVE purchase'[c].received = Moved(ReceiptsOf(movements', c))
    <3>1. purchase[c].received = Moved(ReceiptsOf(movements, c)) BY <1>1 DEF StockOk
    <3>2. c # None BY QuantitiesAssumption
    <3>3. m.source \notin {c} \X Keys BY <1>5, <3>2
    <3> QED BY <1>2, <1>9, <3>1, <3>3
  <2> QED BY <1>9, <2>1, <2>2 DEF StockOk
<1> QED BY <1>6, <1>7, <1>8, <1>10 DEF PurchasesInv

\* Every step of purchases and of the stock.
LEMMA OnProcurementBooks ==
  ASSUME Legible, PurchasesInv, SnapshotOk, Snapshot, NEW v \in Views, OnProcurement(v)
  PROVE  PurchasesInv' /\ Buys
<1>1. Quantities \subseteq Nat \ {0} /\ Amounts \subseteq Nat \ {0} BY QuantitiesAssumption, LedgerAssumption
<1>2. ASSUME NEW b \in Purchases, NEW q \in Quantities, NEW a \in Amounts, CreatePurchase(v, b, q, a)
      PROVE  PurchasesInv' /\ Buys
  <2>1. q \in Nat /\ a \in Nat BY <1>1
  <2> QED BY <1>2, <2>1, CreatePurchaseBooks
<1>3. ASSUME NEW b \in Purchases, NEW q \in Quantities, NEW k \in Keys, ReceivePurchase(v, b, k, q)
      PROVE  PurchasesInv' /\ Buys
  <2>1. q \in Nat \ {0} BY <1>1
  <2> QED BY <1>3, <2>1, ReceivePurchaseBooks
<1>4. ASSUME NEW b \in Purchases, NEW k \in Keys, NEW a \in Amounts, NEW p \in Periods,
             RecordPurchasePayment(v, b, k, a, p)
      PROVE  PurchasesInv' /\ Buys
  <2>1. a \in Nat \ {0} BY <1>1
  <2> QED BY <1>4, <2>1, RecordPurchasePaymentBooks
<1>5. ASSUME NEW k \in Keys \cup {None}, NEW q \in Quantities, CreateMovement(v, k, q) \/ CreateMovement(v, k, 0 - q)
      PROVE  PurchasesInv' /\ Buys
  <2>1. q \in Int \ {0} /\ 0 - q \in Int \ {0} BY <1>1
  <2> DEFINE d == 0 - q
  <2>2. d \in Int \ {0} /\ (CreateMovement(v, k, q) \/ CreateMovement(v, k, d)) BY <1>5, <2>1
  <2> HIDE DEF d
  <2> QED BY <2>1, <2>2, CreateMovementBooks
<1> QED BY <1>2, <1>3, <1>4, <1>5, VoidPurchasePaymentBooks, CancelPurchaseBooks
     DEF OnProcurement, OnPurchases, OnStock

-----------------------------------------------------------------------------
(* The steps of the ledger.                                                *)

\* A manual journal that is written.
LEMMA ManualWritten ==
  ASSUME EntriesOk(journals), NEW j \in DOMAIN journals, journals[j].source[1] = "manual",
         NEW e, EntryOk(e), e.source = journals[j].source, journals' = [journals EXCEPT ![j] = e]
  PROVE  EntriesOk(journals') /\ \A records2 : Others(records2)
<1>1. AreEntries(journals) /\ IsEntry(e) BY DEF EntriesOk, EntryOk
<1>2. /\ AreEntries(journals') /\ DOMAIN journals' = DOMAIN journals
      /\ \A k \in DOMAIN journals : journals'[k] = IF k = j THEN e ELSE journals[k]
  BY <1>1, ChangeEntry
<1>3. EntriesOk(journals') BY <1>2 DEF EntriesOk
<1>4. ASSUME NEW kind \in RecordKinds, NEW id PROVE Beside(journals, journals', kind, id)
  <2>1. ASSUME NEW k \in DOMAIN journals', Of(journals'[k], kind, id)
        PROVE  SameEntry(journals[k], journals'[k])
    <3>1. k # j BY <2>1, <1>2 DEF Of, RecordKinds
    <3>2. journals'[k] = journals[k] BY <1>2, <2>1, <3>1
    <3> QED BY <3>2 DEF SameEntry
  <2>2. \A k \in DOMAIN journals : journals'[k].source = journals[k].source BY <1>2
  <2> QED BY <1>2, <2>1, <2>2 DEF Beside
<1> QED BY <1>3, <1>4 DEF Others

\* A journal that no record posts is appended.
LEMMA OtherAppended ==
  ASSUME EntriesOk(journals), NEW e, EntryOk(e), e.source[1] \notin RecordKinds,
         journals' = Append(journals, e)
  PROVE  EntriesOk(journals') /\ \A records2 : Others(records2)
<1>1. \A kind \in RecordKinds : \A id : ~Of(e, kind, id) BY DEF Of
<1> QED BY <1>1, AppendOk DEF Others

\* What becomes of a manual journal x that is edited, approved, posted or deleted.
Writes(x, e) ==
  \/ \E a \in Int, p \in Periods : e = [x EXCEPT !.amount = a, !.period = p]
  \/ \E u \in Users, n \in Int : e = [x EXCEPT !.status = "APPROVED", !.checker = u, !.seen = n]
  \/ e = [x EXCEPT !.status = "POSTED"]
  \/ e = [x EXCEPT !.status = "deleted"]

\* It stays an entry.
LEMMA WrittenEntry ==
  ASSUME NEW x, EntryOk(x), x.source[1] = "manual", NEW e, Writes(x, e)
  PROVE  EntryOk(e) /\ e.source = x.source
<1>1. PICK so, ac, am, pe, st, bh, ma, ch, se :
        x = [source |-> so, account |-> ac, amount |-> am, period |-> pe, status |-> st,
             byHand |-> bh, maker |-> ma, checker |-> ch, seen |-> se]
  BY DEF EntryOk, IsEntry
<1>2. /\ x.source = so /\ x.account = ac /\ x.amount = am /\ x.period = pe /\ x.status = st
      /\ x.byHand = bh /\ x.maker = ma /\ x.checker = ch /\ x.seen = se
  BY <1>1
<1>3. ASSUME NEW a \in Int, NEW p \in Periods, e = [x EXCEPT !.amount = a, !.period = p]
      PROVE  EntryOk(e) /\ e.source = x.source
  <2>1. e = [source |-> so, account |-> ac, amount |-> a, period |-> p, status |-> st,
             byHand |-> bh, maker |-> ma, checker |-> ch, seen |-> se] BY <1>1, <1>3
  <2>2. /\ e.source = so /\ e.account = ac /\ e.amount = a /\ e.period = p /\ e.status = st
        /\ e.byHand = bh /\ e.maker = ma /\ e.checker = ch /\ e.seen = se
    BY <2>1
  <2>3. IsEntry(e) BY <2>1, <2>2 DEF IsEntry
  <2> QED BY <1>2, <1>3, <2>2, <2>3 DEF EntryOk
<1>4. ASSUME NEW u \in Users, NEW n \in Int, e = [x EXCEPT !.status = "APPROVED", !.checker = u, !.seen = n]
      PROVE  EntryOk(e) /\ e.source = x.source
  <2>1. e = [source |-> so, account |-> ac, amount |-> am, period |-> pe, status |-> "APPROVED",
             byHand |-> bh, maker |-> ma, checker |-> u, seen |-> n] BY <1>1, <1>4
  <2>2. /\ e.source = so /\ e.account = ac /\ e.amount = am /\ e.period = pe /\ e.status = "APPROVED"
        /\ e.byHand = bh /\ e.maker = ma /\ e.checker = u /\ e.seen = n
    BY <2>1
  <2>3. IsEntry(e) BY <2>1, <2>2 DEF IsEntry
  <2> QED BY <1>2, <1>4, <2>2, <2>3 DEF EntryOk
<1>5. CASE e = [x EXCEPT !.status = "POSTED"]
  <2>1. e = [source |-> so, account |-> ac, amount |-> am, period |-> pe, status |-> "POSTED",
             byHand |-> bh, maker |-> ma, checker |-> ch, seen |-> se] BY <1>1, <1>5
  <2>2. /\ e.source = so /\ e.account = ac /\ e.amount = am /\ e.period = pe /\ e.status = "POSTED"
        /\ e.byHand = bh /\ e.maker = ma /\ e.checker = ch /\ e.seen = se
    BY <2>1
  <2>3. IsEntry(e) BY <2>1, <2>2 DEF IsEntry
  <2> QED BY <1>2, <2>2, <2>3 DEF EntryOk
<1>6. CASE e = [x EXCEPT !.status = "deleted"]
  <2>1. e = [source |-> so, account |-> ac, amount |-> am, period |-> pe, status |-> "deleted",
             byHand |-> bh, maker |-> ma, checker |-> ch, seen |-> se] BY <1>1, <1>6
  <2>2. /\ e.source = so /\ e.account = ac /\ e.amount = am /\ e.period = pe /\ e.status = "deleted"
        /\ e.byHand = bh /\ e.maker = ma /\ e.checker = ch /\ e.seen = se
    BY <2>1
  <2>3. IsEntry(e) BY <2>1, <2>2 DEF IsEntry
  <2> QED BY <1>2, <1>6, <2>2, <2>3 DEF EntryOk
<1> QED BY <1>3, <1>4, <1>5, <1>6, Zenon DEF Writes

\* Manual journals, and reversals by hand: no record is touched but by the latter.
LEMMA OnJournalsBooks ==
  ASSUME EntriesOk(journals), NEW v, OnJournals(v)
  PROVE  EntriesOk(journals') /\ \A records2 : Others(records2)
<1>1. ASSUME NEW p \in Periods, NEW a \in Amounts, NEW u \in Users, CreateManualJournal(v, u, a, p)
      PROVE  EntriesOk(journals') /\ \A records2 : Others(records2)
  <2> DEFINE n == Len(journals) + 1
             x == Entry(<<"manual", n, 0>>, "income", a, p)
  <2>0. PICK e : e = [x EXCEPT !.status = "DRAFT", !.maker = u]
    OBVIOUS
  <2>1. /\ e = [source |-> <<"manual", n, 0>>, account |-> "income", amount |-> a, period |-> p,
                status |-> "DRAFT", byHand |-> FALSE, maker |-> u, checker |-> None, seen |-> 0]
    <3>1. x = [source |-> <<"manual", n, 0>>, account |-> "income", amount |-> a, period |-> p,
               status |-> "POSTED", byHand |-> FALSE, maker |-> None, checker |-> None, seen |-> 0]
      BY DEF Entry
    <3> HIDE DEF x, n
    <3> QED BY <2>0, <3>1
  <2>2. journals' = Append(journals, e) BY <1>1, <2>0 DEF CreateManualJournal
  <2>3. a \in Int BY LedgerAssumption
  <2> HIDE DEF n
  <2>4. EntryOk(e) /\ e.source[1] = "manual" BY <2>1, <2>3 DEF EntryOk, IsEntry
  <2>5. e.source[1] \notin RecordKinds BY <2>4 DEF RecordKinds
  <2> QED BY <2>2, <2>4, <2>5, OtherAppended
<1>2. ASSUME NEW j \in DOMAIN journals, NEW p \in Periods, ReverseJournal(v, j, p)
      PROVE  EntriesOk(journals') /\ \A records2 : Others(records2)
  <2> DEFINE byHands == TRUE
             ks == Reversed(journals, j, p, byHands)
  <2>1. journals[j].status = "POSTED" /\ journals' = ks BY <1>2 DEF ReverseJournal
  <2>2. byHands \in BOOLEAN /\ byHands = TRUE OBVIOUS
  <2> HIDE DEF byHands
  <2>3. EntriesOk(ks) BY <2>1, <2>2, ReversalIs
  <2>4. ASSUME NEW kind \in RecordKinds, NEW id PROVE Beside(journals, ks, kind, id)
    BY <2>1, <2>2, ReversalBeside
  <2> QED BY <2>1, <2>3, <2>4 DEF Others
<1>3. ASSUME NEW j \in DOMAIN journals,
             \/ \E p \in Periods, a \in Amounts : UpdateDraftJournal(v, j, a, p)
             \/ \E u \in Users : ApproveJournal(v, j, u)
             \/ PostJournal(v, j)
             \/ DeleteDraftJournal(v, j)
      PROVE  EntriesOk(journals') /\ \A records2 : Others(records2)
  <2> DEFINE x == journals[j]
  <2>1. EntryOk(x) BY DEF EntriesOk
  <2>2. x.status \in {"DRAFT", "APPROVED"} => x.source[1] = "manual"
    <3> HIDE DEF x
    <3> QED BY <2>1 DEF EntryOk
  <2>3. x.source[1] = "manual"
    <3>1. journals[j].status \in {"DRAFT", "APPROVED"}
      <4>1. ASSUME NEW p, NEW a, UpdateDraftJournal(v, j, a, p) PROVE journals[j].status = "DRAFT"
        BY <4>1 DEF UpdateDraftJournal, Editable
      <4>2. ASSUME NEW u, ApproveJournal(v, j, u) PROVE journals[j].status = "DRAFT"
        BY <4>2 DEF ApproveJournal
      <4> QED BY <1>3, <4>1, <4>2 DEF PostJournal, DeleteDraftJournal
    <3> QED BY <2>2, <3>1
  <2>4. ASSUME NEW p \in Periods, NEW a \in Amounts, UpdateDraftJournal(v, j, a, p)
        PROVE  \E e : Writes(x, e) /\ journals' = [journals EXCEPT ![j] = e]
    <3>1. journals' = [journals EXCEPT ![j] = [x EXCEPT !.amount = a, !.period = p]]
      BY <2>4 DEF UpdateDraftJournal, Changes
    <3>2. a \in Int BY LedgerAssumption
    <3> HIDE DEF x
    <3>3. Writes(x, [x EXCEPT !.amount = a, !.period = p]) BY <3>2, Zenon DEF Writes
    <3> QED BY <3>1, <3>3, Zenon
  <2>5. ASSUME NEW u \in Users, ApproveJournal(v, j, u)
        PROVE  \E e : Writes(x, e) /\ journals' = [journals EXCEPT ![j] = e]
    <3> DEFINE n == x.amount
    <3>1. journals' = [journals EXCEPT ![j] = [x EXCEPT !.status = "APPROVED", !.checker = u, !.seen = n]]
      BY <2>5 DEF ApproveJournal, Changes
    <3>2. n \in Int
      <4> HIDE DEF x
      <4> QED BY <2>1 DEF EntryOk
    <3> HIDE DEF n, x
    <3>3. Writes(x, [x EXCEPT !.status = "APPROVED", !.checker = u, !.seen = n]) BY <3>2, Zenon DEF Writes
    <3> QED BY <3>1, <3>3, Zenon
  <2>6. ASSUME PostJournal(v, j)
        PROVE  \E e : Writes(x, e) /\ journals' = [journals EXCEPT ![j] = e]
    <3>1. journals' = [journals EXCEPT ![j] = [x EXCEPT !.status = "POSTED"]]
      BY <2>6 DEF PostJournal, Changes
    <3> HIDE DEF x
    <3>2. Writes(x, [x EXCEPT !.status = "POSTED"]) BY Zenon DEF Writes
    <3> QED BY <3>1, <3>2, Zenon
  <2>7. ASSUME DeleteDraftJournal(v, j)
        PROVE  \E e : Writes(x, e) /\ journals' = [journals EXCEPT ![j] = e]
    <3>1. journals' = [journals EXCEPT ![j] = [x EXCEPT !.status = "deleted"]]
      BY <2>7 DEF DeleteDraftJournal, Changes
    <3> HIDE DEF x
    <3>2. Writes(x, [x EXCEPT !.status = "deleted"]) BY Zenon DEF Writes
    <3> QED BY <3>1, <3>2, Zenon
  <2>8. PICK e : Writes(x, e) /\ journals' = [journals EXCEPT ![j] = e]
    BY <1>3, <2>4, <2>5, <2>6, <2>7
  <2> HIDE DEF x
  <2>9. EntryOk(e) /\ e.source = x.source BY <2>1, <2>3, <2>8, WrittenEntry
  <2> QED BY <2>3, <2>8, <2>9, ManualWritten DEF x
<1> QED BY <1>1, <1>2, <1>3 DEF OnJournals

\* What the calendar is like, and what an open transaction has read.
CalendarOk ==
  /\ periods \in [Periods -> {"OPEN", "SOFT_LOCKED", "CLOSED"}]
  /\ today \in Periods /\ accounting \in {"active", "off", "activated"}
SlowReads ==
  slow # None =>
    /\ accounting = "active" => slow.accounting = "active"
    /\ \A y \in Years : slow.balances[y][1] \in Int /\ slow.balances[y][2] \in Int

\* No transaction begins, and one that stays open has read what it had.
Onward ==
  slow' # None =>
    /\ slow # None /\ slow'.accounting = slow.accounting /\ slow'.balances = slow.balances
    /\ slow.changed \subseteq slow'.changed

\* So it is when one commits.
LEMMA CommitsOnward ==
  ASSUME SnapshotOk, NEW v \in Views, NEW docs, Commit(v, docs)
  PROVE  Onward
<1>1. CASE slow' = None BY <1>1 DEF Onward
<1>2. CASE slow # None /\ slow' = [slow EXCEPT !.changed = slow.changed \cup docs]
  <2>1. PICK pe, ye, ac, se, ba, ch :
          slow = [periods |-> pe, years |-> ye, accounting |-> ac, settled |-> se,
                  balances |-> ba, changed |-> ch, slow |-> TRUE]
    BY <1>2 DEF SnapshotOk
  <2>2. slow' = [periods |-> pe, years |-> ye, accounting |-> ac, settled |-> se,
                 balances |-> ba, changed |-> ch \cup docs, slow |-> TRUE]
    BY <1>2, <2>1
  <2> QED BY <1>2, <2>1, <2>2 DEF Onward
<1> QED BY <1>1, <1>2, Committed

\* The same of one that books.
LEMMA BooksOnward ==
  ASSUME SnapshotOk, NEW v \in Views, NEW old, NEW news, NEW docs, Book(v, old, news, docs)
  PROVE  Onward
BY CommitsOnward DEF Book

\* What it has read stays true.
LEMMA SlowReadsKept ==
  ASSUME SlowReads, Onward, Calm
  PROVE  SlowReads'
BY DEF SlowReads, Onward, Calm

\* And so does what it has read as paid.
LEMMA SlowPaidIdle ==
  ASSUME SlowPaid, SpentOk(outlay), Snapshot, UNCHANGED outlay, Onward \/ slow = None
  PROVE  SlowPaid'
<1>1. CASE slow' = None BY <1>1 DEF SlowPaid
<1>2. CASE slow' # None /\ slow = None
  <2>1. paidBefore' = [b \in Purchases |-> Paid(b)] BY <1>2 DEF Snapshot
  <2>2. \A b : Paid(b) = Spent(outlay, b) BY DEF Paid, Spent, Payments, Spending
  <2>3. \A b : Spent(outlay, b) \in Nat BY SpentTyped
  <2>4. \A b \in Purchases : paidBefore'[b] = Spent(outlay, b) BY <2>1, <2>2
  <2>5. paidBefore' \in [Purchases -> Nat] BY <2>1, <2>2, <2>3
  <2>6. outlay' = outlay OBVIOUS
  <2> QED BY <2>3, <2>4, <2>5, <2>6 DEF SlowPaid
<1>3. CASE slow' # None /\ slow # None
  <2>1. paidBefore' = paidBefore BY <1>3 DEF Snapshot
  <2>2. slow.changed \subseteq slow'.changed BY <1>3 DEF Onward
  <2>3. outlay' = outlay OBVIOUS
  <2> QED BY <1>3, <2>1, <2>2, <2>3 DEF SlowPaid
<1> QED BY <1>1, <1>2, <1>3

\* A balance is a number.
LEMMA BalanceTyped ==
  ASSUME EntriesOk(journals), NEW y, NEW account
  PROVE  Balance(y, account) \in Int
<1> DEFINE S == {i \in InBooks : YearOf[journals[i].period] = y /\ journals[i].account = account}
           f == [j \in S |-> journals[j].amount]
<1>1. AreEntries(journals) /\ \A j \in DOMAIN journals : journals[j].amount \in Int
  BY DEF EntriesOk, EntryOk
<1>2. IsFiniteSet(DOMAIN journals)
  <2>1. PICK T : journals \in Seq(T) BY <1>1 DEF AreEntries
  <2>2. DOMAIN journals = 1 .. Len(journals) /\ Len(journals) \in Nat BY <2>1
  <2>3. IsFiniteSet(1 .. Len(journals)) BY <2>2, FS_Interval
  <2> QED BY <2>2, <2>3
<1>3. S \subseteq DOMAIN journals BY DEF InBooks
<1>4. IsFiniteSet(S) BY <1>2, <1>3, FS_Subset
<1>5. f \in [S -> Int] BY <1>1, <1>3
<1> HIDE DEF f, S
<1>6. SumFunction(f) \in Int BY <1>4, <1>5, TotalTyped
<1> QED BY <1>6 DEF Balance, f, S

\* The closing of a year.
LEMMA YearEndCloseBooks ==
  ASSUME EntriesOk(journals), SlowReads, NEW v \in Views, NEW y \in Years, YearEndClose(v, y)
  PROVE  EntriesOk(journals') /\ \A records2 : Others(records2)
<1> DEFINE net == v.balances[y][1] + v.balances[y][2]
           last == Max(PeriodsOf(y))
           e == Entry(<<"closing", y, 0>>, "none", net, last)
<1>1. net \in Int
  <2>1. CASE v = Here
    <3>1. Here.balances[y] = <<Balance(y, "income"), Balance(y, "expense")>> BY DEF Here
    <3>2. Balance(y, "income") \in Int /\ Balance(y, "expense") \in Int BY BalanceTyped
    <3>3. v.balances[y][1] \in Int /\ v.balances[y][2] \in Int BY <2>1, <3>1, <3>2
    <3> QED BY <3>3
  <2>2. CASE v = slow /\ slow # None BY <2>2 DEF SlowReads
  <2> QED BY <2>1, <2>2 DEF Views
<1>2. last \in Periods BY LastPeriod DEF PeriodsOf
<1> HIDE DEF net, last
<1>3. EntryOk(e) /\ e.source[1] \notin RecordKinds BY <1>1, <1>2 DEF Entry, EntryOk, IsEntry, RecordKinds
<1>4. journals' = Append(journals, e) \/ journals' = journals BY DEF YearEndClose, net, last
<1> HIDE DEF e
<1>5. CASE journals' = Append(journals, e) BY <1>3, <1>5, OtherAppended
<1>6. CASE journals' = journals
  <2>1. \A kind, id : Beside(journals, journals, kind, id) BY DEF Beside, SameEntry
  <2> QED BY <1>6, <2>1 DEF Others
<1> QED BY <1>4, <1>5, <1>6

\* Every step of the ledger.
LEMMA LedgerBooks ==
  ASSUME EntriesOk(journals), CalendarOk, SnapshotOk, SlowReads, LedgerNext
  PROVE  /\ EntriesOk(journals') /\ (\A records2 : Others(records2)) /\ Calm
         /\ CalendarOk' /\ SlowReads' /\ (Onward \/ slow = None)
<1> DEFINE Good == /\ EntriesOk(journals') /\ (\A records2 : Others(records2)) /\ Calm
                   /\ CalendarOk' /\ SlowReads' /\ (Onward \/ slow = None)
<1>0. Here \in Views BY DEF Views
\* A step that leaves the journals and the rest of the calendar alone.
<1>1. ASSUME journals' = journals PROVE EntriesOk(journals') /\ \A records2 : Others(records2)
  <2>1. \A kind, id : Beside(journals, journals, kind, id) BY DEF Beside, SameEntry
  <2> QED BY <1>1, <2>1 DEF Others
<1>2. ASSUME EntriesOk(journals'), \A records2 : Others(records2), CalendarOk', Calm, Onward
      PROVE  Good
  BY <1>2, SlowReadsKept
<1>3. ASSUME slow' = slow PROVE Onward BY <1>3 DEF Onward
<1>4. ASSUME Begin PROVE Good
  <2>1. /\ slow = None /\ journals' = journals /\ accounting' = accounting
        /\ CalendarOk' /\ Calm
    BY <1>4 DEF Begin, CalendarOk, Calm
  <2>2. slow'.accounting = accounting /\ slow'.balances = Here.balances
    <3>1. PICK se, ba :
            /\ slow' = [periods |-> periods, years |-> years, accounting |-> accounting,
                        settled |-> se, balances |-> ba, changed |-> {}, slow |-> TRUE]
            /\ ba = Here.balances
      BY <1>4 DEF Begin, Here
    <3> HIDE DEF Good
    <3> QED BY <3>1
  <2>3. \A y \in Years : Here.balances[y][1] \in Int /\ Here.balances[y][2] \in Int
    <3>1. ASSUME NEW y \in Years PROVE Here.balances[y][1] \in Int /\ Here.balances[y][2] \in Int
      <4>1. Here.balances[y] = <<Balance(y, "income"), Balance(y, "expense")>> BY DEF Here
      <4>2. Balance(y, "income") \in Int /\ Balance(y, "expense") \in Int BY BalanceTyped
      <4> QED BY <4>1, <4>2
    <3> QED BY <3>1
  <2>4. SlowReads' BY <2>1, <2>2, <2>3 DEF SlowReads
  <2> QED BY <1>1, <2>1, <2>4
<1>5. ASSUME Abort PROVE Good
  <2>1. journals' = journals /\ CalendarOk' /\ Calm /\ Onward
    BY <1>5 DEF Abort, CalendarOk, Calm, Onward
  <2> QED BY <1>1, <1>2, <2>1
<1>6. ASSUME NEW v \in Views, OnJournals(v) PROVE Good
  <2>1. UNCHANGED <<periods, today, accounting>> /\ \E docs : Commit(v, docs)
    <3> DEFINE Only == UNCHANGED <<periods, today, accounting>> /\ \E docs : Commit(v, docs)
    <3>1. ASSUME NEW p, NEW a, NEW u, CreateManualJournal(v, u, a, p) PROVE Only
      BY <3>1 DEF CreateManualJournal
    <3>2. ASSUME NEW j, NEW e, Changes(v, j, e) PROVE Only BY <3>2 DEF Changes
    <3>3. ASSUME NEW j, NEW p, NEW a, UpdateDraftJournal(v, j, a, p) PROVE Only
      BY <3>2, <3>3 DEF UpdateDraftJournal
    <3>4. ASSUME NEW j, NEW u, ApproveJournal(v, j, u) PROVE Only BY <3>2, <3>4 DEF ApproveJournal
    <3>5. ASSUME NEW j, PostJournal(v, j) \/ DeleteDraftJournal(v, j) PROVE Only
      BY <3>2, <3>5 DEF PostJournal, DeleteDraftJournal
    <3>6. ASSUME NEW j, NEW p, ReverseJournal(v, j, p) PROVE Only BY <3>6 DEF ReverseJournal
    <3>7. Only
      <4> HIDE DEF Only
      <4> QED BY <1>6, <3>1, <3>3, <3>4, <3>5, <3>6 DEF OnJournals
    <3> QED BY <3>7
  <2>2. CalendarOk' /\ Calm BY <2>1 DEF CalendarOk, Calm
  <2>3. Onward BY <2>1, CommitsOnward
  <2> QED BY <1>2, <1>6, <2>2, <2>3, OnJournalsBooks
\* A step that sets the status of a period.
<1>7. ASSUME NEW v \in Views, NEW p, NEW s \in {"OPEN", "SOFT_LOCKED", "CLOSED"}, SetPeriod(v, p, s),
             UNCHANGED <<journals, today, accounting>>
      PROVE  Good
  <2>1. Onward BY <1>7, CommitsOnward DEF SetPeriod
  <2>2. CalendarOk' /\ Calm BY <1>7 DEF CalendarOk, Calm, SetPeriod
  <2> QED BY <1>1, <1>2, <1>7, <2>1, <2>2
<1>8. ASSUME UNCHANGED <<journals, periods, today, accounting, slow>> PROVE Good
  <2>1. CalendarOk' /\ Calm BY <1>8 DEF CalendarOk, Calm
  <2> QED BY <1>1, <1>2, <1>3, <1>8, <2>1
<1>9. ASSUME NEW v \in Views, NEW p \in Periods, ReopenPeriod(v, p) PROVE Good
  <2>1. SetPeriod(v, p, "OPEN") /\ UNCHANGED <<journals, today, accounting>> BY <1>9 DEF ReopenPeriod
  <2> HIDE DEF Good
  <2> QED BY <2>1, <1>7
<1>10. ASSUME NEW v \in Views, NEW y \in Years, YearEndClose(v, y) PROVE Good
  <2>1. UNCHANGED <<periods, today, accounting>> /\ \E docs : Commit(v, docs) BY <1>10 DEF YearEndClose
  <2>2. CalendarOk' /\ Calm BY <2>1 DEF CalendarOk, Calm
  <2>3. Onward BY <2>1, CommitsOnward
  <2> QED BY <1>2, <1>10, <2>2, <2>3, YearEndCloseBooks
<1>11. ASSUME Closing PROVE Good
  <2>1. \/ UNCHANGED <<periods, slow>>
        \/ \E p : \E s \in {"OPEN", "SOFT_LOCKED", "CLOSED"} : SetPeriod(Here, p, s)
    BY <1>11 DEF Closing, ReviewPeriod, LockPeriod, ReviewAgain, ClosePeriod, UnlockPeriod, CloserCrashes
  <2>2. UNCHANGED <<journals, today, accounting>>
    BY <1>11 DEF Closing, ReviewPeriod, LockPeriod, ReviewAgain, ClosePeriod, UnlockPeriod, CloserCrashes
  <2> HIDE DEF Good
  <2> QED BY <1>0, <1>7, <1>8, <2>1, <2>2
<1>12. ASSUME NEW p \in Periods, NEW s \in {"OPEN", "SOFT_LOCKED"}, SetFiscalPeriodStatus(p, s) PROVE Good
  <2>1. SetPeriod(Here, p, s) /\ UNCHANGED <<journals, today, accounting>> BY <1>12 DEF SetFiscalPeriodStatus
  <2> HIDE DEF Good
  <2> QED BY <1>0, <2>1, <1>7
<1>13. ASSUME PeriodPasses \/ PreviewMigration \/ ActivateAccounting PROVE Good
  <2>1. journals' = journals /\ slow' = slow
    BY <1>13 DEF PeriodPasses, PreviewMigration, ActivateAccounting
  <2>2. CalendarOk' /\ Calm
    BY <1>13 DEF CalendarOk, Calm, PeriodPasses, PreviewMigration, ActivateAccounting
  <2> QED BY <1>1, <1>2, <1>3, <2>1, <2>2
<1>14. Good
  <2> HIDE DEF Good
  <2> QED BY <1>4, <1>5, <1>6, <1>9, <1>10, <1>11, <1>12, <1>13 DEF LedgerNext
<1> QED BY <1>14

-----------------------------------------------------------------------------
(* Sums of instalments.                                                    *)

Prefix(f, n) == SumFunctionOnSet(f, 1 .. n)

\* The sum of one more.
LEMMA PrefixStep ==
  ASSUME NEW f, NEW n \in Nat \ {0}, \A i \in 1 .. n : f[i] \in Nat
  PROVE  /\ Prefix(f, 0) = 0
         /\ Prefix(f, n) = f[n] + Prefix(f, n - 1)
         /\ Prefix(f, n) \in Nat /\ Prefix(f, n - 1) \in Nat
<1> DEFINE S == 1 .. n
           T == 1 .. n - 1
<1>1. IsFiniteSet(S) /\ IsFiniteSet(T) BY FS_Interval
<1>2. n \in S /\ S \ {n} = T OBVIOUS
<1>3. (\A i \in S : f[i] \in Nat) /\ (\A i \in T : f[i] \in Nat) OBVIOUS
<1>4. 1 .. 0 = {} OBVIOUS
<1> HIDE DEF S, T
<1>5. SumFunctionOnSet(f, S) = f[n] + SumFunctionOnSet(f, T) BY <1>1, <1>2, <1>3, SumOut
<1>6. SumFunctionOnSet(f, S) \in Nat /\ SumFunctionOnSet(f, T) \in Nat BY <1>1, <1>3, SumNat
<1>7. SumFunctionOnSet(f, {}) = 0 BY SumEmpty
<1> QED BY <1>4, <1>5, <1>6, <1>7 DEF Prefix, S, T

\* Instalments: a sequence of amounts.
Dues(due) == due \in Seq(Nat \ {0})

\* Each of them is an amount, and they add up one by one.
LEMMA DuesAre ==
  ASSUME NEW due, Dues(due)
  PROVE  /\ Len(due) \in Nat /\ DOMAIN due = 1 .. Len(due)
         /\ \A i \in 1 .. Len(due) : due[i] \in Nat \ {0}
         /\ Prefix(due, 0) = 0
         /\ \A n \in 1 .. Len(due) : /\ Prefix(due, n) = due[n] + Prefix(due, n - 1)
                                     /\ Prefix(due, n) \in Nat /\ Prefix(due, n - 1) \in Nat
         /\ Total(due) = Prefix(due, Len(due)) /\ Total(due) \in Nat
<1>1. Len(due) \in Nat /\ DOMAIN due = 1 .. Len(due) /\ \A i \in 1 .. Len(due) : due[i] \in Nat \ {0}
  BY DEF Dues
<1>2. Prefix(due, 0) = 0
  <2>1. 1 .. 0 = {} OBVIOUS
  <2> QED BY <2>1, SumEmpty DEF Prefix
<1>3. ASSUME NEW n \in 1 .. Len(due)
      PROVE  /\ Prefix(due, n) = due[n] + Prefix(due, n - 1)
             /\ Prefix(due, n) \in Nat /\ Prefix(due, n - 1) \in Nat
  <2>1. n \in Nat \ {0} /\ \A i \in 1 .. n : due[i] \in Nat BY <1>1
  <2> QED BY <2>1, PrefixStep
<1>4. Total(due) = Prefix(due, Len(due)) BY <1>1 DEF Total, Prefix, SumFunction
<1>5. Prefix(due, Len(due)) \in Nat
  <2>1. CASE Len(due) = 0 BY <1>2, <2>1
  <2>2. CASE Len(due) # 0
    <3>1. Len(due) \in 1 .. Len(due) BY <1>1, <2>2
    <3> QED BY <1>3, <3>1
  <2> QED BY <2>1, <2>2
<1> QED BY <1>1, <1>2, <1>3, <1>4, <1>5

\* What falls due grows with every instalment.
LEMMA PrefixGrows ==
  ASSUME NEW due, Dues(due)
  PROVE  \A i, j \in 0 .. Len(due) : i < j => Prefix(due, i) + due[i + 1] <= Prefix(due, j)
<1> DEFINE N == Len(due)
           P(n) == Prefix(due, n)
<1>1. /\ N \in Nat /\ (\A i \in 1 .. N : due[i] \in Nat \ {0}) /\ P(0) = 0
      /\ \A n \in 1 .. N : P(n) = due[n] + P(n - 1) /\ P(n) \in Nat /\ P(n - 1) \in Nat
  BY DuesAre
<1>2. \A n \in 0 .. N : P(n) \in Nat
  <2>1. \A n \in 0 .. N : n = 0 \/ n \in 1 .. N BY <1>1
  <2> HIDE DEF P, N
  <2> QED BY <1>1, <2>1
<1> HIDE DEF P
<1>3. SUFFICES ASSUME NEW i \in 0 .. N, NEW m \in 0 .. N, i < m, ~(P(i) + due[i + 1] <= P(m)) PROVE FALSE
  BY DEF P
<1> DEFINE T == {j \in 0 .. N : i < j /\ ~(P(i) + due[i + 1] <= P(j))}
<1>4. T \in SUBSET Nat /\ T # {}
  <2>1. m \in T BY <1>3
  <2>2. T \subseteq 0 .. N OBVIOUS
  <2>3. 0 .. N \subseteq Nat BY <1>1
  <2> HIDE DEF T, N
  <2> QED BY <2>1, <2>2, <2>3
<1>5. PICK j \in T : \A k \in T : j <= k BY <1>4, Least
<1>6. j \in 1 .. N /\ i + 1 \in 1 .. N BY <1>1, <1>3, <1>5
<1>7. CASE j = i + 1 BY <1>1, <1>2, <1>5, <1>6, <1>7
<1>8. CASE j # i + 1
  <2>1. j - 1 \in 0 .. N /\ i < j - 1 BY <1>1, <1>3, <1>5, <1>6, <1>8
  <2>2. j - 1 \notin T BY <1>5, <2>1
  <2>3. P(i) + due[i + 1] <= P(j - 1) BY <2>1, <2>2
  <2>4. P(j) = due[j] + P(j - 1) /\ due[j] \in Nat /\ P(j) \in Nat /\ P(j - 1) \in Nat BY <1>1, <1>6
  <2>5. P(i) \in Nat /\ due[i + 1] \in Nat BY <1>1, <1>2, <1>6
  <2>6. P(i) + due[i + 1] <= P(j)
    <3> DEFINE x == P(i)
               y == P(j)
               z == P(j - 1)
               a == due[i + 1]
               b == due[j]
    <3>1. x + a <= z /\ y = b + z /\ {x, y, z, a, b} \subseteq Nat BY <2>3, <2>4, <2>5
    <3> HIDE DEF x, y, z, a, b
    <3>2. x + a <= y BY <3>1
    <3> QED BY <3>2 DEF x, y, a
  <2> QED BY <1>5, <2>6
<1> QED BY <1>7, <1>8

\* What a total covers of instalments, altogether.
LEMMA CoverIs ==
  ASSUME NEW due, Dues(due), NEW t \in Nat
  PROVE  \A n \in 0 .. Len(due) : Prefix(Projected(due, t), n) = Smaller(t, Prefix(due, n))
<1> DEFINE N == Len(due)
           P(n) == Prefix(due, n)
           f == Projected(due, t)
           Q(n) == Prefix(f, n)
<1>1. /\ N \in Nat /\ DOMAIN due = 1 .. N /\ (\A i \in 1 .. N : due[i] \in Nat \ {0}) /\ P(0) = 0
      /\ \A n \in 1 .. N : P(n) = due[n] + P(n - 1) /\ P(n) \in Nat /\ P(n - 1) \in Nat
  BY DuesAre
<1>2. \A i \in 1 .. N : f[i] = Smaller(due[i], Less(t, P(i - 1)))
  BY <1>1 DEF Projected, Before, Prefix
<1>3. \A i \in 1 .. N : f[i] \in Nat
  <2> SUFFICES ASSUME NEW i \in 1 .. N PROVE f[i] \in Nat OBVIOUS
  <2> DEFINE x == due[i]
             y == P(i - 1)
  <2>1. f[i] = Smaller(x, Less(t, y)) /\ x \in Nat /\ y \in Nat BY <1>1, <1>2
  <2> HIDE DEF x, y, f
  <2> QED BY <2>1 DEF Smaller, Less
<1>4. ASSUME NEW n \in 1 .. N PROVE Q(n) = f[n] + Q(n - 1) /\ Q(0) = 0 /\ Q(n) \in Nat /\ Q(n - 1) \in Nat
  <2>1. n \in Nat \ {0} /\ \A i \in 1 .. n : f[i] \in Nat BY <1>1, <1>3
  <2> HIDE DEF f
  <2> QED BY <2>1, PrefixStep
<1>5. Q(0) = 0
  <2>1. 1 .. 0 = {} OBVIOUS
  <2> HIDE DEF f
  <2> QED BY <2>1, SumEmpty DEF Prefix
<1> HIDE DEF P, f, Q, N
<1>6. SUFFICES ASSUME NEW m \in 0 .. N, Q(m) # Smaller(t, P(m)) PROVE FALSE
  BY DEF P, Q, N, f
<1> DEFINE T == {n \in 0 .. N : Q(n) # Smaller(t, P(n))}
<1>7. T \in SUBSET Nat /\ T # {}
  <2>1. m \in T BY <1>6
  <2>2. T \subseteq 0 .. N OBVIOUS
  <2>3. 0 .. N \subseteq Nat BY <1>1
  <2> HIDE DEF T
  <2> QED BY <2>1, <2>2, <2>3
<1>8. PICK j \in T : \A k \in T : j <= k BY <1>7, Least
<1>9. j # 0
  <2>1. Q(0) = Smaller(t, P(0)) BY <1>1, <1>5 DEF Smaller
  <2> QED BY <1>8, <2>1
<1>10. j \in 1 .. N /\ j - 1 \in 0 .. N BY <1>1, <1>8, <1>9
<1>11. Q(j - 1) = Smaller(t, P(j - 1))
  <2>1. j - 1 \notin T BY <1>8, <1>10
  <2> QED BY <1>10, <2>1
<1>12. /\ Q(j) = f[j] + Q(j - 1) /\ f[j] = Smaller(due[j], Less(t, P(j - 1)))
       /\ P(j) = due[j] + P(j - 1) /\ due[j] \in Nat /\ P(j - 1) \in Nat
  BY <1>1, <1>2, <1>4, <1>10
<1>13. Q(j) = Smaller(t, P(j)) BY <1>11, <1>12 DEF Smaller, Less
<1> QED BY <1>8, <1>13

\* What holds of none, and of one more whenever it holds of the ones before, holds of all.
LEMMA Reaches ==
  ASSUME NEW N \in Nat, NEW G, 0 \in G, \A n \in 1 .. N : n - 1 \in G => n \in G
  PROVE  0 .. N \subseteq G
<1> DEFINE T == {n \in 0 .. N : n \notin G}
<1> SUFFICES ASSUME T # {} PROVE FALSE OBVIOUS
<1>1. T \in SUBSET Nat OBVIOUS
<1>2. PICK n \in T : \A k \in T : n <= k BY <1>1, Least
<1>3. n \in 1 .. N /\ n - 1 \in 0 .. N /\ ~(n <= n - 1) BY <1>2
<1>4. n - 1 \in G BY <1>2, <1>3
<1> QED BY <1>2, <1>3, <1>4

\* Of a total that the instalments can bear, the projection leaves nothing over, and it
\* pays one instalment only after those before it.
LEMMA ProjectedIs ==
  ASSUME NEW due, Dues(due), NEW t \in Nat, t <= Total(due)
  PROVE  /\ DOMAIN Projected(due, t) = DOMAIN due
         /\ \A i \in DOMAIN due : Projected(due, t)[i] \in 0 .. due[i] /\ due[i] > 0
         /\ Total(Projected(due, t)) = t
         /\ \A i, j \in DOMAIN due : i < j /\ Projected(due, t)[j] > 0 => Projected(due, t)[i] = due[i]
         /\ t = Total(due) => Projected(due, t) = due
<1> DEFINE N == Len(due)
           P(n) == Prefix(due, n)
           f == Projected(due, t)
<1>1. /\ N \in Nat /\ DOMAIN due = 1 .. N /\ (\A i \in 1 .. N : due[i] \in Nat \ {0}) /\ P(0) = 0
      /\ (\A n \in 1 .. N : P(n) = due[n] + P(n - 1) /\ P(n) \in Nat /\ P(n - 1) \in Nat)
      /\ Total(due) = P(N) /\ Total(due) \in Nat
  BY DuesAre
<1>2. DOMAIN f = 1 .. N /\ \A i \in 1 .. N : f[i] = Smaller(due[i], Less(t, P(i - 1)))
  BY <1>1 DEF Projected, Before, Prefix
<1>3. \A i, j \in 0 .. N : i < j => P(i) + due[i + 1] <= P(j) BY PrefixGrows
<1>4. Prefix(f, N) = Smaller(t, P(N)) BY <1>1, CoverIs
<1>5. Total(f) = t
  <2>1. Total(f) = Prefix(f, N) BY <1>2 DEF Total, SumFunction, Prefix
  <2> QED BY <2>1, <1>1, <1>4 DEF Smaller
<1>6. due = [i \in 1 .. N |-> due[i]] BY <1>1 DEF Dues
<1>7. f = [i \in 1 .. N |-> f[i]] BY <1>1 DEF Projected
<1> HIDE DEF P, f, N
<1>8. ASSUME NEW i \in 1 .. N
      PROVE  /\ f[i] \in 0 .. due[i] /\ due[i] > 0
             /\ \A j \in 1 .. N : i < j /\ f[j] > 0 => f[i] = due[i]
             /\ t = P(N) => f[i] = due[i]
  <2> DEFINE x == P(i - 1)
             a == due[i]
  <2>1. x \in Nat /\ a \in Nat \ {0} /\ f[i] = Smaller(a, Less(t, x)) BY <1>1, <1>2
  <2>2. ASSUME NEW j \in 1 .. N, i < j, f[j] > 0 PROVE f[i] = a
    <3> DEFINE y == P(j - 1)
               b == due[j]
    <3>1. y \in Nat /\ b \in Nat \ {0} /\ f[j] = Smaller(b, Less(t, y)) BY <1>1, <1>2
    <3>2. i - 1 \in 0 .. N /\ j - 1 \in 0 .. N /\ i - 1 < j - 1 /\ (i - 1) + 1 = i BY <1>1, <2>2
    <3>3. x + a <= y BY <1>3, <3>2
    <3>4. f[j] > 0 BY <2>2
    <3> HIDE DEF x, y, a, b
    <3> QED BY <2>1, <3>1, <3>3, <3>4 DEF Smaller, Less
  <2>3. ASSUME t = P(N) PROVE f[i] = a
    <3>1. i - 1 \in 0 .. N /\ N \in 0 .. N /\ i - 1 < N /\ (i - 1) + 1 = i BY <1>1
    <3>2. x + a <= t BY <1>3, <2>3, <3>1
    <3> HIDE DEF x, a
    <3> QED BY <2>1, <3>2 DEF Smaller, Less
  <2>4. f[i] \in 0 .. a /\ a > 0
    <3> HIDE DEF x, a
    <3> QED BY <2>1 DEF Smaller, Less
  <2> QED BY <2>2, <2>3, <2>4
<1>9. t = P(N) => f = due
  <2> SUFFICES ASSUME t = P(N) PROVE f = due OBVIOUS
  <2>1. \A i \in 1 .. N : f[i] = due[i] BY <1>8
  <2> QED BY <1>6, <1>7, <2>1
<1>10. DOMAIN due = 1 .. N /\ Total(due) = P(N) BY <1>1
<1>11. DOMAIN f = DOMAIN due BY <1>2, <1>10
<1>12. \A i \in DOMAIN due : f[i] \in 0 .. due[i] /\ due[i] > 0 BY <1>8, <1>10
<1>13. \A i, j \in DOMAIN due : i < j /\ f[j] > 0 => f[i] = due[i] BY <1>8, <1>10
<1>14. t = Total(due) => f = due BY <1>9, <1>10
<1> QED BY <1>5, <1>11, <1>12, <1>13, <1>14 DEF f

-----------------------------------------------------------------------------
(* The plan of a booking. *)

\* One list of instalments after another.
LEMMA JoinedDues ==
  ASSUME NEW a, NEW b, Dues(a), Dues(b)
  PROVE  Dues(a \o b) /\ Total(a \o b) = Total(a) + Total(b)
<1> DEFINE f == a \o b
           N == Len(a)
           M == Len(b)
<1>1. a \in Seq(Nat \ {0}) /\ b \in Seq(Nat \ {0}) BY DEF Dues
<1>2. f \in Seq(Nat \ {0}) /\ Len(f) = N + M /\ N \in Nat /\ M \in Nat BY <1>1
<1>3. (\A i \in 1 .. N : f[i] = a[i]) /\ (\A i \in 1 .. M : f[N + i] = b[i]) BY <1>1
<1>4. Dues(f) BY <1>2 DEF Dues
<1>5. /\ Prefix(f, 0) = 0 /\ Total(f) = Prefix(f, N + M)
      /\ \A n \in 1 .. N + M : Prefix(f, n) = f[n] + Prefix(f, n - 1) /\ Prefix(f, n - 1) \in Nat
  BY <1>2, <1>4, DuesAre
<1>6. Total(a) = Prefix(a, N) /\ Total(a) \in Nat BY DuesAre
<1>7. /\ Total(b) = Prefix(b, M) /\ Prefix(b, 0) = 0
      /\ \A n \in 1 .. M : /\ Prefix(b, n) = b[n] + Prefix(b, n - 1)
                           /\ Prefix(b, n - 1) \in Nat /\ b[n] \in Nat
  BY DuesAre
<1> HIDE DEF f, N, M
<1>8. Prefix(f, N) = Total(a)
  <2>1. IsFiniteSet(1 .. N) BY <1>2, FS_Interval
  <2>2. SumFunctionOnSet(f, 1 .. N) = SumFunctionOnSet(a, 1 .. N) BY <1>3, <2>1, SumSame
  <2> QED BY <1>6, <2>2 DEF Prefix
<1> DEFINE G == {n \in Nat : n <= M => Prefix(f, N + n) = Total(a) + Prefix(b, n)}
<1>9. 0 \in G BY <1>2, <1>6, <1>7, <1>8
<1>10. ASSUME NEW n \in 1 .. M, n - 1 \in G PROVE n \in G
  <2> DEFINE x == Prefix(f, N + (n - 1))
             y == Prefix(b, n - 1)
             c == b[n]
             z == Total(a)
  <2>1. x = z + y BY <1>2, <1>10
  <2>2. N + n \in 1 .. N + M BY <1>2
  <2>3. Prefix(f, N + n) = f[N + n] + x
    <3> DEFINE k == N + n
    <3>1. k \in 1 .. N + M BY <2>2
    <3>2. k - 1 = N + (n - 1) BY <1>2
    <3> HIDE DEF k
    <3>3. Prefix(f, k) = f[k] + Prefix(f, k - 1) BY <1>5, <3>1
    <3> QED BY <3>2, <3>3 DEF k
  <2>4. f[N + n] = c BY <1>3
  <2>5. Prefix(b, n) = c + y /\ y \in Nat /\ c \in Nat /\ z \in Nat BY <1>6, <1>7
  <2>6. Prefix(f, N + n) = z + Prefix(b, n)
    <3>1. Prefix(f, N + n) = c + (z + y) BY <2>1, <2>3, <2>4
    <3> HIDE DEF c, z, y
    <3>2. c + (z + y) = z + (c + y) BY <2>5
    <3> QED BY <2>5, <3>1, <3>2
  <2> QED BY <1>2, <2>6
<1>11. 0 .. M \subseteq G
  <2> HIDE DEF G
  <2> QED BY <1>2, <1>9, <1>10, Reaches
<1>12. Prefix(f, N + M) = Total(a) + Prefix(b, M) BY <1>2, <1>11
<1> QED BY <1>4, <1>5, <1>7, <1>12 DEF f

\* A row of an amount.
LEMMA RowIs ==
  ASSUME NEW x \in Nat
  PROVE  Dues(Row(x)) /\ Total(Row(x)) = x
<1>1. CASE x = 0
  <2>1. Row(x) = << >> BY <1>1 DEF Row
  <2>2. << >> \in Seq(Nat \ {0}) /\ Len(<< >>) = 0 OBVIOUS
  <2>3. Dues(<< >>) BY <2>2 DEF Dues
  <2>4. Total(<< >>) = Prefix(<< >>, 0) /\ Prefix(<< >>, 0) = 0 BY <2>2, <2>3, DuesAre
  <2> QED BY <1>1, <2>1, <2>3, <2>4
<1>2. CASE x # 0
  <2> DEFINE r == <<x>>
  <2>1. Row(x) = r /\ x \in Nat \ {0} BY <1>2 DEF Row
  <2>2. r \in Seq(Nat \ {0}) /\ Len(r) = 1 /\ r[1] = x BY <2>1
  <2>3. Dues(r) BY <2>2 DEF Dues
  <2> HIDE DEF r
  <2>4. Total(r) = Prefix(r, 1) /\ Prefix(r, 0) = 0 BY <2>2, <2>3, DuesAre
  <2>5. 1 \in 1 .. Len(r) BY <2>2
  <2>6. Prefix(r, 1) = r[1] + Prefix(r, 1 - 1) BY <2>3, <2>5, DuesAre
  <2>7. 1 - 1 = 0 /\ x + 0 = x OBVIOUS
  <2> QED BY <2>1, <2>2, <2>3, <2>4, <2>6, <2>7
<1> QED BY <1>1, <1>2

\* The parts of an amount that is not less than their number.
LEMMA PartsAre ==
  ASSUME NEW x \in Nat \ {0}, NEW n \in 1 .. x
  PROVE  Dues(Parts(x, n)) /\ Total(Parts(x, n)) = x
<1> DEFINE q == x \div n
           f == Parts(x, n)
<1>1. n \in Nat \ {0} /\ n - 1 \in Nat /\ n <= x OBVIOUS
<1>2. q \in Nat /\ q > 0 /\ q * n <= x BY <1>1
<1> DEFINE R == q * (n - 1)
<1>3. R \in Nat /\ R + q = q * n BY <1>1, <1>2
<1>4. x - R \in Nat \ {0} BY <1>2, <1>3
<1>5. f = [i \in 1 .. n |-> IF i < n THEN q ELSE x - R] BY DEF Parts
<1> HIDE DEF q, f, R
<1>6. \A i \in 1 .. n : f[i] = (IF i < n THEN q ELSE x - R) BY <1>5
<1>7. f \in Seq(Nat \ {0}) /\ Len(f) = n BY <1>1, <1>2, <1>4, <1>5
<1>8. Dues(f) BY <1>7 DEF Dues
<1>9. /\ Prefix(f, 0) = 0 /\ Total(f) = Prefix(f, n)
      /\ \A k \in 1 .. n : Prefix(f, k) = f[k] + Prefix(f, k - 1) /\ Prefix(f, k - 1) \in Nat
  BY <1>7, <1>8, DuesAre
<1> DEFINE G == {k \in Nat : Prefix(f, k) = q * k}
<1>10. 0 \in G BY <1>2, <1>9
<1>11. ASSUME NEW k \in 1 .. n - 1, k - 1 \in G PROVE k \in G
  <2>1. k \in 1 .. n /\ k < n BY <1>1
  <2>2. Prefix(f, k) = q + Prefix(f, k - 1) BY <1>6, <1>9, <2>1
  <2>3. Prefix(f, k - 1) = q * (k - 1) BY <1>11
  <2>4. q + q * (k - 1) = q * k BY <1>2, <2>1
  <2> QED BY <2>1, <2>2, <2>3, <2>4
<1>12. 0 .. n - 1 \subseteq G
  <2> HIDE DEF G
  <2> QED BY <1>1, <1>10, <1>11, Reaches
<1>13. Prefix(f, n - 1) = R
  <2>1. n - 1 \in 0 .. n - 1 BY <1>1
  <2> QED BY <1>12, <2>1 DEF R
<1>14. Prefix(f, n) = (x - R) + R
  <2>1. n \in 1 .. n /\ ~(n < n) BY <1>1
  <2> QED BY <1>6, <1>9, <1>13, <2>1
<1>15. (x - R) + R = x BY <1>3
<1> QED BY <1>8, <1>9, <1>14, <1>15 DEF f

\* The plan that is accepted comes to the price.
LEMMA PlanIs ==
  ASSUME NEW t \in Terms, Acceptable(t)
  PROVE  Dues(Plan(t)) /\ Total(Plan(t)) = t.price /\ t.price \in Nat \ {0}
<1> DEFINE a == t.first
           b == t.last
           c == t.price
           m == Remaining(t)
           n == Count(t)
           A == Row(a)
           B == Row(b)
           M == IF m > 0 THEN Parts(m, n) ELSE <<>>
<1>1. a \in Nat /\ b \in Nat /\ c \in Nat \ {0} /\ t.count \in Nat BY TermsAssumption
<1>2. m = c - (a + b) /\ a + b <= c /\ (m > 0 => t.count <= m) BY DEF Acceptable, Fixed, Remaining
<1>3. n = 1 \/ (n = t.count /\ n # 0) BY <1>1 DEF Count
<1> HIDE DEF m, n
<1>4. m \in Nat /\ a + m + b = c BY <1>1, <1>2
<1>5. Dues(M) /\ Total(M) = m
  <2>1. CASE m > 0
    <3>1. m \in Nat \ {0} /\ n \in 1 .. m BY <1>1, <1>2, <1>3, <1>4, <2>1
    <3>2. Dues(Parts(m, n)) /\ Total(Parts(m, n)) = m BY <3>1, PartsAre
    <3> QED BY <2>1, <3>2, Zenon
  <2>2. CASE ~(m > 0)
    <3>1. Row(0) = <<>> /\ m = 0 BY <1>4, <2>2 DEF Row
    <3>2. Dues(Row(0)) /\ Total(Row(0)) = 0 BY RowIs
    <3> QED BY <2>2, <3>1, <3>2, Zenon
  <2> QED BY <2>1, <2>2
<1>6. Dues(A) /\ Total(A) = a /\ Dues(B) /\ Total(B) = b BY <1>1, RowIs
<1>7. Plan(t) = (A \o M) \o B BY DEF Plan, m, n
<1> HIDE DEF A, B, M, a, b, c
<1>8. Dues(A \o M) /\ Total(A \o M) = a + m BY <1>5, <1>6, JoinedDues
<1> DEFINE D == A \o M
<1>9. Dues(D) /\ Total(D) = a + m BY <1>8
<1> HIDE DEF D
<1>10. Dues(D \o B) /\ Total(D \o B) = (a + m) + b BY <1>6, <1>9, JoinedDues
<1> QED BY <1>1, <1>4, <1>7, <1>10 DEF D, c

-----------------------------------------------------------------------------
(* The schedules of bookings. *)

\* The booking r, whose invoice asks for `amount`, of which `total` was paid.
Scheduled(r, amount, total) ==
  /\ r.price \in Nat /\ Dues(r.due) /\ Total(r.due) = r.price /\ amount = r.price
  /\ r.paid = Projected(r.due, total)
  /\ r.price > 0 /\ total = r.price => r.status = "Completed"
ScheduleOk == \A b \in Bookings : Scheduled(booking[b], invoice[b].amount, invoice[b].paid)

\* An editor changes the status of a unit so many times, by the bound.
HandsBounded == \A u \in Units : byHand[u].count <= MaxEdits

\* What leaves the bookings and the payments of their invoices alone.
LEMMA SchedulesAside ==
  ASSUME ScheduleOk, booking' = booking,
         \A b \in Bookings : invoice'[b].amount = invoice[b].amount /\ invoice'[b].paid = invoice[b].paid
  PROVE  ScheduleOk'
BY DEF ScheduleOk

\* What sales write, their unit aside.
Sells ==
  /\ InvoicesOk' /\ PaymentsOk' /\ InvoicesBacked' /\ Charges
  /\ ScheduleOk' /\ HandsBounded'

\* createBooking
LEMMA CreateBookingBooks ==
  ASSUME Legible, InvoicesOk, PaymentsOk, InvoicesBacked, SalesShape, ScheduleOk, HandsBounded,
         NEW v \in Views, NEW b \in Bookings, NEW u \in Units, NEW t \in Terms, NEW status \in OpenStatuses,
         NEW p \in Periods, CreateBooking(v, b, u, t, status, p)
  PROVE  Sells
<1> DEFINE also == {Unit(u)}
           a == t.price
           s == "sent"
           due == Plan(t)
           new == [status |-> status, unit |-> u, key |-> u, price |-> a, due |-> due, paid |-> Projected(due, 0)]
<1>1. /\ Acceptable(t) /\ CreateInvoice(v, b, s, a, p, also)
      /\ booking' = [booking EXCEPT ![b] = new] /\ SetByBooking(u, "Reserved")
  BY DEF CreateBooking
<1>2. Dues(due) /\ Total(due) = a /\ a \in Nat \ {0} BY <1>1, PlanIs
<1>3. b \in Invoices /\ s \in {"draft", "sent"} BY PaymentsAssumption
<1> HIDE DEF also, a, s, due
<1>4. /\ InvoicesOk' /\ PaymentsOk' /\ InvoicesBacked' /\ Charges
      /\ \A j \in Invoices : j # b => invoice'[j] = invoice[j]
      /\ invoice'[b].amount = a /\ invoice'[b].paid = 0
  BY <1>1, <1>2, <1>3, CreateInvoiceBooks
<1>5. /\ new.price = a /\ new.due = due /\ new.paid = Projected(due, 0) OBVIOUS
<1> HIDE DEF new
<1>6. booking'[b] = new /\ \A c \in Bookings \ {b} : booking'[c] = booking[c] BY <1>1 DEF SalesShape
<1>7. Scheduled(new, a, 0) BY <1>2, <1>5 DEF Scheduled
<1>8. \A c \in Bookings \ {b} : invoice'[c] = invoice[c] BY <1>4, PaymentsAssumption
<1>9. ScheduleOk' BY <1>4, <1>6, <1>7, <1>8 DEF ScheduleOk
<1>10. HandsBounded'
  <2>1. byHand' = [byHand EXCEPT ![u].status = None] BY <1>1 DEF SetByBooking
  <2>2. \A w \in Units : byHand'[w].count = byHand[w].count BY <2>1 DEF SalesShape
  <2> QED BY <2>2 DEF HandsBounded
<1> QED BY <1>4, <1>9, <1>10 DEF Sells

\* What was paid is projected onto the schedule, and who set units by hand is not counted again.
LEMMA ProjectSchedules ==
  ASSUME SalesShape, ScheduleOk, HandsBounded, NEW b \in Bookings, NEW total \in Nat, Project(b, total),
         \A c \in Bookings \ {b} : invoice'[c] = invoice[c],
         invoice'[b].amount = invoice[b].amount, invoice'[b].paid = total
  PROVE  ScheduleOk' /\ HandsBounded'
<1> DEFINE r == booking[b]
           new == ProjectedBooking(r, total)
<1>1. booking'[b] = new /\ \A c \in Bookings \ {b} : booking'[c] = booking[c] BY ProjectWrites
<1>2. Scheduled(r, invoice[b].amount, invoice[b].paid) BY DEF ScheduleOk
<1>3. /\ new.price = r.price /\ new.due = r.due /\ new.paid = Projected(r.due, total)
      /\ new.status = IF Completes(r, total) THEN "Completed" ELSE r.status
  BY DEF ProjectedBooking
<1> HIDE DEF new, r
<1>4. r.price > 0 /\ total = r.price => new.status = "Completed"
  <2>1. r.price \in Nat BY <1>2 DEF Scheduled
  <2> QED BY <1>3, <2>1 DEF Completes
<1>5. Scheduled(new, invoice[b].amount, total) BY <1>2, <1>3, <1>4 DEF Scheduled
<1>6. ScheduleOk' BY <1>1, <1>5 DEF ScheduleOk
<1>7. HandsBounded'
  <2>1. byHand' = [u \in Units |->
           IF u \in HandedOver(b, total) /\ booking[b].status # "Completed"
             THEN [byHand[u] EXCEPT !.status = None] ELSE byHand[u]]
    BY DEF Project
  <2>2. ASSUME NEW u \in Units PROVE byHand'[u].count = byHand[u].count
    <3> DEFINE x == byHand[u]
               y == [x EXCEPT !.status = None]
    <3>1. byHand'[u] = y \/ byHand'[u] = x BY <2>1
    <3>2. x \in [count : Nat, status : EditableStatuses \cup {"deleted", None}] BY DEF SalesShape
    <3> HIDE DEF x
    <3>3. y.count = x.count BY <3>2
    <3> HIDE DEF y
    <3> QED BY <3>1, <3>3 DEF x
  <2> QED BY <2>2 DEF HandsBounded
<1> QED BY <1>6, <1>7

\* recordPayment
LEMMA RecordPaymentBooks ==
  ASSUME Legible, InvoicesOk, PaymentsOk, InvoicesBacked, SalesShape, ScheduleOk, HandsBounded,
         NEW v \in Views, NEW b \in Bookings, NEW k \in Keys, NEW amount \in Nat \ {0}, NEW p \in Periods,
         RecordPayment(v, b, k, amount, p)
  PROVE  Sells
<1> DEFINE total == invoice[b].paid + amount
           also == {Unit(u) : u \in HandedOver(b, total)}
<1>1. RecordInvoicePayment(v, b, k, amount, p, also) /\ Project(b, total) BY DEF RecordPayment
<1>2. b \in Invoices BY PaymentsAssumption
<1>3. total \in Nat
  <2>1. invoice[b] \in InvoiceRecord BY <1>2 DEF InvoicesOk
  <2>2. invoice[b].paid \in Nat BY <2>1 DEF InvoiceRecord
  <2> QED BY <2>2
<1> HIDE DEF also
<1>4. /\ InvoicesOk' /\ PaymentsOk' /\ InvoicesBacked' /\ Charges
      /\ \A j \in Invoices : j # b => invoice'[j] = invoice[j]
      /\ invoice'[b].amount = invoice[b].amount /\ invoice'[b].paid = invoice[b].paid + amount
  BY <1>1, <1>2, RecordInvoicePaymentBooks
<1>5. invoice'[b].paid = total /\ \A c \in Bookings \ {b} : invoice'[c] = invoice[c]
  BY <1>4, PaymentsAssumption
<1> HIDE DEF total
<1>6. ScheduleOk' /\ HandsBounded' BY <1>1, <1>3, <1>4, <1>5, ProjectSchedules
<1> QED BY <1>4, <1>6 DEF Sells

\* voidPayment
LEMMA VoidPaymentBooks ==
  ASSUME Legible, InvoicesOk, PaymentsOk, InvoicesBacked, SalesShape, ScheduleOk, HandsBounded,
         NEW v \in Views, NEW b \in Bookings, NEW n \in DOMAIN payment, NEW unpaid \in {"sent", "overdue"},
         VoidPayment(v, b, n, unpaid)
  PROVE  Sells
<1> DEFINE total == LeftPaid(b, n)
           also == {Unit(u) : u \in HandedOver(b, total)}
<1>1. VoidInvoicePayment(v, b, n, unpaid, also) /\ Project(b, total) BY DEF VoidPayment
<1>2. b \in Invoices BY PaymentsAssumption
<1> HIDE DEF also
<1>3. /\ InvoicesOk' /\ PaymentsOk' /\ InvoicesBacked' /\ Charges
      /\ \A j \in Invoices : j # b => invoice'[j] = invoice[j]
      /\ invoice'[b].amount = invoice[b].amount /\ invoice'[b].paid = LeftPaid(b, n)
      /\ LeftPaid(b, n) \in Nat
  BY <1>1, <1>2, VoidInvoicePaymentBooks
<1>4. total \in Nat /\ invoice'[b].paid = total /\ \A c \in Bookings \ {b} : invoice'[c] = invoice[c]
  BY <1>3, PaymentsAssumption
<1> HIDE DEF total
<1>5. ScheduleOk' /\ HandsBounded' BY <1>1, <1>3, <1>4, ProjectSchedules
<1> QED BY <1>3, <1>5 DEF Sells

\* Every step of OnBookings.
LEMMA OnBookingsBooks ==
  ASSUME Legible, InvoicesOk, PaymentsOk, InvoicesBacked, SalesShape, ScheduleOk, HandsBounded,
         NEW v \in Views, OnBookings(v)
  PROVE  Sells
<1>1. PICK b \in Bookings :
  \/ \E u \in Units, t \in Terms, status \in OpenStatuses, p \in Periods : CreateBooking(v, b, u, t, status, p)
  \/ \E k \in Keys, amount \in 1 .. booking[b].price, p \in Periods : RecordPayment(v, b, k, amount, p)
  \/ \E n \in DOMAIN payment, unpaid \in {"sent", "overdue"} : VoidPayment(v, b, n, unpaid)
  BY DEF OnBookings
<1>2. ASSUME NEW k \in Keys, NEW amount \in 1 .. booking[b].price, NEW p \in Periods,
             RecordPayment(v, b, k, amount, p)
      PROVE  Sells
  <2> DEFINE a == amount
  <2>1. a \in Nat \ {0}
    <3>1. booking[b].price \in Nat BY DEF ScheduleOk, Scheduled
    <3> QED BY <3>1
  <2>2. RecordPayment(v, b, k, a, p) BY <1>2
  <2> HIDE DEF a
  <2> QED BY <2>1, <2>2, RecordPaymentBooks
<1> QED BY <1>1, <1>2, CreateBookingBooks, VoidPaymentBooks

\* Edits of units by hand.
LEMMA OnUnitsBooks ==
  ASSUME Legible, SalesShape, ScheduleOk, HandsBounded, OnUnits
  PROVE  /\ ScheduleOk' /\ HandsBounded' /\ UNCHANGED records
         /\ EntriesOk(journals') /\ Calm /\ \A records2 : Others(records2)
         /\ \E u : Book(Here, 0, <<>>, {Unit(u)})
<1>1. PICK u \in Units : \E status : Edit(u, status) BY DEF OnUnits, UpdateStatus, DeleteProperty
<1>0. PICK status : Edit(u, status) BY <1>1
<1>2. /\ byHand[u].count < MaxEdits /\ Book(Here, 0, <<>>, {Unit(u)}) /\ UNCHANGED <<records, booking>>
      /\ byHand' = [byHand EXCEPT ![u] = [count |-> byHand[u].count + 1, status |-> status]]
  BY <1>0 DEF Edit
<1>3. EntriesOk(journals') /\ Calm /\ \A records2 : Others(records2)
  <2>1. EntriesOk(journals) BY DEF Legible
  <2> DEFINE docs == {Unit(u)}
  <2>2. Book(Here, 0, <<>>, docs) BY <1>2
  <2> HIDE DEF docs
  <2> QED BY <2>1, <2>2, BooksUntouched DEF Calm
<1>4. ScheduleOk' BY <1>2, SchedulesAside DEF records
<1>5. HandsBounded'
  <2>1. \A w \in Units : byHand'[w].count = IF w = u THEN byHand[u].count + 1 ELSE byHand[w].count
    BY <1>2 DEF SalesShape
  <2>2. byHand[u].count \in Nat /\ MaxEdits \in Nat BY UnitsAssumption DEF SalesShape
  <2> QED BY <1>2, <2>1, <2>2 DEF HandsBounded
<1> QED BY <1>2, <1>3, <1>4, <1>5

\* refreshOverdueInvoices changes no amount.
LEMMA OverdueSchedules ==
  ASSUME InvoicesOk, ScheduleOk, NEW i \in Invoices, Overdue(i), booking' = booking
  PROVE  ScheduleOk'
<1> DEFINE x == invoice[i]
           r == [x EXCEPT !.status = "overdue"]
<1>1. x \in InvoiceRecord /\ invoice' = [invoice EXCEPT ![i] = r] BY DEF InvoicesOk, Overdue, Issues
<1>2. r.amount = x.amount /\ r.paid = x.paid
  <2> HIDE DEF x
  <2> QED BY <1>1 DEF InvoiceRecord
<1> HIDE DEF r
<1>3. \A j \in Invoices : invoice'[j] = IF j = i THEN r ELSE invoice[j] BY <1>1 DEF InvoicesOk
<1>4. \A b \in Bookings : invoice'[b].amount = invoice[b].amount /\ invoice'[b].paid = invoice[b].paid
  BY <1>2, <1>3, PaymentsAssumption
<1> QED BY <1>4, SchedulesAside

-----------------------------------------------------------------------------
(* The invariant of the tenant's money.                                    *)

RecordsOk == TransactionsOk /\ InvoicesOk /\ PaymentsOk /\ CommissionsOk /\ InvoicesBacked
BooksOk ==
  /\ EntriesOk(journals) /\ CalendarOk /\ SlowReads
  /\ RecordsOk /\ PurchasesInv /\ ScheduleOk /\ HandsBounded
MoneyInv == LedgerInv /\ ManualsChecked /\ SalesInv /\ BooksOk

\* A step that writes the journals of records of some kinds.
Aside(kinds) == \E records2 : Beyond(records2) /\ \A x \in records2 : x[1] \in kinds

\* Records of other kinds that are not written stay as they were.
LEMMA OthersKept ==
  ASSUME NEW kinds, Aside(kinds)
  PROVE  /\ TransactionsOk /\ transaction' = transaction /\ "transaction" \notin kinds => TransactionsOk'
         /\ InvoicesOk /\ invoice' = invoice /\ "revenue" \notin kinds => InvoicesOk'
         /\ PaymentsOk /\ payment' = payment /\ "payment" \notin kinds => PaymentsOk'
         /\ CommissionsOk /\ commission' = commission /\ "accrual" \notin kinds /\ "payout" \notin kinds =>
              CommissionsOk'
         /\ OutlaysOk /\ outlay' = outlay /\ "outlay" \notin kinds => OutlaysOk'
         /\ EntriesOk(journals') /\ Calm
<1>1. PICK S : Beyond(S) /\ \A x \in S : x[1] \in kinds BY DEF Aside
<1>2. EntriesOk(journals') /\ Others(S) /\ Calm BY <1>1 DEF Beyond
<1>3. \A kind, id : kind \notin kinds => <<kind, id>> \notin S
  <2> SUFFICES ASSUME NEW kind, NEW id, kind \notin kinds, <<kind, id>> \in S PROVE FALSE OBVIOUS
  <2> DEFINE x == <<kind, id>>
  <2>1. x[1] = kind OBVIOUS
  <2> HIDE DEF x
  <2>2. x \in S BY DEF x
  <2> QED BY <1>1, <2>1, <2>2
<1>4. TransactionsOk /\ transaction' = transaction /\ "transaction" \notin kinds => TransactionsOk'
  BY <1>2, <1>3, TransactionsKept
<1>5. InvoicesOk /\ invoice' = invoice /\ "revenue" \notin kinds => InvoicesOk'
  BY <1>2, <1>3, InvoicesKept
<1>6. PaymentsOk /\ payment' = payment /\ "payment" \notin kinds => PaymentsOk'
  BY <1>2, <1>3, PaymentsKept
<1>7. CommissionsOk /\ commission' = commission /\ "accrual" \notin kinds /\ "payout" \notin kinds => CommissionsOk'
  BY <1>2, <1>3, CommissionsKept
<1>8. OutlaysOk /\ outlay' = outlay /\ "outlay" \notin kinds => OutlaysOk'
  BY <1>2, <1>3, OutlaysKept
<1> QED BY <1>2, <1>4, <1>5, <1>6, <1>7, <1>8

\* Every transaction leaves the calendar alone, and what an open one has read.
LEMMA KeepingCalendar ==
  ASSUME SnapshotOk, CalendarOk, SlowReads, Keeping
  PROVE  CalendarOk' /\ SlowReads' /\ Onward /\ Calm
<1>1. PICK v \in Views : \E old, news, docs : Book(v, old, news, docs) BY DEF Keeping
<1>2. Onward BY <1>1, BooksOnward
<1>3. UNCHANGED <<periods, today, accounting>> BY <1>1 DEF Book
<1>4. CalendarOk' /\ Calm BY <1>3 DEF CalendarOk, Calm
<1> QED BY <1>2, <1>4, SlowReadsKept

\* What every handler of a record reads.
LEMMA BooksLegible ==
  ASSUME BooksOk
  PROVE  Legible
BY DEF BooksOk, Legible, CalendarOk, SlowReads, SlowSays

\* Who writes nothing of purchases and of the stock.
LEMMA PurchasesAside ==
  ASSUME PurchasesInv, Snapshot, UNCHANGED bought, Onward \/ slow = None, OutlaysOk'
  PROVE  PurchasesInv'
<1>1. UNCHANGED <<purchase, outlay, stock, movements>> BY DEF bought
<1>2. SpentOk(outlay) BY DEF SpentOk, PurchasesInv, OutlaysOk, PurchasesOk
<1>3. SlowPaid' BY <1>1, <1>2, SlowPaidIdle DEF PurchasesInv
<1>4. PurchasesOk'
  <2>1. outlay' = outlay /\ purchase' = purchase BY <1>1
  <2> QED BY <2>1 DEF PurchasesInv, PurchasesOk
<1>5. StockOk'
  <2>1. stock' = stock /\ purchase' = purchase /\ movements' = movements BY <1>1
  <2>2. Moved(movements)' = Moved(movements) /\ \A b : Moved(ReceiptsOf(movements, b))' = Moved(ReceiptsOf(movements, b))
    BY <2>1
  <2> QED BY <2>1, <2>2 DEF PurchasesInv, StockOk
<1> QED BY <1>3, <1>4, <1>5 DEF PurchasesInv

\* Invoices and payments that are not written stay as they were to each other.
LEMMA BackedAside ==
  ASSUME InvoicesBacked, UNCHANGED <<invoice, payment>>
  PROVE  InvoicesBacked'
BY DEF InvoicesBacked

\* So do the schedules, which read the bookings and the invoices of those.
LEMMA SalesAside ==
  ASSUME ScheduleOk, HandsBounded, UNCHANGED sales, \A b \in Bookings : invoice'[b] = invoice[b]
  PROVE  ScheduleOk' /\ HandsBounded'
BY SchedulesAside DEF sales, HandsBounded

\* A step of the ledger.
LEMMA OnLedgerMoney ==
  ASSUME LedgerInv, BooksOk, OnLedger, Snapshot
  PROVE  BooksOk'
<1>1. /\ EntriesOk(journals') /\ (\A records2 : Others(records2)) /\ Calm
      /\ CalendarOk' /\ SlowReads' /\ (Onward \/ slow = None)
  BY LedgerBooks DEF BooksOk, LedgerInv, OnLedger
<1>2. UNCHANGED <<records, bought, sales>> /\ UNCHANGED <<transaction, invoice, payment, commission, outlay>>
  BY DEF OnLedger, records, bought
<1> DEFINE K == {}
<1>3. Aside(K)
  <2> DEFINE S == {}
  <2>1. \A x \in S : x[1] \in K OBVIOUS
  <2> HIDE DEF S, K
  <2> QED BY <1>1, <2>1 DEF Aside, Beyond
<1>4. \A kind : kind \notin K OBVIOUS
<1> HIDE DEF K
<1>5. TransactionsOk' /\ InvoicesOk' /\ PaymentsOk' /\ CommissionsOk' /\ OutlaysOk'
  BY <1>2, <1>3, <1>4, OthersKept DEF BooksOk, RecordsOk, PurchasesInv
<1>6. InvoicesBacked' BY <1>2, BackedAside DEF BooksOk, RecordsOk
<1>7. PurchasesInv' BY <1>1, <1>2, <1>5, PurchasesAside DEF BooksOk
<1>8. ScheduleOk' /\ HandsBounded' BY <1>2, SalesAside DEF BooksOk
<1> QED BY <1>1, <1>5, <1>6, <1>7, <1>8 DEF BooksOk, RecordsOk

\* A step that keeps books of its own, and writes nothing of purchases.
LEMMA KeepingMoney ==
  ASSUME LedgerInv, BooksOk, Keeping, Snapshot, UNCHANGED bought,
         NEW kinds, Aside(kinds), "outlay" \notin kinds
  PROVE  EntriesOk(journals') /\ CalendarOk' /\ SlowReads' /\ PurchasesInv'
<1>1. CalendarOk' /\ SlowReads' /\ Onward BY KeepingCalendar DEF BooksOk, LedgerInv
<1>2. outlay' = outlay BY DEF bought
<1>3. OutlaysOk' /\ EntriesOk(journals') BY <1>2, OthersKept DEF BooksOk, PurchasesInv
<1>4. PurchasesInv' BY <1>1, <1>3, PurchasesAside DEF BooksOk
<1> QED BY <1>1, <1>3, <1>4

\* A step of manual transactions.
LEMMA OnTransactionsMoney ==
  ASSUME LedgerInv, BooksOk, NEW v \in Views, OnTransactions(v), Snapshot, UNCHANGED <<bought, sales>>
  PROVE  BooksOk'
<1>1. Legible BY BooksLegible
<1>2. TransactionsOk' /\ \E t : Beyond({<<"transaction", t>>}) BY <1>1, OnTransactionsBooks DEF BooksOk, RecordsOk
<1>3. UNCHANGED <<invoice, payment, commission>>
  <2>1. ASSUME NEW t, NEW s, NEW a, NEW p, CreateTransaction(v, t, s, a, p) PROVE UNCHANGED <<invoice, payment, commission>>
    BY <2>1 DEF CreateTransaction, Saves
  <2>2. ASSUME NEW t, NEW edit, NEW s, UpdateTransaction(v, t, edit, s) PROVE UNCHANGED <<invoice, payment, commission>>
    BY <2>2 DEF UpdateTransaction, Saves
  <2>3. ASSUME NEW t, VoidTransaction(v, t) PROVE UNCHANGED <<invoice, payment, commission>>
    BY <2>3 DEF VoidTransaction, Saves
  <2>4. ASSUME NEW t, DeleteTransaction(v, t) PROVE UNCHANGED <<invoice, payment, commission>>
    BY <2>4 DEF DeleteTransaction, Saves
  <2> QED BY <2>1, <2>2, <2>3, <2>4 DEF OnTransactions
<1>4. Keeping BY OnTransactionsKeeps
<1> DEFINE K == {"transaction"}
<1>5. Aside(K)
  <2>1. PICK t : Beyond({<<"transaction", t>>}) BY <1>2
  <2> DEFINE S == {<<"transaction", t>>}
  <2>2. \A x \in S : x[1] \in K OBVIOUS
  <2> HIDE DEF K
  <2> QED BY <2>1, <2>2 DEF Aside
<1>6. "revenue" \notin K /\ "payment" \notin K /\ "accrual" \notin K /\ "payout" \notin K /\ "outlay" \notin K
  OBVIOUS
<1> HIDE DEF K
<1>7. InvoicesOk' /\ PaymentsOk' /\ CommissionsOk' BY <1>3, <1>5, <1>6, OthersKept DEF BooksOk, RecordsOk
<1>8. InvoicesBacked' BY <1>3, BackedAside DEF BooksOk, RecordsOk
<1>9. EntriesOk(journals') /\ CalendarOk' /\ SlowReads' /\ PurchasesInv' BY <1>4, <1>5, <1>6, KeepingMoney
<1>10. ScheduleOk' /\ HandsBounded' BY <1>3, SalesAside DEF BooksOk
<1> QED BY <1>2, <1>7, <1>8, <1>9, <1>10 DEF BooksOk, RecordsOk

\* What a step of invoices and payments leaves to show.
LEMMA ChargesMoney ==
  ASSUME LedgerInv, BooksOk, Keeping, Snapshot, UNCHANGED bought, UNCHANGED <<transaction, commission>>,
         InvoicesOk', PaymentsOk', InvoicesBacked', Charges, ScheduleOk', HandsBounded'
  PROVE  BooksOk'
<1> DEFINE K == {"revenue", "payment"}
<1>1. Aside(K) BY DEF Charges, Aside
<1>2. "transaction" \notin K /\ "accrual" \notin K /\ "payout" \notin K /\ "outlay" \notin K OBVIOUS
<1> HIDE DEF K
<1>3. TransactionsOk' /\ CommissionsOk' BY <1>1, <1>2, OthersKept DEF BooksOk, RecordsOk
<1>4. EntriesOk(journals') /\ CalendarOk' /\ SlowReads' /\ PurchasesInv' BY <1>1, <1>2, KeepingMoney
<1> QED BY <1>3, <1>4 DEF BooksOk, RecordsOk

\* A step of invoices.
LEMMA OnInvoicesMoney ==
  ASSUME LedgerInv, BooksOk, NEW v \in Views, OnInvoices(v), Snapshot, UNCHANGED <<bought, sales>>
  PROVE  BooksOk'
<1>1. Legible BY BooksLegible
<1>2. /\ InvoicesOk' /\ PaymentsOk' /\ InvoicesBacked' /\ Charges
      /\ \A b \in Bookings : invoice'[b] = invoice[b]
  BY <1>1, OnInvoicesBooks DEF BooksOk, RecordsOk
<1>3. UNCHANGED <<transaction, commission>>
  <2>1. ASSUME NEW i, NEW s, NEW a, NEW p, NEW also, CreateInvoice(v, i, s, a, p, also) PROVE UNCHANGED <<transaction, commission>>
    BY <2>1 DEF CreateInvoice, Issues
  <2>2. ASSUME NEW i, NEW k, NEW a, NEW p, NEW also, RecordInvoicePayment(v, i, k, a, p, also) PROVE UNCHANGED <<transaction, commission>>
    BY <2>2 DEF RecordInvoicePayment, Issues
  <2>3. ASSUME NEW i, NEW n, NEW s, NEW also, VoidInvoicePayment(v, i, n, s, also) PROVE UNCHANGED <<transaction, commission>>
    BY <2>3 DEF VoidInvoicePayment, Issues
  <2>4. ASSUME NEW i, NEW edit, NEW s, UpdateInvoice(v, i, edit, s) PROVE UNCHANGED <<transaction, commission>>
    BY <2>4 DEF UpdateInvoice, Issues
  <2>5. ASSUME NEW i, VoidInvoice(v, i) PROVE UNCHANGED <<transaction, commission>>
    BY <2>5 DEF VoidInvoice, Issues
  <2>6. ASSUME NEW i, ArchiveInvoice(v, i) PROVE UNCHANGED <<transaction, commission>>
    BY <2>6 DEF ArchiveInvoice, Issues
  <2> QED BY <2>1, <2>2, <2>3, <2>4, <2>5, <2>6 DEF OnInvoices
<1>4. Keeping BY OnInvoicesKeeps
<1>5. ScheduleOk' /\ HandsBounded' BY <1>2, SalesAside DEF BooksOk
<1>6. UNCHANGED bought OBVIOUS
<1> QED BY <1>2, <1>3, <1>4, <1>5, <1>6, ChargesMoney

\* refreshOverdueInvoices
LEMMA OverdueMoney ==
  ASSUME LedgerInv, BooksOk, NEW i \in Invoices, Overdue(i), Snapshot, UNCHANGED <<bought, sales>>
  PROVE  BooksOk'
<1>1. Legible BY BooksLegible
<1>2. InvoicesOk' /\ PaymentsOk' /\ InvoicesBacked' /\ Charges BY <1>1, OverdueBooks DEF BooksOk, RecordsOk
<1>3. UNCHANGED <<transaction, commission>> BY DEF Overdue, Issues
<1>4. Keeping
  <2>1. Postings(<<>>) /\ Here \in Views BY DEF Postings, Views
  <2> QED BY <2>1 DEF Overdue, Keeping
<1>5. UNCHANGED <<unit, booking, byHand>> BY DEF sales
<1>6. ScheduleOk' BY <1>5, OverdueSchedules DEF BooksOk, RecordsOk
<1>7. HandsBounded' BY <1>5 DEF BooksOk, HandsBounded
<1>8. UNCHANGED bought OBVIOUS
<1> QED BY <1>2, <1>3, <1>4, <1>6, <1>7, <1>8, ChargesMoney

\* A step of commissions.
LEMMA OnCommissionsMoney ==
  ASSUME LedgerInv, BooksOk, NEW v \in Views, OnCommissions(v), Snapshot, UNCHANGED <<bought, sales>>
  PROVE  BooksOk'
<1>1. Legible BY BooksLegible
<1>2. CommissionsOk' /\ Accrues BY <1>1, OnCommissionsBooks DEF BooksOk, RecordsOk
<1>3. UNCHANGED <<transaction, invoice, payment>>
  <2>1. ASSUME NEW c, NEW s, NEW a, CreateCommission(v, c, s, a) PROVE UNCHANGED <<transaction, invoice, payment>>
    BY <2>1 DEF CreateCommission, Owes
  <2>2. ASSUME NEW c, NEW edit, NEW s, UpdateCommission(v, c, edit, s) PROVE UNCHANGED <<transaction, invoice, payment>>
    BY <2>2 DEF UpdateCommission, Owes
  <2>3. ASSUME NEW c, CancelCommission(v, c) PROVE UNCHANGED <<transaction, invoice, payment>>
    BY <2>3 DEF CancelCommission, Owes
  <2>4. ASSUME NEW c, ArchiveCommission(v, c) PROVE UNCHANGED <<transaction, invoice, payment>>
    BY <2>4 DEF ArchiveCommission, Owes
  <2>5. ASSUME NEW c, NEW p, PayCommission(v, c, p) PROVE UNCHANGED <<transaction, invoice, payment>>
    BY <2>5 DEF PayCommission, Owes
  <2> QED BY <2>1, <2>2, <2>3, <2>4, <2>5 DEF OnCommissions
<1>4. Keeping BY OnCommissionsKeeps
<1> DEFINE K == {"accrual", "payout"}
<1>5. Aside(K) BY <1>2 DEF Accrues, Aside
<1>6. "transaction" \notin K /\ "revenue" \notin K /\ "payment" \notin K /\ "outlay" \notin K OBVIOUS
<1> HIDE DEF K
<1>7. TransactionsOk' /\ InvoicesOk' /\ PaymentsOk' BY <1>3, <1>5, <1>6, OthersKept DEF BooksOk, RecordsOk
<1>8. InvoicesBacked' BY <1>3, BackedAside DEF BooksOk, RecordsOk
<1>9. EntriesOk(journals') /\ CalendarOk' /\ SlowReads' /\ PurchasesInv' BY <1>4, <1>5, <1>6, KeepingMoney
<1>10. ScheduleOk' /\ HandsBounded' BY <1>3, SalesAside DEF BooksOk
<1> QED BY <1>2, <1>7, <1>8, <1>9, <1>10 DEF BooksOk, RecordsOk

\* A step of purchases and of the stock.
LEMMA BuyingMoney ==
  ASSUME LedgerInv, BooksOk, Buying, Snapshot
  PROVE  BooksOk'
<1>1. Legible BY BooksLegible
<1>2. PICK v \in Views : OnProcurement(v) BY DEF Buying
<1>3. PurchasesInv' /\ Buys BY <1>1, <1>2, OnProcurementBooks DEF BooksOk, LedgerInv
<1>4. UNCHANGED records /\ UNCHANGED <<transaction, invoice, payment, commission>>
  <2>1. UNCHANGED records
    <3>1. ASSUME NEW k, NEW d, CreateMovement(v, k, d) PROVE UNCHANGED records
      BY <3>1 DEF CreateMovement
    <3>2. ASSUME NEW b, NEW q, NEW a, CreatePurchase(v, b, q, a) PROVE UNCHANGED records
      BY <3>2 DEF CreatePurchase
    <3>3. ASSUME NEW b, NEW k, NEW q, ReceivePurchase(v, b, k, q) PROVE UNCHANGED records
      BY <3>3 DEF ReceivePurchase
    <3>4. ASSUME NEW b, NEW k, NEW a, NEW p, RecordPurchasePayment(v, b, k, a, p) PROVE UNCHANGED records
      BY <3>4 DEF RecordPurchasePayment
    <3>5. ASSUME NEW b, NEW k, VoidPurchasePayment(v, b, k) PROVE UNCHANGED records
      BY <3>5 DEF VoidPurchasePayment
    <3>6. ASSUME NEW b, CancelPurchase(v, b) PROVE UNCHANGED records
      BY <3>6 DEF CancelPurchase
    <3> QED BY <1>2, <3>1, <3>2, <3>3, <3>4, <3>5, <3>6 DEF OnProcurement, OnPurchases, OnStock
  <2> QED BY <2>1 DEF records
<1>5. Keeping BY <1>2, OnProcurementKeeps
<1>6. CalendarOk' /\ SlowReads' BY <1>5, KeepingCalendar DEF BooksOk, LedgerInv
<1> DEFINE K == {"outlay"}
<1>7. Aside(K) BY <1>3 DEF Buys, Aside
<1>8. /\ "transaction" \notin K /\ "revenue" \notin K /\ "payment" \notin K /\ "accrual" \notin K
      /\ "payout" \notin K
  OBVIOUS
<1> HIDE DEF K
<1>9. TransactionsOk' /\ InvoicesOk' /\ PaymentsOk' /\ CommissionsOk' /\ EntriesOk(journals')
  BY <1>4, <1>7, <1>8, OthersKept DEF BooksOk, RecordsOk
<1>10. InvoicesBacked' BY <1>4, BackedAside DEF BooksOk, RecordsOk
<1>11. ScheduleOk' /\ HandsBounded' BY <1>4, SalesAside DEF BooksOk, Buying
<1> QED BY <1>3, <1>6, <1>9, <1>10, <1>11 DEF BooksOk, RecordsOk

\* A step of sales.
LEMMA SellingMoney ==
  ASSUME LedgerInv, SalesInv, BooksOk, Selling, Snapshot
  PROVE  BooksOk'
<1>1. Legible BY BooksLegible
<1>2. Keeping BY SellingKeeps
<1>3. UNCHANGED bought BY DEF Selling
<1>4. ASSUME NEW v \in Views, OnBookings(v) PROVE BooksOk'
  <2>1. Sells BY <1>1, <1>4, OnBookingsBooks DEF BooksOk, RecordsOk, SalesInv
  <2>2. UNCHANGED <<transaction, commission>>
    <3>1. ASSUME NEW i, NEW s, NEW a, NEW p, NEW also, CreateInvoice(v, i, s, a, p, also) PROVE UNCHANGED <<transaction, commission>>
      BY <3>1 DEF CreateInvoice, Issues
    <3>2. ASSUME NEW i, NEW k, NEW a, NEW p, NEW also, RecordInvoicePayment(v, i, k, a, p, also) PROVE UNCHANGED <<transaction, commission>>
      BY <3>2 DEF RecordInvoicePayment, Issues
    <3>3. ASSUME NEW i, NEW n, NEW s, NEW also, VoidInvoicePayment(v, i, n, s, also) PROVE UNCHANGED <<transaction, commission>>
      BY <3>3 DEF VoidInvoicePayment, Issues
    <3> QED BY <1>4, <3>1, <3>2, <3>3 DEF OnBookings, CreateBooking, RecordPayment, VoidPayment
  <2> QED BY <1>2, <1>3, <2>1, <2>2, ChargesMoney DEF Sells
<1>5. ASSUME OnUnits PROVE BooksOk'
  <2>1. /\ ScheduleOk' /\ HandsBounded' /\ UNCHANGED records
        /\ EntriesOk(journals') /\ Calm /\ \A records2 : Others(records2)
    BY <1>1, <1>5, OnUnitsBooks DEF BooksOk, SalesInv
  <2>2. UNCHANGED <<transaction, invoice, payment, commission>> BY <2>1 DEF records
  <2> DEFINE S == {}
             K == {"revenue", "payment"}
  <2>3. Beyond(S) /\ \A x \in S : x[1] \in {"revenue", "payment"} BY <2>1 DEF Beyond
  <2> HIDE DEF S
  <2>4. Charges BY <2>3 DEF Charges
  <2>5. InvoicesOk' /\ PaymentsOk'
    <3> DEFINE T == {}
    <3>1. Others(T) /\ \A x : x \notin T BY <2>1
    <3> HIDE DEF T
    <3> QED BY <2>1, <2>2, <3>1, InvoicesKept, PaymentsKept DEF BooksOk, RecordsOk
  <2>6. InvoicesBacked' BY <2>2, BackedAside DEF BooksOk, RecordsOk
  <2> QED BY <1>2, <1>3, <2>1, <2>2, <2>4, <2>5, <2>6, ChargesMoney
<1> QED BY <1>4, <1>5 DEF Selling

\* Every step keeps it.
LEMMA MoneyStep ==
  ASSUME MoneyInv, [Next]_vars
  PROVE  MoneyInv'
<1>1. LedgerInv' /\ ManualsChecked' BY BooksStep DEF MoneyInv
<1>2. SalesInv' BY SalesStep DEF MoneyInv
<1>3. CASE UNCHANGED vars
  <2>1. UNCHANGED <<ledger, records, procurement, sales>> BY <1>3 DEF vars
  <2>2. UNCHANGED <<journals, periods, today, accounting, slow>> BY <2>1 DEF ledger
  <2>3. UNCHANGED <<transaction, invoice, payment, commission>> BY <2>1 DEF records
  <2>4. UNCHANGED <<purchase, outlay, stock, movements, paidBefore>> BY <2>1 DEF procurement, bought
  <2>5. UNCHANGED <<unit, booking, byHand>> BY <2>1 DEF sales
  <2>6. EntriesOk(journals)' /\ CalendarOk' /\ SlowReads'
    BY <2>2 DEF MoneyInv, BooksOk, CalendarOk, SlowReads
  <2>7. Aside({})
    <3> DEFINE S == {}
               K == {}
    <3>1. \A kind, id : Beside(journals, journals, kind, id) BY DEF Beside, SameEntry
    <3>2. Others(S) BY <2>2, <3>1 DEF Others
    <3>3. Calm BY <2>2 DEF Calm
    <3>4. EntriesOk(journals') BY <2>6
    <3>5. \A x \in S : x[1] \in K OBVIOUS
    <3> HIDE DEF S
    <3> QED BY <3>2, <3>3, <3>4, <3>5 DEF Aside, Beyond
  <2> DEFINE K == {}
  <2>8. Aside(K) /\ \A kind : kind \notin K BY <2>7
  <2> HIDE DEF K
  <2>9. TransactionsOk' /\ InvoicesOk' /\ PaymentsOk' /\ CommissionsOk' /\ OutlaysOk'
    BY <2>3, <2>4, <2>8, OthersKept DEF MoneyInv, BooksOk, RecordsOk, PurchasesInv
  <2>10. InvoicesBacked' BY <2>3, BackedAside DEF MoneyInv, BooksOk, RecordsOk
  <2>11. ScheduleOk' /\ HandsBounded' BY <2>1, <2>3, SalesAside DEF MoneyInv, BooksOk
  <2>12. PurchasesOk' /\ StockOk' /\ SlowPaid'
    <3>1. PurchasesOk' BY <2>4 DEF MoneyInv, BooksOk, PurchasesInv, PurchasesOk
    <3>2. Moved(movements)' = Moved(movements) /\ \A b : Moved(ReceiptsOf(movements, b))' = Moved(ReceiptsOf(movements, b))
      BY <2>4
    <3>3. StockOk' BY <2>4, <3>2 DEF MoneyInv, BooksOk, PurchasesInv, StockOk
    <3>4. SlowPaid' BY <2>2, <2>4 DEF MoneyInv, BooksOk, PurchasesInv, SlowPaid
    <3> QED BY <3>1, <3>3, <3>4
  <2> QED BY <1>1, <1>2, <2>6, <2>9, <2>10, <2>11, <2>12 DEF MoneyInv, BooksOk, RecordsOk, PurchasesInv
<1>4. ASSUME Next PROVE BooksOk'
  <2>1. LedgerInv /\ SalesInv /\ BooksOk BY DEF MoneyInv
  <2>2. Snapshot BY <1>4 DEF Next
  <2>3. CASE OnLedger BY <2>1, <2>2, <2>3, OnLedgerMoney
  <2>4. CASE OnRecords
    <3>1. UNCHANGED <<bought, sales>> BY <2>4 DEF OnRecords
    <3> QED BY <2>1, <2>2, <2>4, <3>1, OnTransactionsMoney, OnInvoicesMoney, OnCommissionsMoney, OverdueMoney
            DEF OnRecords, RecordsNext
  <2>5. CASE Buying BY <2>1, <2>2, <2>5, BuyingMoney
  <2>6. CASE Selling BY <2>1, <2>2, <2>6, SellingMoney
  <2> QED BY <1>4, <2>3, <2>4, <2>5, <2>6 DEF Next
<1> QED BY <1>1, <1>2, <1>3, <1>4 DEF MoneyInv

\* At first nothing is recorded.
LEMMA MoneyInit ==
  ASSUME Init
  PROVE  MoneyInv
<1>1. LedgerInv /\ ManualsChecked /\ SalesInv BY BooksInit, NothingSold
<1>2. /\ journals = <<>> /\ periods = [p \in Periods |-> "OPEN"] /\ today = 1
      /\ accounting \in {"active", "off"} /\ slow = None
  BY DEF Init, LedgerInit
<1>3. 1 \in Periods
  <2>1. Cardinality(Periods) \in Nat /\ Periods = 1 .. Cardinality(Periods) /\ Periods # {}
    BY CalendarAssumption, FS_CardinalityType
  <2> QED BY <2>1
<1>4. EntriesOk(journals) /\ CalendarOk /\ SlowReads
  <2>1. AreEntries(journals) BY <1>1 DEF LedgerInv
  <2>2. EntriesOk(journals) BY <1>2, <2>1 DEF EntriesOk
  <2> QED BY <1>2, <1>3, <2>2 DEF CalendarOk, SlowReads
<1>5. \A kind, id, version : Answers(journals, accounting, kind, id, 0, 0, version) BY <1>2 DEF Answers
<1>6. TransactionsOk
  <2>1. transaction = [t \in Transactions |->
          [status |-> "none", amount |-> 0, period |-> 1, version |-> 0, journal |-> 0]]
    BY DEF Init, RecordsInit
  <2>2. transaction \in [Transactions -> TransactionRecord] BY <1>3, <2>1 DEF TransactionRecord
  <2>3. \A t \in Transactions : /\ transaction[t].status = "none" /\ transaction[t].journal = 0
                                /\ transaction[t].version = 0
    BY <2>1
  <2> QED BY <1>5, <2>2, <2>3 DEF TransactionsOk, Made, TransactionBook
<1>7. /\ invoice = [i \in Invoices |->
            [status |-> "none", amount |-> 0, period |-> 1, version |-> 0, journal |-> 0,
             paid |-> 0, payments |-> {}]]
      /\ payment = <<>>
  BY DEF Init, RecordsInit
<1>8. \A i \in Invoices : /\ invoice[i].status = "none" /\ invoice[i].journal = 0 /\ invoice[i].version = 0
                          /\ invoice[i].amount = 0 /\ invoice[i].paid = 0 /\ invoice[i].payments = {}
  BY <1>7
<1>9. InvoicesOk
  <2>1. invoice \in [Invoices -> InvoiceRecord] BY <1>3, <1>7 DEF InvoiceRecord
  <2> QED BY <1>5, <1>8, <2>1 DEF InvoicesOk, Made, InvoiceBook, Unrecognized
<1>10. PaymentsOk
  <2>1. payment \in Seq(PaymentRecord) /\ DOMAIN payment = {} BY <1>7
  <2> QED BY <1>5, <2>1 DEF PaymentsOk
<1>11. InvoicesBacked
  <2>1. DOMAIN payment = {} BY <1>7
  <2>2. \A i : Owned(payment, i) = {} /\ Standings(payment, i) = {} BY <2>1 DEF Owned, Standings
  <2>3. PaidOf(payment, {}) = 0
    <3> DEFINE f == [n \in {} |-> payment[n].amount]
    <3>1. DOMAIN f = {} OBVIOUS
    <3> HIDE DEF f
    <3> QED BY <3>1, SumEmpty DEF PaidOf, f, SumFunction
  <2>4. \A i \in Invoices : Backed(payment, i, invoice[i]) BY <1>8, <2>2, <2>3 DEF Backed
  <2> QED BY <2>1, <2>4 DEF InvoicesBacked
<1>12. CommissionsOk
  <2>1. commission = [c \in Commissions |->
          [status |-> "none", amount |-> 0, period |-> 1, version |-> 0, journal |-> 0, payout |-> 0]]
    BY DEF Init, RecordsInit
  <2>2. commission \in [Commissions -> CommissionRecord] BY <1>3, <2>1 DEF CommissionRecord
  <2>3. \A c \in Commissions : /\ commission[c].status = "none" /\ commission[c].journal = 0
                               /\ commission[c].version = 0 /\ commission[c].payout = 0
    BY <2>1
  <2> QED BY <1>5, <2>2, <2>3 DEF CommissionsOk, Made, AccrualBook, PayoutBook
<1>13. /\ purchase = [b \in Purchases |-> [status |-> "none", quantity |-> 0, total |-> 0, received |-> 0]]
       /\ outlay = [k \in Keys |->
            [purchase |-> None, status |-> "none", amount |-> 0, period |-> 1, version |-> 0, journal |-> 0]]
       /\ stock = 0 /\ movements = {}
  BY DEF Init, ProcurementInit
<1>14. OutlaysOk
  <2>1. outlay \in [Keys -> OutlayRecord] BY <1>3, <1>13 DEF OutlayRecord
  <2>2. \A k \in Keys : outlay[k].status = "none" /\ outlay[k].journal = 0 /\ outlay[k].version = 0 BY <1>13
  <2> QED BY <1>5, <2>1, <2>2 DEF OutlaysOk, Made, OutlayBook
<1>15. PurchasesOk
  <2>1. \A k \in Keys : outlay[k].status = "none" BY <1>13
  <2>2. AllSpent(outlay) = {} /\ \A b : Spending(outlay, b) = {} BY <2>1 DEF AllSpent, Spending
  <2>3. \A b : Spent(outlay, b) = 0
    <3> SUFFICES ASSUME NEW b PROVE Spent(outlay, b) = 0 OBVIOUS
    <3> DEFINE f == [k \in Spending(outlay, b) |-> outlay[k].amount]
    <3>1. DOMAIN f = {} BY <2>2
    <3> HIDE DEF f
    <3> QED BY <3>1, SumEmpty DEF Spent, f, SumFunction
  <2>4. IsFiniteSet(AllSpent(outlay)) BY <2>2, FS_EmptySet
  <2>5. purchase \in [Purchases -> PurchaseRecord] BY <1>13 DEF PurchaseRecord
  <2>6. \A b \in Purchases : PaidFor(outlay, b, purchase[b]) BY <1>13, <2>3 DEF PaidFor
  <2> QED BY <2>4, <2>5, <2>6 DEF PurchasesOk
<1>16. StockOk
  <2>1. Moved({}) = 0
    <3> DEFINE f == [m \in {} |-> m.delta]
    <3>1. DOMAIN f = {} OBVIOUS
    <3> HIDE DEF f
    <3> QED BY <3>1, SumEmpty DEF Moved, f, SumFunction
  <2>2. \A b : ReceiptsOf({}, b) = {} BY DEF ReceiptsOf
  <2>3. \A b \in Purchases : purchase[b].received = 0 BY <1>13
  <2> QED BY <1>13, <2>1, <2>2, <2>3, FS_EmptySet DEF StockOk
<1>17. SlowPaid BY <1>2 DEF SlowPaid
<1>18. ScheduleOk
  <2> DEFINE due == << >>
  <2>1. due \in Seq(Nat \ {0}) /\ Len(due) = 0 /\ DOMAIN due = {} OBVIOUS
  <2>2. Projected(due, 0) = due
    <3>1. \A g : DOMAIN g = {} /\ g = [i \in DOMAIN g |-> g[i]] => g = << >> OBVIOUS
    <3>2. DOMAIN Projected(due, 0) = {} /\ Projected(due, 0) = [i \in DOMAIN Projected(due, 0) |-> Projected(due, 0)[i]]
      BY <2>1 DEF Projected
    <3> QED BY <3>1, <3>2
  <2>3. Dues(due) BY <2>1 DEF Dues
  <2>4. \A b \in Bookings : booking[b].price = 0 /\ booking[b].due = due /\ booking[b].paid = due
    BY DEF Init, SalesInit
  <2> HIDE DEF due
  <2>5. Total(due) = 0 BY <2>1, <2>3, DuesAre
  <2>6. \A b \in Bookings : invoice[b].amount = 0 /\ invoice[b].paid = 0 BY <1>8, PaymentsAssumption
  <2> QED BY <2>2, <2>3, <2>4, <2>5, <2>6 DEF ScheduleOk, Scheduled
<1>19. HandsBounded
  <2>1. \A u \in Units : byHand[u].count = 0 BY DEF Init, SalesInit
  <2> QED BY <2>1, UnitsAssumption DEF HandsBounded
<1> QED BY <1>1, <1>4, <1>6, <1>9, <1>10, <1>11, <1>12, <1>14, <1>15, <1>16, <1>17, <1>18, <1>19
        DEF MoneyInv, BooksOk, RecordsOk, PurchasesInv

-----------------------------------------------------------------------------
(* What the invariant says.                                                *)

\* A record for which the journals answer is followed by them.
LEMMA AnswersFollow ==
  ASSUME NEW kind, NEW id, NEW due \in BOOLEAN, NEW r, NEW link, NEW version, due => r.amount # 0,
         Answers(journals, accounting, kind, id, IF due THEN r.amount ELSE 0, link, version)
  PROVE  Follows(kind, id, due, r, link)
<1> DEFINE owed == IF due THEN r.amount ELSE 0
<1>1. (owed # 0) <=> due OBVIOUS
<1>2. due => owed = r.amount OBVIOUS
<1> HIDE DEF owed
<1>3. Answers(journals, accounting, kind, id, owed, link, version) BY DEF owed
<1>4. Standing(kind, id) \subseteq (IF due THEN {link} ELSE {})
  BY <1>1, <1>3 DEF Answers, Standing, Of
<1>5. /\ due /\ accounting = "active" => link # 0
      /\ due /\ link # 0 =>
           \/ journals[link].byHand
           \/ /\ journals[link].status = "POSTED"
              /\ Abs(journals[link].amount) = r.amount
  <2> QED BY <1>1, <1>2, <1>3, Zenon DEF Answers
<1> QED BY <1>4, <1>5 DEF Follows

\* The journals of the records are those they ask for.
LEMMA MoneyFollows ==
  ASSUME MoneyInv
  PROVE  RecordsFollowed
<1>1. ASSUME NEW t \in Transactions
      PROVE  Follows("transaction", t, transaction[t].status = "paid", transaction[t], transaction[t].journal)
  <2> DEFINE r == transaction[t]
             due == r.status = "paid"
             kind == "transaction"
             link == r.journal
  <2>1. Made(r) /\ TransactionBook(journals, accounting, t, r)
    BY DEF MoneyInv, BooksOk, RecordsOk, TransactionsOk
  <2>2. due => r.amount # 0 BY <2>1 DEF Made
  <2>3. Answers(journals, accounting, kind, t, IF due THEN r.amount ELSE 0, link, r.version)
    BY <2>1 DEF TransactionBook
  <2>4. due \in BOOLEAN OBVIOUS
  <2> HIDE DEF r, due, kind, link
  <2>5. Follows(kind, t, due, r, link) BY <2>2, <2>3, <2>4, AnswersFollow
  <2> QED BY <2>5 DEF r, due, kind, link
<1>2. ASSUME NEW i \in Invoices
      PROVE  Follows("revenue", i, invoice[i].status \notin Unrecognized, invoice[i], invoice[i].journal)
  <2> DEFINE r == invoice[i]
             due == r.status \notin Unrecognized
             kind == "revenue"
             link == r.journal
  <2>1. Made(r) /\ InvoiceBook(journals, accounting, i, r) BY DEF MoneyInv, BooksOk, RecordsOk, InvoicesOk
  <2>2. due => r.amount # 0 BY <2>1 DEF Made, Unrecognized
  <2>3. Answers(journals, accounting, kind, i, IF due THEN r.amount ELSE 0, link, r.version)
    BY <2>1 DEF InvoiceBook
  <2>4. due \in BOOLEAN OBVIOUS
  <2> HIDE DEF r, due, kind, link
  <2>5. Follows(kind, i, due, r, link) BY <2>2, <2>3, <2>4, AnswersFollow
  <2> QED BY <2>5 DEF r, due, kind, link
<1>3. ASSUME NEW n \in DOMAIN payment
      PROVE  Follows("payment", n, payment[n].status = "paid", payment[n], payment[n].journal)
  <2> DEFINE r == payment[n]
             due == r.status = "paid"
             kind == "payment"
             link == r.journal
             version == 1
  <2>1. PaymentBook(journals, accounting, n, r) /\ payment \in Seq(PaymentRecord)
    BY DEF MoneyInv, BooksOk, RecordsOk, PaymentsOk
  <2>2. r.amount # 0
    <3>1. r.amount \in Nat \ {0} BY <2>1, PaymentNumbers
    <3> QED BY <3>1
  <2>3. Answers(journals, accounting, kind, n, IF due THEN r.amount ELSE 0, link, version)
    BY <2>1 DEF PaymentBook
  <2>4. due \in BOOLEAN OBVIOUS
  <2> HIDE DEF r, due, kind, link, version
  <2>5. Follows(kind, n, due, r, link) BY <2>2, <2>3, <2>4, AnswersFollow
  <2> QED BY <2>5 DEF r, due, kind, link
<1>4. ASSUME NEW c \in Commissions
      PROVE  /\ Follows("accrual", c, commission[c].status \in {"approved", "paid"}, commission[c],
                        commission[c].journal)
             /\ Follows("payout", c, commission[c].status = "paid", commission[c], commission[c].payout)
  <2> DEFINE r == commission[c]
             due == r.status \in {"approved", "paid"}
             over == r.status = "paid"
             kind == "accrual"
             other == "payout"
             link == r.journal
             last == r.payout
             version == IF r.status = "paid" THEN 1 ELSE 0
  <2>1. Made(r) /\ AccrualBook(journals, accounting, c, r) /\ PayoutBook(journals, accounting, c, r)
    BY DEF MoneyInv, BooksOk, RecordsOk, CommissionsOk
  <2>2. (due => r.amount # 0) /\ (over => r.amount # 0) BY <2>1 DEF Made
  <2>3. /\ Answers(journals, accounting, kind, c, IF due THEN r.amount ELSE 0, link, r.version)
        /\ Answers(journals, accounting, other, c, IF over THEN r.amount ELSE 0, last, version)
    BY <2>1 DEF AccrualBook, PayoutBook
  <2>4. due \in BOOLEAN /\ over \in BOOLEAN OBVIOUS
  <2> HIDE DEF r, due, over, kind, other, link, last, version
  <2>5. Follows(kind, c, due, r, link) BY <2>2, <2>3, <2>4, AnswersFollow
  <2>6. Follows(other, c, over, r, last) BY <2>2, <2>3, <2>4, AnswersFollow
  <2> QED BY <2>5, <2>6 DEF r, due, over, kind, other, link, last
<1>5. PaidIsBacked
  <2>1. InvoicesBacked BY DEF MoneyInv, BooksOk, RecordsOk
  <2>2. \A i \in Invoices : PaidBy({n \in DOMAIN payment : payment[n].invoice = i /\ payment[n].status = "paid"})
                              = PaidOf(payment, Standings(payment, i))
    BY DEF PaidBy, PaidOf, Standings
  <2>3. ASSUME NEW i \in Invoices
        PROVE  /\ invoice[i].paid = PaidOf(payment, Standings(payment, i)) /\ invoice[i].paid <= invoice[i].amount
               /\ invoice[i].status = "paid" <=> invoice[i].paid = invoice[i].amount /\ invoice[i].status # "none"
               /\ invoice[i].status = "partial" => invoice[i].paid > 0
               /\ invoice[i].status \in {"none", "draft", "sent", "cancelled", "archived"} => invoice[i].paid = 0
    <3>1. Backed(payment, i, invoice[i]) BY <2>1 DEF InvoicesBacked
    <3> QED BY <3>1 DEF Backed
  <2>4. \A n, m \in DOMAIN payment : payment[n].key = payment[m].key => n = m BY <2>1 DEF InvoicesBacked
  <2> QED BY <2>2, <2>3, <2>4 DEF PaidIsBacked
<1> QED BY <1>1, <1>2, <1>3, <1>4, <1>5 DEF RecordsFollowed

\* So are those of the payments of purchases, and the purchases and the stock agree.
LEMMA MoneyBought ==
  ASSUME MoneyInv
  PROVE  PurchasesFollowed
<1>1. ASSUME NEW k \in Keys
      PROVE  Follows("outlay", k, outlay[k].status = "paid", outlay[k], outlay[k].journal)
  <2> DEFINE r == outlay[k]
             due == r.status = "paid"
             kind == "outlay"
             link == r.journal
  <2>1. Made(r) /\ OutlayBook(journals, accounting, k, r)
    BY DEF MoneyInv, BooksOk, PurchasesInv, OutlaysOk
  <2>2. due => r.amount # 0 BY <2>1 DEF Made
  <2>3. Answers(journals, accounting, kind, k, IF due THEN r.amount ELSE 0, link, r.version)
    BY <2>1 DEF OutlayBook
  <2>4. due \in BOOLEAN OBVIOUS
  <2> HIDE DEF r, due, kind, link
  <2>5. Follows(kind, k, due, r, link) BY <2>2, <2>3, <2>4, AnswersFollow
  <2> QED BY <2>5 DEF r, due, kind, link
<1>2. \A b : Paid(b) = Spent(outlay, b) BY DEF Paid, Spent, Payments, Spending
<1>3. \A b \in Purchases : PaidFor(outlay, b, purchase[b]) BY DEF MoneyInv, BooksOk, PurchasesInv, PurchasesOk
<1>4. /\ stock = Moved(movements)
      /\ \A b \in Purchases : purchase[b].received = Moved({m \in movements : m.source \in {b} \X Keys})
  BY DEF MoneyInv, BooksOk, PurchasesInv, StockOk, ReceiptsOf
<1>5. PurchasesAreBacked BY <1>2, <1>3, <1>4 DEF PurchasesAreBacked, PaidFor
<1> QED BY <1>1, <1>5 DEF PurchasesFollowed

\* What a booking of the invariant owes and has paid.
LEMMA MoneyScheduled ==
  ASSUME MoneyInv, NEW b \in Bookings
  PROVE  LET r == booking[b] IN
         /\ Total(r.due) = r.price /\ invoice[b].amount = r.price
         /\ Total(r.paid) = invoice[b].paid
         /\ \A i \in DOMAIN r.due : r.paid[i] \in 0 .. r.due[i] /\ r.due[i] > 0
         /\ \A i, j \in DOMAIN r.due : i < j /\ r.paid[j] > 0 => r.paid[i] = r.due[i]
         /\ r.price > 0 /\ invoice[b].paid = r.price => r.status = "Completed" /\ r.paid = r.due
<1> DEFINE r == booking[b]
           due == r.due
           t == invoice[b].paid
<1>1. Scheduled(r, invoice[b].amount, t) BY DEF MoneyInv, BooksOk, ScheduleOk
<1>2. b \in Invoices BY PaymentsAssumption
<1>3. t \in Nat /\ t <= invoice[b].amount
  <2>1. invoice[b] \in InvoiceRecord BY <1>2 DEF MoneyInv, BooksOk, RecordsOk, InvoicesOk
  <2>2. Backed(payment, b, invoice[b]) BY <1>2 DEF MoneyInv, BooksOk, RecordsOk, InvoicesBacked
  <2> QED BY <2>1, <2>2 DEF InvoiceRecord, Backed
<1> HIDE DEF r, t
<1>4. /\ Dues(due) /\ Total(due) = r.price /\ invoice[b].amount = r.price /\ r.paid = Projected(due, t)
      /\ r.price > 0 /\ t = r.price => r.status = "Completed"
  BY <1>1 DEF Scheduled
<1>5. t <= Total(due) BY <1>3, <1>4
<1> HIDE DEF due
<1>6. /\ \A i \in DOMAIN due : Projected(due, t)[i] \in 0 .. due[i] /\ due[i] > 0
      /\ Total(Projected(due, t)) = t
      /\ \A i, j \in DOMAIN due : i < j /\ Projected(due, t)[j] > 0 => Projected(due, t)[i] = due[i]
      /\ t = Total(due) => Projected(due, t) = due
  BY <1>3, <1>4, <1>5, ProjectedIs
<1>7. /\ \A i \in DOMAIN due : r.paid[i] \in 0 .. due[i] /\ due[i] > 0
      /\ Total(r.paid) = t
      /\ \A i, j \in DOMAIN due : i < j /\ r.paid[j] > 0 => r.paid[i] = due[i]
      /\ t = Total(due) => r.paid = due
  BY <1>4, <1>6
<1> QED BY <1>4, <1>7 DEF r, t, due

\* Every record and every journal has its shape.
LEMMA MoneyTyped ==
  ASSUME MoneyInv
  PROVE  TypeOK
<1>1. EntriesOk(journals) BY DEF MoneyInv, BooksOk
<1>2. JournalsOk
  <2> SUFFICES ASSUME NEW j \in DOMAIN journals
               PROVE  LET e == journals[j] IN
                 /\ DOMAIN e = {"source", "account", "amount", "period", "status", "byHand", "maker", "checker", "seen"}
                 /\ e.account \in {"income", "expense", "none"} /\ e.amount \in Int /\ e.period \in Periods
                 /\ e.status \in {"DRAFT", "APPROVED", "POSTED", "REVERSED", "deleted"}
                 /\ e.byHand \in BOOLEAN /\ {e.maker, e.checker} \subseteq Users \cup {None}
    BY DEF JournalsOk
  <2> DEFINE e == journals[j]
  <2>1. EntryOk(e) BY <1>1 DEF EntriesOk
  <2> HIDE DEF e
  <2>2. DOMAIN e = {"source", "account", "amount", "period", "status", "byHand", "maker", "checker", "seen"}
    <3>1. PICK s, a, m, p, st, h, mk, ch, se :
            e = [source |-> s, account |-> a, amount |-> m, period |-> p, status |-> st, byHand |-> h,
                 maker |-> mk, checker |-> ch, seen |-> se]
      BY <2>1 DEF EntryOk, IsEntry
    <3> QED BY <3>1
  <2> QED BY <2>1, <2>2 DEF EntryOk, e
<1>3. RecordsTypeOK
  <2>1. /\ periods \in [Periods -> {"OPEN", "SOFT_LOCKED", "CLOSED"}] /\ years \in [Years -> {"OPEN", "CLOSED"}]
        /\ today \in Periods /\ accounting \in {"active", "off", "activated"}
    BY DEF MoneyInv, BooksOk, CalendarOk, LedgerInv
  <2>2. ASSUME NEW t \in Transactions
        PROVE  /\ transaction[t].status \in {"none", "pending", "paid", "cancelled", "voided", "deleted"}
               /\ LinksOk(transaction[t])
    <3> DEFINE r == transaction[t]
    <3>1. r \in TransactionRecord /\ TransactionBook(journals, accounting, t, r)
      BY DEF MoneyInv, BooksOk, RecordsOk, TransactionsOk
    <3> HIDE DEF r
    <3>2. r.journal \in {0} \cup DOMAIN journals BY <3>1 DEF TransactionBook, Answers
    <3> QED BY <3>1, <3>2 DEF TransactionRecord, LinksOk, r
  <2>3. ASSUME NEW i \in Invoices
        PROVE  /\ invoice[i].status \in
                    {"none", "draft", "sent", "partial", "paid", "overdue", "cancelled", "archived"}
               /\ LinksOk(invoice[i]) /\ invoice[i].payments \subseteq DOMAIN payment
    <3> DEFINE r == invoice[i]
    <3>1. r \in InvoiceRecord /\ InvoiceBook(journals, accounting, i, r) /\ Backed(payment, i, r)
      BY DEF MoneyInv, BooksOk, RecordsOk, InvoicesOk, InvoicesBacked
    <3> HIDE DEF r
    <3>2. r.journal \in {0} \cup DOMAIN journals BY <3>1 DEF InvoiceBook, Answers
    <3>3. r.payments \subseteq DOMAIN payment BY <3>1 DEF Backed, Owned
    <3> QED BY <3>1, <3>2, <3>3 DEF InvoiceRecord, LinksOk, r
  <2>4. ASSUME NEW c \in Commissions
        PROVE  /\ commission[c].status \in {"none", "pending", "approved", "paid", "cancelled", "archived"}
               /\ LinksOk(commission[c])
    <3> DEFINE r == commission[c]
    <3>1. r \in CommissionRecord /\ AccrualBook(journals, accounting, c, r)
      BY DEF MoneyInv, BooksOk, RecordsOk, CommissionsOk
    <3> HIDE DEF r
    <3>2. r.journal \in {0} \cup DOMAIN journals BY <3>1 DEF AccrualBook, Answers
    <3> QED BY <3>1, <3>2 DEF CommissionRecord, LinksOk, r
  <2> QED BY <1>2, <2>1, <2>2, <2>3, <2>4 DEF RecordsTypeOK
<1>4. PurchasesTypeOK
  <2>1. ASSUME NEW b \in Purchases
        PROVE  /\ purchase[b].status \in {"none", "Ordered", "PartiallyReceived", "Received", "Cancelled"}
               /\ purchase[b].received \in 0 .. purchase[b].quantity
    <3> DEFINE r == purchase[b]
    <3>1. r \in PurchaseRecord /\ PaidFor(outlay, b, r) BY DEF MoneyInv, BooksOk, PurchasesInv, PurchasesOk
    <3> HIDE DEF r
    <3>2. r.received <= r.quantity BY <3>1 DEF PaidFor
    <3>3. r.received \in 0 .. r.quantity BY <3>1, <3>2 DEF PurchaseRecord
    <3> QED BY <3>1, <3>3 DEF PurchaseRecord, r
  <2>2. ASSUME NEW k \in Keys
        PROVE  /\ outlay[k].status \in {"none", "paid", "voided"} /\ LinksOk(outlay[k])
               /\ outlay[k].purchase \in Purchases \cup {None}
    <3> DEFINE r == outlay[k]
    <3>1. r \in OutlayRecord /\ OutlayBook(journals, accounting, k, r)
      BY DEF MoneyInv, BooksOk, PurchasesInv, OutlaysOk
    <3> HIDE DEF r
    <3>2. r.journal \in {0} \cup DOMAIN journals BY <3>1 DEF OutlayBook, Answers
    <3> QED BY <3>1, <3>2 DEF OutlayRecord, LinksOk, r
  <2>3. stock \in Nat /\ movements \subseteq Movement BY DEF MoneyInv, BooksOk, PurchasesInv, StockOk
  <2>4. \A m \in Movement : m.key \in Keys \cup {None} /\ m.delta \in Int \ {0} BY DEF Movement
  <2> QED BY <2>1, <2>2, <2>3, <2>4 DEF PurchasesTypeOK
<1>5. SalesTypeOK
  <2>1. unit \in [Units -> EditableStatuses \cup {"deleted"}] BY DEF MoneyInv, SalesInv, SalesShape
  <2>2. ASSUME NEW u \in Units
        PROVE  byHand[u].count \in 0 .. MaxEdits /\ byHand[u].status \in {None, "deleted"} \cup EditableStatuses
    <3> DEFINE h == byHand[u]
    <3>1. h \in [count : Nat, status : EditableStatuses \cup {"deleted", None}]
      BY DEF MoneyInv, SalesInv, SalesShape
    <3>2. h.count <= MaxEdits BY DEF MoneyInv, BooksOk, HandsBounded
    <3> HIDE DEF h
    <3>3. h.count \in 0 .. MaxEdits BY <3>1, <3>2, UnitsAssumption
    <3> QED BY <3>1, <3>3 DEF h
  <2>3. ASSUME NEW b \in Bookings
        PROVE  LET r == booking[b] IN
               /\ r.status \in {"none", "Completed"} \cup OpenStatuses
               /\ r.key = IF r.status \in OpenStatuses THEN r.unit ELSE None
               /\ \A i \in DOMAIN r.due : r.paid[i] \in 0 .. r.due[i] /\ r.due[i] > 0
    <3>1. Bound(booking[b]) BY DEF MoneyInv, SalesInv
    <3>2. \A i \in DOMAIN booking[b].due : booking[b].paid[i] \in 0 .. booking[b].due[i] /\ booking[b].due[i] > 0
      BY MoneyScheduled
    <3> QED BY <3>1, <3>2 DEF Bound
  <2> QED BY <2>1, <2>2, <2>3 DEF SalesTypeOK
<1> QED BY <1>3, <1>4, <1>5 DEF TypeOK

\* Every variable of the tenant's money keeps its shape, and a record links to journals
\* that exist, whatever calls are interleaved.
THEOREM TypeCorrect == Spec => []TypeOK
<1>1. Init => MoneyInv BY MoneyInit
<1>2. MoneyInv /\ [Next]_vars => MoneyInv' BY MoneyStep
<1>3. MoneyInv => TypeOK BY MoneyTyped
<1> QED BY <1>1, <1>2, <1>3, PTL DEF Spec

\* The books follow the records: no record has a journal twice, none that it disowned and
\* none of an amount that was revised; an invoice is paid as far as payments stand for it,
\* a purchase no further than its total, and the instalments of a booking are covered by
\* its payments in order (the handlers of finance, of purchases and of sales).
THEOREM BooksAlwaysFollow == Spec => []BooksFollowRecords
<1>1. Init => MoneyInv BY MoneyInit
<1>2. MoneyInv /\ [Next]_vars => MoneyInv' BY MoneyStep
<1>3. MoneyInv => BooksFollowRecords
  <2>1. ASSUME MoneyInv PROVE ScheduleFollowsPayments BY <2>1, MoneyScheduled DEF ScheduleFollowsPayments
  <2> QED BY <2>1, MoneyFollows, MoneyBought DEF BooksFollowRecords
<1> QED BY <1>1, <1>2, <1>3, PTL DEF Spec
=============================================================================
