------------------------------- MODULE Ledger -------------------------------
(***************************************************************************)
(* The general ledger of a tenant: journals, fiscal periods and years, and *)
(* the closing of both (modules financeAccounting, financeClose,           *)
(* accountingPosting, and the reversals of financeGlIntegration).          *)
(*                                                                         *)
(* A handler is a MongoDB transaction: it reads a snapshot, and its commit *)
(* fails (the driver runs it again) when a document it WRITES has changed  *)
(* since.  What it only reads may be stale.  Here a transaction commits in *)
(* one step, under a view: `Here`, the state it commits in, or `slow`, the *)
(* snapshot of a transaction that began some steps ago.  Posting a journal *)
(* reads its period and year and writes neither; creating one takes a      *)
(* number from the sequence document of its year.                          *)
(*                                                                         *)
(* Amounts are signed: positive on the side of the journal that posted     *)
(* them first, negative in its reversal.  The lines of a journal, which    *)
(* always balance, are kept as the one profit and loss account they touch. *)
(* Left out: the chart of accounts, opening balances and the start date of *)
(* the accounting (records are dated after it), bank reconciliation (a     *)
(* close finds it done), and the label CLOSING of a year, that no posting  *)
(* reads.                                                                  *)
(***************************************************************************)
EXTENDS Integers, FiniteSets, Sequences, FiniteSetsExt, Functions

CONSTANTS
  Periods,      \* fiscal periods, in order
  YearOf,       \* the fiscal year of each: years are calendar years, the default
  Users,        \* who makes and checks journals
  Amounts,
  MakerChecker, \* settings.makerCheckerRequired
  None,
  MaxJournals   \* bound

ASSUME CalendarAssumption ==
  /\ IsFiniteSet(Periods) /\ Periods # {} /\ Periods = 1 .. Cardinality(Periods)
  /\ YearOf \in [Periods -> Nat]
  /\ \A p, q \in Periods : p <= q => YearOf[p] <= YearOf[q]
ASSUME LedgerAssumption ==
  /\ Amounts \subseteq Nat \ {0} /\ Amounts # {}
  /\ MakerChecker \in BOOLEAN /\ MaxJournals \in Nat
  /\ None \notin Users

Years == {YearOf[p] : p \in Periods}
PeriodsOf(y) == {p \in Periods : YearOf[p] = y}

VARIABLES
  journals,   \* in the order they were created
  periods,    \* status of each fiscal period
  years,      \* status of each fiscal year
  today,      \* the period under way
  accounting, \* automatic posting: "active" from the first record on, "off" (not
              \* initialized, or a migration is required), "activated" after that
  closer,     \* a closePeriod under way, or None
  slow        \* an open transaction's snapshot and what has changed since, or None

ledger == <<journals, periods, years, today, accounting, closer, slow>>

LedgerInit ==
  /\ journals = <<>>
  /\ periods = [p \in Periods |-> "OPEN"]
  /\ years = [y \in Years |-> "OPEN"]
  /\ today = 1
  /\ accounting \in {"active", "off"}
  /\ closer = None /\ slow = None

-----------------------------------------------------------------------------
(* Transactions. *)

Journal(j) == <<"journal", j>>
Period(p) == <<"period", p>>
Year(y) == <<"year", y>>
Record(r) == <<"record", r>>

\* The sequence document that nextJournalNumber increments.

\* Mutant: journals are numbered without a shared document.
Unnumbered(p) == {}

Sequence(p) == {<<"sequence", YearOf[p]>>}

Outstanding(y) ==
  {j \in DOMAIN journals : journals[j].status \in {"DRAFT", "APPROVED"} /\ YearOf[journals[j].period] = y}
InBooks == {j \in DOMAIN journals : journals[j].status \in {"POSTED", "REVERSED"}}
Balance(y, account) ==
  SumFunction([j \in {i \in InBooks : YearOf[journals[i].period] = y /\ journals[i].account = account}
                 |-> journals[j].amount])

Here == [periods |-> periods, years |-> years, accounting |-> accounting,
         settled |-> {y \in Years : Outstanding(y) = {}},
         balances |-> [y \in Years |-> <<Balance(y, "income"), Balance(y, "expense")>>],
         changed |-> {}, slow |-> FALSE]
Views == {Here} \cup (IF slow = None THEN {} ELSE {slow})

\* A transaction with the view v commits what it wrote to docs.
Commit(v, docs) ==
  /\ docs \cap v.changed = {}
  /\ slow' = IF v.slow \/ slow = None THEN None ELSE [slow EXCEPT !.changed = @ \cup docs]

Begin ==
  /\ slow = None
  /\ slow' = [Here EXCEPT !.slow = TRUE]
  /\ UNCHANGED <<journals, periods, years, today, accounting, closer>>

Abort ==
  /\ slow # None
  /\ slow' = None
  /\ UNCHANGED <<journals, periods, years, today, accounting, closer>>

-----------------------------------------------------------------------------
(* Posting. *)

\* isAutomaticPostingReady
Ready(v) == v.accounting # "off"

\* resolvePostingPeriod
Open(v, p) == v.periods[p] = "OPEN" /\ v.years[YearOf[p]] = "OPEN"

\* What createJournalDraftInternal asks of a journal dated in p.
Accepts(v, p) == v.accounting # "off" /\ Open(v, p)

Entry(source, account, amount, p) ==
  [source |-> source, account |-> account, amount |-> amount, period |-> p,
   status |-> "POSTED", byHand |-> FALSE, maker |-> None, checker |-> None, seen |-> 0]

\* reverseJournalInternal, dated in p.
Reversed(js, j, p, byHand) ==
  Append([js EXCEPT ![j].status = "REVERSED", ![j].byHand = byHand],
         Entry(<<"reversal", j, 0>>, js[j].account, 0 - js[j].amount, p))

From(js, source) == {j \in DOMAIN js : js[j].source = source}

\* postAutomatedInSession: a source is posted once.
PostedOnce(js, entry) == IF From(js, entry.source) = {} THEN Append(js, entry) ELSE js

\* A transaction posts two at most.
PostedAll(js, news) ==
  CASE Len(news) = 0 -> js
    [] Len(news) = 1 -> PostedOnce(js, news[1])
    [] Len(news) = 2 -> PostedOnce(PostedOnce(js, news[1]), news[2])

\* The journals after `old` is reversed, if it still stands, and `news` posted:
\* reverseLinkedJournal and the posting of a record in one transaction.
Stands(j) == j # 0 /\ journals[j].status = "POSTED"
Booked(old, news) ==
  PostedAll(IF Stands(old) THEN Reversed(journals, old, today, FALSE) ELSE journals, news)

\* The journal that a record is linked to.
Link(js, source) == IF From(js, source) = {} THEN 0 ELSE CHOOSE j \in From(js, source) : TRUE

\* A transaction that writes docs, reverses `old` and posts `news`.
Book(v, old, news, docs) ==
  /\ Stands(old) => Accepts(v, today)
  /\ \A n \in DOMAIN news : Accepts(v, news[n].period)
  /\ journals' = Booked(old, news)
  /\ Len(journals') <= MaxJournals
  /\ Commit(v, docs \cup (IF old # 0 THEN {Journal(old)} ELSE {})
                    \cup (IF Stands(old) THEN Sequence(today) ELSE {})
                    \cup (UNION {Sequence(news[n].period) : n \in DOMAIN news})
                    \cup {Journal(j) : j \in DOMAIN journals' \ DOMAIN journals})
  /\ UNCHANGED <<periods, years, today, accounting, closer>>

\* assertLinkedJournalReversed
Undone(j) == j # 0 => journals[j].status = "REVERSED"

-----------------------------------------------------------------------------
(* Manual journals. *)

Kind(j) == journals[j].source[1]

\* createManualJournal
CreateManualJournal(v, user, amount, p) ==
  /\ Accepts(v, p)
  /\ Len(journals) < MaxJournals
  /\ journals' = Append(journals,
       [Entry(<<"manual", Len(journals) + 1, 0>>, "income", amount, p) EXCEPT
          !.status = "DRAFT", !.maker = user])
  /\ Commit(v, {Journal(Len(journals) + 1)} \cup Sequence(p))
  /\ UNCHANGED <<periods, years, today, accounting, closer>>

Changes(v, j, fields) ==
  /\ journals' = [journals EXCEPT ![j] = fields]
  /\ Commit(v, {Journal(j)})
  /\ UNCHANGED <<periods, years, today, accounting, closer>>

\* Mutant: an approved journal may still be edited.
Unposted(j) == journals[j].status \in {"DRAFT", "APPROVED"}

Editable(j) == journals[j].status = "DRAFT"

\* updateDraftJournal
UpdateDraftJournal(v, j, amount, p) ==
  /\ Editable(j) /\ Kind(j) = "manual"
  /\ Open(v, p)
  /\ <<amount, p>> # <<journals[j].amount, journals[j].period>>
  /\ Changes(v, j, [journals[j] EXCEPT !.amount = amount, !.period = p])

\* approveJournal
ApproveJournal(v, j, user) ==
  /\ journals[j].status = "DRAFT" /\ Kind(j) = "manual"
  /\ user # journals[j].maker
  /\ Changes(v, j, [journals[j] EXCEPT !.status = "APPROVED", !.checker = user, !.seen = journals[j].amount])

\* postJournal
PostJournal(v, j) ==
  /\ journals[j].status \in {"DRAFT", "APPROVED"}
  /\ Kind(j) = "manual" /\ MakerChecker =>
       journals[j].status = "APPROVED" /\ journals[j].maker # journals[j].checker
  /\ Open(v, journals[j].period)
  /\ Changes(v, j, [journals[j] EXCEPT !.status = "POSTED"])

\* deleteDraftJournal
DeleteDraftJournal(v, j) ==
  /\ journals[j].status = "DRAFT"
  /\ Changes(v, j, [journals[j] EXCEPT !.status = "deleted"])

\* reverseJournal, asked for by a user and dated in p: of any posted journal.
ReverseJournal(v, j, p) ==
  /\ journals[j].status = "POSTED"
  /\ Accepts(v, p)
  /\ Len(journals) < MaxJournals
  /\ journals' = Reversed(journals, j, p, TRUE)
  /\ Commit(v, {Journal(j), Journal(Len(journals) + 1)} \cup Sequence(p))
  /\ UNCHANGED <<periods, years, today, accounting, closer>>

-----------------------------------------------------------------------------
(* Closing. *)

SetPeriod(v, p, status) ==
  /\ periods' = [periods EXCEPT ![p] = status]
  /\ Commit(v, {Period(p)})

\* setFiscalPeriodStatus
SetFiscalPeriodStatus(p, status) ==
  /\ periods[p] \notin {"CLOSED", status}
  /\ SetPeriod(Here, p, status)
  /\ UNCHANGED <<journals, years, today, accounting, closer>>

\* periodChecklist
Clean(p) == \A j \in DOMAIN journals :
  journals[j].period = p => journals[j].status \notin {"DRAFT", "APPROVED"}

\* closePeriod, one at a time, reads the period and its first checklist ...
ReviewPeriod(p) ==
  /\ closer = None
  /\ periods[p] # "CLOSED"
  /\ Clean(p)
  /\ closer' = [period |-> p, read |-> periods[p], pc |-> "reviewed", locked |-> FALSE]
  /\ UNCHANGED <<journals, periods, years, today, accounting, slow>>

\* ... locks it, unless it was soft-locked already ...
LockPeriod ==
  /\ closer # None /\ closer.pc = "reviewed"
  /\ LET p == closer.period IN
     IF closer.read = "SOFT_LOCKED"
     THEN closer' = [closer EXCEPT !.pc = "locked"] /\ UNCHANGED <<periods, slow>>
     ELSE IF periods[p] = "OPEN"
     THEN /\ closer' = [closer EXCEPT !.pc = "locked", !.locked = TRUE]
          /\ SetPeriod(Here, p, "SOFT_LOCKED")
     ELSE closer' = None /\ UNCHANGED <<periods, slow>>
  /\ UNCHANGED <<journals, years, today, accounting>>

\* ... reviews it again ...
ReviewAgain ==
  /\ closer # None /\ closer.pc = "locked"
  /\ closer' = [closer EXCEPT !.pc = IF Clean(closer.period) THEN "clean" ELSE "failed"]
  /\ UNCHANGED <<journals, periods, years, today, accounting, slow>>

\* ... and closes it, if nobody has unlocked it.
ClosePeriod ==
  /\ closer # None /\ closer.pc = "clean"
  /\ IF periods[closer.period] = "SOFT_LOCKED"
     THEN closer' = None /\ SetPeriod(Here, closer.period, "CLOSED")
     ELSE closer' = [closer EXCEPT !.pc = "failed"] /\ UNCHANGED <<periods, slow>>
  /\ UNCHANGED <<journals, years, today, accounting>>

\* A close that fails gives back the lock it took.
UnlockPeriod ==
  /\ closer # None /\ closer.pc = "failed"
  /\ closer' = None
  /\ IF closer.locked /\ periods[closer.period] = "SOFT_LOCKED"
     THEN SetPeriod(Here, closer.period, "OPEN") ELSE UNCHANGED <<periods, slow>>
  /\ UNCHANGED <<journals, years, today, accounting>>

CloserCrashes ==
  /\ closer # None
  /\ closer' = None
  /\ UNCHANGED <<journals, periods, years, today, accounting, slow>>

\* reopenPeriod
ReopenPeriod(v, p) ==
  /\ v.periods[p] = "CLOSED" /\ v.years[YearOf[p]] # "CLOSED"
  /\ SetPeriod(v, p, "OPEN")
  /\ UNCHANGED <<journals, years, today, accounting, closer>>

\* yearEndClose: the closing entries, dated in the last period, count as one.
YearEndClose(v, y) ==
  LET net == v.balances[y][1] + v.balances[y][2]
      entry == v.balances[y] # <<0, 0>>
      last == Max(PeriodsOf(y))
  IN  /\ v.years[y] = "OPEN"
      /\ \A p \in PeriodsOf(y) : v.periods[p] = "CLOSED"
      /\ y \in v.settled
      /\ years' = [years EXCEPT ![y] = "CLOSED"]
      /\ journals' = IF entry THEN Append(journals, Entry(<<"closing", y, 0>>, "none", net, last)) ELSE journals
      /\ Len(journals') <= MaxJournals
      /\ Commit(v, {Year(y)} \cup (IF entry THEN {Journal(Len(journals) + 1)} \cup Sequence(last) ELSE {}))
      /\ UNCHANGED <<periods, today, accounting, closer>>

PeriodPasses ==
  /\ today + 1 \in Periods
  /\ today' = today + 1
  /\ UNCHANGED <<journals, periods, years, accounting, closer, slow>>

\* preview of a migration: only before anything has been posted.
PreviewMigration ==
  /\ accounting = "active"
  /\ InBooks = {}
  /\ accounting' = "off"
  /\ UNCHANGED <<journals, periods, years, today, closer, slow>>

\* initialize, or activate after a migration.
ActivateAccounting ==
  /\ accounting = "off"
  /\ accounting' = "activated"
  /\ UNCHANGED <<journals, periods, years, today, closer, slow>>

-----------------------------------------------------------------------------

OnJournals(v) ==
  \/ \E p \in Periods, a \in Amounts, u \in Users : CreateManualJournal(v, u, a, p)
  \/ \E j \in DOMAIN journals :
       \/ \E p \in Periods, a \in Amounts : UpdateDraftJournal(v, j, a, p)
       \/ \E u \in Users : ApproveJournal(v, j, u)
       \/ PostJournal(v, j)
       \/ DeleteDraftJournal(v, j)
       \/ \E p \in Periods : ReverseJournal(v, j, p)

Closing ==
  \/ \E p \in Periods : ReviewPeriod(p)
  \/ LockPeriod \/ ReviewAgain \/ ClosePeriod \/ UnlockPeriod \/ CloserCrashes

LedgerNext ==
  \/ Begin \/ Abort
  \/ \E v \in Views :
       \/ OnJournals(v)
       \/ \E p \in Periods : ReopenPeriod(v, p)
       \/ \E y \in Years : YearEndClose(v, y)
  \/ Closing
  \/ \E p \in Periods, s \in {"OPEN", "SOFT_LOCKED"} : SetFiscalPeriodStatus(p, s)
  \/ PeriodPasses \/ PreviewMigration \/ ActivateAccounting

=============================================================================
