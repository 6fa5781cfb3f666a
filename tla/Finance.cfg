\* A manual transaction, an invoice paid in two parts, a commission, a purchase, the
\* sales of a unit or manual journals, over periods and a year that are closed and reopened.
SPECIFICATION OneSpec
CONSTANTS
  Periods = {1, 2}
  YearOf <- TwoYears
  Users = {u1, u2}
  u1 = u1
  u2 = u2
  Amounts = {1, 2}
  MakerChecker = TRUE
  None = None
  MaxJournals = 4
  Transactions = {t1}
  Invoices = {i1, s1, s2}
  Bookings = {s1, s2}
  Units = {f1}
  Terms <- SomeTerms
  MaxEdits = 2
  Commissions = {c1}
  t1 = t1
  i1 = i1
  s1 = s1
  s2 = s2
  f1 = f1
  c1 = c1
  Purchases = {b1}
  b1 = b1
  Quantities = {1, 2}
  Keys = {k1, k2}
  k1 = k1
  k2 = k2
  MaxPayments = 2
SYMMETRY Symmetric
INVARIANTS
  TypeOK
  BooksFollowRecords
  
  PostedAsApproved
  SoldOnce
CHECK_DEADLOCK FALSE
