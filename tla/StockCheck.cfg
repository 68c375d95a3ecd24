SPECIFICATION Spec
CONSTANTS
  Threads = {t1, t2}
  People = {p1, p2}
  Sessions = {s1, s2}
  Products = {b1}
  Drafts = {d1, d2}
  Opening = 1
  MaxCount = 1
  MaxDay = 1
  MaxBills = 1
  MaxCrashes = 1
  Nobody = Nobody
  NoSession = NoSession
  NoProduct = NoProduct
  NoDraft = NoDraft
SYMMETRY Symmetry
CONSTRAINT Explored
INVARIANTS ClosedProperly OneHolder StockIsLedger CountedOnce
PROPERTY ClosedStaysClosed
CHECK_DEADLOCK FALSE
