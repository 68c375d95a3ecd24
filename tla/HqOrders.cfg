SPECIFICATION Spec
CONSTANTS
  Threads = {t1, t2}
  Waiting = {i1}
  Inserted = {n1}
  Docs = {d1, d2}
  Receipts = {r1}
  Portions = {"all", "some"}
  Product <- OwnProduct
  MaxFaults = 1
  MaxCrashes = 1
  NoDoc = NoDoc
  NoReceipt = NoReceipt
SYMMETRY Symmetry
CONSTRAINT Explored
INVARIANTS OrdersHold BooksAgree ReceiptsHold
PROPERTY RowsLive
CHECK_DEADLOCK FALSE
