\* One bill, two attempts, two requests at once and a sweeper.
SPECIFICATION FairSpec
CONSTANTS
  a1 = a1  a2 = a2  h1 = h1  h2 = h2  s1 = s1
  Attempts = {a1, a2}
  BillOf <- OneBill
  Threads = {h1, h2}
  Sweepers = {s1}
  NoAttempt = NoAttempt
  Nobody = Nobody
  MaxFaults = 1
  MaxCrashes = 1
INVARIANTS RowsAreTrue PaidOnce
PROPERTIES LedgerKept VoucherSettles
