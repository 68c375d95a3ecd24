\* Two attempts on one bill, two request threads and the poller.
SPECIFICATION Spec
CONSTANTS
    a1 = a1  a2 = a2  w1 = w1  w2 = w2  b1 = b1  b2 = b2
    Attempts = {a1, a2}
    NoAttempt = NoAttempt
    BillOf <- OneBill
    QrAttempts = {}
    Mismatched = {}
    Workers = {w1, w2}
    Poller = Poller
    EventSources <- Migrated
    DeviceRaws <- Paid
    MaxCrashes = 0
    MaxHooks = 1
SYMMETRY Symmetry
INVARIANTS OneBlockingPerBill IdMeansTransaction
PROPERTIES LedgerKept
