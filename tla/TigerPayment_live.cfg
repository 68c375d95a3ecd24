\* A restarted process: an attempt left unknown and another to be sent for its bill, under fairness.
SPECIFICATION RestartedSpec
CONSTANTS
    a1 = a1  a2 = a2  w1 = w1  w2 = w2  b1 = b1  b2 = b2
    Attempts = {a1, a2}
    NoAttempt = NoAttempt
    BillOf <- OneBill
    QrAttempts = {}
    Mismatched = {a2}
    Workers = {w1}
    Poller = Poller
    EventSources <- Migrated
    DeviceRaws <- Cash
    MaxCrashes = 0
    MaxHooks = 0
PROPERTIES ActiveSettles
