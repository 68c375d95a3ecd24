\* One QR attempt, a crash and late webhooks.
SPECIFICATION Spec
CONSTANTS
    a1 = a1  a2 = a2  w1 = w1  w2 = w2  b1 = b1  b2 = b2
    Attempts = {a1}
    NoAttempt = NoAttempt
    BillOf <- Solo
    QrAttempts = {a1}
    Mismatched = {}
    Workers = {w1}
    Poller = Poller
    EventSources <- Widened
    DeviceRaws <- QrRaws
    MaxCrashes = 1
    MaxHooks = 2
INVARIANTS TypeOK SuccessIsPaid
PROPERTIES SettledStays
