\* A cash attempt whose amount differs from the bill: two threads send, cancel and force, the device may report a status KCW does not know.
SPECIFICATION Spec
CONSTANTS
    a1 = a1  a2 = a2  w1 = w1  w2 = w2  b1 = b1  b2 = b2
    Attempts = {a1}
    NoAttempt = NoAttempt
    BillOf <- Solo
    QrAttempts = {}
    Mismatched = {a1}
    Workers = {w1, w2}
    Poller = Poller
    EventSources <- Widened
    DeviceRaws <- Stop
    MaxCrashes = 1
    MaxHooks = 1
SYMMETRY WorkerSymmetry
INVARIANTS MismatchNotCollected CancelledByDevice
