\* Two days, two processes, a payment, a payout, a command, and a call that raises or a process that dies.
SPECIFICATION FairSpec
CONSTANTS
  w1 = w1
  w2 = w2
  MaxPayments = 1
  Processes = {w1, w2}
  MaxDay = 2
  MaxCommands = 1
  MaxPayouts = 1
  MaxTroubles = 1
  Nobody = Nobody
INVARIANTS DoneIsClosed
PROPERTIES ReportsHold Served
