\* Two operators, two labels and two bills; four requests, one of which may fail or die.
SPECIFICATION Spec
CONSTANTS
  u1 = u1
  u2 = u2
  n1 = n1
  n2 = n2
  b1 = b1
  b2 = b2
  Users = {u1, u2}
  Labels = {n1, n2}
  Bills = {b1, b2}
  NoNote = NoNote
  MaxSuffix = 1
  Widest = 2
  MaxCalls = 4
  MaxTroubles = 1
SYMMETRY Alike
CHECK_DEADLOCK FALSE
INVARIANTS PaidHasVoucher NotesAgree LiveHasReminder
PROPERTIES PaidStays
