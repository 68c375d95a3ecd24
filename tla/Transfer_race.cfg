\* Two users over one product, fresh tokens, one handler dies half-way.
SPECIFICATION Spec
CONSTANTS
  u1 = u1
  u2 = u2
  l1 = l1
  t1 = t1
  t2 = t2
  t3 = t3
  Users = {u1, u2}
  Lines = {l1}
  Tokens = {t1, t2, t3}
  MaxQty = 2
  MaxEdits = 2
  MaxAborts = 1
  ReuseTokens = FALSE
  Stamping = TRUE
  NoToken = NoToken
  NoLine = NoLine
SYMMETRY Symmetry
INVARIANT CountsBehindBills
INVARIANT CountsNested
INVARIANT PostedIsComplete
CHECK_DEADLOCK FALSE
