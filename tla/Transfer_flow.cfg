\* One user at a time over two products; tokens may repeat, stamps may fail.
SPECIFICATION Spec
CONSTANTS
  u1 = u1
  l1 = l1
  l2 = l2
  t1 = t1
  t2 = t2
  t3 = t3
  Users = {u1}
  Lines = {l1, l2}
  Tokens = {t1, t2, t3}
  MaxQty = 2
  MaxEdits = 2
  MaxAborts = 0
  ReuseTokens = TRUE
  Stamping = TRUE
  NoToken = NoToken
  NoLine = NoLine
SYMMETRY Symmetry
INVARIANT TypeOK
INVARIANT BooksAgree
INVARIANT SingleBill
INVARIANT StampReturned
CHECK_DEADLOCK FALSE
