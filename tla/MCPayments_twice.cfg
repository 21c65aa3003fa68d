\* The payment lock lasts 60 seconds whatever becomes of the payment.
SPECIFICATION Spec
CONSTANTS
  Workers = {w1}
  Users = {u1}
  Tasks = {t1}
  Cats = {c1}
  CatOf <- OneCat
  PhoneOf <- SharedPhone
  Memos = {m1, m2, m3}
  PayIds = {p1, p2}
  MaxTurns = 2
  Timely = FALSE
  Swift = FALSE
  Serial = TRUE
  Faulty = TRUE
  Empty = Empty
  None = None
SYMMETRY Symmetric
INVARIANTS PaidOnce
