\* Any interleaving of requests; locks and cache entries expire at any time.
SPECIFICATION Spec
CONSTANTS
  Workers = {w1, w2}
  Users = {u1}
  Tasks = {t1}
  Cats = {c1}
  CatOf <- OneCat
  PhoneOf <- SharedPhone
  Memos = {m1, m2, m3}
  PayIds = {p1, p2}
  MaxTurns = 2
  Timely = FALSE
  Swift = FALSE
  Serial = FALSE
  Faulty = TRUE
  Empty = Empty
  None = None
SYMMETRY Symmetric
INVARIANTS TypeOK OnePaymentPerLock
