\* One request per user at a time; locks expire neither too early nor amid a submission.
SPECIFICATION Spec
CONSTANTS
  Workers = {w1, w2}
  Users = {u1}
  Tasks = {t1, t2}
  Cats = {c1}
  CatOf <- OneCat
  PhoneOf <- SharedPhone
  Memos = {m1, m2, m3}
  PayIds = {p1, p2}
  MaxTurns = 2
  Timely = TRUE
  Swift = TRUE
  Serial = TRUE
  Faulty = TRUE
  Empty = Empty
  None = None
SYMMETRY Symmetric
INVARIANTS PaidOnce RecordedAsSent CachedTaskOpen
PROPERTIES CompletedNeverLost
