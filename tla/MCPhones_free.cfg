\* Any interleaving of the requests about one number, with failures.
SPECIFICATION Spec
CONSTANTS
  Workers = {w1, w2}
  Users = {u1, u2, u3}
  Numbers = {n1}
  Tasks = {t1}
  MaxRegistrations = 2
  Faulty = TRUE
  None = None
SYMMETRY Symmetric
INVARIANTS TypeOK OneActiveToBe RegistrationsBounded HistoryFollows
