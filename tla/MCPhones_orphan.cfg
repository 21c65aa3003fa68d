\* Two users verify one number at the same time: each deactivates the other.
SPECIFICATION Spec
CONSTANTS
  Workers = {w1, w2}
  Users = {u1, u2}
  Numbers = {n1}
  Tasks = {t1}
  MaxRegistrations = 2
  Faulty = FALSE
  None = None
SYMMETRY Symmetric
INVARIANTS NumberHasUser
