\* Under AUTOCOMMIT the row lock of allocate_good ends with its SELECT: two
\* bookings take the same good.
SPECIFICATION Spec
CONSTANTS
  Workers = {w1, w2}
  Users = {u1}
  Offers = {f1}
  Goods = {g1, g2}
  OrderIds = {o1, o2}
  TxHashes = {t1}
  OfferOf <- OneOffer
  MaxOrders = 2
  AutoCommit = TRUE
  Faulty = FALSE
  Prompt = FALSE
  None = None
SYMMETRY AllSymmetric
INVARIANTS ActiveOrderHasGood
