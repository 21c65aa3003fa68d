\* The engine of prod and stage: every statement commits by itself.
SPECIFICATION Spec
CONSTANTS
  Workers = {w1, w2}
  Users = {u1}
  Offers = {f1}
  Goods = {g1, g2}
  OrderIds = {o1, o2, o3}
  TxHashes = {t1}
  OfferOf <- OneOffer
  MaxOrders = 1
  AutoCommit = TRUE
  Faulty = TRUE
  Prompt = FALSE
  None = None
SYMMETRY AllSymmetric
INVARIANTS DeliveryPaidFor OrdersBounded
PROPERTIES TxHandedOutOnce
