\* No failures, and every redemption ends before its order expires: what the
\* goods table promises, that a recorded payment is served, and that unpaid
\* goods are released.
SPECIFICATION FairSpec
CONSTANTS
  Workers = {w1, w2}
  Users = {u1}
  Offers = {f1}
  Goods = {g1, g2}
  OrderIds = {o1, o2}
  TxHashes = {t1, t2}
  OfferOf <- OneOffer
  MaxOrders = 1
  AutoCommit = FALSE
  Faulty = FALSE
  Prompt = TRUE
  None = None
INVARIANTS LockMeansProcessing RecordedIsServed
PROPERTIES ImplementsInventory UnclaimedReleased
