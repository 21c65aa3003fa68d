\* Row locks last to the commit (an engine without AUTOCOMMIT); processes die
\* and statements fail anywhere; orders expire during redemptions.
SPECIFICATION Spec
CONSTANTS
  Workers = {w1, w2}
  Users = {u1}
  Offers = {f1, f2}
  Goods = {g1, g2}
  OrderIds = {o1, o2}
  TxHashes = {t1, t2}
  OfferOf <- EveryOffer
  MaxOrders = 2
  AutoCommit = FALSE
  Faulty = TRUE
  Prompt = FALSE
  None = None
SYMMETRY GoodsFixed
INVARIANTS TypeOK ActiveOrderHasGood ResaleOnlyAfterLateRelease
PROPERTIES GoodLeavesOnlyExpiredOrder
