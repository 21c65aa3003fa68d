\* A good finalized between has_expired and release_good goes back to the pool,
\* even with row locks held to the commit.
SPECIFICATION Spec
CONSTANTS
  Workers = {w1, w2}
  Users = {u1}
  Offers = {f1}
  Goods = {g1}
  OrderIds = {o1, o2}
  TxHashes = {t1}
  OfferOf <- OneOffer
  MaxOrders = 2
  AutoCommit = FALSE
  Faulty = FALSE
  Prompt = FALSE
  None = None
SYMMETRY AllSymmetric
INVARIANTS UsedUpStaysTaken
