SPECIFICATION Spec
CONSTANTS
  Components = {"GiftCards", "OfferLimit", "Accounts", "PushAuth", "Captcha", "Catalogue", "ChannelPool"}
  Workers = {w1, w2}
  Faulty = TRUE
  None = None
  u1 = u1
  c1 = c1
  Orders = {o1, o2}
  Cards = {g1, g2}
  Offers = {f1}
  BatchSize = 1
  Threshold = 1
  MaxPending = 0
  Items = {x1}
  LimitRange = 2
  MaxDay = 3
  MaxOrders = 2
  Clients = {u1}
  Addresses = {a1, a2, a3}
  OwnerOf <- MCOwnerOf
  Solvable = {b1}
  Mapped = {b1}
  InCatZero = {}
  NoLock = NoLock
  MaxToken = 2
  Categories = {k1}
  Modulo = 2
  Cooldown = 1
  MaxClock = 3
  TaskIds = {t1, t2}
  Cats = {c1}
  FirstCats = {c1}
  FirstTasks = {t1, t2}
  Positions = {1}
  Skipped = {}
  TooNew = {}
  OldTasks = {t2}
  Plan <- MCPlan
  LastDay = 0
  MaxEdits = 1
  Senders = {w1, w2}
  PoolSize = 1
  MaxFaults = 2
INVARIANTS
  ServicesTypesOK
  ProcessedCardIsGood
  PaidCardRecorded
  CacheKeepsPurchases
  RegisteredHasData
  FundedMeansOnboarded
  AccountsBounded
  PushedTokenValid
  ChannelsExclusive
PROPERTIES
  NotBookedWhileLocked
SYMMETRY Sym
CHECK_DEADLOCK FALSE
