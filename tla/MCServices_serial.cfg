SPECIFICATION FairSpec
CONSTANTS
  Components = {"GiftCards", "Accounts", "PushAuth", "Captcha", "Catalogue", "ChannelPool"}
  Workers = {w1}
  Faulty = FALSE
  None = None
  u1 = u1
  c1 = c1
  Orders = {o1, o2}
  Cards = {g1, g2}
  Offers = {f1}
  BatchSize = 1
  Threshold = 1
  MaxPending = 0
  Items = {x1}
  LimitRange = 2
  MaxDay = 3
  MaxOrders = 2
  Clients = {u1}
  Addresses = {a1}
  OwnerOf <- MCOwnerOf
  Solvable = {b1, b2, b3}
  Mapped = {b1, b2}
  InCatZero = {b3}
  NoLock = NoLock
  MaxToken = 1
  Categories = {k1, k2}
  Modulo = 2
  Cooldown = 1
  MaxClock = 3
  TaskIds = {t1, t2}
  Cats = {c1, c2}
  FirstCats = {c1}
  FirstTasks = {t1}
  Positions = {1}
  Skipped = {}
  TooNew = {}
  OldTasks = {t2}
  Plan <- MCPlan
  LastDay = 1
  MaxEdits = 1
  Senders = {s1, s2}
  PoolSize = 1
  MaxFaults = 1
INVARIANTS
  PendingBounded
  CountedTaskOpen
PROPERTIES
  EveryCardBecomesGood
  MigratedKeepsTasks
  UserGetsAuthenticated
  CaptchaNotTwiceSoon
  CaptchaGetsSolved
  CategoriesServedAgain
  PublishEndsUnlessDeserted
CHECK_DEADLOCK FALSE
