------------------------- MODULE OrdersPromiseProofs -------------------------
(***************************************************************************)
(* Orders implements Inventory: with row locks held to the commit, without *)
(* failures, and with redemptions that end before their order expires,     *)
(* every step of a handler is a step of the abstract inventory or none.    *)
(***************************************************************************)
EXTENDS OrdersProofs

\* No good has an order id that is still to be generated, or whose booking has not
\* assigned its good yet.
FreshInv ==
  /\ \A g \in Goods : goodOrder[g] # None => goodOrder[g] \in usedIds
  /\ \A w \in Workers : pc[w] \in {"pick", "assign"} =>
       \A g \in Goods : goodOrder[g] # job[w].order

\* An order that is being redeemed is neither expired nor still being booked.
RedeemedInv ==
  \A v \in Workers : pc[v] \in PaidSteps =>
    /\ job[v].order \in usedIds \ expired
    /\ \A w \in Workers : pc[w] \in Booked => job[w].order # job[v].order

\* A used-up good stays with an order that can no longer expire: its row is gone, or
\* is about to be deleted by the redemption.
UsedUpInv ==
  \A g \in Goods : goodTx[g] # None =>
    /\ goodOrder[g] \in usedIds \ expired
    /\ \A w \in Workers : pc[w] \in Booked => job[w].order # goodOrder[g]
    /\ HasRow(goodOrder[g]) =>
         \E w \in Workers : pc[w] = "delete" /\ job[w].order = goodOrder[g]

PromiseInv == FreshInv /\ RedeemedInv /\ UsedUpInv

-----------------------------------------------------------------------------

\* Steps that write no column of a good, add no order, expire none, and bring no
\* worker to a step at which it has an order id.
LEMMA PromiseFrame ==
  ASSUME TypeOK, PromiseInv, UNCHANGED <<goodOrder, goodTx, expired, usedIds>>,
         \A o \in OrderIds : HasRow(o)' => HasRow(o),
         \A v \in Workers :
           /\ pc'[v] \in Booked \cup PaidSteps => job'[v].order = job[v].order
           /\ pc'[v] \in Booked => pc[v] \in Booked
           /\ pc'[v] \in {"pick", "assign"} => pc[v] \in {"pick", "assign"}
           /\ pc'[v] \in PaidSteps => pc[v] \in PaidSteps
           /\ pc[v] = "delete" /\ pc'[v] # "delete" =>
                \A o \in OrderIds : HasRow(o)' => job[v].order # o
  PROVE  PromiseInv'
<1> USE DEF PromiseInv
<1>1. FreshInv'
  <2>1. \A w \in Workers : pc'[w] \in {"pick", "assign"} => job'[w].order = job[w].order
    BY DEF Booked
  <2> QED
    BY <2>1 DEF FreshInv
<1>2. RedeemedInv'
  BY DEF RedeemedInv
<1>3. UsedUpInv'
  <2> SUFFICES ASSUME NEW g \in Goods, goodTx[g] # None
               PROVE  /\ goodOrder[g] \in usedIds \ expired
                      /\ \A w \in Workers : pc'[w] \in Booked => job'[w].order # goodOrder[g]
                      /\ HasRow(goodOrder[g])' =>
                           \E w \in Workers : pc'[w] = "delete" /\ job'[w].order = goodOrder[g]
    BY DEF UsedUpInv, HasRow
  <2>1. /\ goodOrder[g] \in usedIds \ expired
        /\ \A w \in Workers : pc[w] \in Booked => job[w].order # goodOrder[g]
        /\ HasRow(goodOrder[g]) =>
             \E w \in Workers : pc[w] = "delete" /\ job[w].order = goodOrder[g]
    BY DEF UsedUpInv
  <2>2. ASSUME HasRow(goodOrder[g])'
        PROVE  \E w \in Workers : pc'[w] = "delete" /\ job'[w].order = goodOrder[g]
    <3>1. goodOrder[g] \in OrderIds
      BY <2>1 DEF TypeOK
    <3>2. PICK w \in Workers : pc[w] = "delete" /\ job[w].order = goodOrder[g]
      BY <2>1, <2>2, <3>1
    <3>3. pc'[w] = "delete"
      BY <2>2, <3>1, <3>2
    <3> QED
      BY <3>2, <3>3 DEF PaidSteps
  <2> QED
    BY <2>1, <2>2
<1> QED
  BY <1>1, <1>2, <1>3

\* An order with a redemption in progress does not expire.
LEMMA ExpireKeepsPromise ==
  ASSUME Prompt, TypeOK, AllocationInv, PromiseInv, NEW o \in OrderIds, Expire(o)
  PROVE  PromiseInv'
<1> USE DEF PromiseInv
<1>1. /\ HasRow(o) /\ expired' = expired \cup {o}
      /\ \A w \in Workers : ~(pc[w] \in RedeemSteps /\ job[w].order = o)
      /\ UNCHANGED <<goodOrder, goodTx, orderRow, usedIds, pc, job>>
  BY DEF Expire, Active, dbVars
<1>2. \A v \in Workers : pc[v] \in PaidSteps => job[v].order # o
  BY <1>1 DEF PaidSteps, RedeemSteps
<1>3. \A g \in Goods : goodTx[g] # None => goodOrder[g] # o
  BY <1>1 DEF UsedUpInv, RedeemSteps
<1> QED
  BY <1>1, <1>2, <1>3 DEF FreshInv, RedeemedInv, UsedUpInv, HasRow

\* A new order id is no good's, and in no redemption.
LEMMA CountKeepsPromise ==
  ASSUME TypeOK, AllocationInv, PromiseInv, NEW w \in Workers, CountOrders(w)
  PROVE  PromiseInv'
<1> USE DEF PromiseInv
<1>1. PICK o \in OrderIds \ usedIds :
        usedIds' = usedIds \cup {o} /\ job' = [job EXCEPT ![w].order = o]
  BY DEF CountOrders
<1>2. /\ pc[w] = "count" /\ pc'[w] = "pick" /\ job'[w].order = o
      /\ \A v \in Workers \ {w} : pc'[v] = pc[v] /\ job'[v] = job[v]
      /\ UNCHANGED <<goodOrder, goodTx, orderRow, expired>>
  BY <1>1 DEF CountOrders, Goto, dbVars, TypeOK, Job
<1>3. o # None
  BY OrdersAssumption
<1>4. \A v \in Workers : /\ pc'[v] \in PaidSteps \cup {"assign", "insert"}
                             => v # w /\ pc'[v] = pc[v] /\ job'[v] = job[v]
                         /\ pc[v] = "delete" => v # w
  BY <1>2 DEF PaidSteps
<1>5. FreshInv'
  BY <1>1, <1>2, <1>3 DEF FreshInv
<1>6. RedeemedInv'
  <2> SUFFICES ASSUME NEW v \in Workers, pc'[v] \in PaidSteps
               PROVE  /\ job'[v].order \in usedIds' \ expired'
                      /\ \A x \in Workers : pc'[x] \in Booked => job'[x].order # job'[v].order
    BY DEF RedeemedInv
  <2>1. pc[v] \in PaidSteps /\ job'[v] = job[v] /\ job[v].order \in usedIds \ expired
    BY <1>4 DEF RedeemedInv
  <2>2. ASSUME NEW x \in Workers, pc'[x] \in Booked PROVE job'[x].order # job'[v].order
    <3>1. CASE x = w
      BY <1>2, <2>1, <3>1
    <3>2. CASE x # w
      BY <1>2, <2>1, <2>2, <3>2 DEF RedeemedInv
    <3> QED
      BY <3>1, <3>2
  <2>3. usedIds \ expired \subseteq usedIds' \ expired'
    BY <1>1, <1>2
  <2>4. job'[v].order \in usedIds' \ expired'
    BY <2>1, <2>3
  <2> QED
    BY <2>2, <2>4
<1>7. UsedUpInv'
  <2> SUFFICES ASSUME NEW g \in Goods, goodTx[g] # None
               PROVE  /\ goodOrder[g] \in usedIds' \ expired
                      /\ \A x \in Workers : pc'[x] \in Booked => job'[x].order # goodOrder[g]
                      /\ HasRow(goodOrder[g]) =>
                           \E x \in Workers : pc'[x] = "delete" /\ job'[x].order = goodOrder[g]
    BY <1>2 DEF UsedUpInv, HasRow
  <2>1. goodOrder[g] \in usedIds \ expired
    BY DEF UsedUpInv
  <2>2. ASSUME NEW x \in Workers, pc'[x] \in Booked PROVE job'[x].order # goodOrder[g]
    <3>1. CASE x = w
      BY <1>2, <2>1, <3>1
    <3>2. CASE x # w
      BY <1>2, <2>2, <3>2 DEF UsedUpInv
    <3> QED
      BY <3>1, <3>2
  <2>3. ASSUME HasRow(goodOrder[g])
        PROVE  \E x \in Workers : pc'[x] = "delete" /\ job'[x].order = goodOrder[g]
    <3>1. PICK x \in Workers : pc[x] = "delete" /\ job[x].order = goodOrder[g]
      BY <2>3 DEF UsedUpInv
    <3> QED
      BY <1>2, <1>4, <3>1
  <2> QED
    BY <1>1, <2>1, <2>2, <2>3
<1> QED
  BY <1>5, <1>6, <1>7

\* The good that is assigned was free, and so not used up.
LEMMA AssignKeepsPromise ==
  ASSUME TypeOK, AllocationInv, PromiseInv, NEW w \in Workers, AssignGood(w)
  PROVE  PromiseInv'
<1> USE DEF PromiseInv
<1> DEFINE g == job[w].good  o == job[w].order
<1>1. /\ pc[w] = "assign" /\ pc'[w] = "insert"
      /\ goodOrder' = [goodOrder EXCEPT ![g] = o]
      /\ UNCHANGED <<goodTx, orderRow, expired, usedIds, job>>
      /\ \A v \in Workers \ {w} : pc'[v] = pc[v]
  BY DEF AssignGood, Goto, TypeOK
<1>2. /\ goodOrder[g] = None /\ g \in Goods /\ o \in usedIds \ expired /\ o \in OrderIds
      /\ \A v \in Workers \ {w} : pc[v] \in Booked => job[v].order # o
  BY <1>1 DEF AllocationInv, RowsInv, BookingInv, Booked, TypeOK, JobOK
<1>3. goodTx[g] = None
  BY <1>2, OrdersAssumption DEF UsedUpInv, TypeOK
<1>4. \A x \in Goods : goodOrder'[x] = IF x = g THEN o ELSE goodOrder[x]
  BY <1>1 DEF TypeOK
<1>5. \A v \in Workers : /\ pc'[v] \in Booked <=> pc[v] \in Booked
                         /\ pc'[v] \in PaidSteps <=> pc[v] \in PaidSteps
                         /\ pc'[v] = "delete" <=> pc[v] = "delete"
                         /\ pc'[v] \in {"pick", "assign"} => v # w /\ pc[v] \in {"pick", "assign"}
  BY <1>1 DEF Booked, PaidSteps
<1>6. FreshInv'
  BY <1>1, <1>2, <1>4, <1>5 DEF FreshInv, Booked
<1>7. RedeemedInv'
  BY <1>1, <1>5 DEF RedeemedInv
<1>8. UsedUpInv'
  <2>1. \A x \in Goods : goodTx'[x] # None => goodTx[x] # None /\ goodOrder'[x] = goodOrder[x]
    BY <1>1, <1>3, <1>4
  <2> QED
    BY <1>1, <1>5, <2>1 DEF UsedUpInv, HasRow
<1> QED
  BY <1>6, <1>7, <1>8

\* The order that gets its row has no used-up good.
LEMMA InsertKeepsPromise ==
  ASSUME TypeOK, AllocationInv, PromiseInv, NEW w \in Workers, InsertOrder(w)
  PROVE  PromiseInv'
<1> USE DEF PromiseInv
<1> DEFINE o == job[w].order
<1>1. /\ pc[w] = "insert" /\ pc'[w] = "idle"
      /\ UNCHANGED <<goodOrder, goodTx, expired, usedIds>>
      /\ \A v \in Workers \ {w} : pc'[v] = pc[v] /\ job'[v] = job[v]
      /\ \A x \in OrderIds : x # o => orderRow'[x] = orderRow[x]
  BY DEF InsertOrder, Finish, TypeOK
<1>2. \A g \in Goods : goodTx[g] # None => goodOrder[g] # o
  BY <1>1 DEF UsedUpInv, Booked
<1>3. \A v \in Workers : pc'[v] \in Booked \cup PaidSteps =>
        v # w /\ pc'[v] = pc[v] /\ job'[v] = job[v]
  BY <1>1 DEF Booked, PaidSteps
<1>4. FreshInv'
  BY <1>1, <1>3 DEF FreshInv, Booked
<1>5. RedeemedInv'
  BY <1>1, <1>3 DEF RedeemedInv
<1>6. UsedUpInv'
  <2> SUFFICES ASSUME NEW g \in Goods, goodTx[g] # None
               PROVE  /\ goodOrder[g] \in usedIds \ expired
                      /\ \A v \in Workers : pc'[v] \in Booked => job'[v].order # goodOrder[g]
                      /\ HasRow(goodOrder[g])' =>
                           \E v \in Workers : pc'[v] = "delete" /\ job'[v].order = goodOrder[g]
    BY <1>1 DEF UsedUpInv, HasRow
  <2>1. /\ goodOrder[g] \in usedIds \ expired /\ goodOrder[g] # o
        /\ \A v \in Workers : pc'[v] \in Booked => job'[v].order # goodOrder[g]
    BY <1>2, <1>3 DEF UsedUpInv
  <2>2. ASSUME HasRow(goodOrder[g])'
        PROVE  \E v \in Workers : pc'[v] = "delete" /\ job'[v].order = goodOrder[g]
    <3>1. HasRow(goodOrder[g])
      BY <1>1, <2>1, <2>2 DEF HasRow
    <3>2. PICK v \in Workers : pc[v] = "delete" /\ job[v].order = goodOrder[g]
      BY <3>1 DEF UsedUpInv
    <3> QED
      BY <1>1, <3>2
  <2> QED
    BY <2>1, <2>2
<1> QED
  BY <1>4, <1>5, <1>6

\* An order that a redemption has found has its row, so that its booking is over.
LEMMA LookupKeepsPromise ==
  ASSUME TypeOK, AllocationInv, PromiseInv, NEW w \in Workers, LookupOrder(w)
  PROVE  PromiseInv'
<1> USE DEF PromiseInv
<1> DEFINE o == chain[job[w].tx].order
<1>1. /\ pc[w] = "lookup" /\ pc'[w] = "record" /\ job'[w].order = o
      /\ Active(o)
      /\ UNCHANGED <<goodOrder, goodTx, orderRow, expired, usedIds>>
      /\ \A v \in Workers \ {w} : pc'[v] = pc[v] /\ job'[v] = job[v]
  BY DEF LookupOrder, PaysActiveOrder, Goto, dbVars, TypeOK, Job
<1>2. /\ o \in usedIds \ expired
      /\ \A v \in Workers : pc[v] \in Booked => job[v].order # o
  BY <1>1 DEF AllocationInv, BookingInv, Active, HasRow
<1>3. \A v \in Workers : /\ pc'[v] \in Booked => v # w
                         /\ pc[v] = "delete" => v # w
  BY <1>1 DEF Booked
<1>4. FreshInv'
  BY <1>1, <1>3 DEF FreshInv, Booked
<1>5. RedeemedInv'
  <2> SUFFICES ASSUME NEW v \in Workers, pc'[v] \in PaidSteps
               PROVE  /\ job'[v].order \in usedIds \ expired
                      /\ \A x \in Workers : pc'[x] \in Booked => job'[x].order # job'[v].order
    BY <1>1 DEF RedeemedInv
  <2>1. CASE v = w
    BY <1>1, <1>2, <1>3, <2>1
  <2>2. CASE v # w
    BY <1>1, <1>3, <2>2 DEF RedeemedInv
  <2> QED
    BY <2>1, <2>2
<1>6. UsedUpInv'
  <2>1. \A v \in Workers : pc'[v] \in Booked => pc[v] \in Booked /\ job'[v] = job[v]
    BY <1>1, <1>3
  <2>2. \A v \in Workers : pc[v] = "delete" => pc'[v] = "delete" /\ job'[v] = job[v]
    BY <1>1, <1>3
  <2>3. ASSUME NEW g \in Goods, goodTx[g] # None, HasRow(goodOrder[g])
        PROVE  \E v \in Workers : pc'[v] = "delete" /\ job'[v].order = goodOrder[g]
    BY <2>2, <2>3 DEF UsedUpInv
  <2> QED
    BY <1>1, <2>1, <2>3 DEF UsedUpInv, HasRow
<1> QED
  BY <1>4, <1>5, <1>6

\* The redemption that uses up a good deletes the order next.
LEMMA FinalizeKeepsPromise ==
  ASSUME TypeOK, AllocationInv, PromiseInv, NEW w \in Workers, FinalizeGood(w)
  PROVE  PromiseInv'
<1> USE DEF PromiseInv
<1> DEFINE g == job[w].good  o == job[w].order
<1>1. /\ pc[w] = "finalize" /\ pc'[w] = "delete"
      /\ goodTx' = [goodTx EXCEPT ![g] = job[w].tx]
      /\ UNCHANGED <<goodOrder, orderRow, expired, usedIds, job>>
      /\ \A v \in Workers \ {w} : pc'[v] = pc[v]
  BY DEF FinalizeGood, Goto, TypeOK
<1>2. /\ goodOrder[g] = o /\ o \in usedIds \ expired
      /\ \A v \in Workers : pc[v] \in Booked => job[v].order # o
  BY <1>1 DEF AllocationInv, RowsInv, Holding, RedeemedInv, PaidSteps
<1>3. \A v \in Workers : /\ pc'[v] \in Booked <=> pc[v] \in Booked
                         /\ pc'[v] \in PaidSteps <=> pc[v] \in PaidSteps
                         /\ pc[v] = "delete" => pc'[v] = "delete"
                         /\ pc'[v] \in {"pick", "assign"} <=> pc[v] \in {"pick", "assign"}
  BY <1>1 DEF Booked, PaidSteps
<1>4. FreshInv'
  BY <1>1, <1>3 DEF FreshInv
<1>5. RedeemedInv'
  BY <1>1, <1>3 DEF RedeemedInv
<1>6. UsedUpInv'
  <2> SUFFICES ASSUME NEW x \in Goods, goodTx'[x] # None
               PROVE  /\ goodOrder[x] \in usedIds \ expired
                      /\ \A v \in Workers : pc'[v] \in Booked => job[v].order # goodOrder[x]
                      /\ HasRow(goodOrder[x]) =>
                           \E v \in Workers : pc'[v] = "delete" /\ job[v].order = goodOrder[x]
    BY <1>1 DEF UsedUpInv, HasRow
  <2>1. CASE x = g
    BY <1>1, <1>2, <1>3, <2>1
  <2>2. CASE x # g
    <3>1. goodTx[x] # None
      BY <1>1, <2>2 DEF TypeOK
    <3> QED
      BY <1>3, <3>1 DEF UsedUpInv
  <2> QED
    BY <2>1, <2>2
<1> QED
  BY <1>4, <1>5, <1>6

\* The good that is freed belongs to an expired order, and so is not used up.
LEMMA FreeKeepsPromise ==
  ASSUME TypeOK, AllocationInv, PromiseInv, NEW w \in Workers, FreeGood(w)
  PROVE  /\ PromiseInv'
         /\ goodTx[job[w].good] = None /\ goodOrder[job[w].good] \in expired
<1> USE DEF PromiseInv
<1> DEFINE g == job[w].good
<1>1. /\ pc[w] = "free" /\ pc'[w] = "sweep" /\ g \in Goods
      /\ goodOrder' = [goodOrder EXCEPT ![g] = None]
      /\ UNCHANGED <<goodTx, orderRow, expired, usedIds>>
      /\ \A v \in Workers \ {w} : pc'[v] = pc[v] /\ job'[v] = job[v]
  BY DEF FreeGood, Goto, TypeOK, JobOK
<1>2. goodOrder[g] = job[w].order /\ job[w].order \in expired
  BY <1>1 DEF AllocationInv, RowsInv
<1>3. goodTx[g] = None
  BY <1>1, <1>2 DEF UsedUpInv
<1>4. \A x \in Goods : goodOrder'[x] = IF x = g THEN None ELSE goodOrder[x]
  BY <1>1 DEF TypeOK
<1>5. \A v \in Workers : pc'[v] \in Booked \cup PaidSteps =>
        v # w /\ pc'[v] = pc[v] /\ job'[v] = job[v]
  BY <1>1 DEF Booked, PaidSteps
<1>6. FreshInv'
  <2>1. \A v \in Workers : pc'[v] \in {"pick", "assign"} => job'[v].order \in OrderIds
    BY <1>1, <1>5 DEF Booked, TypeOK, JobOK
  <2>2. \A v \in Workers : pc'[v] \in {"pick", "assign"} =>
          pc[v] \in {"pick", "assign"} /\ job'[v] = job[v]
    BY <1>5 DEF Booked
  <2>3. None \notin OrderIds
    BY OrdersAssumption
  <2> QED
    BY <1>1, <1>4, <2>1, <2>2, <2>3 DEF FreshInv
<1>7. RedeemedInv'
  BY <1>1, <1>5 DEF RedeemedInv
<1>8. UsedUpInv'
  <2>1. \A x \in Goods : goodTx'[x] # None => goodTx[x] # None /\ goodOrder'[x] = goodOrder[x]
    BY <1>1, <1>3, <1>4
  <2>2. \A v \in Workers : pc[v] = "delete" => pc'[v] = "delete" /\ job'[v] = job[v]
    BY <1>1
  <2>3. ASSUME NEW x \in Goods, goodTx[x] # None, HasRow(goodOrder[x])
        PROVE  \E v \in Workers : pc'[v] = "delete" /\ job'[v].order = goodOrder[x]
    BY <2>2, <2>3 DEF UsedUpInv
  <2> QED
    BY <1>1, <1>5, <2>1, <2>3 DEF UsedUpInv, HasRow
<1> QED
  BY <1>2, <1>3, <1>6, <1>7, <1>8

\* With row locks, no failures and prompt redemptions, every step keeps PromiseInv.
LEMMA PromiseStep ==
  ASSUME ~AutoCommit, ~Faulty, Prompt, TypeOK, AllocationInv, PromiseInv, [Next]_vars
  PROVE  PromiseInv'
<1> USE DEF Goto, Finish, dbVars, history, Booked, PaidSteps
<1>1. CASE UNCHANGED vars
  BY <1>1, PromiseFrame DEF vars, HasRow
<1>2. ASSUME NEW g \in Goods, AddGood(g) PROVE PromiseInv'
  BY <1>2, PromiseFrame DEF AddGood, HasRow
<1>3. ASSUME NEW t \in TxHashes, NEW o \in OrderIds, NEW m \in BOOLEAN, Pay(t, o, m)
      PROVE  PromiseInv'
  BY <1>3, PromiseFrame DEF Pay, HasRow
<1>4. ASSUME NEW o \in OrderIds, Expire(o) PROVE PromiseInv'
  BY <1>4, ExpireKeepsPromise
<1>5. ASSUME NEW w \in Workers, Crash(w) \/ Raise(w) PROVE PromiseInv'
  BY <1>5 DEF Crash, Raise
<1>6. ASSUME NEW w \in Workers, NEW u \in Users, NEW f \in Offers, Book(w, u, f)
      PROVE  PromiseInv'
  BY <1>6, PromiseFrame DEF Book, TypeOK, HasRow
<1>7. ASSUME NEW w \in Workers, NEW t \in TxHashes, Redeem(w, t) PROVE PromiseInv'
  BY <1>7, PromiseFrame DEF Redeem, TypeOK, HasRow
<1>8. ASSUME NEW w \in Workers, ListUnclaimed(w) PROVE PromiseInv'
  BY <1>8, PromiseFrame DEF ListUnclaimed, TypeOK, HasRow
<1>9. ASSUME NEW w \in Workers, Continue(w) PROVE PromiseInv'
  <2>1. CASE RefuseBooking(w) \/ TooManyOrders(w) \/ OutOfGoods(w)
    BY <2>1, PromiseFrame DEF RefuseBooking, TooManyOrders, OutOfGoods, TypeOK, HasRow
  <2>2. CASE PickGood(w)
    <3>1. PICK g : job' = [job EXCEPT ![w].good = g]
      BY <2>2 DEF PickGood
    <3>2. /\ pc[w] = "pick" /\ pc' = [pc EXCEPT ![w] = "assign"]
          /\ UNCHANGED <<goodOrder, goodTx, orderRow, expired, usedIds>>
      BY <2>2 DEF PickGood
    <3>3. \A v \in Workers : job'[v].order = job[v].order
      BY <3>1 DEF TypeOK, Job
    <3> QED
      BY <3>2, <3>3, PromiseFrame DEF TypeOK, HasRow
  <2>3. CASE FindGood(w)
    <3>1. PICK g : job' = [job EXCEPT ![w].good = g]
      BY <2>3 DEF FindGood
    <3>2. /\ pc[w] = "find" /\ pc' = [pc EXCEPT ![w] = "finalize"]
          /\ UNCHANGED <<goodOrder, goodTx, orderRow, expired, usedIds>>
      BY <2>3 DEF FindGood
    <3>3. \A v \in Workers : job'[v].order = job[v].order
      BY <3>1 DEF TypeOK, Job
    <3> QED
      BY <3>2, <3>3, PromiseFrame DEF TypeOK, HasRow
  <2>4. CASE RefuseRedeem(w) \/ RecordTx(w) \/ RecordTxFails(w)
    BY <2>4, PromiseFrame DEF RefuseRedeem, RecordTx, RecordTxFails, TypeOK, HasRow
  <2>5. CASE RereadOrder(w) \/ FindGoodFails(w)
    BY <2>5, PromiseFrame DEF RereadOrder, FindGoodFails, TypeOK, HasRow
  <2>6. CASE DeleteOrder(w)
    <3>1. /\ pc[w] = "delete" /\ pc' = [pc EXCEPT ![w] = "unlock"]
          /\ orderRow' = [orderRow EXCEPT ![job[w].order] = None]
          /\ UNCHANGED <<goodOrder, goodTx, expired, usedIds, job>>
      BY <2>6 DEF DeleteOrder
    <3>2. \A o \in OrderIds : HasRow(o)' => HasRow(o) /\ job[w].order # o
      BY <3>1 DEF HasRow, TypeOK
    <3> QED
      BY <3>1, <3>2, PromiseFrame DEF TypeOK
  <2>7. CASE Unlock(w) \/ AbortRelease(w) \/ EndRelease(w)
    BY <2>7, PromiseFrame DEF Unlock, AbortRelease, EndRelease, TypeOK, HasRow
  <2>8. CASE CheckExpired(w) \/ SearchGood(w)
    <3>1. /\ pc[w] \in {"sweep", "search"}
          /\ pc'[w] \in {"sweep", "search", "free"}
          /\ \A v \in Workers \ {w} : pc'[v] = pc[v] /\ job'[v] = job[v]
          /\ UNCHANGED <<goodOrder, goodTx, orderRow, expired, usedIds>>
      BY <2>8 DEF CheckExpired, SearchGood, TypeOK
    <3> QED
      BY <3>1, PromiseFrame DEF HasRow
  <2> QED
    BY <1>9, <2>1, <2>2, <2>3, <2>4, <2>5, <2>6, <2>7, <2>8, CountKeepsPromise,
       AssignKeepsPromise, InsertKeepsPromise, LookupKeepsPromise, FinalizeKeepsPromise,
       FreeKeepsPromise
    DEF Continue
<1> QED
  BY <1>1, <1>2, <1>3, <1>4, <1>5, <1>6, <1>7, <1>8, <1>9 DEF Next

\* The invariant of the refinement holds throughout.
LEMMA PromiseSafe ==
  ASSUME ~AutoCommit, ~Faulty, Prompt PROVE Spec => []PromiseInv
<1>1. Init => PromiseInv
  BY DEF Init, PromiseInv, FreshInv, RedeemedInv, UsedUpInv, PaidSteps
<1>2. TypeOK /\ AllocationInv /\ PromiseInv /\ [Next]_vars => PromiseInv'
  BY PromiseStep
<1> QED
  BY <1>1, <1>2, TypeCorrect, AllocationSafe, PTL DEF Spec

-----------------------------------------------------------------------------

\* A step that leaves both columns and the expired orders alone is a stutter of
\* the inventory.
LEMMA Stutter ==
  ASSUME UNCHANGED <<goodOrder, goodTx, expired>> PROVE UNCHANGED Promise!vars
BY DEF Promise!vars

\* Every step of a handler is a step of the inventory, or leaves it alone.
LEMMA InventoryStep ==
  ASSUME ~AutoCommit, ~Faulty, Prompt, TypeOK, AllocationInv, PromiseInv, [Next]_vars
  PROVE  [Promise!Next]_(Promise!vars)
<1>1. ASSUME NEW w \in Workers, AssignGood(w) PROVE Promise!Next
  <2> DEFINE g == job[w].good  o == job[w].order
  <2>1. /\ pc[w] = "assign" /\ goodOrder' = [goodOrder EXCEPT ![g] = o]
        /\ UNCHANGED <<goodTx, expired>>
    BY <1>1 DEF AssignGood
  <2>2. g \in Goods /\ o \in OrderIds /\ goodOrder[g] = None
    BY <2>1 DEF TypeOK, JobOK, AllocationInv, RowsInv
  <2>3. \A x \in Goods : goodOrder[x] # o
    BY <2>1 DEF PromiseInv, FreshInv
  <2>4. Promise!Reserve(g, o)
    BY <2>1, <2>2, <2>3 DEF Promise!Reserve
  <2> QED
    BY <2>2, <2>4 DEF Promise!Next
<1>2. ASSUME NEW w \in Workers, FinalizeGood(w) PROVE Promise!Next
  <2> DEFINE g == job[w].good  o == job[w].order
  <2>1. /\ pc[w] = "finalize" /\ goodTx' = [goodTx EXCEPT ![g] = job[w].tx]
        /\ UNCHANGED <<goodOrder, expired>>
    BY <1>2 DEF FinalizeGood
  <2>2. /\ g \in Goods /\ o \in OrderIds /\ job[w].tx \in TxHashes
        /\ goodOrder[g] = o /\ o \notin expired
    BY <2>1 DEF TypeOK, JobOK, RedeemSteps, AllocationInv, RowsInv, PromiseInv, RedeemedInv,
                PaidSteps
  <2>3. {x \in Goods : goodTx'[x] # None} = {x \in Goods : goodTx[x] # None} \cup {g}
    BY <2>1, <2>2, OrdersAssumption DEF TypeOK
  <2>4. \E x \in Goods : Promise!Sell(x)
    BY <2>1, <2>2, <2>3, OrdersAssumption DEF Promise!Sell
  <2> QED
    BY <2>4 DEF Promise!Next
<1>3. ASSUME NEW w \in Workers, FreeGood(w) PROVE Promise!Next
  <2> DEFINE g == job[w].good
  <2>1. /\ pc[w] = "free" /\ goodOrder' = [goodOrder EXCEPT ![g] = None]
        /\ UNCHANGED <<goodTx, expired>>
    BY <1>3 DEF FreeGood
  <2>2. g \in Goods
    BY <2>1 DEF TypeOK, JobOK
  <2>3. goodTx[g] = None /\ goodOrder[g] \in expired
    BY <1>3, FreeKeepsPromise
  <2>4. Promise!Release(g)
    BY <2>1, <2>2, <2>3 DEF Promise!Release
  <2> QED
    BY <2>2, <2>4 DEF Promise!Next
<1>4. ASSUME NEW o \in OrderIds, Expire(o) PROVE Promise!Next
  <2>1. Promise!Lapse(o)
    BY <1>4 DEF Expire, dbVars, Promise!Lapse
  <2> QED
    BY <2>1 DEF Promise!Next
<1>5. ASSUME NEW w \in Workers, Continue(w)
      PROVE  \/ AssignGood(w) \/ FinalizeGood(w) \/ FreeGood(w)
             \/ UNCHANGED <<goodOrder, goodTx, expired>>
  BY <1>5
  DEF Continue, dbVars, RefuseBooking, CountOrders, TooManyOrders, PickGood, OutOfGoods,
      InsertOrder, LookupOrder, RefuseRedeem, RecordTx, RecordTxFails, RereadOrder,
      FindGood, FindGoodFails, DeleteOrder, Unlock, CheckExpired, AbortRelease,
      EndRelease, SearchGood
<1>6. CASE UNCHANGED vars
  BY <1>6, Stutter DEF vars
<1>7. CASE Next
  <2>1. CASE \E g \in Goods : AddGood(g)
    BY <2>1, Stutter DEF AddGood
  <2>2. CASE \E t \in TxHashes, o \in OrderIds, m \in BOOLEAN : Pay(t, o, m)
    BY <2>2, Stutter DEF Pay, dbVars
  <2>3. CASE \E o \in OrderIds : Expire(o)
    BY <2>3, <1>4
  <2>4. ASSUME NEW w \in Workers,
               \/ Crash(w) \/ Raise(w)
               \/ \E u \in Users, f \in Offers : Book(w, u, f)
               \/ \E t \in TxHashes : Redeem(w, t)
               \/ ListUnclaimed(w)
        PROVE  UNCHANGED Promise!vars
    <3>1. UNCHANGED <<goodOrder, goodTx, expired>>
      BY <2>4 DEF Crash, Raise, Book, Redeem, ListUnclaimed, dbVars
    <3> QED
      BY <3>1, Stutter
  <2>5. ASSUME NEW w \in Workers, Continue(w) PROVE [Promise!Next]_(Promise!vars)
    BY <1>1, <1>2, <1>3, <1>5, <2>5, Stutter
  <2> QED
    BY <1>7, <2>1, <2>2, <2>3, <2>4, <2>5 DEF Next
<1> QED
  BY <1>6, <1>7

\* With row locks held to the commit, no failures, and redemptions that end before
\* their order expires, booking, redemption and release together implement the
\* abstract inventory, whatever the numbers of workers, goods and orders.
THEOREM OrdersImplementInventory ==
  ASSUME ~AutoCommit, ~Faulty, Prompt PROVE Spec => ImplementsInventory
<1>1. Init => Promise!Init
  BY DEF Init, Promise!Init
<1>2. TypeOK /\ AllocationInv /\ PromiseInv /\ [Next]_vars => [Promise!Next]_(Promise!vars)
  BY InventoryStep
<1> QED
  BY <1>1, <1>2, TypeCorrect, AllocationSafe, PromiseSafe, PTL
  DEF Spec, ImplementsInventory, Promise!Spec

-----------------------------------------------------------------------------

\* Without failures, a redemption lock is always that of a redemption in progress:
\* every path through purchase_api ends with lock.release().
THEOREM LocksReleased == ASSUME ~Faulty PROVE Spec => []LockMeansProcessing
<1>1. Init => LockMeansProcessing
  BY DEF Init, LockMeansProcessing
<1>2. ASSUME TypeOK, LockMeansProcessing, [Next]_vars PROVE LockMeansProcessing'
  <2>1. ASSUME \A v \in Workers : pc[v] \in RedeemSteps =>
                 pc'[v] \in RedeemSteps /\ job'[v].tx = job[v].tx,
               redeemLocks' \subseteq redeemLocks
        PROVE  LockMeansProcessing'
    BY <1>2, <2>1 DEF LockMeansProcessing
  <2>2. ASSUME NEW w \in Workers, NEW t \in TxHashes, Redeem(w, t)
        PROVE  LockMeansProcessing'
    <3>1. /\ pc[w] = "idle" /\ pc'[w] = "lookup" /\ job'[w].tx = t
          /\ redeemLocks' = redeemLocks \cup {t}
          /\ \A v \in Workers \ {w} : pc'[v] = pc[v] /\ job'[v] = job[v]
      BY <1>2, <2>2 DEF Redeem, Goto, TypeOK, NoJob
    <3> QED
      BY <1>2, <3>1 DEF LockMeansProcessing, RedeemSteps
  <2>3. ASSUME NEW w \in Workers, Unlock(w) PROVE LockMeansProcessing'
    <3>1. /\ pc[w] = "unlock" /\ redeemLocks' = redeemLocks \ {job[w].tx}
          /\ \A v \in Workers \ {w} : pc'[v] = pc[v] /\ job'[v] = job[v]
      BY <1>2, <2>3 DEF Unlock, Finish, TypeOK
    <3> QED
      BY <1>2, <3>1 DEF LockMeansProcessing
  <2>4. ASSUME NEW w \in Workers,
               UNCHANGED redeemLocks,
               \A v \in Workers \ {w} : pc'[v] = pc[v] /\ job'[v] = job[v],
               pc[w] \in RedeemSteps => pc'[w] \in RedeemSteps /\ job'[w].tx = job[w].tx
        PROVE  LockMeansProcessing'
    BY <2>1, <2>4
  <2>5. ASSUME NEW w \in Workers, Continue(w) PROVE Unlock(w) \/ LockMeansProcessing'
    <3> USE <1>2, <2>4, <2>5 DEF Goto, Finish, dbVars, RedeemSteps, TypeOK
    <3>1. CASE RefuseBooking(w) \/ TooManyOrders(w) \/ OutOfGoods(w) \/ CountOrders(w)
      BY <3>1 DEF RefuseBooking, TooManyOrders, OutOfGoods, CountOrders
    <3>2. CASE PickGood(w) \/ AssignGood(w) \/ InsertOrder(w)
      BY <3>2 DEF PickGood, AssignGood, InsertOrder
    <3>3. CASE LookupOrder(w)
      BY <3>3 DEF LookupOrder, Job
    <3>4. CASE RefuseRedeem(w) \/ RecordTx(w) \/ RecordTxFails(w)
      BY <3>4 DEF RefuseRedeem, RecordTx, RecordTxFails
    <3>5. CASE RereadOrder(w) \/ FindGoodFails(w)
      BY <3>5 DEF RereadOrder, FindGoodFails
    <3>6. CASE FindGood(w)
      BY <3>6 DEF FindGood, Job
    <3>7. CASE FinalizeGood(w) \/ DeleteOrder(w)
      BY <3>7 DEF FinalizeGood, DeleteOrder
    <3>8. CASE CheckExpired(w) \/ AbortRelease(w) \/ EndRelease(w)
      BY <3>8 DEF CheckExpired, AbortRelease, EndRelease
    <3>9. CASE SearchGood(w) \/ FreeGood(w)
      BY <3>9 DEF SearchGood, FreeGood
    <3> QED
      BY <2>5, <3>1, <3>2, <3>3, <3>4, <3>5, <3>6, <3>7, <3>8, <3>9 DEF Continue
  <2>6. CASE UNCHANGED vars
    BY <2>1, <2>6 DEF vars
  <2>7. CASE Next
    <3>1. CASE \/ \E g \in Goods : AddGood(g)
               \/ \E t \in TxHashes, o \in OrderIds, m \in BOOLEAN : Pay(t, o, m)
               \/ \E o \in OrderIds : Expire(o)
      BY <2>1, <3>1 DEF AddGood, Pay, Expire
    <3>2. ASSUME NEW w \in Workers, Crash(w) \/ Raise(w) \/ ListUnclaimed(w)
                   \/ \E u \in Users, f \in Offers : Book(w, u, f)
          PROVE  LockMeansProcessing'
      BY <1>2, <2>4, <3>2 DEF Crash, Raise, ListUnclaimed, Book, Goto, RedeemSteps, TypeOK
    <3> QED
      BY <2>2, <2>3, <2>5, <2>7, <3>1, <3>2 DEF Next
  <2> QED
    BY <1>2, <2>6, <2>7
<1> QED
  BY <1>1, <1>2, TypeCorrect, PTL DEF Spec

-----------------------------------------------------------------------------
(* A recorded payment is served. *)

\* Steps that record and deliver nothing, delete no row, and move a redemption that
\* has recorded its payment only onwards, unless another payment names its order.
LEMMA ServedFrame ==
  ASSUME TypeOK, RedeemInv, ServedInv, UNCHANGED <<txTable, delivered>>,
         \A t \in TxHashes : chain[t] # None => chain'[t] = chain[t],
         \A o \in OrderIds : HasRow(o) => HasRow(o)',
         \A v \in Workers :
           /\ pc'[v] \in PaidSteps => job'[v].tx = job[v].tx /\ job'[v].order = job[v].order
           /\ pc'[v] = "record" => pc[v] = "record"
           /\ pc'[v] \in RecordedSteps => pc[v] \in RecordedSteps
           /\ pc'[v] = "delete" => pc[v] = "delete"
           /\ pc[v] \in RecordedSteps =>
                pc'[v] \in RecordedSteps \/ ~SolePayment(job[v].tx, job[v].order)
  PROVE  ServedInv'
<1>1. \A t, o : SolePayment(t, o)' => SolePayment(t, o)
  BY DEF SolePayment
<1>2. RecordedIsServed'
  <2> SUFFICES ASSUME NEW t \in TxHashes, txTable[t] # None, SolePayment(t, txTable[t])'
               PROVE  InDelivery(t)' \/ \E d \in delivered : d.tx = t
    BY DEF RecordedIsServed
  <2>1. InDelivery(t) \/ \E d \in delivered : d.tx = t
    BY <1>1 DEF ServedInv, RecordedIsServed
  <2>2. ASSUME NEW v \in Workers, pc[v] \in RecordedSteps, job[v].tx = t
        PROVE  InDelivery(t)'
    <3>1. txTable[t] = job[v].order
      BY <2>2 DEF RedeemInv
    <3>2. pc'[v] \in RecordedSteps
      BY <1>1, <2>2, <3>1
    <3>3. job'[v].tx = t
      BY <2>2, <3>2 DEF PaidSteps, RecordedSteps
    <3> QED
      BY <3>2, <3>3 DEF InDelivery
  <2> QED
    BY <2>1, <2>2 DEF InDelivery
<1>3. ASSUME NEW v \in Workers
      PROVE  /\ pc'[v] = "record" /\ SolePayment(job[v].tx, job[v].order)' =>
                  HasRow(job[v].order)' \/ Recorded(job[v].tx)'
             /\ pc'[v] \in RecordedSteps /\ SolePayment(job[v].tx, job[v].order)' =>
                  HasRow(job[v].order)'
             /\ pc'[v] = "delete" => \E d \in delivered' : d.tx = job'[v].tx
  <2>2. pc'[v] \in {"record", "delete"} \cup RecordedSteps =>
          job'[v].tx = job[v].tx /\ job'[v].order = job[v].order
    BY DEF PaidSteps, RecordedSteps
  <2>3. CASE pc'[v] \in {"record", "delete"} \cup RecordedSteps
    <3>1. SolePayment(job[v].tx, job[v].order)'
            => SolePayment(job[v].tx, job[v].order)
      BY <2>2, <2>3 DEF SolePayment
    <3>2. HasRow(job[v].order) => HasRow(job[v].order)'
      BY <2>2, <2>3 DEF HasRow
    <3>3. Recorded(job[v].tx) => Recorded(job[v].tx)'
      BY <2>2, <2>3 DEF Recorded
    <3> QED
      BY <2>2, <2>3, <3>1, <3>2, <3>3 DEF ServedInv, RecordedSteps
  <2> QED
    BY <2>3
<1> QED
  BY <1>2, <1>3 DEF ServedInv

\* The order that process_order has found has its row.
LEMMA LookupServed ==
  ASSUME TypeOK, RedeemInv, ServedInv, NEW w \in Workers, LookupOrder(w)
  PROVE  ServedInv'
<1>1. /\ pc[w] = "lookup" /\ pc'[w] = "record" /\ HasRow(job'[w].order)
      /\ \A v \in Workers \ {w} : pc'[v] = pc[v] /\ job'[v] = job[v]
      /\ UNCHANGED <<orderRow, chain, txTable, delivered>>
  BY DEF LookupOrder, PaysActiveOrder, Active, Goto, dbVars, history, TypeOK, Job
<1>2. RecordedIsServed'
  BY <1>1 DEF ServedInv, RecordedIsServed, InDelivery, SolePayment, RecordedSteps
<1>3. \A v \in Workers \ {w} :
        /\ pc'[v] = "record" /\ SolePayment(job'[v].tx, job'[v].order) =>
             HasRow(job'[v].order) \/ Recorded(job'[v].tx)
        /\ pc'[v] \in RecordedSteps /\ SolePayment(job'[v].tx, job'[v].order) =>
             HasRow(job'[v].order)
        /\ pc'[v] = "delete" => \E d \in delivered : d.tx = job'[v].tx
  BY <1>1 DEF ServedInv
<1> QED
  BY <1>1, <1>2, <1>3 DEF ServedInv, RecordedSteps, SolePayment, HasRow, Recorded

\* The worker that records a payment is about to serve it.
LEMMA RecordServed ==
  ASSUME TypeOK, RedeemInv, ServedInv, NEW w \in Workers, RecordTx(w)
  PROVE  ServedInv'
<1> DEFINE t == job[w].tx
<1>1. /\ pc[w] = "record" /\ pc'[w] = "reread" /\ ~Recorded(t) /\ t \in TxHashes
      /\ txTable' = [txTable EXCEPT ![t] = job[w].order]
      /\ \A v \in Workers \ {w} : pc'[v] = pc[v]
      /\ UNCHANGED <<job, orderRow, chain, delivered>>
  BY DEF RecordTx, Goto, history, TypeOK, JobOK, RedeemSteps
<1>2. RecordedIsServed'
  <2> SUFFICES ASSUME NEW s \in TxHashes, txTable'[s] # None, SolePayment(s, txTable'[s])
               PROVE  InDelivery(s)' \/ \E d \in delivered : d.tx = s
    BY <1>1 DEF RecordedIsServed, SolePayment
  <2>1. CASE s = t
    BY <1>1, <2>1 DEF InDelivery, RecordedSteps
  <2>2. CASE s # t
    <3>1. txTable'[s] = txTable[s]
      BY <1>1, <2>2 DEF TypeOK
    <3>2. InDelivery(s) \/ \E d \in delivered : d.tx = s
      BY <3>1 DEF ServedInv, RecordedIsServed
    <3>3. InDelivery(s) => InDelivery(s)'
      BY <1>1 DEF InDelivery, RecordedSteps
    <3> QED
      BY <3>2, <3>3
  <2> QED
    BY <2>1, <2>2
<1>3. \A s \in TxHashes : Recorded(s) => Recorded(s)'
  BY <1>1 DEF Recorded, TypeOK
<1>4. \A v \in Workers : pc[v] = "record" => job[v].tx \in TxHashes
  BY DEF TypeOK, JobOK, RedeemSteps
<1>5. ASSUME NEW v \in Workers
      PROVE  /\ pc'[v] = "record" /\ SolePayment(job[v].tx, job[v].order) =>
                  HasRow(job[v].order) \/ Recorded(job[v].tx)'
             /\ pc'[v] \in RecordedSteps /\ SolePayment(job[v].tx, job[v].order) =>
                  HasRow(job[v].order)
             /\ pc'[v] = "delete" => \E d \in delivered : d.tx = job[v].tx
  <2>1. CASE v = w
    BY <1>1, <2>1 DEF ServedInv, RecordedSteps
  <2>2. CASE v # w
    BY <1>1, <1>3, <1>4, <2>2 DEF ServedInv
  <2> QED
    BY <2>1, <2>2
<1> QED
  BY <1>1, <1>2, <1>5 DEF ServedInv, SolePayment, HasRow

\* The good is handed out for the payment whose worker leaves the recorded steps.
LEMMA FinalizeServed ==
  ASSUME TypeOK, RedeemInv, ServedInv, NEW w \in Workers, FinalizeGood(w)
  PROVE  ServedInv'
<1> DEFINE t == job[w].tx
           n == [good |-> job[w].good, order |-> job[w].order, tx |-> t]
<1>0. delivered' = delivered \cup {n} /\ n.tx = t
  BY DEF FinalizeGood
<1>1. /\ pc[w] = "finalize" /\ pc'[w] = "delete"
      /\ \E d \in delivered' : d.tx = t
      /\ delivered \subseteq delivered'
      /\ \A v \in Workers \ {w} : pc'[v] = pc[v]
      /\ UNCHANGED <<job, orderRow, chain, txTable>>
  BY <1>0 DEF FinalizeGood, Goto, TypeOK
<1>2. RecordedIsServed'
  <2> SUFFICES ASSUME NEW s \in TxHashes, txTable[s] # None, SolePayment(s, txTable[s])
               PROVE  InDelivery(s)' \/ \E d \in delivered' : d.tx = s
    BY <1>1 DEF RecordedIsServed, SolePayment
  <2>1. CASE s = t
    BY <1>1, <2>1
  <2>2. CASE s # t
    <3>1. InDelivery(s) \/ \E d \in delivered : d.tx = s
      BY DEF ServedInv, RecordedIsServed
    <3>2. InDelivery(s) => InDelivery(s)'
      BY <1>1, <2>2 DEF InDelivery
    <3> QED
      BY <1>1, <3>1, <3>2
  <2> QED
    BY <2>1, <2>2
<1>3. ASSUME NEW v \in Workers
      PROVE  /\ pc'[v] = "record" /\ SolePayment(job[v].tx, job[v].order) =>
                  HasRow(job[v].order) \/ Recorded(job[v].tx)
             /\ pc'[v] \in RecordedSteps /\ SolePayment(job[v].tx, job[v].order) =>
                  HasRow(job[v].order)
             /\ pc'[v] = "delete" => \E d \in delivered' : d.tx = job[v].tx
  <2>1. CASE v = w
    BY <1>1, <2>1 DEF RecordedSteps
  <2>2. CASE v # w
    BY <1>1, <2>2 DEF ServedInv
  <2> QED
    BY <2>1, <2>2
<1> QED
  BY <1>1, <1>2, <1>3 DEF ServedInv, SolePayment, HasRow, Recorded

\* The row that is deleted is no longer needed: its payment was served, and another
\* redemption of the order has another payment.
LEMMA DeleteServed ==
  ASSUME TypeOK, RedeemInv, ServedInv, NEW w \in Workers, DeleteOrder(w)
  PROVE  ServedInv'
<1> DEFINE t == job[w].tx  o == job[w].order
<1>1. /\ pc[w] = "delete" /\ pc'[w] = "unlock" /\ t \in TxHashes
      /\ \A x \in OrderIds \ {o} : HasRow(x) => HasRow(x)'
      /\ \A v \in Workers \ {w} : pc'[v] = pc[v]
      /\ UNCHANGED <<job, chain, txTable, delivered>>
  BY DEF DeleteOrder, Goto, dbVars, history, TypeOK, JobOK, RedeemSteps, HasRow
<1>2. chain[t] # None /\ chain[t].order = o
  <2>1. o \in OrderIds /\ chain[t] = [order |-> o, matches |-> TRUE]
    BY <1>1 DEF TypeOK, JobOK, RedeemInv, PaidSteps
  <2>2. [order |-> o, matches |-> TRUE] \in Payment
    BY <2>1 DEF Payment
  <2>3. chain[t] # None
    BY <2>1, <2>2, NoneAssumption
  <2> QED
    BY <2>1, <2>3
<1>3. PICK d \in delivered : d.tx = t
  BY <1>1 DEF ServedInv
<1>4. Recorded(t)
  <2>1. txTable[t] = d.order /\ d.order \in OrderIds
    BY <1>3 DEF RedeemInv, DeliveryPaidFor, TypeOK, Delivery
  <2> QED
    BY <2>1, OrdersAssumption DEF Recorded
<1>5. RecordedIsServed'
  <2>1. \A s : InDelivery(s) => InDelivery(s)'
    BY <1>1 DEF InDelivery, RecordedSteps
  <2> QED
    BY <1>1, <2>1 DEF ServedInv, RecordedIsServed, SolePayment
<1>6. ASSUME NEW v \in Workers
      PROVE  /\ pc'[v] = "record" /\ SolePayment(job[v].tx, job[v].order) =>
                  HasRow(job[v].order)' \/ Recorded(job[v].tx)
             /\ pc'[v] \in RecordedSteps /\ SolePayment(job[v].tx, job[v].order) =>
                  HasRow(job[v].order)'
             /\ pc'[v] = "delete" => \E e \in delivered : e.tx = job[v].tx
  <2>1. CASE v = w
    BY <1>1, <2>1 DEF RecordedSteps
  <2>2. CASE v # w /\ job[v].order # o
    BY <1>1, <2>2 DEF ServedInv, HasRow
  <2>3. CASE v # w /\ job[v].order = o /\ job[v].tx = t
    BY <1>1, <1>3, <1>4, <2>3 DEF ServedInv, RedeemInv
  <2>4. CASE v # w /\ job[v].order = o /\ job[v].tx # t
    <3>1. ~SolePayment(job[v].tx, job[v].order)
      BY <1>1, <1>2, <2>4 DEF SolePayment
    <3> QED
      BY <1>1, <2>4, <3>1 DEF ServedInv
  <2> QED
    BY <2>1, <2>2, <2>3, <2>4
<1> QED
  BY <1>1, <1>5, <1>6 DEF ServedInv, SolePayment, Recorded

\* A redemption that recorded its payment finds its order and the good of it.
LEMMA NoServiceFails ==
  ASSUME TypeOK, AllocationInv, PromiseInv, ServedInv, NEW w \in Workers,
         pc[w] \in RecordedSteps, SolePayment(job[w].tx, job[w].order)
  PROVE  HasRow(job[w].order) /\ GoodsOf(job[w].order) # {}
<1>1. HasRow(job[w].order)
  BY DEF ServedInv
<1>2. job[w].order \notin expired
  BY DEF PromiseInv, RedeemedInv, PaidSteps, RecordedSteps
<1> QED
  BY <1>1, <1>2 DEF AllocationInv, ActiveOrderHasGood, Active, HasRow

\* With row locks, no failures and prompt redemptions, every step keeps ServedInv.
LEMMA ServedStep ==
  ASSUME ~AutoCommit, ~Faulty, Prompt, TypeOK, RedeemInv, AllocationInv, PromiseInv,
         ServedInv, [Next]_vars
  PROVE  ServedInv'
<1> USE DEF Goto, Finish, dbVars, history, PaidSteps, RecordedSteps
<1>1. CASE UNCHANGED vars
  BY <1>1, ServedFrame DEF vars, HasRow
<1>2. ASSUME NEW g \in Goods, AddGood(g) PROVE ServedInv'
  BY <1>2, ServedFrame DEF AddGood, HasRow
<1>3. ASSUME NEW t \in TxHashes, NEW o \in OrderIds, NEW m \in BOOLEAN, Pay(t, o, m)
      PROVE  ServedInv'
  BY <1>3, ServedFrame DEF Pay, TypeOK, HasRow
<1>4. ASSUME NEW o \in OrderIds, Expire(o) PROVE ServedInv'
  BY <1>4, ServedFrame DEF Expire, HasRow
<1>5. ASSUME NEW w \in Workers, Crash(w) \/ Raise(w) PROVE ServedInv'
  BY <1>5 DEF Crash, Raise
<1>6. ASSUME NEW w \in Workers, NEW u \in Users, NEW f \in Offers, Book(w, u, f)
      PROVE  ServedInv'
  BY <1>6, ServedFrame DEF Book, TypeOK, HasRow
<1>7. ASSUME NEW w \in Workers, NEW t \in TxHashes, Redeem(w, t) PROVE ServedInv'
  BY <1>7, ServedFrame DEF Redeem, TypeOK, HasRow
<1>8. ASSUME NEW w \in Workers, ListUnclaimed(w) PROVE ServedInv'
  BY <1>8, ServedFrame DEF ListUnclaimed, TypeOK, HasRow
<1>9. ASSUME NEW w \in Workers, Continue(w) PROVE ServedInv'
  <2>1. CASE RefuseBooking(w) \/ TooManyOrders(w) \/ OutOfGoods(w)
    BY <2>1, ServedFrame DEF RefuseBooking, TooManyOrders, OutOfGoods, TypeOK, HasRow
  <2>2. CASE CountOrders(w) \/ PickGood(w) \/ AssignGood(w)
    <3>1. /\ pc[w] \in {"count", "pick", "assign"}
          /\ pc'[w] \in {"pick", "assign", "insert"}
          /\ \A v \in Workers \ {w} : pc'[v] = pc[v] /\ job'[v] = job[v]
          /\ UNCHANGED <<orderRow, txTable, delivered, chain>>
      BY <2>2 DEF CountOrders, PickGood, AssignGood, TypeOK
    <3> QED
      BY <3>1, ServedFrame DEF HasRow
  <2>3. CASE InsertOrder(w)
    <3>1. /\ job[w].order \in OrderIds /\ pc[w] = "insert"
          /\ orderRow' = [orderRow EXCEPT ![job[w].order] =
                            [user |-> job[w].user, offer |-> job[w].offer]]
          /\ pc'[w] = "idle"
          /\ \A v \in Workers \ {w} : pc'[v] = pc[v] /\ job'[v] = job[v]
          /\ UNCHANGED <<txTable, delivered, chain>>
      BY <2>3 DEF InsertOrder, TypeOK, JobOK
    <3>2. [user |-> job[w].user, offer |-> job[w].offer] # None
      BY <3>1, NoneAssumption DEF Order, TypeOK, JobOK, BookingSteps
    <3>3. \A o \in OrderIds : HasRow(o) => HasRow(o)'
      BY <3>1, <3>2 DEF HasRow, TypeOK
    <3> QED
      BY <3>1, <3>3, ServedFrame
  <2>4. CASE RefuseRedeem(w) \/ RecordTxFails(w)
    BY <2>4, ServedFrame DEF RefuseRedeem, RecordTxFails, TypeOK, HasRow
  <2>5. CASE RereadOrder(w) \/ FindGoodFails(w)
    BY <2>5, ServedFrame, NoServiceFails DEF RereadOrder, FindGoodFails, TypeOK, HasRow
  <2>6. CASE FindGood(w)
    <3>1. PICK g : job' = [job EXCEPT ![w].good = g]
      BY <2>6 DEF FindGood
    <3>2. /\ pc[w] = "find" /\ pc' = [pc EXCEPT ![w] = "finalize"]
          /\ UNCHANGED <<orderRow, txTable, delivered, chain>>
      BY <2>6 DEF FindGood
    <3>3. \A v \in Workers : job'[v].order = job[v].order /\ job'[v].tx = job[v].tx
      BY <3>1 DEF TypeOK, Job
    <3> QED
      BY <3>2, <3>3, ServedFrame DEF TypeOK, HasRow
  <2>7. CASE Unlock(w) \/ AbortRelease(w) \/ EndRelease(w)
    BY <2>7, ServedFrame DEF Unlock, AbortRelease, EndRelease, TypeOK, HasRow
  <2>8. CASE CheckExpired(w) \/ SearchGood(w) \/ FreeGood(w)
    <3>1. /\ pc[w] \in {"sweep", "search", "free"}
          /\ pc'[w] \in {"sweep", "search", "free"}
          /\ \A v \in Workers \ {w} : pc'[v] = pc[v] /\ job'[v] = job[v]
          /\ UNCHANGED <<orderRow, txTable, delivered, chain>>
      BY <2>8 DEF CheckExpired, SearchGood, FreeGood, TypeOK
    <3> QED
      BY <3>1, ServedFrame DEF HasRow
  <2> QED
    BY <1>9, <2>1, <2>2, <2>3, <2>4, <2>5, <2>6, <2>7, <2>8, LookupServed, RecordServed,
       FinalizeServed, DeleteServed
    DEF Continue
<1> QED
  BY <1>1, <1>2, <1>3, <1>4, <1>5, <1>6, <1>7, <1>8, <1>9 DEF Next

\* With row locks held to the commit, no failures, and redemptions that end before
\* their order expires, the redemption that recorded a payment hands out its good,
\* if no other payment names the order, whatever is booked, redeemed and released
\* in between.
THEOREM PaymentsServed ==
  ASSUME ~AutoCommit, ~Faulty, Prompt PROVE Spec => []RecordedIsServed
<1>1. Init => ServedInv
  BY DEF Init, ServedInv, RecordedIsServed, RecordedSteps
<1>2. TypeOK /\ RedeemInv /\ AllocationInv /\ PromiseInv /\ ServedInv /\ [Next]_vars
        => ServedInv'
  BY ServedStep
<1>3. ServedInv => RecordedIsServed
  BY DEF ServedInv
<1> QED
  BY <1>1, <1>2, <1>3, TypeCorrect, RedemptionPaid, AllocationSafe, PromiseSafe, PTL DEF Spec
=============================================================================
