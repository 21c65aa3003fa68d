---------------------------- MODULE OrdersProofs ----------------------------
(***************************************************************************)
(* Theorems about Orders, for every set of workers, goods, orders and      *)
(* transactions, and for either isolation mode of the database engine.     *)
(***************************************************************************)
EXTENDS Orders, FiniteSetTheorems, TLAPS

-----------------------------------------------------------------------------
(* Type correctness. *)

\* The tables, the redis keys and the handlers' variables keep their types.
THEOREM TypeCorrect == Spec => []TypeOK
<1>1. Init => TypeOK
  BY OrdersAssumption DEF Init, TypeOK, NoJob, Job, Steps, JobOK, BookingSteps, RedeemSteps
<1>2. TypeOK /\ [Next]_vars => TypeOK'
  <2> SUFFICES ASSUME TypeOK, [Next]_vars PROVE TypeOK'
    OBVIOUS
  <2> USE OrdersAssumption
        DEF TypeOK, dbVars, history, Goto, Finish, NoJob, Job, Steps,
            BookingSteps, RedeemSteps, ReleaseSteps, JobOK
  <2>1. ASSUME NEW g \in Goods, AddGood(g) PROVE TypeOK'
    BY <2>1 DEF AddGood
  <2>2. ASSUME NEW t \in TxHashes, NEW o \in OrderIds, NEW m \in BOOLEAN, Pay(t, o, m)
        PROVE  TypeOK'
    BY <2>2 DEF Pay, Payment
  <2>3. ASSUME NEW o \in OrderIds, Expire(o) PROVE TypeOK'
    BY <2>3 DEF Expire
  <2>4. ASSUME NEW w \in Workers, Crash(w) \/ Raise(w) PROVE TypeOK'
    <3>1. CASE /\ Finish(w)
               /\ todo' = [todo EXCEPT ![w] = {}]
               /\ UNCHANGED <<dbVars, expired, usedIds, chain, redeemLocks, history>>
      BY <3>1
    <3>2. CASE /\ Goto(w, "unlock") /\ pc[w] \in RedeemSteps
               /\ UNCHANGED <<dbVars, expired, usedIds, chain, redeemLocks, history, job, todo>>
      BY <3>2
    <3>3. QED
      BY <2>4, <3>1, <3>2 DEF Crash, Raise
  <2>5. ASSUME NEW w \in Workers, NEW u \in Users, NEW f \in Offers, Book(w, u, f)
        PROVE  TypeOK'
    BY <2>5 DEF Book
  <2>6. ASSUME NEW w \in Workers, NEW t \in TxHashes, Redeem(w, t) PROVE TypeOK'
    BY <2>6 DEF Redeem
  <2>7. ASSUME NEW w \in Workers, ListUnclaimed(w) PROVE TypeOK'
    BY <2>7 DEF ListUnclaimed, UnclaimedGoods
  <2>8. ASSUME NEW w \in Workers, Continue(w) PROVE TypeOK'
    <3>1. CASE RefuseBooking(w) \/ TooManyOrders(w) \/ OutOfGoods(w)
      <4>1. Finish(w) /\ UNCHANGED <<dbVars, expired, usedIds, chain, redeemLocks, todo, history>>
        BY <3>1 DEF RefuseBooking, TooManyOrders, OutOfGoods
      <4>2. QED
        BY <4>1
    <3>2. CASE CountOrders(w)
      <4>1. PICK o \in OrderIds : job' = [job EXCEPT ![w].order = o]
        BY <3>2 DEF CountOrders
      <4>2. /\ pc[w] = "count" /\ Goto(w, "pick") /\ usedIds' \subseteq OrderIds
            /\ UNCHANGED <<dbVars, expired, chain, redeemLocks, todo, history>>
        BY <3>2 DEF CountOrders
      <4>3. QED
        BY <4>1, <4>2
    <3>3. CASE PickGood(w)
      BY <3>3 DEF PickGood, FreeGoods
    <3>4. CASE AssignGood(w)
      BY <3>4 DEF AssignGood
    <3>5. CASE InsertOrder(w)
      BY <3>5 DEF InsertOrder, Order
    <3>6. CASE LookupOrder(w)
      BY <3>6 DEF LookupOrder, PaysActiveOrder, Active, HasRow
    <3>7. CASE RefuseRedeem(w) \/ RecordTxFails(w) \/ RereadOrder(w) \/ FindGoodFails(w)
      BY <3>7 DEF RefuseRedeem, RecordTxFails, RereadOrder, FindGoodFails
    <3>8. CASE RecordTx(w)
      BY <3>8 DEF RecordTx
    <3>9. CASE FindGood(w)
      BY <3>9 DEF FindGood, GoodsOf
    <3>10. CASE FinalizeGood(w)
      BY <3>10 DEF FinalizeGood, Delivery
    <3>11. CASE DeleteOrder(w)
      BY <3>11 DEF DeleteOrder
    <3>12. CASE Unlock(w)
      BY <3>12 DEF Unlock
    <3>13. CASE CheckExpired(w)
      <4>1. PICK entry \in todo[w] :
              /\ todo' = [todo EXCEPT ![w] = @ \ {entry}]
              /\ \/ /\ ListedOrder(w, entry) \in OrderIds
                    /\ job' = [job EXCEPT ![w].order = ListedOrder(w, entry)]
                    /\ Goto(w, "search")
                 \/ UNCHANGED <<pc, job>>
        BY <3>13 DEF CheckExpired, HasRow, HasExpired
      <4>2. UNCHANGED <<dbVars, expired, usedIds, chain, redeemLocks, history>>
        BY <3>13 DEF CheckExpired
      <4>3. todo' \in [Workers -> SUBSET (Goods \X OrderIds)]
        BY <4>1
      <4>4. CASE UNCHANGED <<pc, job>>
        BY <4>2, <4>3, <4>4
      <4>5. CASE /\ ListedOrder(w, entry) \in OrderIds
                 /\ job' = [job EXCEPT ![w].order = ListedOrder(w, entry)]
                 /\ Goto(w, "search")
        BY <4>2, <4>3, <4>5
      <4>6. QED
        BY <4>1, <4>4, <4>5
    <3>14. CASE AbortRelease(w) \/ EndRelease(w)
      <4>1. /\ Finish(w)
            /\ todo' \in [Workers -> SUBSET (Goods \X OrderIds)]
            /\ UNCHANGED <<dbVars, expired, usedIds, chain, redeemLocks, history>>
        BY <3>14 DEF AbortRelease, EndRelease
      <4>2. QED
        BY <4>1
    <3>15. CASE SearchGood(w)
      <4>1. UNCHANGED <<dbVars, expired, usedIds, chain, redeemLocks, todo, history>>
        BY <3>15 DEF SearchGood
      <4>2. CASE /\ \E g \in GoodsOf(job[w].order) : job' = [job EXCEPT ![w].good = g]
                 /\ Goto(w, "free") /\ pc[w] = "search"
        BY <4>1, <4>2 DEF GoodsOf
      <4>3. CASE /\ job' = [job EXCEPT ![w] = [NoJob EXCEPT !.fresh = TRUE]]
                 /\ Goto(w, "sweep")
        BY <4>1, <4>3
      <4>4. QED
        BY <3>15, <4>2, <4>3 DEF SearchGood
    <3>16. CASE FreeGood(w)
      BY <3>16 DEF FreeGood
    <3>17. QED
      BY <2>8, <3>1, <3>2, <3>3, <3>4, <3>5, <3>6, <3>7, <3>8, <3>9, <3>10, <3>11,
         <3>12, <3>13, <3>14, <3>15, <3>16 DEF Continue
  <2>9. CASE UNCHANGED vars
    BY <2>9 DEF vars
  <2>10. QED
    BY <2>1, <2>2, <2>3, <2>4, <2>5, <2>6, <2>7, <2>8, <2>9 DEF Next
<1>3. QED
  BY <1>1, <1>2, PTL DEF Spec

-----------------------------------------------------------------------------
(* Redemption, in either isolation mode. *)

\* Steps outside the redemption handler leave its invariant alone: they write
\* neither table transaction nor a delivery, take back no payment, and bring no
\* worker into the redemption steps.
LEMMA RedeemFrame ==
  ASSUME TypeOK, RedeemInv,
         UNCHANGED <<txTable, delivered>>,
         \A t \in TxHashes : chain[t] # None => chain'[t] = chain[t],
         \A v \in Workers :
           pc'[v] \in PaidSteps =>
             /\ pc[v] \in PaidSteps
             /\ pc'[v] \in RecordedSteps => pc[v] \in RecordedSteps
             /\ job'[v].tx = job[v].tx
             /\ job'[v].order = job[v].order
  PROVE  RedeemInv'
<1>1. ASSUME NEW t \in TxHashes, NEW o \in OrderIds,
             chain[t] = [order |-> o, matches |-> TRUE]
      PROVE  chain'[t] = [order |-> o, matches |-> TRUE]
  <2>1. [order |-> o, matches |-> TRUE] \in Payment
    BY DEF Payment
  <2>2. chain[t] # None
    BY <1>1, <2>1, NoneAssumption
  <2>3. QED
    BY <1>1, <2>2
<1>2. DeliveryPaidFor'
  <2>1. ASSUME NEW d \in delivered
        PROVE  /\ chain'[d.tx] = [order |-> d.order, matches |-> TRUE]
               /\ txTable'[d.tx] = d.order
    <3>1. d.tx \in TxHashes /\ d.order \in OrderIds
      BY DEF TypeOK, Delivery
    <3>2. QED
      BY <1>1, <3>1 DEF RedeemInv, DeliveryPaidFor
  <2>2. QED
    BY <2>1 DEF DeliveryPaidFor
<1>3. ASSUME NEW w \in Workers, pc'[w] \in PaidSteps
      PROVE  chain'[job'[w].tx] = [order |-> job'[w].order, matches |-> TRUE]
  <2>1. job[w].tx \in TxHashes /\ job[w].order \in OrderIds
    BY <1>3 DEF TypeOK, JobOK, PaidSteps, RedeemSteps
  <2>2. chain[job[w].tx] = [order |-> job[w].order, matches |-> TRUE]
    BY <1>3 DEF RedeemInv
  <2>3. QED
    BY <1>1, <1>3, <2>1, <2>2
<1>4. ASSUME NEW w \in Workers, pc'[w] \in RecordedSteps
      PROVE  /\ txTable'[job'[w].tx] = job'[w].order
             /\ \A d \in delivered' : d.tx # job'[w].tx
             /\ \A v \in Workers \ {w} :
                  pc'[v] \in RecordedSteps => job'[v].tx # job'[w].tx
  <2>1. ASSUME NEW v \in Workers, pc'[v] \in RecordedSteps
        PROVE  pc[v] \in RecordedSteps /\ job'[v].tx = job[v].tx /\ job'[v].order = job[v].order
    BY <2>1 DEF RecordedSteps, PaidSteps
  <2>2. pc[w] \in RecordedSteps /\ job'[w].tx = job[w].tx /\ job'[w].order = job[w].order
    BY <1>4, <2>1
  <2>3. /\ txTable[job[w].tx] = job[w].order
        /\ \A d \in delivered : d.tx # job[w].tx
        /\ \A v \in Workers \ {w} :
             pc[v] \in RecordedSteps => job[v].tx # job[w].tx
    BY <2>2 DEF RedeemInv
  <2>4. QED
    BY <2>1, <2>2, <2>3
<1>5. QED
  BY <1>2, <1>3, <1>4 DEF RedeemInv

\* Every step keeps RedeemInv.
LEMMA RedeemStep == TypeOK /\ RedeemInv /\ [Next]_vars => RedeemInv'
<1> SUFFICES ASSUME TypeOK, RedeemInv, [Next]_vars PROVE RedeemInv'
  OBVIOUS
<1> USE DEF Goto, Finish, NoJob, dbVars, history, PaidSteps, RecordedSteps
<1>1. CASE UNCHANGED vars
  BY <1>1, RedeemFrame DEF vars
<1>2. ASSUME NEW g \in Goods, AddGood(g) PROVE RedeemInv'
  BY <1>2, RedeemFrame DEF AddGood
<1>3. ASSUME NEW t \in TxHashes, NEW o \in OrderIds, NEW m \in BOOLEAN, Pay(t, o, m)
      PROVE  RedeemInv'
  BY <1>3, RedeemFrame DEF Pay, TypeOK
<1>4. ASSUME NEW o \in OrderIds, Expire(o) PROVE RedeemInv'
  BY <1>4, RedeemFrame DEF Expire
<1>5. ASSUME NEW w \in Workers, Crash(w) \/ Raise(w) PROVE RedeemInv'
  BY <1>5, RedeemFrame DEF Crash, Raise, RedeemSteps, TypeOK
<1>6. ASSUME NEW w \in Workers, NEW u \in Users, NEW f \in Offers, Book(w, u, f)
      PROVE  RedeemInv'
  BY <1>6, RedeemFrame DEF Book, TypeOK
<1>7. ASSUME NEW w \in Workers, NEW t \in TxHashes, Redeem(w, t) PROVE RedeemInv'
  BY <1>7, RedeemFrame DEF Redeem, TypeOK
<1>8. ASSUME NEW w \in Workers, ListUnclaimed(w) PROVE RedeemInv'
  BY <1>8, RedeemFrame DEF ListUnclaimed, TypeOK
<1>9. ASSUME NEW w \in Workers, Continue(w) PROVE RedeemInv'
  <2>1. CASE LookupOrder(w)
    <3>1. /\ chain[job[w].tx] \in Payment
          /\ chain[job[w].tx].matches = TRUE
          /\ job' = [job EXCEPT ![w].order = chain[job[w].tx].order]
          /\ pc' = [pc EXCEPT ![w] = "record"]
          /\ UNCHANGED <<txTable, delivered, chain>>
      BY <2>1 DEF LookupOrder, PaysActiveOrder, TypeOK, JobOK, RedeemSteps
    <3>2. /\ job'[w].tx = job[w].tx
          /\ chain'[job'[w].tx] = [order |-> job'[w].order, matches |-> TRUE]
      BY <3>1 DEF TypeOK, Job, Payment
    <3>3. \A v \in Workers \ {w} : pc'[v] = pc[v] /\ job'[v] = job[v]
      BY <3>1 DEF TypeOK
    <3>4. pc'[w] = "record"
      BY <3>1 DEF TypeOK
    <3>5. DeliveryPaidFor'
      BY <3>1 DEF RedeemInv, DeliveryPaidFor
    <3>6. ASSUME NEW v \in Workers, pc'[v] \in PaidSteps
          PROVE  chain'[job'[v].tx] = [order |-> job'[v].order, matches |-> TRUE]
      BY <3>1, <3>2, <3>3, <3>6 DEF RedeemInv
    <3>7. ASSUME NEW v \in Workers, pc'[v] \in RecordedSteps
          PROVE  /\ txTable'[job'[v].tx] = job'[v].order
                 /\ \A d \in delivered' : d.tx # job'[v].tx
                 /\ \A x \in Workers \ {v} :
                      pc'[x] \in RecordedSteps => job'[x].tx # job'[v].tx
      <4>1. v # w /\ pc[v] \in RecordedSteps
        BY <3>3, <3>4, <3>7
      <4>2. \A x \in Workers : pc'[x] \in RecordedSteps =>
              x # w /\ pc[x] \in RecordedSteps /\ job'[x] = job[x]
        BY <3>3, <3>4
      <4>3. /\ txTable[job[v].tx] = job[v].order
            /\ \A d \in delivered : d.tx # job[v].tx
            /\ \A x \in Workers \ {v} :
                 pc[x] \in RecordedSteps => job[x].tx # job[v].tx
        BY <4>1 DEF RedeemInv
      <4>4. job'[v] = job[v]
        BY <3>7, <4>2
      <4>5. \A x \in Workers \ {v} :
              pc'[x] \in RecordedSteps => job'[x].tx # job'[v].tx
        BY <4>2, <4>3, <4>4
      <4>6. QED
        BY <3>1, <4>3, <4>4, <4>5
    <3>8. QED
      BY <3>5, <3>6, <3>7 DEF RedeemInv
  <2>2. CASE RecordTx(w)
    <3> DEFINE t == job[w].tx
    <3>1. /\ t \in TxHashes /\ pc[w] = "record" /\ txTable[t] = None
          /\ job[w].order \in OrderIds
          /\ txTable' = [txTable EXCEPT ![t] = job[w].order]
          /\ pc' = [pc EXCEPT ![w] = "reread"]
          /\ UNCHANGED <<delivered, chain, job>>
      BY <2>2 DEF RecordTx, Recorded, TypeOK, JobOK, RedeemSteps
    <3>2. \A d \in delivered : d.tx \in TxHashes /\ d.order \in OrderIds
      BY DEF TypeOK, Delivery
    <3>3. \A d \in delivered : d.tx # t
      BY <3>1, <3>2, OrdersAssumption DEF RedeemInv, DeliveryPaidFor
    <3>4. ASSUME NEW v \in Workers, pc[v] \in RecordedSteps
          PROVE  job[v].tx # t /\ job[v].tx \in TxHashes
      BY <3>1, <3>4, OrdersAssumption DEF RedeemInv, TypeOK, JobOK, RedeemSteps
    <3>5. DeliveryPaidFor'
      BY <3>1, <3>2, <3>3 DEF RedeemInv, DeliveryPaidFor, TypeOK
    <3>6. ASSUME NEW v \in Workers, pc'[v] \in PaidSteps
          PROVE  chain'[job'[v].tx] = [order |-> job'[v].order, matches |-> TRUE]
      BY <3>1, <3>6 DEF RedeemInv, TypeOK
    <3>7. ASSUME NEW v \in Workers, pc'[v] \in RecordedSteps
          PROVE  /\ txTable'[job'[v].tx] = job'[v].order
                 /\ \A d \in delivered' : d.tx # job'[v].tx
                 /\ \A x \in Workers \ {v} :
                      pc'[x] \in RecordedSteps => job'[x].tx # job'[v].tx
      <4>1. CASE v = w
        BY <3>1, <3>3, <3>4, <4>1 DEF TypeOK
      <4>2. CASE v # w
        <5>1. pc[v] \in RecordedSteps
          BY <3>1, <3>7, <4>2 DEF TypeOK
        <5>2. /\ txTable'[job'[v].tx] = job'[v].order
              /\ \A d \in delivered' : d.tx # job'[v].tx
          BY <3>1, <3>4, <5>1 DEF RedeemInv, TypeOK
        <5>3. \A x \in Workers \ {v} :
                pc'[x] \in RecordedSteps => job'[x].tx # job'[v].tx
          BY <3>1, <3>4, <5>1 DEF RedeemInv, TypeOK
        <5>4. QED
          BY <5>2, <5>3
      <4>3. QED
        BY <4>1, <4>2
    <3>8. QED
      BY <3>5, <3>6, <3>7 DEF RedeemInv
  <2>3. CASE FinalizeGood(w)
    <3> DEFINE n == [good |-> job[w].good, order |-> job[w].order, tx |-> job[w].tx]
    <3>1. /\ pc[w] = "finalize" /\ delivered' = delivered \cup {n}
          /\ pc' = [pc EXCEPT ![w] = "delete"]
          /\ UNCHANGED <<txTable, chain, job>>
      BY <2>3 DEF FinalizeGood
    <3>2. /\ txTable[n.tx] = n.order
          /\ chain[n.tx] = [order |-> n.order, matches |-> TRUE]
      BY <3>1 DEF RedeemInv
    <3>3. DeliveryPaidFor'
      BY <3>1, <3>2 DEF RedeemInv, DeliveryPaidFor
    <3>4. ASSUME NEW v \in Workers, pc'[v] \in PaidSteps
          PROVE  chain'[job'[v].tx] = [order |-> job'[v].order, matches |-> TRUE]
      BY <3>1, <3>4 DEF RedeemInv, TypeOK
    <3>5. ASSUME NEW v \in Workers, pc'[v] \in RecordedSteps
          PROVE  /\ txTable'[job'[v].tx] = job'[v].order
                 /\ \A d \in delivered' : d.tx # job'[v].tx
                 /\ \A x \in Workers \ {v} :
                      pc'[x] \in RecordedSteps => job'[x].tx # job'[v].tx
      <4>1. v # w /\ pc[v] \in RecordedSteps
        BY <3>1, <3>5 DEF TypeOK
      <4>2. job[v].tx # n.tx
        BY <3>1, <4>1 DEF RedeemInv
      <4>3. QED
        BY <3>1, <4>1, <4>2 DEF RedeemInv, TypeOK
    <3>6. QED
      BY <3>3, <3>4, <3>5 DEF RedeemInv
  <2>4. CASE RefuseRedeem(w) \/ RecordTxFails(w) \/ RereadOrder(w) \/ FindGoodFails(w)
    BY <2>4, RedeemFrame
    DEF RefuseRedeem, RecordTxFails, RereadOrder, FindGoodFails, TypeOK
  <2>5. CASE FindGood(w)
    BY <2>5, RedeemFrame DEF FindGood, TypeOK, Job
  <2>6. CASE DeleteOrder(w) \/ Unlock(w)
    BY <2>6, RedeemFrame DEF DeleteOrder, Unlock, TypeOK
  <2>7. CASE RefuseBooking(w) \/ TooManyOrders(w) \/ OutOfGoods(w) \/ InsertOrder(w)
    BY <2>7, RedeemFrame DEF RefuseBooking, TooManyOrders, OutOfGoods, InsertOrder, TypeOK
  <2>8. CASE CountOrders(w) \/ PickGood(w) \/ AssignGood(w)
    BY <2>8, RedeemFrame DEF CountOrders, PickGood, AssignGood, TypeOK
  <2>9. CASE CheckExpired(w)
    BY <2>9, RedeemFrame DEF CheckExpired, TypeOK
  <2>10. CASE AbortRelease(w) \/ EndRelease(w)
    BY <2>10, RedeemFrame DEF AbortRelease, EndRelease, TypeOK
  <2>11. CASE SearchGood(w) \/ FreeGood(w)
    BY <2>11, RedeemFrame DEF SearchGood, FreeGood, TypeOK
  <2>12. QED
    BY <1>9, <2>1, <2>2, <2>3, <2>4, <2>5, <2>6, <2>7, <2>8, <2>9, <2>10, <2>11
    DEF Continue
<1>10. QED
  BY <1>1, <1>2, <1>3, <1>4, <1>5, <1>6, <1>7, <1>8, <1>9 DEF Next

\* Goods are handed out only against a recorded payment for their order.
THEOREM RedemptionPaid == Spec => []RedeemInv /\ []DeliveryPaidFor
<1>1. Init => RedeemInv
  BY DEF Init, RedeemInv, DeliveryPaidFor, PaidSteps, RecordedSteps
<1>2. RedeemInv => DeliveryPaidFor
  BY DEF RedeemInv
<1>3. QED
  BY <1>1, <1>2, RedeemStep, TypeCorrect, PTL DEF Spec

\* finalize_good completes at most once for a transaction hash.
THEOREM TxPaysOnce == Spec => TxHandedOutOnce
<1>1. RedeemInv /\ [Next]_vars =>
        [\A w \in Workers :
           pc[w] = "finalize" /\ pc'[w] = "delete"
             => \A d \in delivered : d.tx # job[w].tx]_vars
  BY DEF RedeemInv, RecordedSteps
<1>2. QED
  BY <1>1, RedemptionPaid, PTL DEF Spec, TxHandedOutOnce

-----------------------------------------------------------------------------
(* Allocation, when a row lock lasts to the commit of its transaction. *)

\* Steps that write neither order_id nor tx_hash, insert no order, and bring no
\* worker to a step where it has selected a row or an order id.
LEMMA AllocationFrame ==
  ASSUME TypeOK, AllocationInv,
         UNCHANGED <<goodOrder, goodTx, expired, usedIds, delivered, lateReleased>>,
         stock \subseteq stock',
         \A o \in OrderIds : orderRow'[o] = orderRow[o] \/ orderRow'[o] = None,
         \A v \in Workers :
           pc'[v] \in Holding \cup Booked \cup {"search"}
             => pc'[v] = pc[v] /\ job'[v] = job[v]
  PROVE  AllocationInv'
<1> USE DEF AllocationInv
<1>1. RowsInv'
  <2>1. ASSUME NEW v \in Workers, pc'[v] \in Holding \cup {"search"}
        PROVE  pc'[v] = pc[v] /\ job'[v] = job[v]
    BY <2>1
  <2>2. QED
    BY <2>1 DEF RowsInv, Holding
<1>2. ASSUME NEW o \in OrderIds PROVE HasRow(o)' => HasRow(o) /\ orderRow'[o] = orderRow[o]
  BY DEF HasRow
<1>3. ASSUME NEW o \in OrderIds PROVE GoodsOf(o) \subseteq GoodsOf(o)'
  BY DEF GoodsOf
<1>4. BookingInv'
  <2>1. \A o \in OrderIds : HasRow(o)' \/ o \in expired' => o \in usedIds'
    BY <1>2 DEF BookingInv
  <2>2. ASSUME NEW v \in Workers, pc'[v] \in Booked
        PROVE  pc'[v] = pc[v] /\ job'[v] = job[v] /\ job[v].order \in OrderIds
    BY <2>2 DEF Booked, TypeOK, JobOK
  <2>3. ASSUME NEW w \in Workers, pc'[w] \in Booked
        PROVE  /\ job'[w].order \in usedIds' \ expired'
               /\ ~HasRow(job[w].order)'
               /\ \A v \in Workers \ {w} : pc'[v] \in Booked => job'[v].order # job'[w].order
    <3>1. pc[w] \in Booked /\ job'[w] = job[w] /\ job[w].order \in OrderIds
      BY <2>2, <2>3
    <3>2. /\ job[w].order \in usedIds \ expired
          /\ ~HasRow(job[w].order)
          /\ \A v \in Workers \ {w} : pc[v] \in Booked => job[v].order # job[w].order
      BY <3>1 DEF BookingInv
    <3>3. ~HasRow(job[w].order)'
      BY <1>2, <3>1, <3>2 DEF HasRow
    <3>4. QED
      BY <2>2, <3>1, <3>2, <3>3
  <2>4. ASSUME NEW w \in Workers, pc'[w] = "insert"
        PROVE  \E g \in GoodsOf(job[w].order)' : OfferOf[g] = job[w].offer
    BY <1>3, <2>2, <2>4 DEF BookingInv, Booked
  <2>5. ASSUME NEW w \in Workers, pc'[w] = "insert" PROVE job'[w] = job[w]
    BY <2>2, <2>5 DEF Booked
  <2>6. ASSUME NEW w \in Workers, pc'[w] = "insert"
        PROVE  (\E g \in GoodsOf(job[w].order) : OfferOf[g] = job[w].offer)'
    BY <2>4, <2>5, <2>6 DEF GoodsOf
  <2>7. QED
    BY <2>1, <2>3, <2>6 DEF BookingInv, HasRow
<1>5. ActiveOrderHasGood'
  <2>1. ASSUME NEW o \in OrderIds, Active(o)'
        PROVE  (\E g \in GoodsOf(o) : OfferOf[g] = orderRow[o].offer)'
    <3>1. Active(o) /\ orderRow'[o] = orderRow[o]
      BY <1>2, <2>1 DEF Active
    <3>2. QED
      BY <1>3, <3>1 DEF ActiveOrderHasGood
  <2>2. QED
    BY <2>1 DEF ActiveOrderHasGood
<1>6. SoldInv'
  BY DEF SoldInv
<1>7. QED
  BY <1>1, <1>4, <1>5, <1>6

\* Without AUTOCOMMIT a row that a statement could select is in no other hands.
LEMMA UnlockedRow ==
  ASSUME ~AutoCommit, NEW g, ~RowLocked(g), NEW v \in Workers, pc[v] \in Holding
  PROVE  job[v].good # g
BY DEF RowLocked, Holding

\* allocate_good selects a free row and locks it.
LEMMA PickStep ==
  ASSUME ~AutoCommit, TypeOK, AllocationInv, NEW w \in Workers, PickGood(w)
  PROVE  AllocationInv'
<1> USE DEF AllocationInv
<1>1. PICK g \in FreeGoods(job[w].offer) :
        ~RowLocked(g) /\ job' = [job EXCEPT ![w].good = g]
  BY DEF PickGood
<1>2. /\ pc[w] = "pick" /\ pc' = [pc EXCEPT ![w] = "assign"]
      /\ UNCHANGED <<stock, goodOrder, goodTx, orderRow, expired, usedIds, delivered, lateReleased>>
  BY DEF PickGood, Goto, dbVars, history
<1>3. g \in stock /\ goodOrder[g] = None /\ OfferOf[g] = job[w].offer
  BY DEF FreeGoods
<1>4. /\ pc'[w] = "assign" /\ job'[w].good = g
      /\ job'[w].offer = job[w].offer /\ job'[w].order = job[w].order
      /\ \A v \in Workers \ {w} : pc'[v] = pc[v] /\ job'[v] = job[v]
  BY <1>1, <1>2 DEF TypeOK, Job
<1>5. RowsInv'
  <2>1. \A v \in Workers \ {w} : pc[v] \in Holding => job[v].good # g
    BY <1>1, UnlockedRow
  <2>2. QED
    BY <1>2, <1>3, <1>4, <2>1 DEF RowsInv
<1>6. BookingInv'
  <2>1. \A v \in Workers : /\ pc'[v] \in Booked <=> pc[v] \in Booked
                           /\ pc'[v] = "insert" <=> pc[v] = "insert"
                           /\ job'[v].order = job[v].order /\ job'[v].offer = job[v].offer
    BY <1>2, <1>4 DEF Booked
  <2>2. QED
    BY <1>2, <2>1 DEF BookingInv, HasRow, GoodsOf
<1>7. ActiveOrderHasGood' /\ SoldInv'
  BY <1>2 DEF ActiveOrderHasGood, SoldInv, Active, HasRow, GoodsOf
<1>8. QED
  BY <1>5, <1>6, <1>7

\* finalize_good and release_good select the row of an order.
LEMMA SelectStep ==
  ASSUME ~AutoCommit, TypeOK, AllocationInv, NEW w \in Workers,
         FindGood(w) \/ SearchGood(w)
  PROVE  AllocationInv'
<1> USE DEF AllocationInv
<1>1. UNCHANGED <<stock, goodOrder, goodTx, orderRow, expired, usedIds, delivered, lateReleased>>
  BY DEF FindGood, SearchGood, dbVars, history
<1>2. CASE /\ pc[w] = "search" /\ pc' = [pc EXCEPT ![w] = "sweep"]
           /\ job' = [job EXCEPT ![w] = [NoJob EXCEPT !.fresh = TRUE]]
  BY <1>1, <1>2, AllocationFrame DEF TypeOK, Holding, Booked
<1>3. CASE \E g \in GoodsOf(job[w].order) :
             /\ ~RowLocked(g) /\ job' = [job EXCEPT ![w].good = g]
             /\ \/ pc[w] = "find" /\ pc' = [pc EXCEPT ![w] = "finalize"]
                \/ pc[w] = "search" /\ pc' = [pc EXCEPT ![w] = "free"]
  <2>1. PICK g \in GoodsOf(job[w].order) :
             /\ ~RowLocked(g) /\ job' = [job EXCEPT ![w].good = g]
             /\ \/ pc[w] = "find" /\ pc' = [pc EXCEPT ![w] = "finalize"]
                \/ pc[w] = "search" /\ pc' = [pc EXCEPT ![w] = "free"]
    BY <1>3
  <2>2. g \in stock /\ goodOrder[g] = job[w].order
    BY DEF GoodsOf
  <2>3. /\ pc'[w] \in {"finalize", "free"} /\ (pc'[w] = "free" => pc[w] = "search")
        /\ job'[w].good = g /\ job'[w].order = job[w].order
        /\ \A v \in Workers \ {w} : pc'[v] = pc[v] /\ job'[v] = job[v]
    BY <2>1 DEF TypeOK, Job
  <2>4. RowsInv'
    <3>1. \A v \in Workers \ {w} : pc[v] \in Holding => job[v].good # g
      BY <2>1, UnlockedRow
    <3>2. QED
      BY <1>1, <2>2, <2>3, <3>1 DEF RowsInv
  <2>5. BookingInv'
    <3>1. \A v \in Workers : pc'[v] \in Booked =>
            pc'[v] = pc[v] /\ job'[v] = job[v]
      BY <2>3 DEF Booked
    <3>2. QED
      BY <1>1, <3>1 DEF BookingInv, HasRow, GoodsOf, Booked
  <2>6. ActiveOrderHasGood' /\ SoldInv'
    BY <1>1 DEF ActiveOrderHasGood, SoldInv, Active, HasRow, GoodsOf
  <2>7. QED
    BY <2>4, <2>5, <2>6
<1>4. QED
  BY <1>2, <1>3 DEF FindGood, SearchGood, Goto

\* allocate_good writes order_id into the row it has locked.
LEMMA AssignStep ==
  ASSUME ~AutoCommit, TypeOK, AllocationInv, NEW w \in Workers, AssignGood(w)
  PROVE  AllocationInv'
<1> USE DEF AllocationInv
<1> DEFINE g == job[w].good
           o == job[w].order
<1>1. /\ pc[w] = "assign" /\ pc' = [pc EXCEPT ![w] = "insert"]
      /\ goodOrder' = [goodOrder EXCEPT ![g] = o]
      /\ UNCHANGED <<job, stock, goodTx, orderRow, expired, usedIds, delivered, lateReleased>>
  BY DEF AssignGood, Goto, history
<1>2. /\ g \in stock /\ g \in Goods /\ goodOrder[g] = None /\ OfferOf[g] = job[w].offer
      /\ o \in OrderIds /\ o # None
  BY <1>1, OrdersAssumption DEF RowsInv, TypeOK, JobOK, Holding
<1>3. /\ goodOrder'[g] = o
      /\ \A x \in Goods : x # g => goodOrder'[x] = goodOrder[x]
      /\ \A x \in Goods : goodOrder[x] # None => goodOrder'[x] = goodOrder[x]
  BY <1>1, <1>2 DEF TypeOK
<1>4. pc'[w] = "insert" /\ \A v \in Workers \ {w} : pc'[v] = pc[v]
  BY <1>1 DEF TypeOK
<1>5. RowsInv'
  <2>1. ASSUME NEW v \in Workers, pc'[v] \in Holding
        PROVE  v # w /\ pc[v] = pc'[v] /\ job[v].good # g /\ job[v].good \in Goods
    BY <1>1, <1>4, <2>1 DEF RowsInv, Holding, TypeOK, JobOK
  <2>2. ASSUME NEW v \in Workers, pc'[v] = "search" PROVE pc[v] = "search"
    BY <1>4, <2>2
  <2>3. ASSUME NEW v \in Workers, pc'[v] \in Holding
        PROVE  goodOrder'[job[v].good] = goodOrder[job[v].good]
    BY <1>3, <2>1, <2>3
  <2>4. QED
    BY <1>1, <2>1, <2>2, <2>3 DEF RowsInv, Holding
<1>6. ASSUME NEW p \in OrderIds PROVE GoodsOf(p) \subseteq GoodsOf(p)'
  BY <1>1, <1>3, OrdersAssumption DEF GoodsOf, TypeOK
<1>7. BookingInv'
  <2>1. g \in GoodsOf(o)'
    BY <1>1, <1>2, <1>3 DEF GoodsOf
  <2>2. \A v \in Workers : pc'[v] \in Booked <=> pc[v] \in Booked
    BY <1>1, <1>4 DEF Booked
  <2>3. ASSUME NEW v \in Workers, pc'[v] = "insert"
        PROVE  (\E x \in GoodsOf(job[v].order) : OfferOf[x] = job[v].offer)'
    <3>1. CASE v = w
      BY <1>1, <1>2, <2>1, <3>1 DEF GoodsOf
    <3>2. CASE v # w
      <4>1. pc[v] = "insert" /\ job[v].order \in OrderIds
        BY <1>4, <2>3, <3>2 DEF TypeOK, JobOK
      <4>2. PICK x \in GoodsOf(job[v].order) : OfferOf[x] = job[v].offer
        BY <4>1 DEF BookingInv
      <4>3. x \in GoodsOf(job[v].order)'
        BY <1>1, <1>6, <4>1, <4>2 DEF GoodsOf
      <4>4. QED
        BY <1>1, <4>2, <4>3
    <3>3. QED
      BY <3>1, <3>2
  <2>4. QED
    BY <1>1, <2>2, <2>3 DEF BookingInv, HasRow
<1>8. ActiveOrderHasGood'
  BY <1>1, <1>6 DEF ActiveOrderHasGood, Active, HasRow
<1>9. SoldInv'
  <2>1. ASSUME NEW d \in delivered PROVE d.good \in Goods /\ d.order \in OrderIds
    BY DEF TypeOK, Delivery
  <2>2. QED
    BY <1>1, <1>3, <2>1, OrdersAssumption DEF SoldInv
<1>10. QED
  BY <1>5, <1>7, <1>8, <1>9

\* finalize_good writes tx_hash into the row it has locked.
LEMMA FinalizeStep ==
  ASSUME ~AutoCommit, TypeOK, AllocationInv, NEW w \in Workers, FinalizeGood(w)
  PROVE  AllocationInv'
<1> USE DEF AllocationInv
<1> DEFINE g == job[w].good
           n == [good |-> job[w].good, order |-> job[w].order, tx |-> job[w].tx]
<1>1. /\ pc[w] = "finalize" /\ pc' = [pc EXCEPT ![w] = "delete"]
      /\ goodTx' = [goodTx EXCEPT ![g] = job[w].tx]
      /\ delivered' = delivered \cup {n}
      /\ UNCHANGED <<job, stock, goodOrder, orderRow, expired, usedIds, lateReleased>>
  BY DEF FinalizeGood, Goto
<1>2. g \in Goods /\ goodOrder[g] = job[w].order /\ job[w].tx \in TxHashes
  BY <1>1 DEF RowsInv, TypeOK, JobOK, RedeemSteps
<1>3. \A v \in Workers : pc'[v] \in Holding \cup Booked \cup {"search"} => pc'[v] = pc[v]
  BY <1>1 DEF TypeOK, Holding, Booked
<1>4. RowsInv'
  <2>1. ASSUME NEW v \in Workers, pc'[v] \in Holding \cup {"search"} PROVE pc'[v] = pc[v]
    BY <1>3, <2>1
  <2>2. QED
    BY <1>1, <2>1 DEF RowsInv, Holding
<1>5. BookingInv'
  <2>1. ASSUME NEW v \in Workers, pc'[v] \in Booked PROVE pc'[v] = pc[v]
    BY <1>3, <2>1
  <2>2. QED
    BY <1>1, <2>1 DEF BookingInv, Booked, HasRow, GoodsOf
<1>6. ActiveOrderHasGood'
  BY <1>1 DEF ActiveOrderHasGood, Active, HasRow, GoodsOf
<1>7. SoldInv'
  <2>1. \A x \in Goods : goodTx[x] # None => goodTx'[x] # None
    BY <1>1, <1>2, OrdersAssumption DEF TypeOK
  <2>2. goodTx'[g] # None
    BY <1>1, <1>2, OrdersAssumption DEF TypeOK
  <2>3. ASSUME NEW d \in delivered PROVE d.good \in Goods
    BY DEF TypeOK, Delivery
  <2>4. QED
    BY <1>1, <1>2, <2>1, <2>2, <2>3 DEF SoldInv
<1>8. QED
  BY <1>4, <1>5, <1>6, <1>7

\* release_good clears order_id in the row it has locked, whose order expired.
LEMMA FreeStep ==
  ASSUME ~AutoCommit, TypeOK, AllocationInv, NEW w \in Workers, FreeGood(w)
  PROVE  AllocationInv'
<1> USE DEF AllocationInv
<1> DEFINE g == job[w].good
<1>1. /\ pc[w] = "free" /\ pc' = [pc EXCEPT ![w] = "sweep"]
      /\ goodOrder' = [goodOrder EXCEPT ![g] = None]
      /\ lateReleased' = IF goodTx[g] = None THEN lateReleased ELSE lateReleased \cup {g}
      /\ job' = [job EXCEPT ![w] = [NoJob EXCEPT !.fresh = TRUE]]
      /\ UNCHANGED <<stock, goodTx, orderRow, expired, usedIds, delivered>>
  BY DEF FreeGood, Goto
<1>2. /\ g \in Goods /\ goodOrder[g] \in expired
      /\ goodOrder'[g] = None
      /\ \A x \in Goods : x # g => goodOrder'[x] = goodOrder[x]
  BY <1>1 DEF RowsInv, TypeOK, JobOK
<1>3. ASSUME NEW v \in Workers, pc'[v] \in Holding \cup Booked \cup {"search"}
      PROVE  v # w /\ pc'[v] = pc[v] /\ job'[v] = job[v]
  BY <1>1, <1>3 DEF TypeOK, Holding, Booked
<1>4. ASSUME NEW o \in OrderIds, o \notin expired PROVE GoodsOf(o) \subseteq GoodsOf(o)'
  BY <1>1, <1>2, <1>4 DEF GoodsOf, TypeOK
<1>5. RowsInv'
  <2>1. ASSUME NEW v \in Workers, pc'[v] \in Holding
        PROVE  /\ v # w /\ pc'[v] = pc[v] /\ job'[v] = job[v]
               /\ job[v].good \in Goods /\ job[v].good # g
               /\ goodOrder'[job[v].good] = goodOrder[job[v].good]
    <3>1. v # w /\ pc'[v] = pc[v] /\ job'[v] = job[v] /\ job[v].good \in Goods
      BY <1>3, <2>1 DEF TypeOK, JobOK, Holding
    <3>2. job[v].good # g
      BY <1>1, <2>1, <3>1 DEF RowsInv, Holding
    <3>3. QED
      BY <1>2, <3>1, <3>2
  <2>2. ASSUME NEW v \in Workers, pc'[v] = "search"
        PROVE  pc[v] = "search" /\ job'[v] = job[v]
    BY <1>3, <2>2
  <2>3. QED
    BY <1>1, <2>1, <2>2 DEF RowsInv, Holding
<1>6. BookingInv'
  <2>1. ASSUME NEW v \in Workers, pc'[v] \in Booked
        PROVE  pc'[v] = pc[v] /\ job'[v] = job[v]
    BY <1>3, <2>1
  <2>2. ASSUME NEW v \in Workers, pc'[v] = "insert"
        PROVE  (\E x \in GoodsOf(job[v].order) : OfferOf[x] = job[v].offer)'
    <3>1. pc[v] = "insert" /\ job'[v] = job[v]
      BY <2>1, <2>2 DEF Booked
    <3>2. job[v].order \in OrderIds /\ job[v].order \notin expired
      BY <3>1 DEF BookingInv, Booked, TypeOK, JobOK
    <3>3. PICK x \in GoodsOf(job[v].order) : OfferOf[x] = job[v].offer
      BY <3>1 DEF BookingInv
    <3>4. x \in GoodsOf(job[v].order)'
      BY <1>4, <3>1, <3>2, <3>3 DEF GoodsOf
    <3>5. QED
      BY <3>1, <3>3, <3>4
  <2>3. QED
    BY <1>1, <2>1, <2>2 DEF BookingInv, HasRow, GoodsOf, Booked
<1>7. ActiveOrderHasGood'
  BY <1>1, <1>4 DEF ActiveOrderHasGood, Active, HasRow
<1>8. SoldInv'
  <2>1. ASSUME NEW d \in delivered PROVE d.good \in Goods
    BY DEF TypeOK, Delivery
  <2>2. QED
    BY <1>1, <1>2, <2>1 DEF SoldInv
<1>9. QED
  BY <1>5, <1>6, <1>7, <1>8

\* create_order makes up an order id nobody has used.
LEMMA CountStep ==
  ASSUME ~AutoCommit, TypeOK, AllocationInv, NEW w \in Workers, CountOrders(w)
  PROVE  AllocationInv'
<1> USE DEF AllocationInv
<1>1. PICK o \in OrderIds \ usedIds :
        usedIds' = usedIds \cup {o} /\ job' = [job EXCEPT ![w].order = o]
  BY DEF CountOrders
<1>2. /\ pc[w] = "count" /\ pc' = [pc EXCEPT ![w] = "pick"]
      /\ UNCHANGED <<stock, goodOrder, goodTx, orderRow, expired, delivered, lateReleased>>
  BY DEF CountOrders, Goto, dbVars, history
<1>3. /\ pc'[w] = "pick" /\ job'[w].order = o
      /\ \A v \in Workers \ {w} : pc'[v] = pc[v] /\ job'[v] = job[v]
  BY <1>1, <1>2 DEF TypeOK, Job
<1>4. o \notin expired /\ ~HasRow(o)
  BY <1>1 DEF BookingInv
<1>5. RowsInv'
  <2>1. ASSUME NEW v \in Workers, pc'[v] \in Holding \cup {"search"}
        PROVE  pc'[v] = pc[v] /\ job'[v] = job[v]
    BY <1>3, <2>1 DEF Holding
  <2>2. QED
    BY <1>2, <2>1 DEF RowsInv, Holding
<1>6. BookingInv'
  <2>1. \A v \in Workers \ {w} : pc[v] \in Booked => job[v].order # o
    BY <1>1 DEF BookingInv
  <2>2. ASSUME NEW v \in Workers, pc'[v] = "insert"
        PROVE  pc[v] = "insert" /\ job'[v] = job[v]
    BY <1>3, <2>2
  <2>3. QED
    BY <1>1, <1>2, <1>3, <1>4, <2>1, <2>2 DEF BookingInv, HasRow, GoodsOf
<1>7. ActiveOrderHasGood' /\ SoldInv'
  BY <1>2 DEF ActiveOrderHasGood, SoldInv, Active, HasRow, GoodsOf
<1>8. QED
  BY <1>5, <1>6, <1>7

\* create_order inserts the row of an order whose good is put aside.
LEMMA InsertStep ==
  ASSUME ~AutoCommit, TypeOK, AllocationInv, NEW w \in Workers, InsertOrder(w)
  PROVE  AllocationInv'
<1> USE DEF AllocationInv
<1> DEFINE o == job[w].order
           row == [user |-> job[w].user, offer |-> job[w].offer]
<1>1. /\ pc[w] = "insert" /\ pc' = [pc EXCEPT ![w] = "idle"]
      /\ job' = [job EXCEPT ![w] = NoJob]
      /\ orderRow' = [orderRow EXCEPT ![o] = row]
      /\ UNCHANGED <<stock, goodOrder, goodTx, expired, usedIds, delivered, lateReleased>>
  BY DEF InsertOrder, Finish, history
<1>2. /\ o \in OrderIds /\ o \in usedIds /\ orderRow'[o] = row
      /\ \A p \in OrderIds \ {o} : orderRow'[p] = orderRow[p]
  BY <1>1 DEF BookingInv, Booked, TypeOK, JobOK
<1>3. ASSUME NEW v \in Workers, pc'[v] \in Holding \cup Booked \cup {"search"}
      PROVE  v # w /\ pc'[v] = pc[v] /\ job'[v] = job[v]
  BY <1>1, <1>3 DEF TypeOK, Holding, Booked
<1>4. RowsInv'
  <2>1. ASSUME NEW v \in Workers, pc'[v] \in Holding \cup {"search"}
        PROVE  pc'[v] = pc[v] /\ job'[v] = job[v]
    BY <1>3, <2>1
  <2>2. QED
    BY <1>1, <2>1 DEF RowsInv, Holding
<1>5. BookingInv'
  <2>1. ASSUME NEW v \in Workers, pc'[v] \in Booked
        PROVE  /\ v # w /\ pc'[v] = pc[v] /\ job'[v] = job[v]
               /\ job[v].order \in OrderIds /\ job[v].order # o
    <3>1. v # w /\ pc'[v] = pc[v] /\ job'[v] = job[v] /\ job[v].order \in OrderIds
      BY <1>3, <2>1 DEF TypeOK, JobOK, Booked
    <3>2. job[v].order # o
      BY <1>1, <2>1, <3>1 DEF BookingInv, Booked
    <3>3. QED
      BY <3>1, <3>2
  <2>2. \A p \in OrderIds : HasRow(p)' => HasRow(p) \/ p = o
    BY <1>2 DEF HasRow
  <2>3. ASSUME NEW v \in Workers, pc'[v] \in Booked PROVE ~HasRow(job[v].order)'
    BY <1>2, <2>1, <2>3 DEF BookingInv, HasRow
  <2>4. QED
    BY <1>1, <1>2, <2>1, <2>2, <2>3 DEF BookingInv, HasRow, GoodsOf, Booked
<1>6. ActiveOrderHasGood'
  <2>1. ASSUME NEW p \in OrderIds, Active(p)'
        PROVE  (\E x \in GoodsOf(p) : OfferOf[x] = orderRow[p].offer)'
    <3>1. CASE p = o
      <4>1. PICK x \in GoodsOf(o) : OfferOf[x] = job[w].offer
        BY <1>1 DEF BookingInv
      <4>2. QED
        BY <1>1, <1>2, <3>1, <4>1 DEF GoodsOf
    <3>2. CASE p # o
      <4>1. Active(p) /\ orderRow'[p] = orderRow[p]
        BY <1>1, <1>2, <2>1, <3>2 DEF Active, HasRow
      <4>2. QED
        BY <1>1, <4>1 DEF ActiveOrderHasGood, GoodsOf
    <3>3. QED
      BY <3>1, <3>2
  <2>2. QED
    BY <2>1 DEF ActiveOrderHasGood
<1>7. SoldInv'
  BY <1>1 DEF SoldInv
<1>8. QED
  BY <1>4, <1>5, <1>6, <1>7

\* release_unclaimed_goods goes on to release_good only for an expired order.
LEMMA CheckStep ==
  ASSUME ~AutoCommit, TypeOK, AllocationInv, NEW w \in Workers, CheckExpired(w)
  PROVE  AllocationInv'
<1> USE DEF AllocationInv
<1>1. /\ UNCHANGED <<stock, goodOrder, goodTx, orderRow, expired, usedIds, delivered, lateReleased>>
      /\ pc[w] = "sweep"
  BY DEF CheckExpired, dbVars, history
<1>2. CASE UNCHANGED <<pc, job>>
  BY <1>1, <1>2, AllocationFrame
<1>3. CASE \E o \in OrderIds : /\ o \in expired
                               /\ job' = [job EXCEPT ![w].order = o]
                               /\ pc' = [pc EXCEPT ![w] = "search"]
  <2>1. /\ pc'[w] = "search" /\ job'[w].order \in expired
        /\ \A v \in Workers \ {w} : pc'[v] = pc[v] /\ job'[v] = job[v]
    BY <1>3 DEF TypeOK, Job
  <2>2. ASSUME NEW v \in Workers, pc'[v] \in Holding \cup Booked
        PROVE  v # w /\ pc'[v] = pc[v] /\ job'[v] = job[v]
    BY <2>1, <2>2 DEF Holding, Booked
  <2>3. RowsInv'
    <3>1. ASSUME NEW v \in Workers, pc'[v] \in {"search", "free"}
          PROVE  job'[v].order \in expired
      BY <2>1, <3>1 DEF RowsInv
    <3>2. ASSUME NEW v \in Workers, pc'[v] \in Holding
          PROVE  pc'[v] = pc[v] /\ job'[v] = job[v]
      BY <2>2, <3>2
    <3>3. QED
      BY <1>1, <3>1, <3>2 DEF RowsInv, Holding
  <2>4. BookingInv'
    <3>1. ASSUME NEW v \in Workers, pc'[v] \in Booked
          PROVE  pc'[v] = pc[v] /\ job'[v] = job[v]
      BY <2>2, <3>1
    <3>2. QED
      BY <1>1, <3>1 DEF BookingInv, HasRow, GoodsOf, Booked
  <2>5. ActiveOrderHasGood' /\ SoldInv'
    BY <1>1 DEF ActiveOrderHasGood, SoldInv, Active, HasRow, GoodsOf
  <2>6. QED
    BY <2>3, <2>4, <2>5
<1>4. QED
  BY <1>2, <1>3 DEF CheckExpired, HasExpired, HasRow, Goto

\* Only an order that has a row grows old, so no booking in progress does.
LEMMA ExpireStep ==
  ASSUME TypeOK, AllocationInv, NEW o \in OrderIds, Expire(o)
  PROVE  AllocationInv'
<1> USE DEF AllocationInv
<1>1. /\ HasRow(o) /\ expired' = expired \cup {o}
      /\ UNCHANGED <<pc, job, stock, goodOrder, goodTx, orderRow, usedIds, delivered, lateReleased>>
  BY DEF Expire, Active, dbVars, history
<1>2. RowsInv'
  BY <1>1 DEF RowsInv
<1>3. BookingInv'
  <2>1. ASSUME NEW w \in Workers, pc[w] \in Booked PROVE job[w].order # o
    BY <1>1, <2>1 DEF BookingInv
  <2>2. QED
    BY <1>1, <2>1 DEF BookingInv, HasRow, GoodsOf
<1>4. ActiveOrderHasGood' /\ SoldInv'
  BY <1>1 DEF ActiveOrderHasGood, SoldInv, Active, HasRow, GoodsOf
<1>5. QED
  BY <1>2, <1>3, <1>4

\* With row locks held to the commit, every step keeps AllocationInv.
LEMMA AllocationStep ==
  ~AutoCommit /\ TypeOK /\ AllocationInv /\ [Next]_vars => AllocationInv'
<1> SUFFICES ASSUME ~AutoCommit, TypeOK, AllocationInv, [Next]_vars PROVE AllocationInv'
  OBVIOUS
<1> USE DEF Goto, Finish, dbVars, history, Holding, Booked
<1>1. CASE UNCHANGED vars
  BY <1>1, AllocationFrame DEF vars
<1>2. ASSUME NEW g \in Goods, AddGood(g) PROVE AllocationInv'
  BY <1>2, AllocationFrame DEF AddGood
<1>3. ASSUME NEW t \in TxHashes, NEW o \in OrderIds, NEW m \in BOOLEAN, Pay(t, o, m)
      PROVE  AllocationInv'
  BY <1>3, AllocationFrame DEF Pay
<1>4. ASSUME NEW o \in OrderIds, Expire(o) PROVE AllocationInv'
  BY <1>4, ExpireStep
<1>5. ASSUME NEW w \in Workers, Crash(w) \/ Raise(w) PROVE AllocationInv'
  BY <1>5, AllocationFrame DEF Crash, Raise, RedeemSteps, TypeOK
<1>6. ASSUME NEW w \in Workers, NEW u \in Users, NEW f \in Offers, Book(w, u, f)
      PROVE  AllocationInv'
  BY <1>6, AllocationFrame DEF Book, TypeOK
<1>7. ASSUME NEW w \in Workers, NEW t \in TxHashes, Redeem(w, t) PROVE AllocationInv'
  BY <1>7, AllocationFrame DEF Redeem, TypeOK
<1>8. ASSUME NEW w \in Workers, ListUnclaimed(w) PROVE AllocationInv'
  BY <1>8, AllocationFrame DEF ListUnclaimed, TypeOK
<1>9. ASSUME NEW w \in Workers, Continue(w) PROVE AllocationInv'
  <2>1. CASE RefuseBooking(w) \/ TooManyOrders(w) \/ OutOfGoods(w)
    BY <2>1, AllocationFrame DEF RefuseBooking, TooManyOrders, OutOfGoods, TypeOK
  <2>2. CASE LookupOrder(w)
    BY <2>2, AllocationFrame DEF LookupOrder, TypeOK
  <2>3. CASE RefuseRedeem(w) \/ RecordTx(w) \/ RecordTxFails(w)
    BY <2>3, AllocationFrame DEF RefuseRedeem, RecordTx, RecordTxFails, TypeOK
  <2>4. CASE RereadOrder(w) \/ FindGoodFails(w)
    BY <2>4, AllocationFrame DEF RereadOrder, FindGoodFails, TypeOK
  <2>5. CASE DeleteOrder(w) \/ Unlock(w)
    BY <2>5, AllocationFrame DEF DeleteOrder, Unlock, TypeOK
  <2>6. CASE AbortRelease(w) \/ EndRelease(w)
    BY <2>6, AllocationFrame DEF AbortRelease, EndRelease, TypeOK
  <2>7. QED
    BY <1>9, <2>1, <2>2, <2>3, <2>4, <2>5, <2>6, CountStep, PickStep, AssignStep,
       InsertStep, SelectStep, FinalizeStep, CheckStep, FreeStep
    DEF Continue
<1>10. QED
  BY <1>1, <1>2, <1>3, <1>4, <1>5, <1>6, <1>7, <1>8, <1>9 DEF Next

\* With row locks held to the commit, the allocation invariant holds throughout.
THEOREM AllocationSafe == ASSUME ~AutoCommit PROVE Spec => []AllocationInv
<1>1. Init => AllocationInv
  BY DEF Init, AllocationInv, RowsInv, BookingInv, ActiveOrderHasGood, SoldInv,
         Holding, Booked, Active, HasRow
<1>2. TypeOK /\ AllocationInv /\ [Next]_vars => AllocationInv'
  BY AllocationStep
<1>3. QED
  BY <1>1, <1>2, TypeCorrect, PTL DEF Spec

\* With row locks held to the commit, an order that can still be paid for has
\* its good, whatever fails and whenever cron runs.
THEOREM OrdersBacked == ASSUME ~AutoCommit PROVE Spec => []ActiveOrderHasGood
<1>1. AllocationInv => ActiveOrderHasGood
  BY DEF AllocationInv
<1>2. QED
  BY <1>1, AllocationSafe, PTL

\* With row locks held to the commit, two buyers get the same good only after
\* release_good took it back from the first, once finalized.
THEOREM NoEarlyResale == ASSUME ~AutoCommit PROVE Spec => []ResaleOnlyAfterLateRelease
<1>1. AllocationInv => ResaleOnlyAfterLateRelease
  BY DEF AllocationInv, SoldInv, ResaleOnlyAfterLateRelease
<1>2. QED
  BY <1>1, AllocationSafe, PTL

\* With row locks held to the commit, only release_good takes a good from an
\* order, and only from one that has expired.
THEOREM GoodsKept == ASSUME ~AutoCommit PROVE Spec => GoodLeavesOnlyExpiredOrder
<1> DEFINE Kept == \A g \in Goods :
             goodOrder[g] # None /\ goodOrder'[g] # goodOrder[g]
               => goodOrder'[g] = None /\ goodOrder[g] \in expired
<1>1. TypeOK /\ AllocationInv /\ [Next]_vars => [Kept]_vars
  <2> SUFFICES ASSUME TypeOK, AllocationInv, [Next]_vars PROVE [Kept]_vars
    OBVIOUS
  <2>1. ASSUME NEW w \in Workers, AssignGood(w) PROVE Kept
    BY <2>1 DEF AssignGood, AllocationInv, RowsInv, TypeOK
  <2>2. ASSUME NEW w \in Workers, FreeGood(w) PROVE Kept
    BY <2>2 DEF FreeGood, AllocationInv, RowsInv, TypeOK
  <2>3. ASSUME UNCHANGED goodOrder PROVE Kept
    BY <2>3
  <2>4. ASSUME NEW w \in Workers, Continue(w)
        PROVE  AssignGood(w) \/ FreeGood(w) \/ UNCHANGED goodOrder
    BY <2>4
    DEF Continue, dbVars, RefuseBooking, CountOrders, TooManyOrders, PickGood, OutOfGoods,
        InsertOrder, LookupOrder, RefuseRedeem, RecordTx, RecordTxFails, RereadOrder,
        FindGood, FindGoodFails, FinalizeGood, DeleteOrder, Unlock, CheckExpired,
        AbortRelease, EndRelease, SearchGood
  <2>5. CASE Next
    BY <2>1, <2>2, <2>3, <2>4, <2>5
    DEF Next, dbVars, AddGood, Pay, Expire, Crash, Raise, Book, Redeem, ListUnclaimed
  <2>6. QED
    BY <2>5
<1>2. QED
  BY <1>1, AllocationSafe, TypeCorrect, PTL DEF Spec, GoodLeavesOnlyExpiredOrder

-----------------------------------------------------------------------------
(* The count of create_order, in either isolation mode. *)

\* The bookings of a user that were let past the count, and have no row yet.
Counted(u) == {w \in Workers : pc[w] \in Booked /\ job[w].user = u}

\* A booking the count did not see is one of another worker.
LimitInv ==
  \A u \in Users :
    /\ IsFiniteSet(ActiveOrders(u))
    /\ Cardinality(ActiveOrders(u)) + Cardinality(Counted(u))
         <= MaxOrders + (Cardinality(Workers) - 1)

\* Some workers are finitely many, and the limit is a number.
LEMMA CountedFinite ==
  ASSUME NEW u
  PROVE  /\ IsFiniteSet(Counted(u)) /\ Cardinality(Counted(u)) \in Nat
         /\ Cardinality(Counted(u)) <= Cardinality(Workers)
         /\ Cardinality(Workers) \in Nat /\ Cardinality(Workers) >= 1 /\ MaxOrders \in Nat
<1>1. Counted(u) \in SUBSET Workers
  BY DEF Counted
<1>2. IsFiniteSet(Workers) /\ Workers # {} /\ MaxOrders \in Nat
  BY OrdersAssumption, WorkersAssumption
<1>3. Cardinality(Workers) \in Nat /\ Cardinality(Workers) # 0
  BY <1>2, FS_CardinalityType, FS_EmptySet
<1>4. QED
  BY <1>1, <1>2, <1>3, FS_Subset, FS_CardinalityType

\* The same after a step.
LEMMA CountedFiniteNext ==
  ASSUME NEW u
  PROVE  /\ IsFiniteSet(Counted(u)') /\ Cardinality(Counted(u)') \in Nat
         /\ Cardinality(Counted(u)') <= Cardinality(Workers)
<1>1. Counted(u)' \in SUBSET Workers
  BY DEF Counted
<1>2. QED
  BY <1>1, OrdersAssumption, WorkersAssumption, FS_Subset, FS_CardinalityType

\* Fewer orders and fewer bookings past the count.
LEMMA LimitFrame ==
  ASSUME LimitInv, NEW u \in Users,
         ActiveOrders(u)' \subseteq ActiveOrders(u), Counted(u)' \subseteq Counted(u)
  PROVE  /\ IsFiniteSet(ActiveOrders(u)')
         /\ Cardinality(ActiveOrders(u)') + Cardinality(Counted(u)')
              <= MaxOrders + (Cardinality(Workers) - 1)
<1>1. IsFiniteSet(ActiveOrders(u)) /\ ActiveOrders(u)' \in SUBSET ActiveOrders(u)
      /\ Cardinality(ActiveOrders(u)) + Cardinality(Counted(u))
           <= MaxOrders + (Cardinality(Workers) - 1)
  BY DEF LimitInv
<1>2. /\ IsFiniteSet(ActiveOrders(u)')
      /\ Cardinality(ActiveOrders(u)') <= Cardinality(ActiveOrders(u))
      /\ Cardinality(ActiveOrders(u)') \in Nat /\ Cardinality(ActiveOrders(u)) \in Nat
  BY <1>1, FS_Subset, FS_CardinalityType
<1>3. /\ IsFiniteSet(Counted(u)) /\ Cardinality(Counted(u)) \in Nat
      /\ Cardinality(Workers) \in Nat /\ MaxOrders \in Nat
  BY CountedFinite
<1>4. Cardinality(Counted(u)') <= Cardinality(Counted(u)) /\ Cardinality(Counted(u)') \in Nat
  BY <1>3, FS_Subset, FS_CardinalityType
<1>5. QED
  BY <1>1, <1>2, <1>3, <1>4

\* The count lets a booking past when the user has an order less than allowed.
LEMMA CountLimit ==
  ASSUME TypeOK, LimitInv, NEW w \in Workers, CountOrders(w)
  PROVE  LimitInv'
<1>1. PICK x \in Users : x = job[w].user
  BY DEF CountOrders, TypeOK, JobOK, BookingSteps
<1>2. /\ ~AtOrderLimit(x) /\ UNCHANGED <<orderRow, expired>>
      /\ \A v \in Workers \ {w} : pc'[v] = pc[v] /\ job'[v] = job[v]
      /\ job'[w].user = x
  <2>1. PICK o \in OrderIds : job' = [job EXCEPT ![w].order = o]
    BY DEF CountOrders
  <2>2. job[w] \in Job /\ job'[w] = [job[w] EXCEPT !.order = o]
    BY <2>1 DEF TypeOK
  <2>3. job'[w].user = x
    BY <1>1, <2>2 DEF Job
  <2>4. QED
    BY <1>1, <2>1, <2>3 DEF CountOrders, Goto, dbVars, TypeOK
<1>3. \A u \in Users : ActiveOrders(u)' = ActiveOrders(u)
  BY <1>2 DEF ActiveOrders, Active, HasRow
<1>4. ASSUME NEW u \in Users
      PROVE  /\ IsFiniteSet(ActiveOrders(u)')
             /\ Cardinality(ActiveOrders(u)') + Cardinality(Counted(u)')
                  <= MaxOrders + (Cardinality(Workers) - 1)
  <2>1. CASE u = x
    <3>1. IsFiniteSet(ActiveOrders(u)) /\ ~(Cardinality(ActiveOrders(u)) >= MaxOrders)
      BY <1>2, <2>1 DEF LimitInv, AtOrderLimit
    <3>2. Cardinality(ActiveOrders(u)) \in Nat
      BY <3>1, FS_CardinalityType
    <3>3. Cardinality(Counted(u)') \in Nat /\ Cardinality(Counted(u)') <= Cardinality(Workers)
          /\ Cardinality(Workers) \in Nat /\ MaxOrders \in Nat
      BY CountedFinite, CountedFiniteNext
    <3>4. Cardinality(ActiveOrders(u)) + Cardinality(Counted(u)')
            <= MaxOrders + (Cardinality(Workers) - 1)
      BY <3>1, <3>2, <3>3
    <3>5. QED
      BY <1>3, <3>1, <3>4
  <2>2. CASE u # x
    <3>1. Counted(u)' \subseteq Counted(u)
      BY <1>2, <2>2 DEF Counted
    <3>2. QED
      BY <1>3, <3>1, LimitFrame
  <2>3. QED
    BY <2>1, <2>2
<1>5. QED
  BY <1>4 DEF LimitInv

\* A row inserted is one order more, and one booking fewer.
LEMMA InsertLimit ==
  ASSUME TypeOK, LimitInv, NEW w \in Workers, InsertOrder(w)
  PROVE  LimitInv'
<1>1. PICK x \in Users, o \in OrderIds : x = job[w].user /\ o = job[w].order
  BY DEF InsertOrder, TypeOK, JobOK, BookingSteps
<1>2. /\ pc[w] = "insert" /\ pc'[w] = "idle" /\ UNCHANGED expired
      /\ \A v \in Workers \ {w} : pc'[v] = pc[v] /\ job'[v] = job[v]
      /\ \A p \in OrderIds \ {o} : orderRow'[p] = orderRow[p]
  BY <1>1 DEF InsertOrder, Finish, TypeOK
<1>3. orderRow'[o].user = x
  <2>1. orderRow'[o] = [user |-> job[w].user, offer |-> job[w].offer]
    BY <1>1 DEF InsertOrder, TypeOK
  <2>2. QED
    BY <1>1, <2>1
<1>4. ASSUME NEW u \in Users
      PROVE  /\ IsFiniteSet(ActiveOrders(u)')
             /\ Cardinality(ActiveOrders(u)') + Cardinality(Counted(u)')
                  <= MaxOrders + (Cardinality(Workers) - 1)
  <2>1. CASE u = x
    <3>1. /\ IsFiniteSet(ActiveOrders(u)) /\ Cardinality(ActiveOrders(u)) \in Nat
          /\ Cardinality(ActiveOrders(u)) + Cardinality(Counted(u))
               <= MaxOrders + (Cardinality(Workers) - 1)
      BY FS_CardinalityType DEF LimitInv
    <3>2. ActiveOrders(u)' \in SUBSET (ActiveOrders(u) \cup {o})
      BY <1>2 DEF ActiveOrders, Active, HasRow
    <3>3. /\ IsFiniteSet(ActiveOrders(u) \cup {o})
          /\ Cardinality(ActiveOrders(u) \cup {o}) \in Nat
          /\ Cardinality(ActiveOrders(u) \cup {o}) <= Cardinality(ActiveOrders(u)) + 1
      <4>1. /\ IsFiniteSet(ActiveOrders(u) \cup {o})
            /\ \/ Cardinality(ActiveOrders(u) \cup {o}) = Cardinality(ActiveOrders(u))
               \/ Cardinality(ActiveOrders(u) \cup {o}) = Cardinality(ActiveOrders(u)) + 1
        BY <3>1, FS_AddElement
      <4>2. QED
        BY <3>1, <4>1
    <3>4. /\ IsFiniteSet(ActiveOrders(u)') /\ Cardinality(ActiveOrders(u)') \in Nat
          /\ Cardinality(ActiveOrders(u)') <= Cardinality(ActiveOrders(u) \cup {o})
      BY <3>2, <3>3, FS_Subset, FS_CardinalityType
    <3>5. Counted(u)' = Counted(u) \ {w} /\ w \in Counted(u)
      BY <1>1, <1>2, <2>1 DEF Counted, Booked
    <3>6. /\ IsFiniteSet(Counted(u)) /\ Cardinality(Counted(u)) \in Nat
          /\ Cardinality(Workers) \in Nat /\ MaxOrders \in Nat
      BY CountedFinite
    <3>7. Cardinality(Counted(u)') = Cardinality(Counted(u)) - 1
      BY <3>5, <3>6, FS_RemoveElement
    <3>8. QED
      BY <3>1, <3>3, <3>4, <3>6, <3>7
  <2>2. CASE u # x
    <3>1. Counted(u)' \subseteq Counted(u)
      BY <1>2 DEF Counted, Booked
    <3>2. ActiveOrders(u)' \subseteq ActiveOrders(u)
      BY <1>2, <1>3, <2>2 DEF ActiveOrders, Active, HasRow
    <3>3. QED
      BY <3>1, <3>2, LimitFrame
  <2>3. QED
    BY <2>1, <2>2
<1>5. QED
  BY <1>4 DEF LimitInv

\* Every step preserves the invariant.
LEMMA LimitStep ==
  ASSUME TypeOK, LimitInv, [Next]_vars
  PROVE  LimitInv'
<1> USE DEF Goto, Finish, NoJob, dbVars, history, Booked
<1>1. ASSUME \A o \in OrderIds : orderRow'[o] \in {orderRow[o], None},
             expired \subseteq expired',
             \A v \in Workers : pc'[v] \in Booked =>
               pc[v] \in Booked /\ job'[v].user = job[v].user
      PROVE  LimitInv'
  <2>1. \A u \in Users : ActiveOrders(u)' \subseteq ActiveOrders(u)
    BY <1>1 DEF ActiveOrders, Active, HasRow
  <2>2. \A u \in Users : Counted(u)' \subseteq Counted(u)
    BY <1>1 DEF Counted
  <2>3. QED
    BY <2>1, <2>2, LimitFrame DEF LimitInv
<1>2. CASE UNCHANGED vars
  BY <1>1, <1>2 DEF vars
<1>3. ASSUME NEW g \in Goods, AddGood(g) PROVE LimitInv'
  BY <1>1, <1>3 DEF AddGood
<1>4. ASSUME NEW t \in TxHashes, NEW o \in OrderIds, NEW m \in BOOLEAN, Pay(t, o, m)
      PROVE  LimitInv'
  BY <1>1, <1>4 DEF Pay
<1>5. ASSUME NEW o \in OrderIds, Expire(o) PROVE LimitInv'
  BY <1>1, <1>5 DEF Expire
<1>6. ASSUME NEW w \in Workers,
             \/ Crash(w) \/ Raise(w) \/ ListUnclaimed(w)
             \/ \E u \in Users, f \in Offers : Book(w, u, f)
             \/ \E t \in TxHashes : Redeem(w, t)
      PROVE  LimitInv'
  <2>1. /\ UNCHANGED <<orderRow, expired>> /\ pc'[w] \notin Booked
        /\ \A v \in Workers \ {w} : pc'[v] = pc[v] /\ job'[v] = job[v]
    BY <1>6 DEF Crash, Raise, RedeemSteps, ListUnclaimed, Book, Redeem, TypeOK
  <2>2. QED
    BY <1>1, <2>1
<1>7. ASSUME NEW w \in Workers,
             \/ RefuseBooking(w) \/ TooManyOrders(w) \/ OutOfGoods(w)
             \/ LookupOrder(w) \/ RefuseRedeem(w) \/ RecordTx(w) \/ RecordTxFails(w)
             \/ RereadOrder(w) \/ FindGood(w) \/ FindGoodFails(w) \/ FinalizeGood(w)
             \/ DeleteOrder(w) \/ Unlock(w)
             \/ AbortRelease(w) \/ EndRelease(w) \/ SearchGood(w) \/ FreeGood(w)
      PROVE  LimitInv'
  <2>1. /\ \A o \in OrderIds : orderRow'[o] \in {orderRow[o], None}
        /\ expired' = expired
    BY <1>7 DEF RefuseBooking, TooManyOrders, OutOfGoods, LookupOrder, RefuseRedeem, RecordTx,
                RecordTxFails, RereadOrder, FindGood, FindGoodFails, FinalizeGood, DeleteOrder,
                Unlock, AbortRelease, EndRelease, SearchGood, FreeGood, TypeOK
  <2>2. pc'[w] \notin Booked
    BY <1>7 DEF RefuseBooking, TooManyOrders, OutOfGoods, LookupOrder, RefuseRedeem, RecordTx,
                RecordTxFails, RereadOrder, FindGood, FindGoodFails, FinalizeGood, DeleteOrder,
                Unlock, AbortRelease, EndRelease, SearchGood, FreeGood, TypeOK
  <2>3. \A v \in Workers \ {w} : pc'[v] = pc[v] /\ job'[v] = job[v]
    BY <1>7 DEF RefuseBooking, TooManyOrders, OutOfGoods, LookupOrder, RefuseRedeem, RecordTx,
                RecordTxFails, RereadOrder, FindGood, FindGoodFails, FinalizeGood, DeleteOrder,
                Unlock, AbortRelease, EndRelease, SearchGood, FreeGood, TypeOK
  <2>4. QED
    BY <1>1, <2>1, <2>2, <2>3
<1>8. ASSUME NEW w \in Workers, CheckExpired(w) PROVE LimitInv'
  <2>1. /\ UNCHANGED <<orderRow, expired>> /\ pc'[w] \notin Booked
        /\ \A v \in Workers \ {w} : pc'[v] = pc[v] /\ job'[v] = job[v]
    BY <1>8 DEF CheckExpired, TypeOK
  <2>2. QED
    BY <1>1, <2>1
<1>9. ASSUME NEW w \in Workers, PickGood(w) \/ AssignGood(w) PROVE LimitInv'
  <2>1. /\ UNCHANGED <<orderRow, expired>> /\ pc[w] \in Booked
        /\ \A v \in Workers \ {w} : pc'[v] = pc[v] /\ job'[v] = job[v]
    BY <1>9 DEF PickGood, AssignGood, TypeOK
  <2>2. job'[w].user = job[w].user
    <3>1. CASE AssignGood(w)
      BY <3>1 DEF AssignGood
    <3>2. CASE PickGood(w)
      <4>1. PICK g \in Goods : job' = [job EXCEPT ![w].good = g]
        BY <3>2 DEF PickGood, FreeGoods, TypeOK
      <4>2. job[w] \in Job /\ job'[w] = [job[w] EXCEPT !.good = g]
        BY <4>1 DEF TypeOK
      <4>3. QED
        BY <4>2 DEF Job
    <3>3. QED
      BY <1>9, <3>1, <3>2
  <2>3. QED
    BY <1>1, <2>1, <2>2
<1>10. QED
  BY <1>2, <1>3, <1>4, <1>5, <1>6, <1>7, <1>8, <1>9, CountLimit, InsertLimit
  DEF Next, Continue

\* However bookings overlap, expire and fail, and in either isolation mode, a user
\* gets past the limit of active orders by less than one order per worker.
THEOREM OrdersLimit == Spec => []OrdersBounded
<1>1. Init => LimitInv
  <2> SUFFICES ASSUME Init, NEW u \in Users
               PROVE  /\ IsFiniteSet(ActiveOrders(u))
                      /\ Cardinality(ActiveOrders(u)) + Cardinality(Counted(u))
                           <= MaxOrders + (Cardinality(Workers) - 1)
    BY DEF LimitInv
  <2>1. ActiveOrders(u) = {} /\ Counted(u) = {}
    BY DEF Init, ActiveOrders, Active, HasRow, Counted, Booked
  <2>2. QED
    BY <2>1, FS_EmptySet, CountedFinite
<1>2. TypeOK /\ LimitInv /\ [Next]_vars => LimitInv'
  BY LimitStep
<1>3. LimitInv => OrdersBounded
  <2> SUFFICES ASSUME LimitInv, NEW u \in Users
               PROVE  Cardinality(ActiveOrders(u)) <= MaxOrders + Cardinality(Workers) - 1
    BY DEF OrdersBounded
  <2>1. /\ Cardinality(ActiveOrders(u)) \in Nat
        /\ Cardinality(ActiveOrders(u)) + Cardinality(Counted(u))
             <= MaxOrders + (Cardinality(Workers) - 1)
    BY FS_CardinalityType DEF LimitInv
  <2>2. QED
    BY <2>1, CountedFinite
<1>4. QED
  BY <1>1, <1>2, <1>3, TypeCorrect, PTL DEF Spec
=============================================================================
