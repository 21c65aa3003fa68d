------------------------------- MODULE Orders -------------------------------
(***************************************************************************)
(* Selling goods: POST /offer/book reserves one good (a gift card code)    *)
(* for a new order, the client pays on the blockchain with the order id    *)
(* in the memo, and POST /offer/redeem trades the transaction hash for the *)
(* good.  Orders live for ORDER_EXPIRATION_SECS; cron calls                *)
(* GET /good/release_unclaimed to put unpaid goods back in the pool.       *)
(*                                                                         *)
(* A worker is one uwsgi thread; it serves one request at a time, and      *)
(* each SQL statement, redis call and blockchain query of a handler is an  *)
(* action of its own, because nothing serialises the handlers.             *)
(***************************************************************************)
EXTENDS Naturals, FiniteSets

CONSTANTS
  Workers,     \* threads serving requests, of every server
  Users,
  Offers,
  Goods,       \* rows of table good that may ever exist
  OrderIds,    \* ids generate_order_id may ever produce (bounds the orders)
  TxHashes,    \* blockchain transactions that may ever exist
  OfferOf,     \* Goods -> Offers: the column good.offer_id
  MaxOrders,   \* config.MAX_SIMULTANEOUS_ORDERS_PER_USER
  AutoCommit,  \* TRUE in prod and stage: every statement is its own transaction
  Faulty,      \* processes may die and statements may fail
  Prompt,      \* no order expires while a redemption of it is being processed
  None         \* SQL NULL, or no value

ASSUME OrdersAssumption ==
  /\ OfferOf \in [Goods -> Offers]
  /\ MaxOrders \in Nat
  /\ AutoCommit \in BOOLEAN /\ Faulty \in BOOLEAN /\ Prompt \in BOOLEAN
  /\ None \notin Workers \cup Users \cup Offers \cup Goods \cup OrderIds \cup TxHashes

ASSUME WorkersAssumption == Workers # {} /\ IsFiniteSet(Workers)

VARIABLES
  stock,        \* rows present in table good
  goodOrder,    \* column good.order_id
  goodTx,       \* column good.tx_hash
  orderRow,     \* table order, by order_id; None when there is no such row
  expired,      \* order ids whose created_at is older than ORDER_EXPIRATION_SECS
  usedIds,      \* order ids generated so far
  chain,        \* payments on the blockchain, by hash
  txTable,      \* table transaction: the order_id in tx_info, by hash
  redeemLocks,  \* hashes whose redis key redeem:<tx_hash> is set
  pc,           \* where each worker stands in its handler
  job,          \* the local variables of each worker's handler
  todo,         \* goods a release_unclaimed run has still to visit
  delivered,    \* history: goods handed out, with their order and payment
  lateReleased  \* history: goods released after they had been finalized

dbVars == <<stock, goodOrder, goodTx, orderRow, txTable>>
history == <<delivered, lateReleased>>
vars == <<stock, goodOrder, goodTx, orderRow, expired, usedIds, chain, txTable,
          redeemLocks, pc, job, todo, delivered, lateReleased>>

-----------------------------------------------------------------------------

BookingSteps == {"count", "pick", "assign", "insert"}
RedeemSteps == {"lookup", "record", "reread", "find", "finalize", "delete", "unlock"}
ReleaseSteps == {"sweep", "search", "free"}
Steps == {"idle"} \cup BookingSteps \cup RedeemSteps \cup ReleaseSteps

Order == [user : Users, offer : Offers]
Payment == [order : OrderIds, matches : BOOLEAN]
Delivery == [good : Goods, order : OrderIds, tx : TxHashes]

ASSUME NoneAssumption == None \notin Order \cup Payment

\* fresh: the session has committed since the run listed its goods, so the
\* attributes of the listed objects are re-read from the database when used.
Job == [user : Users \cup {None}, offer : Offers \cup {None},
        order : OrderIds \cup {None}, good : Goods \cup {None},
        tx : TxHashes \cup {None}, fresh : BOOLEAN]
NoJob == [user |-> None, offer |-> None, order |-> None, good |-> None,
          tx |-> None, fresh |-> FALSE]

\* The local variables a handler has set by the time it reaches a step.
JobOK(w) ==
  /\ pc[w] \in BookingSteps => job[w].user \in Users /\ job[w].offer \in Offers
  /\ pc[w] \in RedeemSteps => job[w].tx \in TxHashes
  /\ pc[w] \in {"pick", "assign", "insert", "record", "reread", "find", "finalize",
                "delete", "search", "free"} => job[w].order \in OrderIds
  /\ pc[w] \in {"assign", "finalize", "free"} => job[w].good \in Goods

TypeOK ==
  /\ stock \subseteq Goods
  /\ goodOrder \in [Goods -> OrderIds \cup {None}]
  /\ goodTx \in [Goods -> TxHashes \cup {None}]
  /\ orderRow \in [OrderIds -> Order \cup {None}]
  /\ expired \subseteq OrderIds
  /\ usedIds \subseteq OrderIds
  /\ chain \in [TxHashes -> Payment \cup {None}]
  /\ txTable \in [TxHashes -> OrderIds \cup {None}]
  /\ redeemLocks \subseteq TxHashes
  /\ pc \in [Workers -> Steps]
  /\ job \in [Workers -> Job]
  /\ todo \in [Workers -> SUBSET (Goods \X OrderIds)]
  /\ delivered \subseteq Delivery
  /\ lateReleased \subseteq Goods
  /\ \A w \in Workers : JobOK(w)

Init ==
  /\ stock = {}
  /\ goodOrder = [g \in Goods |-> None]
  /\ goodTx = [g \in Goods |-> None]
  /\ orderRow = [o \in OrderIds |-> None]
  /\ expired = {}
  /\ usedIds = {}
  /\ chain = [t \in TxHashes |-> None]
  /\ txTable = [t \in TxHashes |-> None]
  /\ redeemLocks = {}
  /\ pc = [w \in Workers |-> "idle"]
  /\ job = [w \in Workers |-> NoJob]
  /\ todo = [w \in Workers |-> {}]
  /\ delivered = {}
  /\ lateReleased = {}

-----------------------------------------------------------------------------

(* Operators named ...Broken are the code with one plausible mistake in it; *)
(* no action uses them.  They show that a property notices the mistake.      *)

HasRow(o) == o \in OrderIds /\ orderRow[o] # None

\* has_expired, when there is a row.
HasExpiredBroken(o) == HasRow(o)
HasExpired(o) == HasRow(o) /\ o \in expired

Active(o) == HasRow(o) /\ o \notin expired
ActiveOrders(u) == {o \in OrderIds : Active(o) /\ orderRow[o].user = u}
AtOrderLimitBroken(u) == Cardinality(ActiveOrders(u)) > MaxOrders
AtOrderLimit(u) == Cardinality(ActiveOrders(u)) >= MaxOrders
FreeGoods(f) == {g \in stock : OfferOf[g] = f /\ goodOrder[g] = None}
GoodsOf(o) == {g \in stock : goodOrder[g] = o}

\* Allocated and not paid for: the query of release_unclaimed_goods.
UnclaimedGoodsBroken == {g \in stock : goodTx[g] = None}
UnclaimedGoodsSwapped == {g \in stock : goodTx[g] # None /\ goodOrder[g] # None}
UnclaimedGoods == {g \in stock : goodTx[g] = None /\ goodOrder[g] # None}

\* SELECT ... FOR UPDATE keeps a row locked until its transaction ends; under
\* AUTOCOMMIT that is the end of the SELECT itself.
RowLockedBroken(g) == g \notin Goods
RowLocked(g) ==
  /\ ~AutoCommit
  /\ \E w \in Workers : pc[w] \in {"assign", "finalize", "free"} /\ job[w].good = g

\* The handler returns, with a response or an exception.
Finish(w) ==
  /\ pc' = [pc EXCEPT ![w] = "idle"]
  /\ job' = [job EXCEPT ![w] = NoJob]

Goto(w, step) == pc' = [pc EXCEPT ![w] = step]

-----------------------------------------------------------------------------
(* The world outside the handlers. *)

\* POST /good/add and the gift card replenishment: a new row, unallocated.
AddGood(g) ==
  /\ g \notin stock
  /\ stock' = stock \cup {g}
  /\ UNCHANGED <<goodOrder, goodTx, orderRow, expired, usedIds, chain, txTable,
                 redeemLocks, pc, job, todo, history>>

\* The client pays for an order it was given: to the right address with the
\* right amount (matches) or not.
Pay(t, o, matches) ==
  /\ chain[t] = None
  /\ orderRow[o] # None
  /\ chain' = [chain EXCEPT ![t] = [order |-> o, matches |-> matches]]
  /\ UNCHANGED <<dbVars, expired, usedIds, redeemLocks, pc, job, todo, history>>

\* ORDER_EXPIRATION_SECS have passed since the order was created.
Expire(o) ==
  /\ Active(o)
  /\ Prompt => \A w \in Workers : ~(pc[w] \in RedeemSteps /\ job[w].order = o)
  /\ expired' = expired \cup {o}
  /\ UNCHANGED <<dbVars, usedIds, chain, redeemLocks, pc, job, todo, history>>

\* The process serving the request dies: no later step of the handler runs, not
\* even lock.release().  Uncommitted row locks are dropped.
Crash(w) ==
  /\ Faulty
  /\ pc[w] # "idle"
  /\ Finish(w)
  /\ todo' = [todo EXCEPT ![w] = {}]
  /\ UNCHANGED <<dbVars, expired, usedIds, chain, redeemLocks, history>>

\* A statement or a call of the handler raises: the handler ends with an error,
\* a redemption by way of the finally that releases its lock.
Raise(w) ==
  /\ Faulty
  /\ pc[w] \notin {"idle", "unlock"}
  /\ IF pc[w] \in RedeemSteps
       THEN Goto(w, "unlock") /\ UNCHANGED <<job, todo>>
       ELSE Finish(w) /\ todo' = [todo EXCEPT ![w] = {}]
  /\ UNCHANGED <<dbVars, expired, usedIds, chain, redeemLocks, history>>

-----------------------------------------------------------------------------
(* POST /offer/book: book_offer_api, create_order, allocate_good. *)

\* book_offer_api found a good of the offer: goods_avilable.
Book(w, u, f) ==
  /\ pc[w] = "idle"
  /\ FreeGoods(f) # {}
  /\ Goto(w, "count")
  /\ job' = [job EXCEPT ![w] = [NoJob EXCEPT !.user = u, !.offer = f]]
  /\ UNCHANGED <<dbVars, expired, usedIds, chain, redeemLocks, todo, history>>

\* The checks on data kept elsewhere refuse: the offer is not active, the
\* balance is too low, the offer is locked for this user, the user is not
\* authenticated, not verified, blocked or blacklisted.
RefuseBooking(w) ==
  /\ pc[w] = "count"
  /\ Finish(w)
  /\ UNCHANGED <<dbVars, expired, usedIds, chain, redeemLocks, todo, history>>

\* create_order counts the user's active orders and makes up an order id.
CountOrders(w) ==
  /\ pc[w] = "count"
  /\ ~AtOrderLimit(job[w].user)
  /\ \E o \in OrderIds \ usedIds :
       /\ usedIds' = usedIds \cup {o}
       /\ job' = [job EXCEPT ![w].order = o]
  /\ Goto(w, "pick")
  /\ UNCHANGED <<dbVars, expired, chain, redeemLocks, todo, history>>

\* ERROR_ORDERS_COOLDOWN.
TooManyOrders(w) ==
  /\ pc[w] = "count"
  /\ AtOrderLimit(job[w].user)
  /\ Finish(w)
  /\ UNCHANGED <<dbVars, expired, usedIds, chain, redeemLocks, todo, history>>

\* allocate_good selects any unallocated good of the offer, FOR UPDATE.
PickGood(w) ==
  /\ pc[w] = "pick"
  /\ \E g \in FreeGoods(job[w].offer) :
       /\ ~RowLocked(g)
       /\ job' = [job EXCEPT ![w].good = g]
  /\ Goto(w, "assign")
  /\ UNCHANGED <<dbVars, expired, usedIds, chain, redeemLocks, todo, history>>

\* ERROR_NO_GOODS.
OutOfGoods(w) ==
  /\ pc[w] = "pick"
  /\ FreeGoods(job[w].offer) = {}
  /\ Finish(w)
  /\ UNCHANGED <<dbVars, expired, usedIds, chain, redeemLocks, todo, history>>

\* allocate_good updates the selected row and commits.
AssignGood(w) ==
  /\ pc[w] = "assign"
  /\ goodOrder' = [goodOrder EXCEPT ![job[w].good] = job[w].order]
  /\ Goto(w, "insert")
  /\ UNCHANGED <<stock, goodTx, orderRow, txTable, expired, usedIds, chain,
                 redeemLocks, job, todo, history>>

\* create_order inserts the order row and answers with the order id.
InsertOrder(w) ==
  /\ pc[w] = "insert"
  /\ orderRow' = [orderRow EXCEPT ![job[w].order] =
                    [user |-> job[w].user, offer |-> job[w].offer]]
  /\ Finish(w)
  /\ UNCHANGED <<stock, goodOrder, goodTx, txTable, expired, usedIds, chain,
                 redeemLocks, todo, history>>

-----------------------------------------------------------------------------
(* POST /offer/redeem: purchase_api, process_order, create_tx, finalize_good, *)
(* delete_order.                                                              *)

\* purchase_api takes the lock redeem:<tx_hash>, which never expires.  When it
\* is taken the request fails and changes nothing.
Redeem(w, t) ==
  /\ pc[w] = "idle"
  /\ t \notin redeemLocks
  /\ redeemLocks' = redeemLocks \cup {t}
  /\ Goto(w, "lookup")
  /\ job' = [job EXCEPT ![w] = [NoJob EXCEPT !.tx = t]]
  /\ UNCHANGED <<dbVars, expired, usedIds, chain, todo, history>>

\* The payment of t names an active order, and its address and amount match.
PaysActiveOrderBroken(t) == chain[t] # None /\ Active(chain[t].order)
PaysActiveOrder(t) ==
  chain[t] # None /\ chain[t].matches /\ Active(chain[t].order)

LookupOrder(w) ==
  /\ pc[w] = "lookup"
  /\ PaysActiveOrder(job[w].tx)
  /\ job' = [job EXCEPT ![w].order = chain[job[w].tx].order]
  /\ Goto(w, "record")
  /\ UNCHANGED <<dbVars, expired, usedIds, chain, redeemLocks, todo, history>>

\* process_order gives up: no payment in STELLAR_TIMEOUT_SEC, no active order,
\* or the wrong address or amount.
RefuseRedeemBroken(w) ==
  /\ pc[w] = "lookup"
  /\ ~PaysActiveOrder(job[w].tx)
  /\ Finish(w)
  /\ UNCHANGED <<dbVars, expired, usedIds, chain, redeemLocks, todo, history>>

RefuseRedeem(w) ==
  /\ pc[w] = "lookup"
  /\ ~PaysActiveOrder(job[w].tx)
  /\ Goto(w, "unlock")
  /\ UNCHANGED <<dbVars, expired, usedIds, chain, redeemLocks, job, todo, history>>

\* The primary key of table transaction is the hash.
RecordedBroken(t) == t \notin TxHashes
Recorded(t) == txTable[t] # None

\* create_tx inserts the payment.
RecordTx(w) ==
  /\ pc[w] = "record"
  /\ ~Recorded(job[w].tx)
  /\ txTable' = [txTable EXCEPT ![job[w].tx] = job[w].order]
  /\ Goto(w, "reread")
  /\ UNCHANGED <<stock, goodOrder, goodTx, orderRow, expired, usedIds, chain,
                 redeemLocks, job, todo, history>>

\* create_tx swallows the duplicate key error but leaves the session in a
\* failed transaction: reading order.order_id next raises.
RecordTxFails(w) ==
  /\ pc[w] = "record"
  /\ Recorded(job[w].tx)
  /\ Goto(w, "unlock")
  /\ UNCHANGED <<dbVars, expired, usedIds, chain, redeemLocks, job, todo, history>>

\* The commit in create_tx expired the order object: order.order_id selects
\* the row again, and raises if another redemption has deleted it.
RereadOrder(w) ==
  /\ pc[w] = "reread"
  /\ Goto(w, IF HasRow(job[w].order) THEN "find" ELSE "unlock")
  /\ UNCHANGED <<dbVars, expired, usedIds, chain, redeemLocks, job, todo, history>>

\* finalize_good selects the good of the order, FOR UPDATE, with .one().
FindGood(w) ==
  /\ pc[w] = "find"
  /\ \E g \in GoodsOf(job[w].order) :
       /\ ~RowLocked(g)
       /\ job' = [job EXCEPT ![w].good = g]
  /\ Goto(w, "finalize")
  /\ UNCHANGED <<dbVars, expired, usedIds, chain, redeemLocks, todo, history>>

\* No such good: finalize_good raises InternalError.
FindGoodFails(w) ==
  /\ pc[w] = "find"
  /\ GoodsOf(job[w].order) = {}
  /\ Goto(w, "unlock")
  /\ UNCHANGED <<dbVars, expired, usedIds, chain, redeemLocks, job, todo, history>>

\* finalize_good writes tx_hash and commits; the client gets the good's value.
FinalizeGoodBroken(w) ==
  /\ pc[w] = "finalize"
  /\ delivered' = delivered \cup
       {[good |-> job[w].good, order |-> job[w].order, tx |-> job[w].tx]}
  /\ Goto(w, "delete")
  /\ UNCHANGED <<dbVars, expired, usedIds, chain, redeemLocks, job, todo, lateReleased>>

FinalizeGood(w) ==
  /\ pc[w] = "finalize"
  /\ goodTx' = [goodTx EXCEPT ![job[w].good] = job[w].tx]
  /\ delivered' = delivered \cup
       {[good |-> job[w].good, order |-> job[w].order, tx |-> job[w].tx]}
  /\ Goto(w, "delete")
  /\ UNCHANGED <<stock, goodOrder, orderRow, txTable, expired, usedIds, chain,
                 redeemLocks, job, todo, lateReleased>>

\* delete_order; process_order swallows its exceptions, so the row may stay.
DeleteOrder(w) ==
  /\ pc[w] = "delete"
  /\ \/ orderRow' = [orderRow EXCEPT ![job[w].order] = None]
     \/ Faulty /\ UNCHANGED orderRow
  /\ Goto(w, "unlock")
  /\ UNCHANGED <<stock, goodOrder, goodTx, txTable, expired, usedIds, chain,
                 redeemLocks, job, todo, history>>

\* purchase_api: finally lock.release().
Unlock(w) ==
  /\ pc[w] = "unlock"
  /\ redeemLocks' = redeemLocks \ {job[w].tx}
  /\ Finish(w)
  /\ UNCHANGED <<dbVars, expired, usedIds, chain, todo, history>>

-----------------------------------------------------------------------------
(* GET /good/release_unclaimed, from cron every minute: release_unclaimed_goods, *)
(* has_expired, release_good.  Nothing keeps two runs from overlapping.          *)

ListUnclaimed(w) ==
  /\ pc[w] = "idle"
  /\ todo' = [todo EXCEPT ![w] = {<<g, goodOrder[g]>> : g \in UnclaimedGoods}]
  /\ Goto(w, "sweep")
  /\ UNCHANGED <<dbVars, expired, usedIds, chain, redeemLocks, job, history>>

\* good.order_id of a listed good, as the session sees it.
ListedOrder(w, entry) == IF job[w].fresh THEN goodOrder[entry[1]] ELSE entry[2]

\* has_expired(good.order_id) for the next good of the list.
CheckExpired(w) ==
  /\ pc[w] = "sweep"
  /\ \E entry \in todo[w] :
       LET o == ListedOrder(w, entry) IN
       /\ HasRow(o)
       /\ todo' = [todo EXCEPT ![w] = @ \ {entry}]
       /\ \/ /\ HasExpired(o)
             /\ job' = [job EXCEPT ![w].order = o]
             /\ Goto(w, "search")
          \/ /\ ~HasExpired(o)
             /\ UNCHANGED <<pc, job>>
  /\ UNCHANGED <<dbVars, expired, usedIds, chain, redeemLocks, history>>

\* has_expired finds no order row: .one() raises and the whole run ends.
AbortRelease(w) ==
  /\ pc[w] = "sweep"
  /\ \E entry \in todo[w] : ~HasRow(ListedOrder(w, entry))
  /\ Finish(w)
  /\ todo' = [todo EXCEPT ![w] = {}]
  /\ UNCHANGED <<dbVars, expired, usedIds, chain, redeemLocks, history>>

EndRelease(w) ==
  /\ pc[w] = "sweep"
  /\ todo[w] = {}
  /\ Finish(w)
  /\ UNCHANGED <<dbVars, expired, usedIds, chain, redeemLocks, todo, history>>

\* release_good selects the good of the order, FOR UPDATE.  When there is none
\* it rolls back and returns False, which its caller ignores.
SearchGood(w) ==
  /\ pc[w] = "search"
  /\ \/ /\ \E g \in GoodsOf(job[w].order) :
             /\ ~RowLocked(g)
             /\ job' = [job EXCEPT ![w].good = g]
        /\ Goto(w, "free")
     \/ /\ GoodsOf(job[w].order) = {}
        /\ job' = [job EXCEPT ![w] = [NoJob EXCEPT !.fresh = TRUE]]
        /\ Goto(w, "sweep")
  /\ UNCHANGED <<dbVars, expired, usedIds, chain, redeemLocks, todo, history>>

\* release_good clears order_id, whatever tx_hash says, and commits.
FreeGood(w) ==
  /\ pc[w] = "free"
  /\ LET g == job[w].good IN
       /\ goodOrder' = [goodOrder EXCEPT ![g] = None]
       /\ lateReleased' = IF goodTx[g] = None THEN lateReleased ELSE lateReleased \cup {g}
  /\ job' = [job EXCEPT ![w] = [NoJob EXCEPT !.fresh = TRUE]]
  /\ Goto(w, "sweep")
  /\ UNCHANGED <<stock, goodTx, orderRow, txTable, expired, usedIds, chain,
                 redeemLocks, todo, delivered>>

-----------------------------------------------------------------------------

\* One step of the handler a busy worker is running.
Continue(w) ==
  \/ RefuseBooking(w) \/ CountOrders(w) \/ TooManyOrders(w)
  \/ PickGood(w) \/ OutOfGoods(w) \/ AssignGood(w) \/ InsertOrder(w)
  \/ LookupOrder(w) \/ RefuseRedeem(w) \/ RecordTx(w) \/ RecordTxFails(w)
  \/ RereadOrder(w) \/ FindGood(w) \/ FindGoodFails(w) \/ FinalizeGood(w)
  \/ DeleteOrder(w) \/ Unlock(w)
  \/ CheckExpired(w) \/ AbortRelease(w) \/ EndRelease(w) \/ SearchGood(w) \/ FreeGood(w)

Next ==
  \/ \E g \in Goods : AddGood(g)
  \/ \E t \in TxHashes, o \in OrderIds, matches \in BOOLEAN : Pay(t, o, matches)
  \/ \E o \in OrderIds : Expire(o)
  \/ \E w \in Workers :
       \/ Crash(w)
       \/ Raise(w)
       \/ \E u \in Users, f \in Offers : Book(w, u, f)
       \/ \E t \in TxHashes : Redeem(w, t)
       \/ ListUnclaimed(w)
       \/ Continue(w)

Spec == Init /\ [][Next]_vars

\* uwsgi keeps running the threads it started, and a waiting request gets a
\* worker once one is free again and again: cron's request is never starved.
Fairness ==
  /\ \A w \in Workers : WF_vars(Continue(w))
  /\ SF_vars(\E w \in Workers : ListUnclaimed(w))

FairSpec == Spec /\ Fairness

-----------------------------------------------------------------------------
(* Properties. *)

\* A redemption between create_tx and the end of finalize_good.
RecordedSteps == {"reread", "find", "finalize"}

\* An order the client may still pay for has a good of its offer put aside:
\* create_order "creates a new order and allocate the goods for it".
ActiveOrderHasGood ==
  \A o \in OrderIds :
    Active(o) => \E g \in GoodsOf(o) : OfferOf[g] = orderRow[o].offer

\* No allocation takes over a good another order holds, and release_good takes
\* a good only from an order that has expired.
GoodLeavesOnlyExpiredOrder ==
  [][\A g \in Goods :
       goodOrder[g] # None /\ goodOrder'[g] # goodOrder[g]
         => goodOrder'[g] = None /\ goodOrder[g] \in expired]_vars

\* One gift card code reaches the buyers of two different orders only if
\* release_good took it back after finalize_good had marked it as used-up.
ResaleOnlyAfterLateRelease ==
  \A d, e \in delivered :
    d.good = e.good /\ d.order # e.order => d.good \in lateReleased

\* A good that finalize_good has marked as used-up stays with an order, so that
\* allocate_good never picks it again.
UsedUpStaysTaken == \A g \in Goods : goodTx[g] # None => goodOrder[g] # None

\* What is handed out was paid for: the transaction is on the blockchain, pays
\* for that very order, and has been recorded in table transaction.
DeliveryPaidFor ==
  \A d \in delivered :
    /\ chain[d.tx] = [order |-> d.order, matches |-> TRUE]
    /\ txTable[d.tx] = d.order

\* finalize_good runs to its end at most once for each transaction hash, however
\* often the client sends it and whatever fails in between.
TxHandedOutOnce ==
  [][\A w \in Workers :
       pc[w] = "finalize" /\ pc'[w] = "delete"
         => \A d \in delivered : d.tx # job[w].tx]_vars

\* The count in create_order is not atomic with the insert, so a user can get
\* past MAX_SIMULTANEOUS_ORDERS_PER_USER, but by less than one order per worker.
OrdersBounded ==
  \A u \in Users :
    Cardinality(ActiveOrders(u)) <= MaxOrders + Cardinality(Workers) - 1

\* A redemption lock is held only while a worker processes that transaction:
\* purchase_api refuses a hash because it is "already being processed".
LockMeansProcessing ==
  \A t \in redeemLocks : \E w \in Workers : pc[w] \in RedeemSteps /\ job[w].tx = t

\* release_unclaimed_goods gets to every good whose order expired unpaid.
UnclaimedReleased ==
  \A g \in Goods, o \in OrderIds :
    (goodOrder[g] = o /\ goodTx[g] = None /\ o \in expired)
      ~> (goodOrder[g] # o \/ goodTx[g] # None)

\* Once create_tx has recorded a payment no retry gets past it, so the redemption
\* that recorded it has to get to the end: unless another payment names the same
\* order, the good has been handed out, or is about to be.
SolePayment(t, o) == \A s \in TxHashes \ {t} : chain[s] # None => chain[s].order # o
InDelivery(t) == \E w \in Workers : pc[w] \in RecordedSteps /\ job[w].tx = t
RecordedIsServed ==
  \A t \in TxHashes :
    txTable[t] # None /\ SolePayment(t, txTable[t])
      => InDelivery(t) \/ \E d \in delivered : d.tx = t

\* With row locks held to the commit, no failures, and redemptions that end
\* before their order expires, the goods table is the abstract inventory.
Promise == INSTANCE Inventory WITH
  holder <- goodOrder,
  sold <- {g \in Goods : goodTx[g] # None},
  lapsed <- expired
ImplementsInventory == Promise!Spec

-----------------------------------------------------------------------------
(* Inductive invariants behind the properties. *)

PaidSteps == {"record", "reread", "find", "finalize", "delete"}
Booked == {"pick", "assign", "insert"}
Holding == {"assign", "finalize", "free"}

\* Where a redemption that recorded its payment can fail: its order has its row,
\* with the good of ActiveOrderHasGood, until it deletes the row itself.
ServedInv ==
  /\ RecordedIsServed
  /\ \A w \in Workers :
       /\ pc[w] = "record" /\ SolePayment(job[w].tx, job[w].order) =>
            HasRow(job[w].order) \/ Recorded(job[w].tx)
       /\ pc[w] \in RecordedSteps /\ SolePayment(job[w].tx, job[w].order) =>
            HasRow(job[w].order)
       /\ pc[w] = "delete" => \E d \in delivered : d.tx = job[w].tx

\* A worker past create_tx owns its hash: the row in table transaction is its
\* own, nothing was handed out for it, and no other worker is as far with it.
RedeemInv ==
  /\ DeliveryPaidFor
  /\ \A w \in Workers :
       /\ pc[w] \in PaidSteps =>
            chain[job[w].tx] = [order |-> job[w].order, matches |-> TRUE]
       /\ pc[w] \in RecordedSteps =>
            /\ txTable[job[w].tx] = job[w].order
            /\ \A d \in delivered : d.tx # job[w].tx
            /\ \A v \in Workers \ {w} :
                 pc[v] \in RecordedSteps => job[v].tx # job[w].tx

\* With row locks: the row a worker is about to update is as it was selected.
RowsInv ==
  \A w \in Workers :
    /\ pc[w] \in Holding =>
         /\ job[w].good \in stock
         /\ \A v \in Workers \ {w} : pc[v] \in Holding => job[v].good # job[w].good
    /\ pc[w] = "assign" =>
         goodOrder[job[w].good] = None /\ OfferOf[job[w].good] = job[w].offer
    /\ pc[w] \in {"finalize", "free"} => goodOrder[job[w].good] = job[w].order
    /\ pc[w] \in {"search", "free"} => job[w].order \in expired

\* An order id belongs to one booking, and has neither row nor age before the
\* booking ends; from allocate_good on it has its good.
BookingInv ==
  /\ \A o \in OrderIds : HasRow(o) \/ o \in expired => o \in usedIds
  /\ \A w \in Workers :
       /\ pc[w] \in Booked =>
            /\ job[w].order \in usedIds \ expired
            /\ ~HasRow(job[w].order)
            /\ \A v \in Workers \ {w} : pc[v] \in Booked => job[v].order # job[w].order
       /\ pc[w] = "insert" =>
            \E g \in GoodsOf(job[w].order) : OfferOf[g] = job[w].offer

\* A delivered good is still with its order, marked, unless release_good took it.
SoldInv ==
  \A d \in delivered :
    \/ d.good \in lateReleased
    \/ goodOrder[d.good] = d.order /\ goodTx[d.good] # None

AllocationInv == RowsInv /\ BookingInv /\ ActiveOrderHasGood /\ SoldInv

=============================================================================
