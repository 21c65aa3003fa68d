---------------------------- MODULE GiftCardsProofs ----------------------------
(***************************************************************************)
(* Theorems about the gift cards, for every set of workers, orders, cards  *)
(* and offers, however jobs overlap and whatever fails.                    *)
(***************************************************************************)
EXTENDS GiftCards, FiniteSetTheorems, TLAPS

Ordering == {"add", "complete"}
Converting == {"card", "insert"}
Between == {"idle", "refresh", "list", "status", "balance", "offer"}

\* What a job knows of the order it is at: one that it converts was processed, one
\* that it fills is its own, with the cards it has added.
JobOK(w) ==
  LET j == cardJob[w] IN
  /\ j.listed \subseteq rows
  /\ cardStep[w] \in Between => j.left = {}
  /\ cardStep[w] \in Converting \cup Ordering \cup {"store"} => j.order \in Orders
  /\ cardStep[w] = "insert" => j.card \in Cards
  /\ cardStep[w] \in Converting => bh[j.order].status = "processed"
  /\ cardStep[w] \in Ordering => bh[j.order].status = "incomplete" /\ j.left = bh[j.order].cards
  /\ cardStep[w] = "store" => bh[j.order].status # "none" /\ j.left \subseteq bh[j.order].cards

OwnOrders ==
  \A v, w \in Workers : v # w /\ cardStep[v] \in Ordering /\ cardStep[w] \in Ordering =>
    cardJob[v].order # cardJob[w].order

CardsApart == \A o, p \in Orders : o # p => bh[o].cards \cap bh[p].cards = {}

GiftCardsInv == GiftCardsTypeOK /\ (\A w \in Workers : JobOK(w)) /\ OwnOrders /\ CardsApart

-----------------------------------------------------------------------------

\* The local variables of an idle worker.
LEMMA NoCardJobType == NoCardJob \in CardJob
BY DEF NoCardJob, CardJob

\* One job moves on with local variables that have their types.
LEMMA CardJobMoves ==
  ASSUME GiftCardsTypeOK, NEW w \in Workers, NEW s \in CardSteps, NEW j \in CardJob,
         cardStep' = [cardStep EXCEPT ![w] = s] \/ (cardStep' = cardStep /\ s = cardStep[w]),
         cardJob' = [cardJob EXCEPT ![w] = j] \/ (cardJob' = cardJob /\ j = cardJob[w])
  PROVE  /\ cardStep' \in [Workers -> CardSteps] /\ cardJob' \in [Workers -> CardJob]
         /\ cardStep'[w] = s /\ cardJob'[w] = j
         /\ \A v \in Workers \ {w} : cardStep'[v] = cardStep[v] /\ cardJob'[v] = cardJob[v]
BY DEF GiftCardsTypeOK

\* What may become of an order while the job of v is at another one, or has no more
\* than its rows to write.
Undisturbed(v, o) ==
  \/ bh'[o] = bh[o]
  \/ bh[o].status = "none"
  \/ /\ bh[o].status \notin {"none", "processed"} /\ bh'[o].status # "none"
     /\ bh[o].cards \subseteq bh'[o].cards
     /\ bh[o].status = "incomplete" /\ cardStep[v] \in Ordering => cardJob[v].order # o

\* A job keeps what it knows when another one takes a step.
LEMMA OtherJobKept ==
  ASSUME GiftCardsInv, NEW v \in Workers,
         cardStep'[v] = cardStep[v], cardJob'[v] = cardJob[v], rows \subseteq rows',
         \A o \in Orders : Undisturbed(v, o)
  PROVE  JobOK(v)'
<1> DEFINE o == cardJob[v].order
<1>1. JobOK(v)
  BY DEF GiftCardsInv
<1>2. CASE cardStep[v] \in Converting
  <2>1. o \in Orders /\ bh'[o] = bh[o]
    BY <1>1, <1>2 DEF JobOK, Undisturbed
  <2> QED
    BY <1>1, <1>2, <2>1 DEF JobOK, Converting, Ordering, Between
<1>3. CASE cardStep[v] \in Ordering
  <2>1. o \in Orders /\ bh'[o] = bh[o]
    BY <1>1, <1>3 DEF JobOK, Undisturbed
  <2> QED
    BY <1>1, <1>3, <2>1 DEF JobOK, Converting, Ordering, Between
<1>4. CASE cardStep[v] = "store"
  <2>1. /\ o \in Orders /\ bh'[o].status # "none" /\ bh[o].cards \subseteq bh'[o].cards
    BY <1>1, <1>4 DEF JobOK, Undisturbed
  <2> QED
    BY <1>1, <1>4, <2>1 DEF JobOK, Converting, Ordering, Between
<1>5. CASE cardStep[v] \notin Converting \cup Ordering \cup {"store"}
  BY <1>1, <1>5 DEF JobOK, Converting, Ordering, Between
<1> QED
  BY <1>2, <1>3, <1>4, <1>5

\* A job moves on, and leaves the orders at Blackhawk as they are.
LEMMA LocalStep ==
  ASSUME GiftCardsInv, NEW w \in Workers, NEW s \in CardSteps, NEW j \in CardJob,
         cardStep' = [cardStep EXCEPT ![w] = s] \/ (cardStep' = cardStep /\ s = cardStep[w]),
         cardJob' = [cardJob EXCEPT ![w] = j] \/ (cardJob' = cardJob /\ j = cardJob[w]),
         s \notin Ordering, bh' = bh, rows \subseteq rows',
         JobOK(w)',
         rows' \subseteq Cards, processed' \subseteq rows', goods' \in [Cards -> Nat],
         sold' \subseteq Cards, skipped' \subseteq Cards, abandoned' \subseteq Orders,
         bhToken' \in BOOLEAN
  PROVE  GiftCardsInv'
<1>1. /\ cardStep' \in [Workers -> CardSteps] /\ cardJob' \in [Workers -> CardJob]
      /\ cardStep'[w] = s /\ cardJob'[w] = j
      /\ \A v \in Workers \ {w} : cardStep'[v] = cardStep[v] /\ cardJob'[v] = cardJob[v]
  BY CardJobMoves DEF GiftCardsInv
<1>2. \A v \in Workers : JobOK(v)'
  BY <1>1, OtherJobKept DEF Undisturbed
<1>3. OwnOrders'
  BY <1>1 DEF GiftCardsInv, OwnOrders
<1>4. CardsApart'
  BY DEF GiftCardsInv, CardsApart
<1> QED
  BY <1>1, <1>2, <1>3, <1>4 DEF GiftCardsInv, GiftCardsTypeOK

\* The steps of a job up to the end of track_orders.
LEMMA TrackKeepsInv ==
  ASSUME GiftCardsInv, NEW w \in Workers,
         \/ BeginReplenish(w) \/ RefreshToken(w) \/ ListUnprocessed(w) \/ AskStatus(w)
         \/ FetchCard(w) \/ InsertGood(w) \/ MarkProcessed(w)
  PROVE  GiftCardsInv'
<1> USE DEF CardGoto, SetCardJob, cardTables
<1> DEFINE k == cardJob[w]
<1>0. /\ GiftCardsTypeOK /\ JobOK(w) /\ k \in CardJob /\ k.listed \subseteq rows
      /\ k.listed \subseteq Cards /\ k.asking \subseteq Orders /\ k.left \subseteq Cards
  BY DEF GiftCardsInv, GiftCardsTypeOK, JobOK, CardJob
<1>a. /\ "refresh" \in CardSteps /\ "list" \in CardSteps /\ "idle" \in CardSteps
      /\ "status" \in CardSteps /\ "card" \in CardSteps /\ "insert" \in CardSteps
  BY DEF CardSteps, TrackSteps
<1>b. \A s \in {"idle", "refresh", "list", "status"} :
         s \notin Converting /\ s \notin Ordering /\ s # "store" /\ s # "insert" /\ s \in Between
  BY DEF Converting, Ordering, Between
<1>c. \A s \in {"card", "insert"} : s \in Converting \ (Ordering \cup Between) /\ s # "store"
  BY DEF Converting, Ordering, Between
<1>1. CASE BeginReplenish(w)
  <2>1. JobOK(w)'
    BY <1>0, <1>1, <1>b DEF BeginReplenish, JobOK, GiftCardsTypeOK
  <2> QED
    BY <1>0, <1>1, <1>a, <1>b, <2>1, LocalStep DEF BeginReplenish, GiftCardsTypeOK
<1>2. CASE RefreshToken(w)
  <2>1. PICK s \in {"idle", "list"} : cardStep' = [cardStep EXCEPT ![w] = s]
    BY <1>2 DEF RefreshToken
  <2>2. JobOK(w)'
    BY <1>0, <1>2, <1>b, <2>1 DEF RefreshToken, JobOK, GiftCardsTypeOK
  <2> QED
    BY <1>0, <1>2, <1>a, <1>b, <2>1, <2>2, LocalStep DEF RefreshToken, GiftCardsTypeOK
<1>3. CASE ListUnprocessed(w)
  <2> DEFINE j == [k EXCEPT !.listed = rows \ processed,
                            !.asking = {o \in Orders : UnprocessedOf(o) # {}}]
  <2>1. j \in CardJob /\ j.listed \subseteq rows
    BY <1>0 DEF CardJob, GiftCardsTypeOK
  <2>2. JobOK(w)'
    BY <1>0, <1>3, <1>b, <2>1 DEF ListUnprocessed, JobOK, GiftCardsTypeOK
  <2> QED
    BY <1>0, <1>3, <1>a, <1>b, <2>1, <2>2, LocalStep DEF ListUnprocessed, GiftCardsTypeOK
<1>4. CASE AskStatus(w)
  <2>0. PICK o \in k.asking, answered \in Answered :
          LET j == [k EXCEPT !.asking = @ \ {o}]
              status == StatusOf(o, answered) IN
          \/ cardJob' = [cardJob EXCEPT ![w] = j] /\ UNCHANGED cardStep
          \/ /\ status = "processed"
             /\ cardJob' = [cardJob EXCEPT
                  ![w] = [j EXCEPT !.order = o, !.left = bh[o].cards \cap j.listed]]
             /\ cardStep' = [cardStep EXCEPT ![w] = "card"]
          \/ cardJob' = [cardJob EXCEPT ![w] = [j EXCEPT !.waiting = @ \cup {o}]]
             /\ UNCHANGED cardStep
    BY <1>4 DEF AskStatus
  <2> DEFINE j == [k EXCEPT !.asking = @ \ {o}]
  <2>1. /\ o \in Orders /\ j \in CardJob /\ cardStep[w] = "status"
        /\ j.listed = k.listed /\ j.left = k.left
    BY <1>0, <1>4 DEF CardJob, AskStatus
  <2>2. CASE cardJob' = [cardJob EXCEPT ![w] = j] /\ UNCHANGED cardStep
    <3>1. JobOK(w)'
      BY <1>0, <1>4, <1>b, <2>1, <2>2 DEF AskStatus, JobOK, GiftCardsTypeOK
    <3> QED
      BY <1>0, <1>4, <1>a, <1>b, <2>1, <2>2, <3>1, LocalStep DEF AskStatus, GiftCardsTypeOK
  <2>3. CASE cardJob' = [cardJob EXCEPT ![w] = [j EXCEPT !.waiting = @ \cup {o}]]
             /\ UNCHANGED cardStep
    <3> DEFINE i == [j EXCEPT !.waiting = @ \cup {o}]
    <3>0. i \in CardJob /\ i.listed = k.listed /\ i.left = k.left
      BY <1>0, <2>1 DEF CardJob
    <3>1. JobOK(w)'
      BY <1>0, <1>4, <1>b, <2>1, <2>3, <3>0 DEF AskStatus, JobOK, GiftCardsTypeOK
    <3> QED
      BY <1>0, <1>4, <1>a, <1>b, <2>1, <2>3, <3>0, <3>1, LocalStep
         DEF AskStatus, GiftCardsTypeOK
  <2>4. CASE /\ StatusOf(o, answered) = "processed"
             /\ cardJob' = [cardJob EXCEPT
                  ![w] = [j EXCEPT !.order = o, !.left = bh[o].cards \cap j.listed]]
             /\ cardStep' = [cardStep EXCEPT ![w] = "card"]
    <3> DEFINE i == [j EXCEPT !.order = o, !.left = bh[o].cards \cap j.listed]
    <3>0. i \in CardJob /\ i.listed = k.listed /\ i.order = o
      BY <1>0, <2>1 DEF CardJob
    <3>1. bh[o].status = "processed"
      BY <2>4 DEF StatusOf
    <3>2. JobOK(w)'
      BY <1>0, <1>4, <1>c, <2>1, <2>4, <3>0, <3>1 DEF AskStatus, JobOK, GiftCardsTypeOK
    <3> QED
      BY <1>0, <1>4, <1>a, <1>c, <2>1, <2>4, <3>0, <3>2, LocalStep
         DEF AskStatus, GiftCardsTypeOK
  <2> QED
    BY <2>0, <2>2, <2>3, <2>4
<1>5. CASE FetchCard(w)
  <2>0. PICK c \in k.left :
          LET j == [k EXCEPT !.left = @ \ {c}] IN
          \/ /\ cardJob' = [cardJob EXCEPT ![w] = j] /\ UNCHANGED cardStep
          \/ /\ cardJob' = [cardJob EXCEPT ![w] = [j EXCEPT !.card = c]]
             /\ cardStep' = [cardStep EXCEPT ![w] = "insert"]
    BY <1>5 DEF FetchCard
  <2> DEFINE j == [k EXCEPT !.left = @ \ {c}]  i == [j EXCEPT !.card = c]
  <2>1. /\ c \in Cards /\ cardStep[w] = "card" /\ skipped' \subseteq Cards
        /\ j \in CardJob /\ j.listed = k.listed /\ j.order = k.order
        /\ i \in CardJob /\ i.listed = k.listed /\ i.order = k.order /\ i.card = c
    BY <1>0, <1>5 DEF CardJob, FetchCard, GiftCardsTypeOK
  <2>2. CASE cardJob' = [cardJob EXCEPT ![w] = j] /\ UNCHANGED cardStep
    <3>1. JobOK(w)'
      BY <1>0, <1>5, <1>c, <2>1, <2>2 DEF FetchCard, JobOK, GiftCardsTypeOK
    <3> QED
      BY <1>0, <1>5, <1>a, <1>c, <2>1, <2>2, <3>1, LocalStep DEF FetchCard, GiftCardsTypeOK
  <2>3. CASE /\ cardJob' = [cardJob EXCEPT ![w] = i]
             /\ cardStep' = [cardStep EXCEPT ![w] = "insert"]
    <3>1. JobOK(w)'
      BY <1>0, <1>5, <1>c, <2>1, <2>3 DEF FetchCard, JobOK, GiftCardsTypeOK
    <3> QED
      BY <1>0, <1>5, <1>a, <1>c, <2>1, <2>3, <3>1, LocalStep DEF FetchCard, GiftCardsTypeOK
  <2> QED
    BY <2>0, <2>2, <2>3
<1>6. CASE InsertGood(w)
  <2> DEFINE j == [k EXCEPT !.card = None]
  <2>1. /\ j \in CardJob /\ j.listed = k.listed /\ j.order = k.order
        /\ cardStep[w] = "insert" /\ k.card \in Cards
    BY <1>0, <1>6 DEF CardJob, InsertGood, JobOK
  <2>2. goods' \in [Cards -> Nat]
    BY <1>0, <1>6, <2>1 DEF InsertGood, GiftCardsTypeOK
  <2>3. JobOK(w)'
    BY <1>0, <1>6, <1>c, <2>1 DEF InsertGood, JobOK, GiftCardsTypeOK
  <2> QED
    BY <1>0, <1>6, <1>a, <1>c, <2>1, <2>2, <2>3, LocalStep DEF InsertGood, GiftCardsTypeOK
<1>7. CASE MarkProcessed(w)
  <2> DEFINE j == [k EXCEPT !.order = None]
  <2>1. j \in CardJob /\ j.listed = k.listed
    BY <1>0 DEF CardJob
  <2>2. processed' \subseteq rows
    BY <1>0, <1>7 DEF MarkProcessed, GiftCardsTypeOK
  <2>3. JobOK(w)'
    BY <1>0, <1>7, <1>b, <2>1 DEF MarkProcessed, JobOK, GiftCardsTypeOK
  <2> QED
    BY <1>0, <1>7, <1>a, <1>b, <2>1, <2>2, <2>3, LocalStep DEF MarkProcessed, GiftCardsTypeOK
<1> QED
  BY <1>1, <1>2, <1>3, <1>4, <1>5, <1>6, <1>7

\* The steps of a job from the count of waiting orders on.
LEMMA OrderKeepsInv ==
  ASSUME GiftCardsInv, NEW w \in Workers,
         \/ CountPending(w) \/ CheckBalance(w) \/ StopOrdering(w) \/ StoreCard(w)
         \/ CardJobDies(w)
  PROVE  GiftCardsInv'
<1> USE DEF CardGoto, SetCardJob, CardFinish, cardTables
<1> DEFINE k == cardJob[w]
<1>0. /\ GiftCardsTypeOK /\ JobOK(w) /\ k \in CardJob /\ k.listed \subseteq rows
      /\ k.listed \subseteq Cards /\ k.left \subseteq Cards
  BY DEF GiftCardsInv, GiftCardsTypeOK, JobOK, CardJob
<1>a. /\ "idle" \in CardSteps /\ "balance" \in CardSteps /\ "offer" \in CardSteps
      /\ "store" \in CardSteps
  BY DEF CardSteps, OrderSteps
<1>b. /\ \A s \in {"idle", "balance", "offer", "store"} :
           s \notin Converting /\ s \notin Ordering /\ s # "insert"
      /\ \A s \in {"idle", "balance", "offer", "status"} : s \in Between
      /\ "store" \notin Between
      /\ NoCardJob.listed = {} /\ NoCardJob.left = {}
  BY DEF Converting, Ordering, Between, NoCardJob
\* A job that ends.
<1>1. ASSUME CardFinish(w), bh' = bh, rows' = rows, abandoned' \subseteq Orders,
             UNCHANGED <<bhToken, processed, goods, sold, skipped>>
      PROVE  GiftCardsInv'
  <2>1. JobOK(w)'
    BY <1>0, <1>1, <1>b DEF JobOK, GiftCardsTypeOK
  <2> QED
    BY <1>0, <1>1, <1>a, <1>b, <2>1, NoCardJobType, LocalStep DEF GiftCardsTypeOK
<1>2. CASE CountPending(w)
  <2> DEFINE j == [k EXCEPT !.short = Shortage]
  <2>1. j \in CardJob /\ j.listed = k.listed
    BY <1>0 DEF CardJob, Shortage
  <2>2. CASE cardJob' = [cardJob EXCEPT ![w] = j] /\ cardStep' = [cardStep EXCEPT ![w] = "balance"]
    <3>1. JobOK(w)'
      BY <1>0, <1>2, <1>b, <2>1, <2>2 DEF CountPending, JobOK, GiftCardsTypeOK
    <3> QED
      BY <1>0, <1>2, <1>a, <1>b, <2>1, <2>2, <3>1, LocalStep DEF CountPending, GiftCardsTypeOK
  <2>3. CASE CardFinish(w)
    BY <1>0, <1>1, <1>2, <2>3 DEF CountPending, GiftCardsTypeOK
  <2> QED
    BY <1>2, <2>2, <2>3 DEF CountPending
<1>3. CASE CheckBalance(w)
  <2>1. CASE cardStep' = [cardStep EXCEPT ![w] = "offer"] /\ UNCHANGED cardJob
    <3>1. JobOK(w)'
      BY <1>0, <1>3, <1>b, <2>1 DEF CheckBalance, JobOK, GiftCardsTypeOK
    <3> QED
      BY <1>0, <1>3, <1>a, <1>b, <2>1, <3>1, LocalStep DEF CheckBalance, GiftCardsTypeOK
  <2>2. CASE CardFinish(w)
    BY <1>0, <1>1, <1>3, <2>2 DEF CheckBalance, GiftCardsTypeOK
  <2> QED
    BY <1>3, <2>1, <2>2 DEF CheckBalance
<1>4. CASE StopOrdering(w)
  BY <1>0, <1>1, <1>4 DEF StopOrdering, GiftCardsTypeOK
<1>5. CASE CardJobDies(w)
  BY <1>0, <1>1, <1>5 DEF CardJobDies, GiftCardsTypeOK
<1>6. CASE StoreCard(w)
  <2>0. PICK c \in k.left :
          /\ rows' = rows \cup {c}
          /\ \/ /\ cardJob' = [cardJob EXCEPT ![w] = [k EXCEPT !.left = {}, !.order = None]]
                /\ cardStep' = [cardStep EXCEPT ![w] = "offer"]
             \/ /\ cardJob' = [cardJob EXCEPT ![w] = [k EXCEPT !.left = @ \ {c}]]
                /\ UNCHANGED cardStep
    BY <1>6 DEF StoreCard
  <2> DEFINE i == [k EXCEPT !.left = {}, !.order = None]  j == [k EXCEPT !.left = @ \ {c}]
  <2>1. /\ i \in CardJob /\ i.listed = k.listed
        /\ j \in CardJob /\ j.listed = k.listed /\ j.order = k.order /\ j.left \subseteq k.left
    BY <1>0 DEF CardJob
  <2>2. rows' \subseteq Cards /\ rows \subseteq rows' /\ bh' = bh /\ cardStep[w] = "store"
    BY <1>0, <1>6, <2>0 DEF StoreCard, GiftCardsTypeOK
  <2>3. CASE /\ cardJob' = [cardJob EXCEPT ![w] = i]
             /\ cardStep' = [cardStep EXCEPT ![w] = "offer"]
    <3>1. JobOK(w)'
      BY <1>0, <1>b, <2>1, <2>2, <2>3 DEF JobOK, GiftCardsTypeOK
    <3> QED
      BY <1>0, <1>6, <1>a, <1>b, <2>1, <2>2, <2>3, <3>1, LocalStep
         DEF StoreCard, GiftCardsTypeOK
  <2>4. CASE cardJob' = [cardJob EXCEPT ![w] = j] /\ UNCHANGED cardStep
    <3>1. JobOK(w)'
      BY <1>0, <1>b, <2>1, <2>2, <2>4 DEF JobOK, GiftCardsTypeOK
    <3> QED
      BY <1>0, <1>6, <1>a, <1>b, <2>1, <2>2, <2>4, <3>1, LocalStep
         DEF StoreCard, GiftCardsTypeOK
  <2> QED
    BY <2>0, <2>3, <2>4
<1> QED
  BY <1>2, <1>3, <1>4, <1>5, <1>6

\* The three calls to Blackhawk that change an order.
LEMMA CallKeepsInv ==
  ASSUME GiftCardsInv, NEW w \in Workers, StartOrder(w) \/ AddCard(w) \/ CompleteOrder(w)
  PROVE  GiftCardsInv'
<1> USE DEF CardGoto, SetCardJob, cardTables
<1> DEFINE k == cardJob[w]
<1>0. /\ GiftCardsTypeOK /\ JobOK(w) /\ k \in CardJob /\ k.listed \subseteq rows
      /\ k.left \subseteq Cards /\ OwnOrders /\ CardsApart /\ \A v \in Workers : JobOK(v)
  BY DEF GiftCardsInv, GiftCardsTypeOK, JobOK, CardJob
<1>a. "add" \in CardSteps /\ "complete" \in CardSteps /\ "store" \in CardSteps
  BY DEF CardSteps, OrderSteps
<1>b. /\ "add" \in Ordering /\ "complete" \in Ordering /\ "store" \notin Ordering
      /\ "add" # "store" /\ "complete" # "store"
      /\ \A s \in {"add", "complete", "store"} :
           s \notin Converting /\ s # "insert" /\ s \notin Between
  BY DEF Converting, Ordering, Between
<1>1. CASE StartOrder(w)
  <2>0. PICK f \in k.short, o \in Orders :
          /\ StartedOrder(o, f)
          /\ cardJob' = [cardJob EXCEPT ![w] = [k EXCEPT !.short = @ \ {f}, !.order = o]]
    BY <1>1 DEF StartOrder
  <2> DEFINE j == [k EXCEPT !.short = @ \ {f}, !.order = o]
  <2>1. j \in CardJob /\ j.listed = k.listed /\ j.order = o /\ j.left = k.left
    BY <1>0 DEF CardJob
  <2>2. /\ cardStep' \in [Workers -> CardSteps] /\ cardJob' \in [Workers -> CardJob]
        /\ cardStep'[w] = "add" /\ cardJob'[w] = j
        /\ \A v \in Workers \ {w} : cardStep'[v] = cardStep[v] /\ cardJob'[v] = cardJob[v]
    BY <1>0, <1>1, <1>a, <2>0, <2>1, CardJobMoves DEF StartOrder
  <2>3. /\ bh[o].status = "none" /\ bh'[o] = [status |-> "incomplete", offer |-> f, cards |-> {}]
        /\ \A p \in Orders \ {o} : bh'[p] = bh[p]
        /\ bh' \in [Orders -> BhOrder]
    <3>1. f \in Offers
      BY <1>0 DEF CardJob
    <3> QED
      BY <1>0, <2>0, <3>1 DEF StartedOrder, GiftCardsTypeOK, BhOrder, Statuses
  <2>4. k.left = {}
    BY <1>0, <1>1 DEF StartOrder, JobOK, Between
  <2>5. JobOK(w)'
    <3>1. rows' = rows
      BY <1>1 DEF StartOrder
    <3>2. bh'[o].status = "incomplete" /\ bh'[o].cards = {} /\ o \in Orders
      BY <2>3
    <3> HIDE DEF j
    <3> QED
      BY <1>0, <1>b, <2>1, <2>2, <2>3, <2>4, <3>1, <3>2 DEF JobOK
  <2>6. \A v \in Workers : JobOK(v)'
    BY <1>1, <2>2, <2>3, <2>5, OtherJobKept DEF Undisturbed, StartOrder
  <2>7. OwnOrders'
    <3>1. \A v \in Workers : cardStep[v] \in Ordering => cardJob[v].order # o
      BY <1>0, <2>3 DEF JobOK
    <3> HIDE DEF j
    <3> QED
      BY <1>0, <2>1, <2>2, <3>1 DEF OwnOrders
  <2>8. CardsApart'
    BY <1>0, <2>3 DEF CardsApart
  <2> QED
    BY <1>0, <1>1, <2>2, <2>3, <2>6, <2>7, <2>8 DEF StartOrder, GiftCardsInv, GiftCardsTypeOK
<1>2. CASE AddCard(w)
  <2> DEFINE o == k.order
  <2>0. PICK c \in Cards, s \in {"add", "complete"} :
          /\ AddedCard(o, c)
          /\ cardJob' = [cardJob EXCEPT ![w] = [k EXCEPT !.left = @ \cup {c}]]
          /\ cardStep' = [cardStep EXCEPT ![w] = s]
    BY <1>2 DEF AddCard
  <2> DEFINE j == [k EXCEPT !.left = @ \cup {c}]
  <2>1. j \in CardJob /\ j.listed = k.listed /\ j.order = o /\ j.left = k.left \cup {c}
    BY <1>0 DEF CardJob
  <2>2. /\ cardStep' \in [Workers -> CardSteps] /\ cardJob' \in [Workers -> CardJob]
        /\ cardStep'[w] = s /\ cardJob'[w] = j
        /\ \A v \in Workers \ {w} : cardStep'[v] = cardStep[v] /\ cardJob'[v] = cardJob[v]
    BY <1>0, <1>a, <2>0, <2>1, CardJobMoves
  <2>3. /\ o \in Orders /\ cardStep[w] \in Ordering
        /\ bh[o].status = "incomplete" /\ k.left = bh[o].cards
    BY <1>0, <1>2, <1>b DEF AddCard, JobOK
  <2>4. /\ bh' \in [Orders -> BhOrder]
        /\ bh'[o].status = "incomplete" /\ bh'[o].cards = bh[o].cards \cup {c}
        /\ \A p \in Orders \ {o} : bh'[p] = bh[p]
        /\ \A p \in Orders : c \notin bh[p].cards
    BY <1>0, <2>0, <2>3 DEF AddedCard, FreshCard, GiftCardsTypeOK, BhOrder
  <2>5. JobOK(w)'
    <3>1. rows' = rows
      BY <1>2 DEF AddCard
    <3> HIDE DEF j
    <3> QED
      BY <1>0, <1>b, <2>1, <2>2, <2>3, <2>4, <3>1 DEF JobOK
  <2>6. \A v \in Workers \ {w}, p \in Orders : Undisturbed(v, p)
    BY <1>0, <2>3, <2>4 DEF Undisturbed, OwnOrders
  <2>7. \A v \in Workers : JobOK(v)'
    BY <1>2, <2>2, <2>5, <2>6, OtherJobKept DEF AddCard
  <2>8. OwnOrders'
    <3> HIDE DEF j
    <3> QED
      BY <1>0, <2>1, <2>2, <2>3 DEF OwnOrders
  <2>9. CardsApart'
    BY <1>0, <2>4 DEF CardsApart
  <2> QED
    BY <1>0, <1>2, <2>2, <2>4, <2>7, <2>8, <2>9 DEF AddCard, GiftCardsInv, GiftCardsTypeOK
<1>3. CASE CompleteOrder(w)
  <2> DEFINE o == k.order
  <2>1. /\ cardStep' \in [Workers -> CardSteps] /\ cardJob' \in [Workers -> CardJob]
        /\ cardStep'[w] = "store" /\ cardJob'[w] = k
        /\ \A v \in Workers \ {w} : cardStep'[v] = cardStep[v] /\ cardJob'[v] = cardJob[v]
    BY <1>0, <1>3, <1>a, CardJobMoves DEF CompleteOrder
  <2>2. /\ o \in Orders /\ cardStep[w] \in Ordering
        /\ bh[o].status = "incomplete" /\ k.left = bh[o].cards
    BY <1>0, <1>3, <1>b DEF CompleteOrder, JobOK
  <2>3. /\ bh' \in [Orders -> BhOrder]
        /\ bh'[o].status \in {"incomplete", "pending"} /\ bh'[o].cards = bh[o].cards
        /\ \A p \in Orders \ {o} : bh'[p] = bh[p]
    BY <1>0, <1>3, <2>2 DEF CompleteOrder, CompletedOrder, GiftCardsTypeOK, BhOrder, Statuses
  <2>4. JobOK(w)'
    BY <1>0, <1>3, <1>b, <2>1, <2>2, <2>3 DEF CompleteOrder, JobOK
  <2>5. \A v \in Workers \ {w}, p \in Orders : Undisturbed(v, p)
    BY <1>0, <2>2, <2>3 DEF Undisturbed, OwnOrders
  <2>6. \A v \in Workers : JobOK(v)'
    BY <1>3, <2>1, <2>4, <2>5, OtherJobKept DEF CompleteOrder
  <2>7. OwnOrders'
    BY <1>0, <1>b, <2>1 DEF OwnOrders
  <2>8. CardsApart'
    BY <1>0, <2>2, <2>3 DEF CardsApart
  <2> QED
    BY <1>0, <1>3, <2>1, <2>3, <2>6, <2>7, <2>8
       DEF CompleteOrder, GiftCardsInv, GiftCardsTypeOK
<1> QED
  BY <1>1, <1>2, <1>3

\* What Blackhawk and the users do.
LEMMA OutsideKeepsInv ==
  ASSUME GiftCardsInv,
         \/ \E o \in Orders : ProcessOrder(o) \/ CancelOrder(o)
         \/ \E c \in Cards : SellCard(c)
         \/ UNCHANGED giftCardsVars
  PROVE  GiftCardsInv'
<1> USE DEF GiftCardsInv, cardTables
<1>1. ASSUME NEW o \in Orders, ProcessOrder(o) \/ CancelOrder(o) PROVE GiftCardsInv'
  <2>1. /\ bh' \in [Orders -> BhOrder] /\ bh[o].status = "pending"
        /\ bh'[o].status # "none" /\ bh'[o].cards = bh[o].cards
        /\ \A p \in Orders \ {o} : bh'[p] = bh[p]
    BY <1>1 DEF ProcessOrder, CancelOrder, GiftCardsTypeOK, BhOrder, Statuses
  <2>2. \A v \in Workers, p \in Orders : Undisturbed(v, p)
    BY <2>1 DEF Undisturbed
  <2>3. \A v \in Workers : JobOK(v)'
    BY <1>1, <2>2, OtherJobKept DEF ProcessOrder, CancelOrder
  <2>4. OwnOrders'
    BY <1>1 DEF ProcessOrder, CancelOrder, OwnOrders
  <2>5. CardsApart'
    BY <2>1 DEF CardsApart
  <2> QED
    BY <1>1, <2>1, <2>3, <2>4, <2>5 DEF ProcessOrder, CancelOrder, GiftCardsTypeOK
<1>2. ASSUME UNCHANGED <<bh, rows, cardStep, cardJob>>, GiftCardsTypeOK' PROVE GiftCardsInv'
  BY <1>2 DEF JobOK, OwnOrders, CardsApart
<1>3. ASSUME NEW c \in Cards, SellCard(c) PROVE GiftCardsInv'
  BY <1>2, <1>3 DEF SellCard, GiftCardsTypeOK
<1>4. CASE UNCHANGED giftCardsVars
  BY <1>2, <1>4 DEF giftCardsVars, GiftCardsTypeOK
<1> QED
  BY <1>1, <1>3, <1>4

\* Every step keeps the invariant.
LEMMA GiftCardsInvStep == GiftCardsInv /\ [GiftCardsNext]_giftCardsVars => GiftCardsInv'
BY TrackKeepsInv, OrderKeepsInv, CallKeepsInv, OutsideKeepsInv DEF GiftCardsNext, CardWork

\* The invariant holds of every state.
LEMMA GiftCardsInvHolds == GiftCardsSpec => []GiftCardsInv
<1>1. GiftCardsInit => GiftCardsInv
  <2> SUFFICES ASSUME GiftCardsInit PROVE GiftCardsInv
    OBVIOUS
  <2>1. cardStep \in [Workers -> CardSteps] /\ cardJob \in [Workers -> CardJob]
    BY NoCardJobType DEF GiftCardsInit, CardSteps
  <2>2. bh \in [Orders -> BhOrder]
    BY DEF GiftCardsInit, BhOrder, Statuses
  <2>3. (\A w \in Workers : JobOK(w)) /\ OwnOrders /\ CardsApart
    BY DEF GiftCardsInit, JobOK, OwnOrders, CardsApart, Converting, Ordering, Between, NoCardJob
  <2> QED
    BY <2>1, <2>2, <2>3 DEF GiftCardsInit, GiftCardsInv, GiftCardsTypeOK
<1> QED
  BY <1>1, GiftCardsInvStep, PTL DEF GiftCardsSpec

\* The tables, Blackhawk's orders and the jobs keep their types: a card that is marked
\* as processed has its row.
THEOREM GiftCardsTypeCorrect == GiftCardsSpec => []GiftCardsTypeOK
BY GiftCardsInvHolds, PTL DEF GiftCardsInv

-----------------------------------------------------------------------------
(* Conversion: a card of the order in hand is still left to do, or is done. *)

Handled(w, c) ==
  \/ c \in cardJob[w].left
  \/ goods[c] > 0 \/ c \in skipped
  \/ cardStep[w] = "insert" /\ c = cardJob[w].card

ConversionOK(w) ==
  cardStep[w] \in Converting =>
    \A c \in bh[cardJob[w].order].cards \cap cardJob[w].listed : Handled(w, c)

ConversionInv == ProcessedCardIsGood /\ \A w \in Workers : ConversionOK(w)

\* The orders that jobs convert do not change, and goods and skipped cards only grow.
LEMMA OtherConversionKept ==
  ASSUME GiftCardsInv, NEW v \in Workers, ConversionOK(v),
         cardStep'[v] = cardStep[v], cardJob'[v] = cardJob[v],
         \A o \in Orders : bh[o].status = "processed" => bh'[o] = bh[o],
         \A c \in Cards : goods[c] > 0 => goods'[c] > 0, skipped \subseteq skipped'
  PROVE  ConversionOK(v)'
<1>1. CASE cardStep[v] \in Converting
  <2>1. bh'[cardJob[v].order] = bh[cardJob[v].order]
    BY <1>1 DEF GiftCardsInv, JobOK
  <2>2. cardJob[v].listed \subseteq Cards
    BY DEF GiftCardsInv, GiftCardsTypeOK, CardJob
  <2> QED
    BY <1>1, <2>1, <2>2 DEF ConversionOK, Handled
<1>2. CASE cardStep[v] \notin Converting
  BY <1>2 DEF ConversionOK
<1> QED
  BY <1>1, <1>2

\* A step of one job that ends it at a step where it converts nothing.
LEMMA ConversionKept ==
  ASSUME GiftCardsInv, ConversionInv, NEW w \in Workers,
         \A v \in Workers \ {w} : cardStep'[v] = cardStep[v] /\ cardJob'[v] = cardJob[v],
         ConversionOK(w)',
         \A o \in Orders : bh[o].status = "processed" => bh'[o] = bh[o],
         \A c \in Cards : goods[c] > 0 => goods'[c] > 0, skipped \subseteq skipped',
         processed' = processed
  PROVE  ConversionInv'
<1>1. \A v \in Workers : ConversionOK(v)'
  BY OtherConversionKept DEF ConversionInv
<1>2. ProcessedCardIsGood'
  BY DEF ConversionInv, ProcessedCardIsGood, GiftCardsInv, GiftCardsTypeOK
<1> QED
  BY <1>1, <1>2 DEF ConversionInv

\* Every step keeps what is known of the cards being converted.
LEMMA ConversionStep ==
  GiftCardsInv /\ ConversionInv /\ [GiftCardsNext]_giftCardsVars => ConversionInv'
<1> SUFFICES ASSUME GiftCardsInv, ConversionInv, [GiftCardsNext]_giftCardsVars
             PROVE  ConversionInv'
  OBVIOUS
<1> USE DEF CardGoto, SetCardJob, CardFinish, cardTables
<1>0. GiftCardsTypeOK /\ \A w \in Workers : JobOK(w) /\ ConversionOK(w)
  BY DEF GiftCardsInv, ConversionInv
<1>a. \A s \in {"idle", "refresh", "list", "status", "balance", "offer", "add", "complete",
                "store"} : s \notin Converting
  BY DEF Converting
\* Steps of jobs that are not converting, before and after.
<1>1. ASSUME NEW w \in Workers,
             \/ BeginReplenish(w) \/ RefreshToken(w) \/ ListUnprocessed(w) \/ CountPending(w)
             \/ CheckBalance(w) \/ StopOrdering(w) \/ StoreCard(w) \/ CardJobDies(w)
      PROVE  ConversionInv'
  <2>1. /\ \A v \in Workers \ {w} : cardStep'[v] = cardStep[v] /\ cardJob'[v] = cardJob[v]
        /\ UNCHANGED <<bh, goods, skipped, processed>>
    BY <1>0, <1>1
       DEF BeginReplenish, RefreshToken, ListUnprocessed, CountPending, CheckBalance,
           StopOrdering, StoreCard, CardJobDies, GiftCardsTypeOK
  <2>2. cardStep'[w] \notin Converting
    BY <1>0, <1>1, <1>a
       DEF BeginReplenish, RefreshToken, ListUnprocessed, CountPending, CheckBalance,
           StopOrdering, StoreCard, CardJobDies, GiftCardsTypeOK
  <2> QED
    BY <2>1, <2>2, ConversionKept DEF ConversionOK
<1>2. ASSUME NEW w \in Workers, StartOrder(w) \/ AddCard(w) \/ CompleteOrder(w)
      PROVE  ConversionInv'
  <2>1. /\ \A v \in Workers \ {w} : cardStep'[v] = cardStep[v] /\ cardJob'[v] = cardJob[v]
        /\ UNCHANGED <<goods, skipped, processed>>
    BY <1>0, <1>2 DEF StartOrder, AddCard, CompleteOrder, GiftCardsTypeOK
  <2>2. cardStep'[w] \notin Converting
    BY <1>0, <1>2, <1>a DEF StartOrder, AddCard, CompleteOrder, GiftCardsTypeOK
  <2>3. \A o \in Orders : bh[o].status = "processed" => bh'[o] = bh[o]
    <3>1. CASE StartOrder(w)
      BY <1>0, <3>1 DEF StartOrder, StartedOrder, GiftCardsTypeOK
    <3>2. CASE AddCard(w) \/ CompleteOrder(w)
      <4>1. bh[cardJob[w].order].status = "incomplete"
        BY <1>0, <3>2 DEF AddCard, CompleteOrder, JobOK, Ordering
      <4> QED
        BY <1>0, <3>2, <4>1
           DEF AddCard, AddedCard, CompleteOrder, CompletedOrder, GiftCardsTypeOK
    <3> QED
      BY <1>2, <3>1, <3>2
  <2> QED
    BY <2>1, <2>2, <2>3, ConversionKept DEF ConversionOK
<1>3. ASSUME NEW w \in Workers, AskStatus(w) PROVE ConversionInv'
  <2>1. /\ \A v \in Workers \ {w} : cardStep'[v] = cardStep[v] /\ cardJob'[v] = cardJob[v]
        /\ UNCHANGED <<bh, goods, skipped, processed>> /\ cardStep[w] = "status"
    BY <1>0, <1>3 DEF AskStatus, GiftCardsTypeOK
  <2>2. CASE UNCHANGED cardStep
    BY <1>a, <2>1, <2>2, ConversionKept DEF ConversionOK
  <2>3. CASE ~UNCHANGED cardStep
    <3>1. PICK o \in cardJob[w].asking :
            cardJob' = [cardJob EXCEPT
              ![w] = [[cardJob[w] EXCEPT !.asking = @ \ {o}] EXCEPT !.order = o,
                        !.left = bh[o].cards \cap [cardJob[w] EXCEPT !.asking = @ \ {o}].listed]]
      BY <1>3, <2>3 DEF AskStatus
    <3>2. /\ cardJob'[w].order = o /\ cardJob'[w].listed = cardJob[w].listed
          /\ cardJob'[w].left = bh[o].cards \cap cardJob[w].listed
      BY <1>0, <3>1 DEF GiftCardsTypeOK, CardJob
    <3>3. ConversionOK(w)'
      BY <2>1, <3>2 DEF ConversionOK, Handled
    <3> QED
      BY <2>1, <3>3, ConversionKept
  <2> QED
    BY <2>2, <2>3
<1>4. ASSUME NEW w \in Workers, FetchCard(w) PROVE ConversionInv'
  <2> DEFINE k == cardJob[w]
  <2>1. /\ \A v \in Workers \ {w} : cardStep'[v] = cardStep[v] /\ cardJob'[v] = cardJob[v]
        /\ UNCHANGED <<bh, goods, processed>> /\ skipped \subseteq skipped'
        /\ cardStep[w] = "card"
    BY <1>0, <1>4 DEF FetchCard, GiftCardsTypeOK
  <2>2. PICK c \in k.left :
          \/ /\ c \in skipped' \/ goods[c] > 0
             /\ cardJob' = [cardJob EXCEPT ![w] = [k EXCEPT !.left = @ \ {c}]]
          \/ /\ cardJob' = [cardJob EXCEPT ![w] = [[k EXCEPT !.left = @ \ {c}] EXCEPT !.card = c]]
             /\ cardStep' = [cardStep EXCEPT ![w] = "insert"]
    <3>1. PICK c \in k.left :
            \/ cardJob' = [cardJob EXCEPT ![w] = [k EXCEPT !.left = @ \ {c}]]
                 /\ skipped' = skipped \cup {c}
            \/ cardJob' = [cardJob EXCEPT ![w] = [k EXCEPT !.left = @ \ {c}]] /\ goods[c] > 0
            \/ /\ cardJob' = [cardJob EXCEPT
                                ![w] = [[k EXCEPT !.left = @ \ {c}] EXCEPT !.card = c]]
               /\ cardStep' = [cardStep EXCEPT ![w] = "insert"]
      BY <1>4 DEF FetchCard
    <3> QED
      BY <3>1
  <2>k. k \in CardJob /\ cardJob \in [Workers -> CardJob] /\ cardStep \in [Workers -> CardSteps]
    BY <1>0 DEF GiftCardsTypeOK
  <2>a. /\ cardJob'[w].order = k.order /\ cardJob'[w].listed = k.listed
        /\ cardJob'[w].left = k.left \ {c}
    BY <2>2, <2>k DEF CardJob
  <2>b. \/ c \in skipped' \/ goods[c] > 0
        \/ cardStep'[w] = "insert" /\ cardJob'[w].card = c
    BY <2>2, <2>k DEF CardJob
  <2>3. /\ cardJob'[w].order = k.order /\ cardJob'[w].listed = k.listed
        /\ cardJob'[w].left = k.left \ {c}
        /\ \/ c \in skipped' \/ goods[c] > 0
           \/ cardStep'[w] = "insert" /\ cardJob'[w].card = c
    BY <2>a, <2>b
  <2>4. \A d \in bh[k.order].cards \cap k.listed : Handled(w, d)
    BY <1>0, <2>1 DEF ConversionOK, Converting
  <2>5. ConversionOK(w)'
    <3> SUFFICES ASSUME NEW d \in bh[k.order].cards \cap k.listed PROVE Handled(w, d)'
      BY <2>1, <2>3 DEF ConversionOK
    <3>1. Handled(w, d)
      BY <2>4
    <3> QED
      BY <2>1, <2>3, <3>1 DEF Handled
  <2> QED
    BY <2>1, <2>5, ConversionKept
<1>5. ASSUME NEW w \in Workers, InsertGood(w) PROVE ConversionInv'
  <2> DEFINE k == cardJob[w]
  <2>1. /\ \A v \in Workers \ {w} : cardStep'[v] = cardStep[v] /\ cardJob'[v] = cardJob[v]
        /\ UNCHANGED <<bh, skipped, processed>>
        /\ cardStep[w] = "insert" /\ k.card \in Cards
        /\ goods' = [goods EXCEPT ![k.card] = @ + 1]
    BY <1>0, <1>5 DEF InsertGood, GiftCardsTypeOK, JobOK
  <2>2. goods'[k.card] > 0 /\ \A c \in Cards : goods[c] > 0 => goods'[c] > 0
    BY <1>0, <2>1 DEF GiftCardsTypeOK
  <2>3. /\ cardJob'[w].order = k.order /\ cardJob'[w].listed = k.listed
        /\ cardJob'[w].left = k.left
    BY <1>0, <1>5 DEF InsertGood, GiftCardsTypeOK, CardJob
  <2>4. k.listed \subseteq Cards /\ \A d \in bh[k.order].cards \cap k.listed : Handled(w, d)
    BY <1>0, <2>1 DEF ConversionOK, Converting, GiftCardsTypeOK, CardJob
  <2>5. ConversionOK(w)'
    <3> SUFFICES ASSUME NEW d \in bh[k.order].cards \cap k.listed PROVE Handled(w, d)'
      BY <2>1, <2>3 DEF ConversionOK
    <3>1. Handled(w, d) /\ d \in Cards
      BY <2>4
    <3> QED
      BY <2>1, <2>2, <2>3, <3>1 DEF Handled
  <2> QED
    BY <2>1, <2>2, <2>5, ConversionKept
<1>6. ASSUME NEW w \in Workers, MarkProcessed(w) PROVE ConversionInv'
  <2>1. /\ \A v \in Workers \ {w} : cardStep'[v] = cardStep[v] /\ cardJob'[v] = cardJob[v]
        /\ UNCHANGED <<bh, goods, skipped>>
        /\ cardStep[w] = "card" /\ cardStep'[w] = "status" /\ cardJob[w].left = {}
    BY <1>0, <1>6 DEF MarkProcessed, GiftCardsTypeOK
  <2>2. \A c \in bh[cardJob[w].order].cards \cap cardJob[w].listed :
          goods[c] > 0 \/ c \in skipped
    BY <1>0, <2>1 DEF ConversionOK, Handled, Converting
  <2>3. ProcessedCardIsGood'
    BY <1>6, <2>1, <2>2 DEF MarkProcessed, ProcessedCardIsGood, ConversionInv
  <2>4. \A v \in Workers \ {w} : ConversionOK(v)'
    BY <1>0, <2>1, OtherConversionKept
  <2>5. ConversionOK(w)'
    BY <1>a, <2>1 DEF ConversionOK
  <2> QED
    BY <2>3, <2>4, <2>5 DEF ConversionInv
<1>7. ASSUME \/ \E o \in Orders : ProcessOrder(o) \/ CancelOrder(o)
             \/ \E c \in Cards : SellCard(c)
             \/ UNCHANGED giftCardsVars
      PROVE  ConversionInv'
  <2>1. UNCHANGED <<goods, skipped, processed, cardStep, cardJob>>
    BY <1>7 DEF ProcessOrder, CancelOrder, SellCard, giftCardsVars
  <2>2. \A o \in Orders : bh[o].status = "processed" => bh'[o] = bh[o]
    BY <1>0, <1>7 DEF ProcessOrder, CancelOrder, SellCard, giftCardsVars, GiftCardsTypeOK
  <2>3. \A v \in Workers : ConversionOK(v)'
    BY <1>0, <2>1, <2>2, OtherConversionKept
  <2> QED
    BY <2>1, <2>3 DEF ConversionInv, ProcessedCardIsGood
<1> QED
  BY <1>1, <1>2, <1>3, <1>4, <1>5, <1>6, <1>7 DEF GiftCardsNext, CardWork

\* However jobs overlap, a card is marked as processed only when its code is a good or
\* was passed over.
THEOREM MarkedIsGood == GiftCardsSpec => []ProcessedCardIsGood
<1>1. GiftCardsInit => ConversionInv
  BY DEF GiftCardsInit, ConversionInv, ProcessedCardIsGood, ConversionOK, Converting
<1> QED
  BY <1>1, ConversionStep, GiftCardsInvHolds, PTL DEF GiftCardsSpec, ConversionInv

-----------------------------------------------------------------------------
(* A card that was paid for is never forgotten. *)

\* What becomes of an order whose cards were paid for, when no job ends while it
\* still has rows of the order to write.
LEMMA RowsStillWritten ==
  ASSUME PaidCardRecorded, NEW w \in Workers,
         rows \subseteq rows', abandoned \subseteq abandoned',
         \A v \in Workers \ {w} : cardStep'[v] = cardStep[v] /\ cardJob'[v] = cardJob[v],
         \A c \in Cards : WritingRow(w, c) => c \in rows' \/ WritingRow(w, c)',
         \A o \in Orders : \/ bh'[o].status \in {"none", "incomplete"}
                          \/ /\ bh'[o].cards = bh[o].cards /\ bh'[o].cards \subseteq Cards
                             /\ bh[o].status \in {"pending", "processed", "cancelled"}
  PROVE  PaidCardRecorded'
<1> SUFFICES ASSUME NEW o \in Orders, bh'[o].status \in {"pending", "processed", "cancelled"},
                    NEW c \in bh'[o].cards
             PROVE  c \in rows' \/ o \in abandoned' \/ \E v \in Workers : WritingRow(v, c)'
  BY DEF PaidCardRecorded
<1>1. /\ c \in Cards /\ c \in bh[o].cards
      /\ bh[o].status \in {"pending", "processed", "cancelled"}
  OBVIOUS
<1>2. c \in rows \/ o \in abandoned \/ \E v \in Workers : WritingRow(v, c)
  BY <1>1 DEF PaidCardRecorded
<1>3. CASE \E v \in Workers : WritingRow(v, c)
  <2>1. PICK v \in Workers : WritingRow(v, c)
    BY <1>3
  <2>2. CASE v = w
    BY <1>1, <2>1, <2>2
  <2>3. CASE v # w
    BY <2>1, <2>3 DEF WritingRow
  <2> QED
    BY <2>2, <2>3
<1> QED
  BY <1>2, <1>3

\* Every step keeps the rows of paid cards, or their writer.
LEMMA PaidStep ==
  GiftCardsInv /\ PaidCardRecorded /\ [GiftCardsNext]_giftCardsVars => PaidCardRecorded'
<1> SUFFICES ASSUME GiftCardsInv, PaidCardRecorded, [GiftCardsNext]_giftCardsVars
             PROVE  PaidCardRecorded'
  OBVIOUS
<1> USE DEF CardGoto, SetCardJob, CardFinish, cardTables
<1>0. /\ GiftCardsTypeOK /\ \A w \in Workers : JobOK(w)
      /\ \A o \in Orders : bh[o].cards \subseteq Cards /\ bh[o].status \in Statuses
  BY DEF GiftCardsInv, GiftCardsTypeOK, BhOrder
<1>a. \A o \in Orders : \/ bh[o].status \in {"none", "incomplete"}
                       \/ bh[o].status \in {"pending", "processed", "cancelled"}
  BY <1>0 DEF Statuses
\* Steps of a job that has no rows to write, and leaves the orders alone.
<1>1. ASSUME NEW w \in Workers,
             \/ BeginReplenish(w) \/ RefreshToken(w) \/ ListUnprocessed(w) \/ AskStatus(w)
             \/ FetchCard(w) \/ InsertGood(w) \/ MarkProcessed(w) \/ CountPending(w)
             \/ CheckBalance(w) \/ StopOrdering(w)
      PROVE  PaidCardRecorded'
  <2>1. UNCHANGED <<bh, rows, abandoned>>
    BY <1>1
       DEF BeginReplenish, RefreshToken, ListUnprocessed, AskStatus, FetchCard, InsertGood,
           MarkProcessed, CountPending, CheckBalance, StopOrdering
  <2>2. cardStep[w] \notin {"complete", "store"}
    BY <1>1
       DEF BeginReplenish, RefreshToken, ListUnprocessed, AskStatus, FetchCard, InsertGood,
           MarkProcessed, CountPending, CheckBalance, StopOrdering
  <2>3. \A v \in Workers \ {w} : cardStep'[v] = cardStep[v] /\ cardJob'[v] = cardJob[v]
    BY <1>0, <1>1
       DEF BeginReplenish, RefreshToken, ListUnprocessed, AskStatus, FetchCard, InsertGood,
           MarkProcessed, CountPending, CheckBalance, StopOrdering, GiftCardsTypeOK
  <2> QED
    BY <1>0, <1>a, <2>1, <2>2, <2>3, RowsStillWritten DEF WritingRow
\* Orders that are started or filled are not paid for yet.
<1>2. ASSUME NEW w \in Workers, StartOrder(w) \/ AddCard(w)
      PROVE  PaidCardRecorded'
  <2>1. /\ UNCHANGED <<rows, abandoned>> /\ cardStep[w] \notin {"complete", "store"}
        /\ \A v \in Workers \ {w} : cardStep'[v] = cardStep[v] /\ cardJob'[v] = cardJob[v]
    BY <1>0, <1>2 DEF StartOrder, AddCard, GiftCardsTypeOK
  <2>2. PICK p \in Orders : /\ bh'[p].status = "incomplete"
                            /\ \A o \in Orders \ {p} : bh'[o] = bh[o]
    <3>1. CASE StartOrder(w)
      BY <1>0, <3>1 DEF StartOrder, StartedOrder, GiftCardsTypeOK
    <3>2. CASE AddCard(w)
      <4>1. cardJob[w].order \in Orders /\ bh[cardJob[w].order].status = "incomplete"
        BY <1>0, <3>2 DEF AddCard, JobOK, Ordering
      <4>2. PICK c \in Cards : bh' = [bh EXCEPT ![cardJob[w].order].cards = @ \cup {c}]
        BY <3>2 DEF AddCard, AddedCard
      <4>3. /\ bh'[cardJob[w].order].status = "incomplete"
            /\ \A o \in Orders \ {cardJob[w].order} : bh'[o] = bh[o]
        BY <1>0, <4>1, <4>2 DEF GiftCardsTypeOK, BhOrder
      <4> QED
        BY <4>1, <4>3
    <3> QED
      BY <1>2, <3>1, <3>2
  <2> QED
    BY <1>0, <1>a, <2>1, <2>2, RowsStillWritten DEF WritingRow
\* The cards of an order that is now paid for are those whose rows come next.
<1>3. ASSUME NEW w \in Workers, CompleteOrder(w)
      PROVE  PaidCardRecorded'
  <2> DEFINE p == cardJob[w].order
  <2>1. /\ UNCHANGED <<rows, abandoned, cardJob>>
        /\ cardStep' = [cardStep EXCEPT ![w] = "store"] /\ cardStep[w] = "complete"
    BY <1>3 DEF CompleteOrder
  <2>2. /\ p \in Orders /\ cardJob[w].left = bh[p].cards
        /\ \A o \in Orders \ {p} : bh'[o] = bh[o]
        /\ bh'[p].cards = bh[p].cards
    BY <1>0, <1>3, <2>1 DEF CompleteOrder, CompletedOrder, JobOK, Ordering, GiftCardsTypeOK, BhOrder
  <2>3. \A v \in Workers, c \in Cards : WritingRow(v, c) => WritingRow(v, c)'
    BY <1>0, <2>1 DEF WritingRow, GiftCardsTypeOK
  <2>4. \A c \in bh[p].cards : WritingRow(w, c)'
    BY <1>0, <2>1, <2>2 DEF WritingRow, GiftCardsTypeOK
  <2> SUFFICES ASSUME NEW o \in Orders, bh'[o].status \in {"pending", "processed", "cancelled"},
                      NEW c \in bh'[o].cards
               PROVE  c \in rows' \/ o \in abandoned' \/ \E v \in Workers : WritingRow(v, c)'
    BY DEF PaidCardRecorded
  <2>5. CASE o = p
    BY <2>2, <2>4, <2>5
  <2>6. CASE o # p
    <3>1. c \in rows \/ o \in abandoned \/ \E v \in Workers : WritingRow(v, c)
      BY <2>2, <2>6 DEF PaidCardRecorded
    <3>2. c \in Cards
      BY <1>0, <2>2, <2>6
    <3> QED
      BY <2>1, <2>3, <3>1, <3>2
  <2> QED
    BY <2>5, <2>6
<1>4. ASSUME NEW w \in Workers, StoreCard(w)
      PROVE  PaidCardRecorded'
  <2>1. /\ UNCHANGED <<bh, abandoned>>
        /\ \A v \in Workers \ {w} : cardStep'[v] = cardStep[v] /\ cardJob'[v] = cardJob[v]
        /\ cardStep[w] = "store"
    BY <1>0, <1>4 DEF StoreCard, GiftCardsTypeOK
  <2>2. PICK c \in cardJob[w].left :
          /\ rows' = rows \cup {c}
          /\ IF cardJob[w].left = {c}
               THEN TRUE
               ELSE /\ cardJob' = [cardJob EXCEPT ![w] = [cardJob[w] EXCEPT !.left = @ \ {c}]]
                    /\ UNCHANGED cardStep
    BY <1>4 DEF StoreCard
  <2>3. CASE cardJob[w].left = {c}
    <3>1. \A d \in Cards : WritingRow(w, d) => d \in rows'
      BY <2>2, <2>3 DEF WritingRow
    <3> QED
      BY <1>0, <1>a, <2>1, <2>2, <3>1, RowsStillWritten
  <2>4. CASE cardJob[w].left # {c}
    <3>1. cardJob'[w].left = cardJob[w].left \ {c} /\ cardStep'[w] = "store"
      BY <1>0, <2>1, <2>2, <2>4 DEF GiftCardsTypeOK, CardJob
    <3>2. \A d \in Cards : WritingRow(w, d) => d \in rows' \/ WritingRow(w, d)'
      BY <2>2, <3>1 DEF WritingRow
    <3> QED
      BY <1>0, <1>a, <2>1, <2>2, <3>2, RowsStillWritten
  <2> QED
    BY <2>3, <2>4
\* A job that dies while it has rows to write has them all in one order.
<1>5. ASSUME NEW w \in Workers, CardJobDies(w)
      PROVE  PaidCardRecorded'
  <2>1. /\ UNCHANGED <<bh, rows>> /\ abandoned \subseteq abandoned'
        /\ \A v \in Workers \ {w} : cardStep'[v] = cardStep[v] /\ cardJob'[v] = cardJob[v]
    BY <1>0, <1>5 DEF CardJobDies, GiftCardsTypeOK
  <2> SUFFICES ASSUME NEW o \in Orders, bh[o].status \in {"pending", "processed", "cancelled"},
                      NEW c \in bh[o].cards
               PROVE  c \in rows' \/ o \in abandoned' \/ \E v \in Workers : WritingRow(v, c)'
    BY <2>1 DEF PaidCardRecorded
  <2>2. c \in rows \/ o \in abandoned \/ \E v \in Workers : WritingRow(v, c)
    BY DEF PaidCardRecorded
  <2>3. CASE WritingRow(w, c)
    <3>1. /\ cardJob[w].order \in Orders /\ cardJob[w].left \subseteq bh[cardJob[w].order].cards
          /\ cardStep[w] \in {"complete", "store"}
      BY <1>0, <2>3 DEF WritingRow, JobOK, Ordering
    <3>2. cardJob[w].order = o
      BY <2>3, <3>1 DEF WritingRow, GiftCardsInv, CardsApart
    <3> QED
      BY <1>5, <3>1, <3>2 DEF CardJobDies
  <2>4. CASE ~WritingRow(w, c)
    <3>1. \A v \in Workers \ {w} : WritingRow(v, c) => WritingRow(v, c)'
      BY <2>1 DEF WritingRow
    <3> QED
      BY <2>1, <2>2, <2>4, <3>1
  <2> QED
    BY <2>3, <2>4
<1>6. ASSUME \/ \E o \in Orders : ProcessOrder(o) \/ CancelOrder(o)
             \/ \E c \in Cards : SellCard(c)
             \/ UNCHANGED giftCardsVars
      PROVE  PaidCardRecorded'
  <2>1. UNCHANGED <<rows, abandoned, cardStep, cardJob>>
    BY <1>6 DEF ProcessOrder, CancelOrder, SellCard, giftCardsVars
  <2>2. \A o \in Orders :
          \/ bh'[o] = bh[o]
          \/ bh'[o].cards = bh[o].cards /\ bh[o].status = "pending"
    BY <1>0, <1>6 DEF ProcessOrder, CancelOrder, SellCard, giftCardsVars, GiftCardsTypeOK, BhOrder
  <2> QED
    BY <2>1, <2>2 DEF PaidCardRecorded, WritingRow
<1> QED
  BY <1>1, <1>2, <1>3, <1>4, <1>5, <1>6 DEF GiftCardsNext, CardWork

\* A card that was paid for has its row in table blackhawk_card, unless a job is about
\* to write it or has died there.
THEOREM PaidRecorded == GiftCardsSpec => []PaidCardRecorded
<1>1. GiftCardsInit => PaidCardRecorded
  BY DEF GiftCardsInit, PaidCardRecorded
<1> QED
  BY <1>1, PaidStep, GiftCardsInvHolds, PTL DEF GiftCardsSpec

-----------------------------------------------------------------------------
(* How many orders may wait at once. *)

\* What a job knows of the order it fills: until it writes the rows, none of its cards
\* has one, and no other job is at it.  The offer is not short any more.
FillOK(w) ==
  /\ cardStep[w] \in Ordering => bh[cardJob[w].order].cards \cap rows = {}
  /\ cardStep[w] \in Ordering \cup {"store"} =>
       bh[cardJob[w].order].offer \in Offers \ cardJob[w].short

StoredApart ==
  \A v, w \in Workers : v # w /\ cardStep[v] = "store" /\ cardStep[w] \in Ordering =>
    cardJob[v].order # cardJob[w].order

\* A row is that of a card of some order; none is processed before its order.
CardsOfOrders ==
  /\ \A c \in rows : \E o \in Orders : c \in bh[o].cards
  /\ \A o \in Orders : /\ bh[o].status = "none" => bh[o].cards = {}
                       /\ bh[o].status = "pending" => bh[o].cards \cap processed = {}

FillInv == (\A w \in Workers : FillOK(w)) /\ StoredApart /\ CardsOfOrders

PendingOrders == {o \in Orders : bh[o].status = "pending" /\ UnprocessedOf(o) # {}}

\* The jobs that have listed the cards and not yet counted the orders that wait, and
\* the orders such a job counts or has yet to ask for.
CountSteps == {"status", "card", "insert"}
Counting == {w \in Workers : cardStep[w] \in CountSteps}
Known(w) == cardJob[w].asking \cup cardJob[w].waiting

\* The job will or may order f, or is at an order for f that does not wait yet.
Filling(w) ==
  \/ cardStep[w] \in Ordering
  \/ /\ cardStep[w] = "store" /\ bh[cardJob[w].order].status = "pending"
     /\ bh[cardJob[w].order].cards \cap rows = {}
Owes(w, f) ==
  \/ cardStep[w] \in OrderSteps /\ f \in cardJob[w].short
  \/ Filling(w) /\ f = bh[cardJob[w].order].offer

\* What may still be ordered if of the jobs that count only those in S go on to order.
MayOrder(S) == {p \in Workers \X Offers : p[1] \in S \cap Counting \/ Owes(p[1], p[2])}

MostOrders == Cardinality(Workers) * Cardinality(Offers)

\* There is room for what the jobs in S may order; or there will be if job v, one of
\* them, counts few enough of the orders it knows.
RoomFor(v, S) ==
  \/ Cardinality(PendingOrders) + Cardinality(MayOrder(S)) <= MaxPending + MostOrders
  \/ Cardinality(PendingOrders \ Known(v)) + Cardinality(MayOrder(S)) <= MostOrders

\* B[v] is v with the jobs that listed the cards before v did.
ListedBefore(B) ==
  \A v \in Counting :
    /\ v \in B[v] /\ RoomFor(v, B[v])
    /\ \A u \in Counting : B[v] \cap Counting \subseteq B[u] \/ u \in B[v]

PendingInv ==
  /\ Cardinality(PendingOrders) + Cardinality(MayOrder({})) <= MaxPending + MostOrders
  /\ \E B \in [Workers -> SUBSET Workers] : ListedBefore(B)

\* Sets of orders, and of what workers may order, can be counted.
LEMMA PendingCounted ==
  /\ \A S \in SUBSET Orders : IsFiniteSet(S) /\ Cardinality(S) \in Nat
  /\ \A T \in SUBSET Orders : \A S \in SUBSET T : Cardinality(S) <= Cardinality(T)
  /\ \A S \in SUBSET (Workers \X Offers) : /\ IsFiniteSet(S) /\ Cardinality(S) \in Nat
                                           /\ Cardinality(S) <= MostOrders
  /\ \A T \in SUBSET (Workers \X Offers) : \A S \in SUBSET T : Cardinality(S) <= Cardinality(T)
  /\ MostOrders \in Nat /\ MaxPending \in Nat
<1>1. \A S \in SUBSET Orders : IsFiniteSet(S) /\ Cardinality(S) \in Nat
  BY GiftCardsFinite, FS_Subset, FS_CardinalityType
<1>2. \A T \in SUBSET Orders : \A S \in SUBSET T : Cardinality(S) <= Cardinality(T)
  BY <1>1, FS_Subset
<1>3. IsFiniteSet(Workers \X Offers) /\ Cardinality(Workers \X Offers) = MostOrders
  BY GiftCardsFinite, ThreadsAssumption, FS_Product DEF MostOrders
<1>4. \A S \in SUBSET (Workers \X Offers) : IsFiniteSet(S) /\ Cardinality(S) \in Nat
                                            /\ Cardinality(S) <= MostOrders
  BY <1>3, FS_Subset, FS_CardinalityType
<1>5. \A T \in SUBSET (Workers \X Offers) : \A S \in SUBSET T : Cardinality(S) <= Cardinality(T)
  BY <1>4, FS_Subset
<1>6. MostOrders \in Nat /\ MaxPending \in Nat
  BY <1>3, <1>4, GiftCardsAssumption, FS_CardinalityType
<1>7. QED
  BY <1>1, <1>2, <1>4, <1>5, <1>6

\* Room is left when fewer orders wait and less may be ordered.
LEMMA RoomKept ==
  ASSUME NEW v, NEW S, NEW T,
         PendingOrders' \subseteq PendingOrders, MayOrder(T)' \subseteq MayOrder(S)
  PROVE  /\ Cardinality(PendingOrders) + Cardinality(MayOrder(S)) <= MaxPending + MostOrders =>
              Cardinality(PendingOrders') + Cardinality(MayOrder(T)') <= MaxPending + MostOrders
         /\ RoomFor(v, S) /\ PendingOrders \cap Known(v) \subseteq Known(v)' => RoomFor(v, T)'
<1>1. PICK P : P = PendingOrders
  OBVIOUS
<1>2. PICK Q : Q = PendingOrders'
  OBVIOUS
<1>3. PICK X : X = MayOrder(S)
  OBVIOUS
<1>4. PICK Y : Y = MayOrder(T)'
  OBVIOUS
<1>5. /\ P \in SUBSET Orders /\ Q \in SUBSET P /\ Q \in SUBSET Orders
      /\ X \in SUBSET (Workers \X Offers) /\ Y \in SUBSET X /\ Y \in SUBSET (Workers \X Offers)
  BY <1>1, <1>2, <1>3, <1>4 DEF PendingOrders, MayOrder
<1>6. /\ Cardinality(Q) <= Cardinality(P) /\ Cardinality(P) \in Nat /\ Cardinality(Q) \in Nat
      /\ Cardinality(Y) <= Cardinality(X) /\ Cardinality(X) \in Nat /\ Cardinality(Y) \in Nat
      /\ MostOrders \in Nat /\ MaxPending \in Nat
  BY <1>5, PendingCounted
<1>7. Cardinality(P) + Cardinality(X) <= MaxPending + MostOrders =>
        Cardinality(Q) + Cardinality(Y) <= MaxPending + MostOrders
  BY <1>6
<1>8. ASSUME RoomFor(v, S), PendingOrders \cap Known(v) \subseteq Known(v)'
      PROVE  RoomFor(v, T)'
  <2>1. PICK K : K = P \ Known(v)
    OBVIOUS
  <2>2. PICK L : L = Q \ Known(v)'
    OBVIOUS
  <2>3. L \in SUBSET K /\ K \in SUBSET Orders /\ L \in SUBSET Orders
    BY <1>1, <1>5, <1>8, <2>1, <2>2
  <2>4. Cardinality(L) <= Cardinality(K) /\ Cardinality(L) \in Nat /\ Cardinality(K) \in Nat
    BY <2>3, PendingCounted
  <2>5. \/ Cardinality(P) + Cardinality(X) <= MaxPending + MostOrders
        \/ Cardinality(K) + Cardinality(X) <= MostOrders
    BY <1>1, <1>3, <1>8, <2>1 DEF RoomFor
  <2>6. \/ Cardinality(Q) + Cardinality(Y) <= MaxPending + MostOrders
        \/ Cardinality(L) + Cardinality(Y) <= MostOrders
    BY <1>6, <1>7, <2>4, <2>5
  <2>7. QED
    BY <1>2, <1>4, <2>2, <2>6 DEF RoomFor, MostOrders
<1>9. QED
  BY <1>1, <1>2, <1>3, <1>4, <1>7, <1>8

\* Fewer orders wait, less may be ordered, and no job forgets an order that waits.
LEMMA PendingShrinks ==
  ASSUME PendingInv, PendingOrders' \subseteq PendingOrders, Counting' \subseteq Counting,
         \A w \in Workers, f \in Offers : Owes(w, f)' => Owes(w, f),
         \A v \in Counting' : PendingOrders \cap Known(v) \subseteq Known(v)'
  PROVE  PendingInv'
<1>1. \A S : MayOrder(S)' \subseteq MayOrder(S)
  BY DEF MayOrder
<1>2. PICK B \in [Workers -> SUBSET Workers] : ListedBefore(B)
  BY DEF PendingInv
<1>3. ASSUME NEW v \in Counting' PROVE RoomFor(v, B[v])'
  <2>1. v \in Workers /\ v \in Counting
    BY DEF Counting
  <2>2. RoomFor(v, B[v]) /\ PendingOrders \cap Known(v) \subseteq Known(v)'
    BY <1>2, <1>3, <2>1 DEF ListedBefore
  <2>3. PICK S : S = B[v]
    OBVIOUS
  <2>4. RoomFor(v, S) => RoomFor(v, S)'
    BY <1>1, <2>1, <2>2, RoomKept
  <2>5. QED
    BY <2>2, <2>3, <2>4
<1>4. ListedBefore(B)'
  <2>1. \A v \in Counting' : v \in B[v] /\ \A u \in Counting' :
          B[v] \cap Counting' \subseteq B[u] \/ u \in B[v]
    BY <1>2 DEF ListedBefore
  <2>2. QED
    BY <1>3, <2>1 DEF ListedBefore
<1>5. Cardinality(PendingOrders') + Cardinality(MayOrder({})') <= MaxPending + MostOrders
  BY <1>1, RoomKept DEF PendingInv
<1>6. QED
  BY <1>2, <1>4, <1>5 DEF PendingInv, MostOrders

\* What a job owes while another one takes a step.
LEMMA OwesKept ==
  ASSUME GiftCardsInv, NEW v \in Workers,
         cardStep'[v] = cardStep[v], cardJob'[v] = cardJob[v], rows \subseteq rows',
         \A o \in Orders :
           \/ bh[o].status = "none"
           \/ /\ bh'[o].offer = bh[o].offer /\ bh[o].cards \subseteq bh'[o].cards
              /\ cardStep[v] = "store" /\ cardJob[v].order = o /\ bh'[o].status = "pending" =>
                   bh[o].status = "pending"
  PROVE  \A f \in Offers : Owes(v, f)' => Owes(v, f)
<1> DEFINE o == cardJob[v].order
<1>1. JobOK(v)
  BY DEF GiftCardsInv
<1>2. CASE cardStep[v] \in Ordering \cup {"store"}
  <2>1. o \in Orders /\ bh[o].status # "none"
    BY <1>1, <1>2 DEF JobOK, Ordering
  <2>2. /\ bh'[o].offer = bh[o].offer /\ bh[o].cards \subseteq bh'[o].cards
        /\ cardStep[v] = "store" /\ bh'[o].status = "pending" => bh[o].status = "pending"
    BY <2>1
  <2>3. Filling(v)' => Filling(v)
    BY <2>2 DEF Filling
  <2>4. QED
    BY <2>2, <2>3 DEF Owes
<1>3. CASE cardStep[v] \notin Ordering \cup {"store"}
  BY <1>3 DEF Owes, Filling
<1>4. QED
  BY <1>2, <1>3

\* What a job knows of the order it fills stays true while another one takes a step.
LEMMA FillKept ==
  ASSUME GiftCardsInv, FillInv, NEW v \in Workers,
         cardStep'[v] = cardStep[v], cardJob'[v] = cardJob[v],
         \A o \in Orders : bh[o].status # "none" => bh'[o].offer = bh[o].offer,
         cardStep[v] \in Ordering => /\ bh'[cardJob[v].order].cards = bh[cardJob[v].order].cards
                                    /\ bh[cardJob[v].order].cards \cap rows' = {}
  PROVE  FillOK(v)'
<1>1. JobOK(v) /\ FillOK(v)
  BY DEF GiftCardsInv, FillInv
<1>2. cardStep[v] \in Ordering \cup {"store"} =>
        cardJob[v].order \in Orders /\ bh[cardJob[v].order].status # "none"
  BY <1>1 DEF JobOK, Ordering
<1>3. QED
  BY <1>1, <1>2 DEF FillOK

\* A job takes a step that leaves the orders and the rows alone.
LEMMA QuietKeepsFill ==
  ASSUME GiftCardsInv, FillInv, NEW w \in Workers,
         \A v \in Workers \ {w} : cardStep'[v] = cardStep[v] /\ cardJob'[v] = cardJob[v],
         cardStep'[w] \notin Ordering \cup {"store"}, UNCHANGED <<bh, rows>>,
         \A o \in Orders : bh[o].status = "pending" => bh[o].cards \cap processed' = {}
  PROVE  FillInv'
<1>1. ASSUME NEW v \in Workers \ {w} PROVE FillOK(v)'
  <2>1. JobOK(v) /\ FillOK(v)
    BY DEF GiftCardsInv, FillInv
  <2>2. QED
    BY <2>1, FillKept DEF FillOK
<1>2. FillOK(w)'
  BY DEF FillOK
<1>3. StoredApart'
  BY DEF FillInv, StoredApart, Ordering
<1>4. \A v \in Workers : FillOK(v)'
  BY <1>1, <1>2 DEF FillOK
<1>5. CardsOfOrders'
  BY DEF FillInv, CardsOfOrders
<1>6. QED
  BY <1>3, <1>4, <1>5 DEF FillInv

\* Every step keeps what a job knows of the order it fills.
LEMMA FillStep ==
  GiftCardsInv /\ FillInv /\ [GiftCardsNext]_giftCardsVars => FillInv'
<1> SUFFICES ASSUME GiftCardsInv, FillInv, [GiftCardsNext]_giftCardsVars PROVE FillInv'
  OBVIOUS
<1> USE DEF CardGoto, SetCardJob, CardFinish, cardTables
<1>0. /\ cardStep \in [Workers -> CardSteps] /\ cardJob \in [Workers -> CardJob]
      /\ bh \in [Orders -> BhOrder] /\ processed \subseteq rows /\ rows \subseteq Cards
  BY DEF GiftCardsInv, GiftCardsTypeOK
<1>a. \A w \in Workers : JobOK(w) /\ FillOK(w)
  BY DEF GiftCardsInv, FillInv
\* The steps before an order is started.
<1>1. ASSUME NEW w \in Workers,
             \/ BeginReplenish(w) \/ RefreshToken(w) \/ ListUnprocessed(w) \/ AskStatus(w)
             \/ FetchCard(w) \/ InsertGood(w) \/ CountPending(w)
             \/ CheckBalance(w) \/ StopOrdering(w) \/ CardJobDies(w)
      PROVE  FillInv'
  <2>1. UNCHANGED <<bh, rows, processed>>
    BY <1>1 DEF BeginReplenish, RefreshToken, ListUnprocessed, AskStatus, FetchCard, InsertGood,
                CountPending, CheckBalance, StopOrdering, CardJobDies
  <2>2. cardStep'[w] \notin Ordering \cup {"store"}
    BY <1>0, <1>1 DEF BeginReplenish, RefreshToken, ListUnprocessed, AskStatus, FetchCard,
                      InsertGood, CountPending, CheckBalance, StopOrdering, CardJobDies, Ordering
  <2>3. \A v \in Workers \ {w} : cardStep'[v] = cardStep[v] /\ cardJob'[v] = cardJob[v]
    BY <1>0, <1>1 DEF BeginReplenish, RefreshToken, ListUnprocessed, AskStatus, FetchCard,
                      InsertGood, CountPending, CheckBalance, StopOrdering, CardJobDies
  <2>4. \A o \in Orders : bh[o].status = "pending" => bh[o].cards \cap processed' = {}
    BY <2>1 DEF FillInv, CardsOfOrders
  <2>5. QED
    BY <2>1, <2>2, <2>3, <2>4, QuietKeepsFill
<1>2. ASSUME NEW w \in Workers, MarkProcessed(w) PROVE FillInv'
  <2> DEFINE p == cardJob[w].order
  <2>1. /\ UNCHANGED <<bh, rows>> /\ cardStep'[w] = "status" /\ cardStep[w] = "card"
        /\ \A v \in Workers \ {w} : cardStep'[v] = cardStep[v] /\ cardJob'[v] = cardJob[v]
        /\ processed' \subseteq processed \cup bh[p].cards
    BY <1>0, <1>2 DEF MarkProcessed
  <2>2. p \in Orders /\ bh[p].status = "processed"
    BY <1>a, <2>1 DEF JobOK, Converting
  <2>3. \A o \in Orders : bh[o].status = "pending" => bh[o].cards \cap bh[p].cards = {}
    BY <2>2 DEF GiftCardsInv, CardsApart
  <2>4. \A o \in Orders : bh[o].status = "pending" => bh[o].cards \cap processed' = {}
    BY <2>1, <2>3 DEF FillInv, CardsOfOrders
  <2>5. QED
    BY <2>1, <2>4, QuietKeepsFill DEF Ordering
<1>3. ASSUME NEW w \in Workers, StartOrder(w) PROVE FillInv'
  <2>1. PICK f \in cardJob[w].short, o \in Orders :
          /\ StartedOrder(o, f)
          /\ cardJob' = [cardJob EXCEPT ![w] = [cardJob[w] EXCEPT !.short = @ \ {f}, !.order = o]]
    BY <1>3 DEF StartOrder
  <2>2. /\ UNCHANGED <<rows, processed>> /\ cardStep' = [cardStep EXCEPT ![w] = "add"]
    BY <1>3 DEF StartOrder
  <2>3. /\ bh[o].status = "none" /\ \A p \in Orders \ {o} : bh'[p] = bh[p]
        /\ bh'[o] = [status |-> "incomplete", offer |-> f, cards |-> {}]
    BY <1>0, <2>1 DEF StartedOrder
  <2>4. \A v \in Workers \ {w} : cardStep'[v] = cardStep[v] /\ cardJob'[v] = cardJob[v]
    BY <1>0, <2>1, <2>2
  <2>5. /\ cardStep'[w] = "add" /\ cardJob'[w].order = o /\ f \in Offers
        /\ cardJob'[w].short = cardJob[w].short \ {f}
    BY <1>0, <2>1, <2>2 DEF CardJob
  <2>6. FillOK(w)'
    BY <2>3, <2>5 DEF FillOK
  <2>7. ASSUME NEW v \in Workers \ {w} PROVE FillOK(v)'
    <3>1. cardStep[v] \in Ordering \cup {"store"} => cardJob[v].order \in Orders \ {o}
      BY <1>a, <2>3 DEF JobOK, Ordering
    <3>2. cardStep[v] \in Ordering => bh'[cardJob[v].order] = bh[cardJob[v].order]
                                     /\ bh[cardJob[v].order].cards \cap rows' = {}
      BY <2>2, <2>3, <3>1 DEF FillInv, FillOK
    <3>3. QED
      BY <2>3, <2>4, <3>2, FillKept
  <2>8. StoredApart'
    <3>1. \A u \in Workers \ {w} : cardStep[u] = "store" => cardJob[u].order # o
      BY <1>a, <2>3 DEF JobOK
    <3>2. QED
      BY <2>4, <2>5, <3>1 DEF FillInv, StoredApart
  <2>9. CardsOfOrders'
    BY <2>2, <2>3 DEF CardsOfOrders, FillInv
  <2>11. \A v \in Workers : FillOK(v)'
    BY <2>6, <2>7 DEF FillOK
  <2>12. QED
    BY <2>11, <2>8, <2>9 DEF FillInv
<1>4. ASSUME NEW w \in Workers, AddCard(w) PROVE FillInv'
  <2> DEFINE p == cardJob[w].order
  <2>1. PICK c \in Cards :
          /\ FreshCard(c) /\ bh' = [bh EXCEPT ![p].cards = @ \cup {c}]
          /\ cardJob' = [cardJob EXCEPT ![w] = [cardJob[w] EXCEPT !.left = @ \cup {c}]]
    BY <1>4 DEF AddCard, AddedCard
  <2>2. /\ UNCHANGED <<rows, processed>> /\ cardStep[w] = "add"
        /\ \/ cardStep' = [cardStep EXCEPT ![w] = "add"]
           \/ cardStep' = [cardStep EXCEPT ![w] = "complete"]
    BY <1>4 DEF AddCard
  <2>3. p \in Orders /\ bh[p].status = "incomplete" /\ "add" \in Ordering
    BY <1>a, <2>2 DEF JobOK, Ordering
  <2>4. /\ bh'[p].cards = bh[p].cards \cup {c} /\ bh'[p].status = "incomplete"
        /\ bh'[p].offer = bh[p].offer /\ \A o \in Orders \ {p} : bh'[o] = bh[o]
    BY <1>0, <2>1, <2>3 DEF BhOrder
  <2>5. /\ \A v \in Workers \ {w} : cardStep'[v] = cardStep[v] /\ cardJob'[v] = cardJob[v]
        /\ cardJob'[w].order = p /\ cardJob'[w].short = cardJob[w].short
        /\ cardStep'[w] \in Ordering
    BY <1>0, <2>1, <2>2 DEF CardJob, Ordering
  <2>6. c \notin rows
    BY <2>1 DEF FreshCard, FillInv, CardsOfOrders
  <2>7. FillOK(w)'
    BY <1>a, <2>2, <2>3, <2>4, <2>5, <2>6 DEF FillOK
  <2>8. ASSUME NEW v \in Workers \ {w} PROVE FillOK(v)'
    <3>1. cardStep[v] \in Ordering => cardJob[v].order \in Orders \ {p}
      BY <1>a, <2>2, <2>3 DEF JobOK, Ordering, GiftCardsInv, OwnOrders
    <3>2. cardStep[v] \in Ordering => bh'[cardJob[v].order] = bh[cardJob[v].order]
                                     /\ bh[cardJob[v].order].cards \cap rows' = {}
      BY <2>2, <2>4, <3>1 DEF FillInv, FillOK
    <3>3. QED
      BY <2>4, <2>5, <3>2, FillKept
  <2>9. StoredApart'
    BY <2>2, <2>3, <2>5 DEF StoredApart, FillInv, Ordering
  <2>10. CardsOfOrders'
    BY <2>2, <2>3, <2>4 DEF CardsOfOrders, FillInv
  <2>11. \A v \in Workers : FillOK(v)'
    BY <2>7, <2>8 DEF FillOK
  <2>12. QED
    BY <2>11, <2>9, <2>10 DEF FillInv
<1>5. ASSUME NEW w \in Workers, CompleteOrder(w) PROVE FillInv'
  <2> DEFINE p == cardJob[w].order
  <2>1. /\ UNCHANGED <<rows, processed, cardJob>> /\ cardStep[w] = "complete"
        /\ cardStep' = [cardStep EXCEPT ![w] = "store"]
        /\ bh' = [bh EXCEPT ![p].status = "pending"] \/ bh' = bh
    BY <1>5 DEF CompleteOrder, CompletedOrder
  <2>2. p \in Orders /\ bh[p].status = "incomplete" /\ bh[p].cards \cap rows = {}
    BY <1>a, <2>1 DEF JobOK, FillOK, Ordering
  <2>3. /\ bh'[p].status \in {"incomplete", "pending"} /\ bh'[p].cards = bh[p].cards
        /\ bh'[p].offer = bh[p].offer /\ \A o \in Orders \ {p} : bh'[o] = bh[o]
    BY <1>0, <2>1, <2>2 DEF BhOrder
  <2>4. cardStep'[w] = "store" /\ \A v \in Workers \ {w} : cardStep'[v] = cardStep[v]
    BY <1>0, <2>1
  <2>5. FillOK(w)'
    BY <1>a, <2>1, <2>2, <2>3, <2>4 DEF FillOK, Ordering
  <2>6. ASSUME NEW v \in Workers \ {w} PROVE FillOK(v)'
    <3>1. cardStep[v] \in Ordering => cardJob[v].order \in Orders
      BY <1>a DEF JobOK
    <3>2. cardStep[v] \in Ordering => bh'[cardJob[v].order].cards = bh[cardJob[v].order].cards
                                     /\ bh[cardJob[v].order].cards \cap rows' = {}
      BY <2>1, <2>3, <3>1 DEF FillInv, FillOK
    <3>3. \A o \in Orders : bh'[o].offer = bh[o].offer
      BY <2>3
    <3>4. QED
      BY <2>1, <2>4, <3>2, <3>3, FillKept
  <2>7. StoredApart'
    <3>1. \A v \in Workers \ {w} : cardStep[v] \in Ordering => cardJob[v].order # p
      BY <2>1 DEF GiftCardsInv, OwnOrders, Ordering
    <3>2. "store" \notin Ordering
      BY DEF Ordering
    <3>3. QED
      BY <2>1, <2>4, <3>1, <3>2 DEF FillInv, StoredApart, Ordering
  <2>8. CardsOfOrders'
    BY <1>0, <2>1, <2>2, <2>3 DEF CardsOfOrders, FillInv
  <2>9. \A v \in Workers : FillOK(v)'
    BY <2>5, <2>6 DEF FillOK
  <2>10. QED
    BY <2>9, <2>7, <2>8 DEF FillInv
<1>6. ASSUME NEW w \in Workers, StoreCard(w) PROVE FillInv'
  <2> DEFINE p == cardJob[w].order
  <2>1. /\ UNCHANGED <<bh, processed>> /\ cardStep[w] = "store"
        /\ cardStep'[w] \in {"store", "offer"}
        /\ \A v \in Workers \ {w} : cardStep'[v] = cardStep[v] /\ cardJob'[v] = cardJob[v]
        /\ \/ cardStep'[w] = "offer"
           \/ cardJob'[w].order = p /\ cardJob'[w].short = cardJob[w].short
    <3>1. PICK x \in CardJob : x = cardJob[w]
      BY <1>0
    <3>2. PICK c \in x.left :
            \/ cardStep' = [cardStep EXCEPT ![w] = "offer"]
            \/ cardJob' = [cardJob EXCEPT ![w] = [x EXCEPT !.left = @ \ {c}]]
               /\ cardStep' = cardStep
      BY <1>6, <3>1 DEF StoreCard
    <3>3. [x EXCEPT !.left = @ \ {c}].order = x.order /\ [x EXCEPT !.left = @ \ {c}].short = x.short
      BY DEF CardJob
    <3>4. /\ UNCHANGED <<bh, processed>> /\ cardStep[w] = "store"
          /\ \A v \in Workers \ {w} : cardStep'[v] = cardStep[v] /\ cardJob'[v] = cardJob[v]
      BY <1>0, <1>6 DEF StoreCard
    <3>5. QED
      BY <1>0, <3>1, <3>2, <3>3, <3>4
  <2>2. PICK c \in cardJob[w].left : rows' = rows \cup {c}
    BY <1>6 DEF StoreCard
  <2>3. p \in Orders /\ c \in bh[p].cards
    BY <1>a, <2>1, <2>2 DEF JobOK
  <2>4. ASSUME NEW v \in Workers \ {w} PROVE FillOK(v)'
    <3>1. cardStep[v] \in Ordering => cardJob[v].order \in Orders \ {p}
      BY <1>a, <2>1 DEF JobOK, FillInv, StoredApart
    <3>2. cardStep[v] \in Ordering => bh[cardJob[v].order].cards \cap rows' = {}
      BY <2>2, <2>3, <3>1 DEF FillInv, FillOK, GiftCardsInv, CardsApart
    <3>3. QED
      BY <2>1, <3>2, FillKept
  <2>5. FillOK(w)'
    BY <1>a, <2>1 DEF FillOK, Ordering
  <2>6. StoredApart'
    BY <2>1 DEF StoredApart, FillInv, Ordering
  <2>7. CardsOfOrders'
    BY <2>1, <2>2, <2>3 DEF CardsOfOrders, FillInv
  <2>8. \A v \in Workers : FillOK(v)'
    BY <2>4, <2>5 DEF FillOK
  <2>9. QED
    BY <2>8, <2>6, <2>7 DEF FillInv
<1>7. ASSUME \/ \E o \in Orders : ProcessOrder(o) \/ CancelOrder(o)
             \/ \E c \in Cards : SellCard(c)
             \/ UNCHANGED giftCardsVars
      PROVE  FillInv'
  <2>1. /\ UNCHANGED <<rows, processed, cardStep, cardJob>>
        /\ \A o \in Orders :
             \/ bh'[o] = bh[o]
             \/ /\ bh[o].status = "pending" /\ bh'[o].status \in {"processed", "cancelled"}
                /\ bh'[o].cards = bh[o].cards /\ bh'[o].offer = bh[o].offer
    BY <1>0, <1>7 DEF ProcessOrder, CancelOrder, SellCard, giftCardsVars, BhOrder
  <2>2. \A w \in Workers : FillOK(w)'
    <3> SUFFICES ASSUME NEW w \in Workers PROVE FillOK(w)'
      OBVIOUS
    <3>1. cardStep[w] \in Ordering => cardJob[w].order \in Orders
      BY <1>a DEF JobOK
    <3>2. cardStep[w] \in Ordering => bh'[cardJob[w].order].cards = bh[cardJob[w].order].cards
                                     /\ bh[cardJob[w].order].cards \cap rows' = {}
      BY <2>1, <3>1 DEF FillInv, FillOK
    <3>3. QED
      BY <2>1, <3>2, FillKept
  <2>3. QED
    BY <2>1, <2>2 DEF FillInv, StoredApart, CardsOfOrders, Ordering
<1>8. QED
  BY <1>1, <1>2, <1>3, <1>4, <1>5, <1>6, <1>7 DEF GiftCardsNext, CardWork

\* A job goes on without an effect on the orders, or ends.
LEMMA QuietKeepsPending ==
  ASSUME GiftCardsInv, PendingInv, NEW w \in Workers,
         \A v \in Workers \ {w} : cardStep'[v] = cardStep[v] /\ cardJob'[v] = cardJob[v],
         UNCHANGED <<bh, rows>>, processed \subseteq processed',
         \/ cardStep'[w] \in {"idle", "refresh", "list"}
         \/ /\ cardStep[w] \in CountSteps /\ cardStep'[w] \in CountSteps
            /\ PendingOrders \cap Known(w) \subseteq Known(w)'
         \/ cardStep[w] = "balance" /\ cardStep'[w] = "offer" /\ cardJob'[w] = cardJob[w]
  PROVE  PendingInv'
<1>1. PendingOrders' \subseteq PendingOrders
  BY DEF PendingOrders, UnprocessedOf
<1>2. Counting' \subseteq Counting
  BY DEF Counting, CountSteps
<1>3. ASSUME NEW v \in Workers \ {w} PROVE \A f \in Offers : Owes(v, f)' => Owes(v, f)
  BY OwesKept
<1>4. \A f \in Offers : Owes(w, f)' => Owes(w, f)
  BY DEF Owes, Filling, Ordering, OrderSteps, CountSteps
<1>5. ASSUME NEW v \in Workers, NEW f \in Offers, Owes(v, f)' PROVE Owes(v, f)
  <2>1. CASE v = w
    BY <1>4, <1>5, <2>1 DEF Owes, Filling
  <2>2. CASE v # w
    BY <1>3, <1>5, <2>2 DEF Owes, Filling
  <2>3. QED
    BY <2>1, <2>2
<1>6. ASSUME NEW v \in Counting' PROVE PendingOrders \cap Known(v) \subseteq Known(v)'
  <2>1. CASE v = w
    BY <1>6, <2>1 DEF Counting, CountSteps, Known
  <2>2. CASE v # w
    BY <1>6, <2>2 DEF Counting, Known
  <2>3. QED
    BY <2>1, <2>2
<1>7. QED
  BY <1>1, <1>2, <1>5, <1>6, PendingShrinks DEF Owes, Filling, Known

\* An order that is asked for leaves the orders a job knows only when it does not wait.
LEMMA AskKeepsKnown ==
  ASSUME GiftCardsInv, NEW w \in Workers, AskStatus(w)
  PROVE  /\ cardStep'[w] \in CountSteps /\ PendingOrders \cap Known(w) \subseteq Known(w)'
<1> USE DEF CardGoto, SetCardJob
<1>1. PICK x \in CardJob : x = cardJob[w]
  BY DEF GiftCardsInv, GiftCardsTypeOK
<1>2. /\ cardStep \in [Workers -> CardSteps] /\ cardJob \in [Workers -> CardJob]
      /\ cardStep[w] = "status"
  BY DEF GiftCardsInv, GiftCardsTypeOK, AskStatus
<1>3. PICK o \in x.asking, answered \in Answered :
        LET j == [x EXCEPT !.asking = @ \ {o}]
            status == StatusOf(o, answered)
        IN
        \/ /\ status \in {"incomplete", "cancelled"}
           /\ cardJob' = [cardJob EXCEPT ![w] = j] /\ cardStep' = cardStep
        \/ /\ status = "processed"
           /\ cardJob' = [cardJob EXCEPT ![w] =
                            [j EXCEPT !.order = o, !.left = bh[o].cards \cap j.listed]]
           /\ cardStep' = [cardStep EXCEPT ![w] = "card"]
        \/ /\ cardJob' = [cardJob EXCEPT ![w] = [j EXCEPT !.waiting = @ \cup {o}]]
           /\ cardStep' = cardStep
  BY <1>1 DEF AskStatus
<1> DEFINE status == StatusOf(o, answered)
           j == [x EXCEPT !.asking = @ \ {o}]
           l == bh[o].cards \cap j.listed
<1>4. j.asking = x.asking \ {o} /\ j.waiting = x.waiting /\ j \in CardJob
  BY DEF CardJob
<1>5. status \in {"incomplete", "cancelled", "processed"} => o \notin PendingOrders
  BY DEF StatusOf, PendingOrders
<1> HIDE DEF status, j, l
<1>6. /\ [j EXCEPT !.order = o, !.left = l].asking = j.asking
      /\ [j EXCEPT !.order = o, !.left = l].waiting = j.waiting
      /\ [j EXCEPT !.waiting = @ \cup {o}].asking = j.asking
      /\ [j EXCEPT !.waiting = @ \cup {o}].waiting = j.waiting \cup {o}
  BY <1>4 DEF CardJob
<1>7. \/ /\ o \notin PendingOrders /\ cardJob'[w].asking = j.asking
         /\ cardJob'[w].waiting = j.waiting
      \/ cardJob'[w].asking = j.asking /\ cardJob'[w].waiting = j.waiting \cup {o}
  BY <1>2, <1>3, <1>5, <1>6 DEF status, j, l
<1>8. cardStep'[w] \in CountSteps
  BY <1>2, <1>3 DEF CountSteps
<1>9. QED
  BY <1>1, <1>4, <1>7, <1>8 DEF Known

\* The cards of a processed order are converted: the orders the job knows stay.
LEMMA ConvertKeepsKnown ==
  ASSUME GiftCardsInv, NEW w \in Workers, FetchCard(w) \/ InsertGood(w) \/ MarkProcessed(w)
  PROVE  /\ cardStep'[w] \in CountSteps /\ Known(w)' = Known(w)
<1> USE DEF CardGoto, SetCardJob
<1>1. PICK x \in CardJob : x = cardJob[w]
  BY DEF GiftCardsInv, GiftCardsTypeOK
<1>2. cardStep \in [Workers -> CardSteps] /\ cardJob \in [Workers -> CardJob]
  BY DEF GiftCardsInv, GiftCardsTypeOK
<1>3. CASE FetchCard(w)
  <2>1. PICK c \in x.left :
          /\ \/ cardJob' = [cardJob EXCEPT ![w] = [x EXCEPT !.left = @ \ {c}]]
             \/ cardJob' = [cardJob EXCEPT ![w] = [[x EXCEPT !.left = @ \ {c}] EXCEPT !.card = c]]
          /\ cardStep' = cardStep \/ cardStep' = [cardStep EXCEPT ![w] = "insert"]
          /\ cardStep[w] = "card"
    BY <1>1, <1>3 DEF FetchCard
  <2> DEFINE j == [x EXCEPT !.left = @ \ {c}]
             k == [j EXCEPT !.card = c]
  <2>2. /\ j.asking = x.asking /\ j.waiting = x.waiting
        /\ k.asking = x.asking /\ k.waiting = x.waiting
    BY DEF CardJob
  <2>3. cardJob' = [cardJob EXCEPT ![w] = j] \/ cardJob' = [cardJob EXCEPT ![w] = k]
    BY <2>1
  <2> HIDE DEF j, k
  <2>4. cardJob'[w].asking = x.asking /\ cardJob'[w].waiting = x.waiting
    BY <1>2, <2>2, <2>3
  <2>5. cardStep'[w] \in {"card", "insert"}
    BY <1>2, <2>1
  <2>6. QED
    BY <1>1, <2>4, <2>5 DEF Known, CountSteps
<1>4. CASE InsertGood(w)
  <2> DEFINE j == [x EXCEPT !.card = None]
  <2>1. cardJob' = [cardJob EXCEPT ![w] = j] /\ cardStep' = [cardStep EXCEPT ![w] = "card"]
    BY <1>1, <1>4 DEF InsertGood
  <2>2. j.asking = x.asking /\ j.waiting = x.waiting
    BY DEF CardJob
  <2> HIDE DEF j
  <2>3. QED
    BY <1>1, <1>2, <2>1, <2>2 DEF Known, CountSteps
<1>5. CASE MarkProcessed(w)
  <2> DEFINE j == [x EXCEPT !.order = None]
  <2>1. cardJob' = [cardJob EXCEPT ![w] = j] /\ cardStep' = [cardStep EXCEPT ![w] = "status"]
    BY <1>1, <1>5 DEF MarkProcessed
  <2>2. j.asking = x.asking /\ j.waiting = x.waiting
    BY DEF CardJob
  <2> HIDE DEF j
  <2>3. QED
    BY <1>1, <1>2, <2>1, <2>2 DEF Known, CountSteps
<1>6. QED
  BY <1>3, <1>4, <1>5

\* A job that lists the cards knows every order that waits.
LEMMA ListKeepsPending ==
  ASSUME GiftCardsInv, PendingInv, NEW w \in Workers, ListUnprocessed(w)
  PROVE  PendingInv'
<1> DEFINE A == {o \in Orders : UnprocessedOf(o) # {}}
<1>1. PICK x \in CardJob : x = cardJob[w]
  BY DEF GiftCardsInv, GiftCardsTypeOK
<1>2. /\ cardStep \in [Workers -> CardSteps] /\ cardJob \in [Workers -> CardJob]
      /\ cardStep[w] = "list" /\ UNCHANGED <<bh, rows, processed>>
      /\ cardStep' = [cardStep EXCEPT ![w] = "status"]
      /\ cardJob' = [cardJob EXCEPT ![w] = [x EXCEPT !.listed = rows \ processed, !.asking = A]]
  BY <1>1 DEF GiftCardsInv, GiftCardsTypeOK, ListUnprocessed, CardGoto, SetCardJob, cardTables
<1>3. /\ PendingOrders' = PendingOrders /\ PendingOrders \subseteq A
  BY <1>2 DEF PendingOrders, UnprocessedOf
<1>4. A \subseteq Known(w)'
  <2> DEFINE L == rows \ processed
  <2> HIDE DEF A, L
  <2>1. [x EXCEPT !.listed = L, !.asking = A].asking = A
    BY DEF CardJob
  <2>2. cardJob' = [cardJob EXCEPT ![w] = [x EXCEPT !.listed = L, !.asking = A]]
    BY <1>2 DEF L, A
  <2>3. QED
    BY <1>2, <2>1, <2>2 DEF Known
<1> HIDE DEF A
<1>5. /\ \A v \in Workers \ {w} : cardStep'[v] = cardStep[v] /\ cardJob'[v] = cardJob[v]
      /\ cardStep'[w] = "status"
  BY <1>2
<1>6. Counting' = Counting \cup {w}
  BY <1>2, <1>5 DEF Counting, CountSteps
<1>7. ASSUME NEW v \in Workers, NEW f \in Offers, Owes(v, f)' PROVE Owes(v, f)
  <2>1. v # w
    BY <1>5, <1>7 DEF Owes, Filling, OrderSteps, Ordering
  <2>2. QED
    BY <1>2, <1>5, <1>7, <2>1, OwesKept DEF Owes, Filling
<1>8. ASSUME NEW S, w \notin S PROVE MayOrder(S)' \subseteq MayOrder(S)
  BY <1>6, <1>7, <1>8 DEF MayOrder, Owes, Filling
<1>9. PICK B \in [Workers -> SUBSET Workers] : ListedBefore(B)
  BY DEF PendingInv
<1>10. PICK C \in [Workers -> SUBSET Workers] :
         C = [v \in Workers |-> IF v = w THEN Workers ELSE B[v] \ {w}]
  OBVIOUS
<1>11. RoomFor(w, Workers)'
  <2>1. (PendingOrders \ Known(w))' = {}
    BY <1>3, <1>4
  <2>2. PICK Y : Y = MayOrder(Workers)'
    OBVIOUS
  <2>3. Y \in SUBSET (Workers \X Offers)
    BY <2>2 DEF MayOrder
  <2>4. 0 + Cardinality(Y) <= MostOrders
    BY <2>3, PendingCounted
  <2>5. QED
    BY <2>1, <2>2, <2>4, FS_EmptySet DEF RoomFor, MostOrders
<1>12. ASSUME NEW v \in Counting' PROVE v \in C[v] /\ RoomFor(v, C[v])'
  <2>1. CASE v = w
    BY <1>10, <1>11, <2>1 DEF RoomFor, MostOrders, MayOrder, Owes, Filling
  <2>2. CASE v # w
    <3>1. v \in Workers /\ v \in Counting /\ C[v] = B[v] \ {w}
      BY <1>6, <1>10, <1>12, <2>2 DEF Counting
    <3>2. v \in B[v] /\ RoomFor(v, B[v])
      BY <1>9, <3>1 DEF ListedBefore
    <3>3. PICK S : S = B[v]
      OBVIOUS
    <3>4. PICK T : T = C[v]
      OBVIOUS
    <3>5. MayOrder(T)' \subseteq MayOrder(S)
      <4>1. MayOrder(T)' \subseteq MayOrder(T)
        BY <1>8, <3>1, <3>4
      <4>2. MayOrder(T) \subseteq MayOrder(S)
        BY <3>1, <3>3, <3>4 DEF MayOrder
      <4>3. QED
        BY <4>1, <4>2
    <3>6. PendingOrders \cap Known(v) \subseteq Known(v)'
      BY <1>5, <2>2, <3>1 DEF Known
    <3>7. RoomFor(v, T)'
      BY <1>3, <3>2, <3>3, <3>5, <3>6, RoomKept
    <3>8. QED
      BY <2>2, <3>1, <3>2, <3>4, <3>7
  <2>3. QED
    BY <2>1, <2>2
<1>13. ASSUME NEW v \in Counting', NEW u \in Counting'
       PROVE  C[v] \cap Counting' \subseteq C[u] \/ u \in C[v]
  <2>1. v \in Workers /\ u \in Workers /\ Counting \subseteq Workers
    BY DEF Counting
  <2>2. CASE v = w \/ u = w
    BY <1>6, <1>10, <2>1, <2>2
  <2>3. CASE v # w /\ u # w
    <3>1. B[v] \cap Counting \subseteq B[u] \/ u \in B[v]
      BY <1>6, <1>9, <2>3 DEF ListedBefore
    <3>2. QED
      BY <1>6, <1>10, <2>1, <2>3, <3>1
  <2>4. QED
    BY <2>2, <2>3
<1>14. ListedBefore(C)'
  BY <1>12, <1>13 DEF ListedBefore
<1>15. Cardinality(PendingOrders') + Cardinality(MayOrder({})') <= MaxPending + MostOrders
  BY <1>3, <1>8, RoomKept DEF PendingInv
<1>16. QED
  BY <1>14, <1>15 DEF PendingInv, MostOrders

\* A job that counts few enough orders goes on to order: it was among those there is
\* room for, or has just seen that it is.
LEMMA CountKeepsPending ==
  ASSUME GiftCardsInv, PendingInv, NEW w \in Workers, CountPending(w),
         Cardinality(cardJob[w].waiting) <= MaxPending
  PROVE  PendingInv'
<1>1. PICK x \in CardJob : x = cardJob[w]
  BY DEF GiftCardsInv, GiftCardsTypeOK
<1>2. /\ cardStep \in [Workers -> CardSteps] /\ cardJob \in [Workers -> CardJob]
      /\ cardStep[w] = "status" /\ UNCHANGED <<bh, rows, processed>> /\ x.asking = {}
      /\ x.waiting \in SUBSET Orders
  BY <1>1 DEF GiftCardsInv, GiftCardsTypeOK, CountPending, cardTables, CardJob
<1>3. Cardinality(x.waiting) \in Nat /\ MaxPending \in Nat
  BY <1>2, PendingCounted
<1>4. ~(Cardinality(x.waiting) > MaxPending)
  BY <1>1, <1>3
<1>5. /\ cardStep' = [cardStep EXCEPT ![w] = "balance"]
      /\ cardJob' = [cardJob EXCEPT ![w] = [x EXCEPT !.short = Shortage]]
  BY <1>1, <1>4 DEF CountPending, CardGoto, SetCardJob
<1>6. PendingOrders' = PendingOrders
  BY <1>2 DEF PendingOrders, UnprocessedOf
<1>7. /\ \A v \in Workers \ {w} : cardStep'[v] = cardStep[v] /\ cardJob'[v] = cardJob[v]
      /\ cardStep'[w] = "balance"
  BY <1>2, <1>5
<1>8. Counting' = Counting \ {w} /\ w \in Counting /\ Counting \subseteq Workers
  BY <1>2, <1>7 DEF Counting, CountSteps
<1>9. ASSUME NEW v \in Workers \ {w}, NEW f \in Offers, Owes(v, f)' PROVE Owes(v, f)
  BY <1>2, <1>7, <1>9, OwesKept DEF Owes, Filling
<1>10. ASSUME NEW S, NEW T, T \cap Counting \subseteq S, w \in S
       PROVE  MayOrder(T)' \subseteq MayOrder(S)
  BY <1>8, <1>9, <1>10 DEF MayOrder, Owes, Filling
<1>11. PICK B \in [Workers -> SUBSET Workers] : ListedBefore(B)
  BY DEF PendingInv
<1>12. PICK S \in SUBSET Workers : S = B[w]
  OBVIOUS
<1>13. Cardinality(PendingOrders) + Cardinality(MayOrder(S)) <= MaxPending + MostOrders
  <2>1. PICK P : P = PendingOrders
    OBVIOUS
  <2>2. PICK K : K = x.waiting
    OBVIOUS
  <2>3. PICK X : X = MayOrder(S)
    OBVIOUS
  <2>4. \/ Cardinality(P) + Cardinality(X) <= MaxPending + MostOrders
        \/ Cardinality(P \ K) + Cardinality(X) <= MostOrders
    BY <1>1, <1>2, <1>8, <1>11, <1>12, <2>1, <2>2, <2>3 DEF ListedBefore, RoomFor, Known
  <2>5. /\ P \in SUBSET Orders /\ P \cap K \in SUBSET K /\ P \ K \in SUBSET Orders
        /\ P \cap K \in SUBSET Orders /\ K \in SUBSET Orders /\ X \in SUBSET (Workers \X Offers)
    BY <1>2, <2>1, <2>2, <2>3 DEF PendingOrders, MayOrder
  <2>6. /\ Cardinality(P \cap K) <= Cardinality(K) /\ Cardinality(P \cap K) \in Nat
        /\ Cardinality(P) \in Nat /\ Cardinality(P \ K) \in Nat /\ Cardinality(K) \in Nat
        /\ Cardinality(X) \in Nat /\ MostOrders \in Nat
    BY <2>5, PendingCounted
  <2>7. Cardinality(P \ K) = Cardinality(P) - Cardinality(P \cap K)
    BY <2>5, PendingCounted, FS_Difference
  <2>8. Cardinality(P) + Cardinality(X) <= MaxPending + MostOrders
    BY <1>1, <1>3, <2>2, <2>4, <2>6, <2>7
  <2>9. QED
    BY <2>1, <2>3, <2>8
<1>14. w \in S /\ \A v \in Counting : B[v] \cap Counting \subseteq S \/ w \in B[v]
  BY <1>8, <1>11, <1>12 DEF ListedBefore
<1>15. ASSUME NEW v \in Counting' PROVE RoomFor(v, B[v])'
  <2>1. v \in Workers /\ v \in Counting /\ v # w
    BY <1>8
  <2>2. PICK T : T = B[v]
    OBVIOUS
  <2>3. RoomFor(v, T)
    BY <1>11, <2>1, <2>2 DEF ListedBefore
  <2>4. PendingOrders \cap Known(v) \subseteq Known(v)'
    BY <1>7, <2>1 DEF Known
  <2>5. CASE w \in T
    <3>1. MayOrder(T)' \subseteq MayOrder(T)
      BY <1>10, <2>5
    <3>2. QED
      BY <1>6, <2>2, <2>3, <2>4, <3>1, RoomKept
  <2>6. CASE w \notin T
    <3>1. MayOrder(T)' \subseteq MayOrder(S)
      BY <1>10, <1>14, <2>1, <2>2, <2>6
    <3>2. RoomFor(v, S)
      BY <1>13 DEF RoomFor
    <3>3. QED
      BY <1>6, <2>2, <2>4, <3>1, <3>2, RoomKept
  <2>7. QED
    BY <2>5, <2>6
<1>16. ListedBefore(B)'
  <2>1. \A v \in Counting' : v \in B[v] /\ \A u \in Counting' :
          B[v] \cap Counting' \subseteq B[u] \/ u \in B[v]
    BY <1>8, <1>11 DEF ListedBefore
  <2>2. QED
    BY <1>15, <2>1 DEF ListedBefore
<1>17. Cardinality(PendingOrders') + Cardinality(MayOrder({})') <= MaxPending + MostOrders
  <2>1. MayOrder({})' \subseteq MayOrder(S)
    BY <1>10, <1>14
  <2>2. QED
    BY <1>6, <1>13, <2>1, RoomKept
<1>18. QED
  BY <1>16, <1>17 DEF PendingInv, MostOrders

\* An order is started, filled and completed: what it was owed it still is.
LEMMA FillKeepsPending ==
  ASSUME GiftCardsInv, FillInv, PendingInv, NEW w \in Workers,
         StartOrder(w) \/ AddCard(w) \/ CompleteOrder(w)
  PROVE  PendingInv'
<1> USE DEF CardGoto, SetCardJob, cardTables
<1>0. /\ cardStep \in [Workers -> CardSteps] /\ cardJob \in [Workers -> CardJob]
      /\ bh \in [Orders -> BhOrder] /\ JobOK(w) /\ FillOK(w)
  BY DEF GiftCardsInv, GiftCardsTypeOK, FillInv
<1>1. UNCHANGED <<rows, processed>>
  BY DEF StartOrder, AddCard, CompleteOrder
\* What the three steps have in common.
<1>2. ASSUME NEW o \in Orders, \A p \in Orders \ {o} : bh'[p] = bh[p], o \notin PendingOrders',
             \A v \in Workers \ {w} : cardStep'[v] = cardStep[v] /\ cardJob'[v] = cardJob[v],
             cardStep[w] \in OrderSteps, cardStep'[w] \in OrderSteps,
             \A f \in Offers : Owes(w, f)' => Owes(w, f),
             \A v \in Workers \ {w} :
               \/ bh[o].status = "none"
               \/ /\ bh'[o].offer = bh[o].offer /\ bh[o].cards \subseteq bh'[o].cards
                  /\ cardStep[v] = "store" /\ cardJob[v].order = o /\ bh'[o].status = "pending" =>
                       bh[o].status = "pending"
      PROVE  PendingInv'
  <2>1. PendingOrders' \subseteq PendingOrders
    BY <1>1, <1>2 DEF PendingOrders, UnprocessedOf
  <2>2. Counting' \subseteq Counting /\ Counting' \subseteq Workers \ {w}
    BY <1>2 DEF Counting, CountSteps, OrderSteps
  <2>3. ASSUME NEW v \in Workers, NEW f \in Offers, Owes(v, f)' PROVE Owes(v, f)
    <3>1. CASE v = w
      BY <1>2, <2>3, <3>1 DEF Owes, Filling
    <3>2. CASE v # w
      <4>1. \A p \in Orders :
              \/ bh[p].status = "none"
              \/ /\ bh'[p].offer = bh[p].offer /\ bh[p].cards \subseteq bh'[p].cards
                 /\ cardStep[v] = "store" /\ cardJob[v].order = p /\ bh'[p].status = "pending" =>
                      bh[p].status = "pending"
        BY <1>2, <3>2
      <4>2. QED
        BY <1>1, <1>2, <2>3, <3>2, <4>1, OwesKept DEF Owes, Filling
    <3>3. QED
      BY <3>1, <3>2
  <2>4. \A v \in Counting' : PendingOrders \cap Known(v) \subseteq Known(v)'
    BY <1>2, <2>2 DEF Known
  <2>5. QED
    BY <2>1, <2>2, <2>3, <2>4, PendingShrinks DEF Owes, Filling, Known
<1>3. CASE StartOrder(w)
  <2>1. PICK f \in cardJob[w].short, o \in Orders :
          /\ StartedOrder(o, f)
          /\ cardJob' = [cardJob EXCEPT ![w] = [cardJob[w] EXCEPT !.short = @ \ {f}, !.order = o]]
    BY <1>3 DEF StartOrder
  <2>2. cardStep' = [cardStep EXCEPT ![w] = "add"] /\ cardStep[w] = "offer"
    BY <1>3 DEF StartOrder
  <2>3. /\ bh[o].status = "none" /\ \A p \in Orders \ {o} : bh'[p] = bh[p]
        /\ bh'[o] = [status |-> "incomplete", offer |-> f, cards |-> {}]
    BY <1>0, <2>1 DEF StartedOrder
  <2>4. \A v \in Workers \ {w} : cardStep'[v] = cardStep[v] /\ cardJob'[v] = cardJob[v]
    BY <1>0, <2>1, <2>2
  <2>5. /\ cardStep'[w] = "add" /\ cardJob'[w].order = o
        /\ cardJob'[w].short = cardJob[w].short \ {f}
    BY <1>0, <2>1, <2>2 DEF CardJob
  <2>6. \A g \in Offers : Owes(w, g)' => Owes(w, g)
    BY <2>2, <2>3, <2>5 DEF Owes, OrderSteps
  <2>7. o \notin PendingOrders' /\ cardStep[w] \in OrderSteps /\ cardStep'[w] \in OrderSteps
    BY <2>2, <2>3, <2>5 DEF PendingOrders, OrderSteps
  <2>8. QED
    BY <1>2, <2>3, <2>4, <2>6, <2>7
<1>4. CASE AddCard(w)
  <2> DEFINE p == cardJob[w].order
  <2>1. PICK c \in Cards :
          /\ bh' = [bh EXCEPT ![p].cards = @ \cup {c}]
          /\ cardJob' = [cardJob EXCEPT ![w] = [cardJob[w] EXCEPT !.left = @ \cup {c}]]
    BY <1>4 DEF AddCard, AddedCard
  <2>2. /\ cardStep[w] = "add"
        /\ \/ cardStep' = [cardStep EXCEPT ![w] = "add"]
           \/ cardStep' = [cardStep EXCEPT ![w] = "complete"]
    BY <1>4 DEF AddCard
  <2>3. p \in Orders /\ bh[p].status = "incomplete"
    BY <1>0, <2>2 DEF JobOK, Ordering
  <2>4. /\ bh'[p].cards = bh[p].cards \cup {c} /\ bh'[p].status = "incomplete"
        /\ bh'[p].offer = bh[p].offer /\ \A o \in Orders \ {p} : bh'[o] = bh[o]
    BY <1>0, <2>1, <2>3 DEF BhOrder
  <2>5. /\ \A v \in Workers \ {w} : cardStep'[v] = cardStep[v] /\ cardJob'[v] = cardJob[v]
        /\ cardJob'[w].order = p /\ cardJob'[w].short = cardJob[w].short
        /\ cardStep'[w] \in Ordering
    BY <1>0, <2>1, <2>2 DEF CardJob, Ordering
  <2>6. \A f \in Offers : Owes(w, f)' => Owes(w, f)
    BY <2>2, <2>4, <2>5 DEF Owes, Filling, OrderSteps, Ordering
  <2>7. p \notin PendingOrders' /\ cardStep[w] \in OrderSteps /\ cardStep'[w] \in OrderSteps
    BY <2>2, <2>4, <2>5 DEF PendingOrders, OrderSteps, Ordering
  <2>8. QED
    BY <1>2, <2>3, <2>4, <2>5, <2>6, <2>7
<1>5. CASE CompleteOrder(w)
  <2> DEFINE p == cardJob[w].order
  <2>1. /\ UNCHANGED cardJob /\ cardStep[w] = "complete"
        /\ cardStep' = [cardStep EXCEPT ![w] = "store"]
        /\ bh' = [bh EXCEPT ![p].status = "pending"] \/ bh' = bh
    BY <1>5 DEF CompleteOrder, CompletedOrder
  <2>2. p \in Orders /\ bh[p].cards \cap rows = {}
    BY <1>0, <2>1 DEF JobOK, FillOK, Ordering
  <2>3. /\ bh'[p].cards = bh[p].cards
        /\ bh'[p].offer = bh[p].offer /\ \A o \in Orders \ {p} : bh'[o] = bh[o]
    BY <1>0, <2>1, <2>2 DEF BhOrder
  <2>4. cardStep'[w] = "store" /\ \A v \in Workers \ {w} : cardStep'[v] = cardStep[v]
    BY <1>0, <2>1
  <2>5. \A v \in Workers \ {w} : cardStep[v] = "store" => cardJob[v].order # p
    BY <2>1 DEF FillInv, StoredApart, Ordering
  <2>6. \A f \in Offers : Owes(w, f)' => Owes(w, f)
    BY <2>1, <2>3, <2>4 DEF Owes, Filling, OrderSteps, Ordering
  <2>7. p \notin PendingOrders' /\ cardStep[w] \in OrderSteps /\ cardStep'[w] \in OrderSteps
    BY <1>1, <2>1, <2>2, <2>3, <2>4 DEF PendingOrders, UnprocessedOf, OrderSteps
  <2>8. \A v \in Workers \ {w} : cardStep'[v] = cardStep[v] /\ cardJob'[v] = cardJob[v]
    BY <2>1, <2>4
  <2>9. QED
    BY <1>2, <2>2, <2>3, <2>5, <2>6, <2>7, <2>8
<1>6. QED
  BY <1>3, <1>4, <1>5

\* An order begins to wait for what was owed to it.
LEMMA RowPaysDebt ==
  ASSUME PendingInv, NEW w \in Workers, NEW p \in Orders, NEW f \in Offers,
         p \notin PendingOrders, PendingOrders' \subseteq PendingOrders \cup {p},
         Counting' = Counting, Owes(w, f), ~Owes(w, f)', w \notin Counting,
         \A v \in Workers, g \in Offers : Owes(v, g)' => Owes(v, g),
         \A v \in Counting : Known(v)' = Known(v)
  PROVE  PendingInv'
<1>1. PICK P : P = PendingOrders
  OBVIOUS
<1>2. PICK Q : Q = PendingOrders'
  OBVIOUS
<1>3. /\ P \in SUBSET Orders /\ Q \in SUBSET Orders /\ P \cup {p} \in SUBSET Orders
      /\ Q \in SUBSET (P \cup {p}) /\ p \notin P
  BY <1>1, <1>2 DEF PendingOrders
<1>4. Cardinality(Q) <= Cardinality(P) + 1 /\ Cardinality(P) \in Nat /\ Cardinality(Q) \in Nat
  <2>1. Cardinality(P \cup {p}) = Cardinality(P) + 1
    BY <1>3, PendingCounted, FS_AddElement
  <2>2. QED
    BY <1>3, <2>1, PendingCounted
<1>5. \A S : /\ Cardinality(MayOrder(S)') <= Cardinality(MayOrder(S)) - 1
             /\ Cardinality(MayOrder(S)) \in Nat /\ Cardinality(MayOrder(S)') \in Nat
  <2> SUFFICES ASSUME NEW S
               PROVE  /\ Cardinality(MayOrder(S)') <= Cardinality(MayOrder(S)) - 1
                      /\ Cardinality(MayOrder(S)) \in Nat /\ Cardinality(MayOrder(S)') \in Nat
    OBVIOUS
  <2>1. PICK X : X = MayOrder(S)
    OBVIOUS
  <2>2. PICK Y : Y = MayOrder(S)'
    OBVIOUS
  <2>3. PICK d : d = <<w, f>>
    OBVIOUS
  <2>4. /\ X \in SUBSET (Workers \X Offers) /\ d \in X /\ Y \in SUBSET (X \ {d})
        /\ X \ {d} \in SUBSET (Workers \X Offers) /\ Y \in SUBSET (Workers \X Offers)
    BY <2>1, <2>2, <2>3 DEF MayOrder
  <2>5. /\ Cardinality(Y) <= Cardinality(X \ {d}) /\ Cardinality(X) \in Nat
        /\ Cardinality(Y) \in Nat
    BY <2>4, PendingCounted
  <2>6. Cardinality(X \ {d}) = Cardinality(X) - 1
    BY <2>4, PendingCounted, FS_RemoveElement
  <2>7. QED
    BY <2>1, <2>2, <2>5, <2>6
<1>6. MostOrders \in Nat /\ MaxPending \in Nat
  BY PendingCounted
<1>7. Cardinality(Q) + Cardinality(MayOrder({})') <= MaxPending + MostOrders
  <2>1. Cardinality(P) + Cardinality(MayOrder({})) <= MaxPending + MostOrders
    BY <1>1 DEF PendingInv
  <2>2. QED
    BY <1>4, <1>5, <1>6, <2>1
<1>8. PICK B \in [Workers -> SUBSET Workers] : ListedBefore(B)
  BY DEF PendingInv
<1>9. ASSUME NEW v \in Counting' PROVE RoomFor(v, B[v])'
  <2>1. PICK S : S = B[v]
    OBVIOUS
  <2>2. PICK K : K = P \ Known(v)
    OBVIOUS
  <2>3. PICK L : L = Q \ Known(v)'
    OBVIOUS
  <2>4. /\ L \in SUBSET (K \cup {p}) /\ K \in SUBSET Orders /\ L \in SUBSET Orders /\ p \notin K
        /\ K \cup {p} \in SUBSET Orders
    BY <1>1, <1>3, <2>2, <2>3
  <2>5. Cardinality(L) <= Cardinality(K) + 1 /\ Cardinality(L) \in Nat /\ Cardinality(K) \in Nat
    <3>1. Cardinality(K \cup {p}) = Cardinality(K) + 1
      BY <2>4, PendingCounted, FS_AddElement
    <3>2. QED
      BY <2>4, <3>1, PendingCounted
  <2>6. \/ Cardinality(P) + Cardinality(MayOrder(S)) <= MaxPending + MostOrders
        \/ Cardinality(K) + Cardinality(MayOrder(S)) <= MostOrders
    BY <1>1, <1>8, <2>1, <2>2 DEF ListedBefore, RoomFor
  <2>7. \/ Cardinality(Q) + Cardinality(MayOrder(S)') <= MaxPending + MostOrders
        \/ Cardinality(L) + Cardinality(MayOrder(S)') <= MostOrders
    BY <1>4, <1>5, <1>6, <2>5, <2>6
  <2>8. QED
    BY <1>2, <2>1, <2>3, <2>7 DEF RoomFor, MostOrders
<1>10. ListedBefore(B)'
  <2>1. \A v \in Counting' : v \in B[v] /\ \A u \in Counting' :
          B[v] \cap Counting' \subseteq B[u] \/ u \in B[v]
    BY <1>8 DEF ListedBefore
  <2>2. QED
    BY <1>9, <2>1 DEF ListedBefore
<1>11. QED
  BY <1>2, <1>7, <1>8, <1>10 DEF PendingInv, MostOrders

\* The row of a card is written.
LEMMA StoreKeepsPending ==
  ASSUME GiftCardsInv, FillInv, PendingInv, NEW w \in Workers, StoreCard(w)
  PROVE  PendingInv'
<1> DEFINE p == cardJob[w].order
<1>0. /\ cardStep \in [Workers -> CardSteps] /\ JobOK(w) /\ FillOK(w)
      /\ cardJob \in [Workers -> CardJob]
  BY DEF GiftCardsInv, GiftCardsTypeOK, FillInv
<1>1. PICK x \in CardJob : x = cardJob[w]
  BY <1>0
<1>2. PICK c \in x.left :
        /\ rows' = rows \cup {c} /\ UNCHANGED <<bh, processed>> /\ cardStep[w] = "store"
        /\ \/ /\ cardJob' = [cardJob EXCEPT ![w] = [x EXCEPT !.left = {}, !.order = None]]
              /\ cardStep' = [cardStep EXCEPT ![w] = "offer"]
           \/ /\ cardJob' = [cardJob EXCEPT ![w] = [x EXCEPT !.left = @ \ {c}]]
              /\ cardStep' = cardStep
  BY <1>1 DEF StoreCard, CardGoto, SetCardJob
<1>3. p \in Orders /\ c \in bh[p].cards /\ bh[p].offer \in Offers \ x.short
  BY <1>0, <1>1, <1>2 DEF JobOK, FillOK
<1>4. /\ \A v \in Workers \ {w} : cardStep'[v] = cardStep[v] /\ cardJob'[v] = cardJob[v]
      /\ cardJob'[w].short = x.short
      /\ \/ cardStep'[w] = "offer"
         \/ cardStep'[w] = "store" /\ cardJob'[w].order = p
  <2> DEFINE j == [x EXCEPT !.left = {}, !.order = None]
             k == [x EXCEPT !.left = @ \ {c}]
  <2>1. j.short = x.short /\ k.short = x.short /\ k.order = x.order
    BY DEF CardJob
  <2>2. \/ cardJob' = [cardJob EXCEPT ![w] = j] /\ cardStep' = [cardStep EXCEPT ![w] = "offer"]
        \/ cardJob' = [cardJob EXCEPT ![w] = k] /\ cardStep' = cardStep
    BY <1>2
  <2> HIDE DEF j, k
  <2>3. CASE cardJob' = [cardJob EXCEPT ![w] = j] /\ cardStep' = [cardStep EXCEPT ![w] = "offer"]
    <3>1. cardJob'[w] = j /\ cardStep'[w] = "offer"
      BY <1>0, <2>3
    <3>2. \A v \in Workers \ {w} : cardStep'[v] = cardStep[v] /\ cardJob'[v] = cardJob[v]
      BY <1>0, <2>3
    <3>3. QED
      BY <2>1, <3>1, <3>2
  <2>4. CASE cardJob' = [cardJob EXCEPT ![w] = k] /\ cardStep' = cardStep
    BY <1>0, <1>1, <1>2, <2>1, <2>4
  <2>5. QED
    BY <2>2, <2>3, <2>4
<1>5. w \notin Counting /\ Counting' = Counting /\ \A v \in Counting : Known(v)' = Known(v)
  BY <1>2, <1>4 DEF Counting, CountSteps, Known
<1>6. PendingOrders' \subseteq PendingOrders \cup {p}
  BY <1>2, <1>3 DEF PendingOrders, UnprocessedOf, GiftCardsInv, CardsApart
<1>7. ASSUME NEW v \in Workers, NEW f \in Offers, Owes(v, f)' PROVE Owes(v, f)
  <2>1. CASE v = w
    BY <1>1, <1>2, <1>4, <1>7, <2>1 DEF Owes, Filling, Ordering, OrderSteps
  <2>2. CASE v # w
    BY <1>2, <1>4, <1>7, <2>2, OwesKept DEF Owes, Filling
  <2>3. QED
    BY <2>1, <2>2
<1>8. CASE p \in PendingOrders \/ p \notin PendingOrders'
  <2>1. PendingOrders' \subseteq PendingOrders
    BY <1>6, <1>8
  <2>2. QED
    BY <1>5, <1>7, <2>1, PendingShrinks DEF Owes, Filling, Known
<1>9. CASE p \notin PendingOrders /\ p \in PendingOrders'
  <2>1. PICK f \in Offers : f = bh[p].offer
    BY <1>3
  <2>2. bh[p].status = "pending" /\ bh[p].cards \cap rows = {}
    BY <1>2, <1>3, <1>9 DEF PendingOrders, UnprocessedOf, FillInv, CardsOfOrders
  <2>3. Owes(w, f)
    BY <1>2, <2>1, <2>2 DEF Owes, Filling
  <2>4. ~Owes(w, f)'
    BY <1>2, <1>3, <1>4, <2>1 DEF Owes, Filling, Ordering
  <2>5. QED
    BY <1>3, <1>5, <1>6, <1>7, <1>9, <2>3, <2>4, RowPaysDebt DEF Owes, Filling, Known
<1>10. QED
  BY <1>8, <1>9

\* Every step keeps the room for the orders that wait.
LEMMA PendingStep ==
  GiftCardsInv /\ FillInv /\ PendingInv /\ [GiftCardsNext]_giftCardsVars => PendingInv'
<1> SUFFICES ASSUME GiftCardsInv, FillInv, PendingInv, [GiftCardsNext]_giftCardsVars
             PROVE  PendingInv'
  OBVIOUS
<1> USE DEF CardGoto, SetCardJob, CardFinish, cardTables
<1>0. /\ cardStep \in [Workers -> CardSteps] /\ cardJob \in [Workers -> CardJob]
      /\ bh \in [Orders -> BhOrder]
  BY DEF GiftCardsInv, GiftCardsTypeOK
<1>1. ASSUME NEW w \in Workers,
             \/ BeginReplenish(w) \/ RefreshToken(w) \/ CheckBalance(w)
             \/ StopOrdering(w) \/ CardJobDies(w)
      PROVE  PendingInv'
  <2>1. /\ UNCHANGED <<bh, rows, processed>>
        /\ \A v \in Workers \ {w} : cardStep'[v] = cardStep[v] /\ cardJob'[v] = cardJob[v]
        /\ \/ cardStep'[w] \in {"idle", "refresh", "list"}
           \/ cardStep[w] = "balance" /\ cardStep'[w] = "offer" /\ cardJob'[w] = cardJob[w]
    BY <1>0, <1>1 DEF BeginReplenish, RefreshToken, CheckBalance, StopOrdering, CardJobDies
  <2>2. QED
    BY <2>1, QuietKeepsPending DEF Known
<1>2. ASSUME NEW w \in Workers, AskStatus(w) PROVE PendingInv'
  <2>1. /\ UNCHANGED <<bh, rows, processed>> /\ cardStep[w] \in CountSteps
        /\ \A v \in Workers \ {w} : cardStep'[v] = cardStep[v] /\ cardJob'[v] = cardJob[v]
    BY <1>0, <1>2 DEF AskStatus, CountSteps
  <2>2. QED
    BY <1>2, <2>1, AskKeepsKnown, QuietKeepsPending DEF Known
<1>3. ASSUME NEW w \in Workers, FetchCard(w) \/ InsertGood(w) \/ MarkProcessed(w)
      PROVE  PendingInv'
  <2>1. /\ UNCHANGED <<bh, rows>> /\ processed \subseteq processed' /\ cardStep[w] \in CountSteps
        /\ \A v \in Workers \ {w} : cardStep'[v] = cardStep[v] /\ cardJob'[v] = cardJob[v]
    BY <1>0, <1>3 DEF FetchCard, InsertGood, MarkProcessed, CountSteps
  <2>2. QED
    BY <1>3, <2>1, ConvertKeepsKnown, QuietKeepsPending DEF Known
<1>4. ASSUME NEW w \in Workers, CountPending(w) PROVE PendingInv'
  <2>1. CASE Cardinality(cardJob[w].waiting) > MaxPending
    <3>1. /\ UNCHANGED <<bh, rows, processed>> /\ cardStep'[w] = "idle"
          /\ \A v \in Workers \ {w} : cardStep'[v] = cardStep[v] /\ cardJob'[v] = cardJob[v]
      BY <1>0, <1>4, <2>1 DEF CountPending
    <3>2. QED
      BY <3>1, QuietKeepsPending DEF Known
  <2>2. CASE ~(Cardinality(cardJob[w].waiting) > MaxPending)
    <3>1. PICK K \in SUBSET Orders : K = cardJob[w].waiting
      BY <1>0 DEF CardJob
    <3>2. Cardinality(K) <= MaxPending
      BY <2>2, <3>1, PendingCounted
    <3>3. QED
      BY <1>4, <3>1, <3>2, CountKeepsPending
  <2>3. QED
    BY <2>1, <2>2
<1>5. ASSUME \/ \E o \in Orders : ProcessOrder(o) \/ CancelOrder(o)
             \/ \E c \in Cards : SellCard(c)
             \/ UNCHANGED giftCardsVars
      PROVE  PendingInv'
  <2>1. /\ UNCHANGED <<rows, processed, cardStep, cardJob>>
        /\ \A o \in Orders :
             \/ bh'[o] = bh[o]
             \/ /\ bh'[o].status \in {"processed", "cancelled"}
                /\ bh'[o].cards = bh[o].cards /\ bh'[o].offer = bh[o].offer
    BY <1>0, <1>5 DEF ProcessOrder, CancelOrder, SellCard, giftCardsVars, BhOrder
  <2>2. PendingOrders' \subseteq PendingOrders /\ Counting' = Counting
        /\ \A v \in Counting' : Known(v)' = Known(v)
    BY <2>1 DEF PendingOrders, UnprocessedOf, Counting, Known
  <2>3. ASSUME NEW v \in Workers, NEW f \in Offers, Owes(v, f)' PROVE Owes(v, f)
    <3>1. cardStep'[v] = cardStep[v] /\ cardJob'[v] = cardJob[v] /\ rows \subseteq rows'
      BY <2>1
    <3>2. \A o \in Orders :
            /\ bh'[o].offer = bh[o].offer /\ bh[o].cards \subseteq bh'[o].cards
            /\ bh'[o].status = "pending" => bh[o].status = "pending"
      BY <2>1
    <3>3. QED
      BY <2>3, <3>1, <3>2, OwesKept DEF Owes, Filling
  <2>4. QED
    BY <2>2, <2>3, PendingShrinks DEF Owes, Filling, Known
<1>6. QED
  BY <1>1, <1>2, <1>3, <1>4, <1>5, ListKeepsPending, FillKeepsPending, StoreKeepsPending
     DEF GiftCardsNext, CardWork

\* However the jobs overlap, no more orders wait than one job may find, and one for every
\* offer from each worker.
THEOREM PendingLimit == GiftCardsSpec => []PendingBounded
<1>1. GiftCardsInit => FillInv /\ PendingInv
  <2> SUFFICES ASSUME GiftCardsInit PROVE FillInv /\ PendingInv
    OBVIOUS
  <2>1. FillInv
    BY DEF GiftCardsInit, FillInv, FillOK, StoredApart, CardsOfOrders, Ordering
  <2>2. Counting = {} /\ PendingOrders = {}
    BY DEF GiftCardsInit, Counting, CountSteps, PendingOrders
  <2>3. PICK X : X = MayOrder({})
    OBVIOUS
  <2>4. X \in SUBSET (Workers \X Offers)
    BY <2>3 DEF MayOrder
  <2>5. /\ Cardinality(X) \in Nat /\ Cardinality(X) <= MostOrders
        /\ MostOrders \in Nat /\ MaxPending \in Nat
    BY <2>4, PendingCounted
  <2>6. 0 + Cardinality(X) <= MaxPending + MostOrders
    BY <2>5
  <2>7. [v \in Workers |-> Workers] \in [Workers -> SUBSET Workers]
    OBVIOUS
  <2>8. \E B \in [Workers -> SUBSET Workers] : ListedBefore(B)
    BY <2>2, <2>7 DEF ListedBefore
  <2>9. QED
    BY <2>1, <2>2, <2>3, <2>6, <2>8, FS_EmptySet DEF PendingInv
<1>2. PendingInv => PendingBounded
  <2> SUFFICES ASSUME PendingInv PROVE PendingBounded
    OBVIOUS
  <2>1. PICK P : P = PendingOrders
    OBVIOUS
  <2>2. PICK X : X = MayOrder({})
    OBVIOUS
  <2>3. P \in SUBSET Orders /\ X \in SUBSET (Workers \X Offers)
    BY <2>1, <2>2 DEF PendingOrders, MayOrder
  <2>4. Cardinality(P) \in Nat /\ Cardinality(X) \in Nat /\ MostOrders \in Nat /\ MaxPending \in Nat
    BY <2>3, PendingCounted
  <2>5. Cardinality(P) + Cardinality(X) <= MaxPending + MostOrders
    BY <2>1, <2>2 DEF PendingInv
  <2>6. Cardinality(P) <= MaxPending + MostOrders
    BY <2>4, <2>5
  <2>7. QED
    BY <2>1, <2>6 DEF PendingBounded, PendingOrders, MostOrders
<1> QED
  BY <1>1, <1>2, FillStep, PendingStep, GiftCardsInvHolds, PTL DEF GiftCardsSpec
=============================================================================
