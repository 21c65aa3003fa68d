------------------------------- MODULE GiftCards -------------------------------
(***************************************************************************)
(* The gift cards bought from Blackhawk.  Every minute cron asks each      *)
(* server to replenish_bh_cards, which its rq worker does: it converts the *)
(* cards of processed orders to goods, and orders a batch for every offer  *)
(* that runs short.  A step is one call to Blackhawk's API or one          *)
(* statement; the jobs of two servers run side by side.                    *)
(***************************************************************************)
EXTENDS Threads

CONSTANTS
  Orders,      \* order ids Blackhawk gives out
  Cards,       \* card ids; also stands for the code of the card
  Offers,      \* rows of table blackhawk_offer
  BatchSize,   \* blackhawk_offer.batch_size
  Threshold,   \* blackhawk_offer.minimum_threshold
  MaxPending   \* the 10 of replenish_bh_cards

ASSUME GiftCardsAssumption ==
  /\ BatchSize \in Nat \ {0} /\ Threshold \in Nat /\ MaxPending \in Nat
  /\ None \notin Orders \cup Cards \cup Offers

\* Ids are strings of one length, and offers are rows of a table.
ASSUME GiftCardsFinite == IsFiniteSet(Orders) /\ IsFiniteSet(Offers)

VARIABLES
  bhToken,    \* blackhawk_creds.auth_token is set
  bh,         \* Blackhawk: its orders
  rows,       \* table blackhawk_card: the ids in it
  processed,  \* those with column processed true
  goods,      \* table good: how many rows hold the code of a card
  sold,       \* codes that have been given to an order of a user
  cardStep, cardJob,    \* where each worker stands, and its local variables
  skipped,    \* history: cards a job could not convert and passed over
  abandoned   \* history: orders whose job ended before all rows were written

cardTables == <<bhToken, rows, processed, goods, sold>>
giftCardsVars ==
  <<bhToken, bh, rows, processed, goods, sold, cardStep, cardJob, skipped, abandoned>>

-----------------------------------------------------------------------------

TrackSteps == {"refresh", "list", "status", "card", "insert"}
OrderSteps == {"balance", "offer", "add", "complete", "store"}
CardSteps == {"idle"} \cup TrackSteps \cup OrderSteps

Statuses == {"none", "incomplete", "pending", "processed", "cancelled"}
BhOrder == [status : Statuses, offer : Offers \cup {None}, cards : SUBSET Cards]

\* listed: the unprocessed cards read at first.  asking: orders whose status is
\* still to be asked.  left: cards of order still to be handled.  short: the
\* offers the inventory showed below their threshold, and not yet ordered for.
CardJob == [listed : SUBSET Cards, asking : SUBSET Orders, order : Orders \cup {None},
        left : SUBSET Cards, card : Cards \cup {None}, waiting : SUBSET Orders,
        short : SUBSET Offers]
NoCardJob == [listed |-> {}, asking |-> {}, order |-> None, left |-> {}, card |-> None,
          waiting |-> {}, short |-> {}]

GiftCardsTypeOK ==
  /\ bhToken \in BOOLEAN
  /\ bh \in [Orders -> BhOrder]
  /\ rows \subseteq Cards
  /\ processed \subseteq rows
  /\ goods \in [Cards -> Nat]
  /\ sold \subseteq Cards
  /\ cardStep \in [Workers -> CardSteps]
  /\ cardJob \in [Workers -> CardJob]
  /\ skipped \subseteq Cards
  /\ abandoned \subseteq Orders

GiftCardsInit ==
  /\ bhToken \in BOOLEAN  \* generate_auth_token_api may fail in init_bh_creds_api
  /\ bh = [o \in Orders |-> [status |-> "none", offer |-> None, cards |-> {}]]
  /\ rows = {} /\ processed = {}
  /\ goods = [c \in Cards |-> 0]
  /\ sold = {}
  /\ cardStep = [w \in Workers |-> "idle"]
  /\ cardJob = [w \in Workers |-> NoCardJob]
  /\ skipped = {} /\ abandoned = {}

-----------------------------------------------------------------------------
(* Operators named ...Broken are the code with one plausible mistake in it; *)
(* no action uses them.  They show that a property notices the mistake.      *)

CardGoto(w, step) == cardStep' = [cardStep EXCEPT ![w] = step]
CardFinish(w) == CardGoto(w, "idle") /\ cardJob' = [cardJob EXCEPT ![w] = NoCardJob]
SetCardJob(w, j) == cardJob' = [cardJob EXCEPT ![w] = j]

\* list_unprocessed_orders; the rows carry the order's id.
UnprocessedOf(o) == bh[o].cards \cap (rows \ processed)

\* list_inventory: unallocated goods of an offer, against its threshold.
StockOf(f) == {c \in Cards \ sold : goods[c] > 0 /\ \E o \in Orders :
                 bh[o].offer = f /\ c \in bh[o].cards}
Shortage == {f \in Offers : Cardinality(StockOf(f)) < Threshold}

FreshCard(c) == \A o \in Orders : c \notin bh[o].cards

-----------------------------------------------------------------------------
(* The calls to Blackhawk's API that have an effect, or an answer that counts. *)

StartedOrder(o, f) ==
  /\ bh[o].status = "none"
  /\ bh' = [bh EXCEPT ![o] = [status |-> "incomplete", offer |-> f, cards |-> {}]]

AddedCard(o, c) == FreshCard(c) /\ bh' = [bh EXCEPT ![o].cards = @ \cup {c}]

CompletedOrder(o) == bh' = [bh EXCEPT ![o].status = "pending"]

\* No status, when the request fails or its answer cannot be parsed.
StatusOf(o, answered) == IF answered THEN bh[o].status ELSE "none"

\* Whether there is a balance, and enough of it.
BalanceSuffices == BOOLEAN

\* Whether the code of a card was read.
CardRead == Answered

-----------------------------------------------------------------------------
(* replenish_bh_cards up to track_orders. *)

BeginReplenish(w) ==
  /\ cardStep[w] = "idle"
  /\ CardGoto(w, "refresh")
  /\ UNCHANGED <<cardTables, bh, cardJob, skipped, abandoned>>

\* The age of a token that was never generated cannot be computed: the job dies.
\* An old token that cannot be replaced is used as it is.
RefreshToken(w) ==
  /\ cardStep[w] = "refresh"
  /\ CardGoto(w, IF bhToken THEN "list" ELSE "idle")
  /\ UNCHANGED <<cardTables, bh, cardJob, skipped, abandoned>>

ListUnprocessed(w) ==
  /\ cardStep[w] = "list"
  /\ SetCardJob(w, [cardJob[w] EXCEPT !.listed = rows \ processed,
                              !.asking = {o \in Orders : UnprocessedOf(o) # {}}])
  /\ CardGoto(w, "status")
  /\ UNCHANGED <<cardTables, bh, skipped, abandoned>>

\* get_order_status_api.  An incomplete or cancelled order is left as it is, and
\* listed again by the next job; any other answer, or none, counts as waiting.
AskStatus(w) ==
  /\ cardStep[w] = "status"
  /\ \E o \in cardJob[w].asking, answered \in Answered :
       LET j == [cardJob[w] EXCEPT !.asking = @ \ {o}]
           status == StatusOf(o, answered)
       IN
         IF status \in {"incomplete", "cancelled"}
           THEN SetCardJob(w, j) /\ UNCHANGED cardStep
           ELSE IF status = "processed"
             THEN /\ SetCardJob(w, [j EXCEPT !.order = o, !.left = bh[o].cards \cap j.listed])
                  /\ CardGoto(w, "card")
             ELSE SetCardJob(w, [j EXCEPT !.waiting = @ \cup {o}]) /\ UNCHANGED cardStep
  /\ UNCHANGED <<cardTables, bh, skipped, abandoned>>

\* egift_get_card_api, merchant_code_to_offer_id and does_code_exist.  A card
\* without an answer is passed over.
FetchCard(w) ==
  /\ cardStep[w] = "card"
  /\ \E c \in cardJob[w].left :
       LET j == [cardJob[w] EXCEPT !.left = @ \ {c}] IN
         \/ /\ FALSE \in CardRead /\ SetCardJob(w, j)
            /\ skipped' = skipped \cup {c}
            /\ UNCHANGED cardStep
         \/ /\ goods[c] > 0 /\ SetCardJob(w, j)
            /\ UNCHANGED <<cardStep, skipped>>
         \/ /\ goods[c] = 0 /\ SetCardJob(w, [j EXCEPT !.card = c])
            /\ CardGoto(w, "insert")
            /\ UNCHANGED skipped
  /\ UNCHANGED <<cardTables, bh, abandoned>>

\* The rest of create_good.
InsertGood(w) ==
  /\ cardStep[w] = "insert"
  /\ goods' = [goods EXCEPT ![cardJob[w].card] = @ + 1]
  /\ SetCardJob(w, [cardJob[w] EXCEPT !.card = None])
  /\ CardGoto(w, "card")
  /\ UNCHANGED <<bhToken, bh, rows, processed, sold, skipped, abandoned>>

\* set_processed_orders, for every card of the order that was listed.
MarkProcessedBroken(w) ==
  /\ cardStep[w] = "card"
  /\ processed' = processed \cup (bh[cardJob[w].order].cards \cap cardJob[w].listed)
  /\ SetCardJob(w, [cardJob[w] EXCEPT !.order = None, !.left = {}])
  /\ CardGoto(w, "status")
  /\ UNCHANGED <<bhToken, bh, rows, goods, sold, skipped, abandoned>>

MarkProcessed(w) ==
  /\ cardStep[w] = "card" /\ cardJob[w].left = {}
  /\ processed' = processed \cup (bh[cardJob[w].order].cards \cap cardJob[w].listed)
  /\ SetCardJob(w, [cardJob[w] EXCEPT !.order = None])
  /\ CardGoto(w, "status")
  /\ UNCHANGED <<bhToken, bh, rows, goods, sold, skipped, abandoned>>

-----------------------------------------------------------------------------
(* The rest of replenish_bh_cards, and order_gift_cards. *)

\* No order while too many are waiting; else the inventory is read.
CountPendingBroken(w) ==
  /\ cardStep[w] = "status" /\ cardJob[w].asking = {}
  /\ SetCardJob(w, [cardJob[w] EXCEPT !.short = Shortage])
  /\ CardGoto(w, "balance")
  /\ UNCHANGED <<cardTables, bh, skipped, abandoned>>

CountPending(w) ==
  /\ cardStep[w] = "status" /\ cardJob[w].asking = {}
  /\ IF Cardinality(cardJob[w].waiting) > MaxPending
       THEN CardFinish(w)
       ELSE /\ SetCardJob(w, [cardJob[w] EXCEPT !.short = Shortage])
            /\ CardGoto(w, "balance")
  /\ UNCHANGED <<cardTables, bh, skipped, abandoned>>

\* The balance may be critically low, or not come at all.
CheckBalance(w) ==
  /\ cardStep[w] = "balance"
  /\ \E enough \in BalanceSuffices :
       IF enough THEN CardGoto(w, "offer") /\ UNCHANGED cardJob ELSE CardFinish(w)
  /\ UNCHANGED <<cardTables, bh, skipped, abandoned>>

\* egift_start_order_api for an offer that was short.
StartOrder(w) ==
  /\ cardStep[w] = "offer"
  /\ \E f \in cardJob[w].short, o \in Orders :
       /\ StartedOrder(o, f)
       /\ SetCardJob(w, [cardJob[w] EXCEPT !.short = @ \ {f}, !.order = o])
  /\ CardGoto(w, "add")
  /\ UNCHANGED <<cardTables, skipped, abandoned>>

\* One egift_add_card_api; the order is complete with a batch of them.
AddCard(w) ==
  /\ cardStep[w] = "add"
  /\ \E c \in Cards :
       /\ AddedCard(cardJob[w].order, c)
       /\ SetCardJob(w, [cardJob[w] EXCEPT !.left = @ \cup {c}])
       /\ CardGoto(w, IF Cardinality(cardJob[w].left) + 1 < BatchSize THEN "add" ELSE "complete")
  /\ UNCHANGED <<cardTables, skipped, abandoned>>

\* No offers are left, or Blackhawk starts no order or adds no card (always so
\* when the instance has run out of ids).  What was started stays incomplete.
StopOrdering(w) ==
  /\ \/ /\ cardStep[w] = "offer"
        /\ cardJob[w].short = {} \/ Faulty \/ \A o \in Orders : bh[o].status # "none"
     \/ /\ cardStep[w] = "add"
        /\ Faulty \/ \A c \in Cards : ~FreshCard(c)
  /\ CardFinish(w)
  /\ UNCHANGED <<cardTables, bh, skipped, abandoned>>

\* egift_complete_order_api.  When it fails the rows are written all the same.
CompleteOrderBroken(w) ==
  /\ cardStep[w] = "complete"
  /\ CompletedOrder(cardJob[w].order)
  /\ \/ CardGoto(w, "store") /\ UNCHANGED cardJob
     \/ Faulty /\ CardFinish(w)
  /\ UNCHANGED <<cardTables, skipped, abandoned>>

CompleteOrder(w) ==
  /\ cardStep[w] = "complete"
  /\ \/ CompletedOrder(cardJob[w].order)
     \/ Faulty /\ UNCHANGED bh
  /\ CardGoto(w, "store")
  /\ UNCHANGED <<cardTables, cardJob, skipped, abandoned>>

\* create_bh_card, for one card; after the last, the next offer.
StoreCard(w) ==
  /\ cardStep[w] = "store"
  /\ \E c \in cardJob[w].left :
       /\ rows' = rows \cup {c}
       /\ IF cardJob[w].left = {c}
            THEN /\ SetCardJob(w, [cardJob[w] EXCEPT !.left = {}, !.order = None])
                 /\ CardGoto(w, "offer")
            ELSE /\ SetCardJob(w, [cardJob[w] EXCEPT !.left = @ \ {c}])
                 /\ UNCHANGED cardStep
  /\ UNCHANGED <<bhToken, bh, processed, goods, sold, skipped, abandoned>>

-----------------------------------------------------------------------------
(* What happens beside the jobs. *)

\* The job raises, is stopped at rq's time limit, or dies with its server.
CardJobDies(w) ==
  /\ Faulty /\ cardStep[w] # "idle"
  /\ CardFinish(w)
  /\ abandoned' = abandoned \cup
       {o \in Orders : cardStep[w] \in {"complete", "store"} /\ cardJob[w].order = o}
  /\ UNCHANGED <<cardTables, bh, skipped>>

\* Blackhawk works on an order for up to four minutes.
ProcessOrder(o) ==
  /\ bh[o].status = "pending"
  /\ bh' = [bh EXCEPT ![o].status = "processed"]
  /\ UNCHANGED <<cardTables, cardStep, cardJob, skipped, abandoned>>

CancelOrder(o) ==
  /\ Faulty /\ bh[o].status = "pending"
  /\ bh' = [bh EXCEPT ![o].status = "cancelled"]
  /\ UNCHANGED <<cardTables, cardStep, cardJob, skipped, abandoned>>

\* allocate_good gives the code to a user's order.
SellCard(c) ==
  /\ goods[c] > 0
  /\ sold' = sold \cup {c}
  /\ UNCHANGED <<bhToken, bh, rows, processed, goods, cardStep, cardJob, skipped, abandoned>>

CardWork(w) ==
  \/ RefreshToken(w) \/ ListUnprocessed(w) \/ AskStatus(w) \/ FetchCard(w)
  \/ InsertGood(w) \/ MarkProcessed(w) \/ CountPending(w) \/ CheckBalance(w)
  \/ StartOrder(w) \/ AddCard(w) \/ StopOrdering(w) \/ CompleteOrder(w) \/ StoreCard(w)

GiftCardsNext ==
  \/ \E w \in Workers : BeginReplenish(w) \/ CardWork(w) \/ CardJobDies(w)
  \/ \E o \in Orders : ProcessOrder(o) \/ CancelOrder(o)
  \/ \E c \in Cards : SellCard(c)

GiftCardsSpec == GiftCardsInit /\ [][GiftCardsNext]_giftCardsVars

-----------------------------------------------------------------------------
(* Properties. *)

\* A card is marked as processed only when its code is a good, or when the job
\* could not read it and passed it over: marking is for all cards of an order,
\* also when another job converts the same order at the same time.
ProcessedCardIsGood == \A c \in processed : goods[c] > 0 \/ c \in skipped

WritingRow(w, c) == cardStep[w] \in {"complete", "store"} /\ c \in cardJob[w].left

\* A card that was paid for is never forgotten: it has a row, from which the
\* next job finds it, or a job is about to write the row, or a job died there.
PaidCardRecorded ==
  \A o \in Orders : bh[o].status \in {"pending", "processed", "cancelled"} =>
    \A c \in bh[o].cards :
      c \in rows \/ o \in abandoned \/ \E w \in Workers : WritingRow(w, c)

\* Orders that wait for Blackhawk and that a job can count, because they have a
\* row.  Each worker adds at most one for every offer to those it has counted.
PendingBounded ==
  Cardinality({o \in Orders : bh[o].status = "pending" /\ UnprocessedOf(o) # {}})
    <= MaxPending + Cardinality(Workers) * Cardinality(Offers)

\* While nothing fails, every card that was paid for becomes a good.
EveryCardBecomesGood ==
  \A c \in Cards : c \in rows ~> goods[c] > 0
=============================================================================
