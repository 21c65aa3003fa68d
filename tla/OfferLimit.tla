------------------------------- MODULE OfferLimit -------------------------------
(***************************************************************************)
(* The limit of one purchase of an offer in OFFER_LIMIT_TIME_RANGE days,   *)
(* for one user.  The offers a user has bought of late are locked; their   *)
(* dates are cached in redis under one key, which get_locked_offers reads  *)
(* and writes back, and which a redemption writes anew from the database.  *)
(* A worker serves one request of the user; dates are whole days.          *)
(***************************************************************************)
EXTENDS Threads

CONSTANTS
  Items,      \* ids of offers
  LimitRange, \* config.OFFER_LIMIT_TIME_RANGE, in days
  MaxDay,     \* bound: the last day of a behaviour
  MaxOrders   \* bound: orders of one offer the user has open at once

ASSUME OfferLimitAssumption ==
  LimitRange \in Nat \ {0} /\ MaxDay \in Nat /\ MaxOrders \in Nat /\ None \notin Items

VARIABLES
  today,     \* the date
  listing,   \* table offer: whether an offer is there, and active
  bought,    \* table transaction: incoming ones, as pairs of offer and date
  open,      \* how many booked, unredeemed orders the user has of each offer
  cached,    \* redis key REDIS_USER_BLOCKED_OFFERS_LIST: a dict, or None
  reqStep, req,  \* where each request stands, and its local variables
  unsure     \* history: offers redeemed while another request was in progress,
             \* or by a request that did not get to write the cache

offerVars == <<today, listing, bought, open, cached, reqStep, req, unsure>>

Days == 0 .. MaxDay
\* A dict of locked offers, each with one date.
Dicts == UNION {[S -> Days] : S \in SUBSET Items}
ReqSteps == {"idle", "read", "writeback", "query", "fill", "decide", "record"}

\* item: the offer to be booked or redeemed, None for GET /user/offers.
Req == [kind : {"list", "book", "redeem"}, item : Items \cup {None}, locked : Dicts]
NoReq == [kind |-> "list", item |-> None, locked |-> <<>>]

OfferLimitTypeOK ==
  /\ today \in Days
  /\ listing \in [Items -> {"absent", "off", "on"}]
  /\ bought \subseteq Items \X Days
  /\ open \in [Items -> 0 .. MaxOrders]
  /\ cached \in Dicts \cup {None}
  /\ reqStep \in [Workers -> ReqSteps]
  /\ req \in [Workers -> Req]
  /\ unsure \subseteq Items

OfferLimitInit ==
  /\ today = 0
  /\ listing = [x \in Items |-> "absent"]
  /\ bought = {}
  /\ open = [x \in Items |-> 0]
  /\ cached = None
  /\ reqStep = [w \in Workers |-> "idle"]
  /\ req = [w \in Workers |-> NoReq]
  /\ unsure = {}

-----------------------------------------------------------------------------
(* Operators named ...Broken are the code with one plausible mistake in it; *)
(* no action uses them.  They show that a property notices the mistake.      *)

ReqGoto(w, step) == reqStep' = [reqStep EXCEPT ![w] = step]
ReqFinish(w) == ReqGoto(w, "idle") /\ req' = [req EXCEPT ![w] = NoReq]

OthersBusy(w) == \E v \in Workers \ {w} : reqStep[v] # "idle"

\* Redemptions whose purchase is recorded and not yet in the cache.
Unwritten(w) == reqStep[w] \in {"query", "fill"} /\ req[w].kind = "redeem"
UnwrittenItems == {req[w].item : w \in {v \in Workers : Unwritten(v)}}

\* The filter on a cached dict: a date counts until LimitRange days are over.
Unexpired(dict) == [x \in {y \in DOMAIN dict : dict[y] + LimitRange > today} |-> dict[x]]

\* The query of set_locked_offers compares with the first minute of a day, and so
\* finds one day more.  Of several purchases of an offer dict() keeps the last
\* row, which may be any.
FoundBy(dict) ==
  LET found == {b \in bought : b[2] + LimitRange >= today} IN
  /\ DOMAIN dict = {b[1] : b \in found}
  /\ \A x \in DOMAIN dict : <<x, dict[x]>> \in found

\* A purchase that counts, by the date that the filter goes by.
Counts(x) == \E d \in Days : <<x, d>> \in bought /\ d + LimitRange > today

\* Of two purchases, the second made while the query still found the first, the
\* second counts and the first has run out.  The dict may have been given the date
\* of the first, and the filter then drops the offer.  Two orders open at once lead
\* here, and so does an order booked on the day after the period, the one day
\* that the query finds and the filter does not.
Overtaken(x) ==
  \E d, e \in Days :
    /\ <<x, d>> \in bought /\ <<x, e>> \in bought
    /\ d < e /\ e <= d + LimitRange
    /\ d + LimitRange <= today /\ today < e + LimitRange

-----------------------------------------------------------------------------
(* get_locked_offers and set_locked_offers. *)

\* GET /user/offers, or POST /offer/book for item x.
AskOffers(w, kind, x) ==
  /\ reqStep[w] = "idle"
  /\ ReqGoto(w, "read")
  /\ req' = [req EXCEPT ![w] = [NoReq EXCEPT !.kind = kind, !.item = x]]
  /\ unsure' = unsure \cup UnwrittenItems
  /\ UNCHANGED <<today, listing, bought, open, cached>>

\* A key that is missing is filled from the database; a read that fails raises.
ReadCache(w) ==
  /\ reqStep[w] = "read"
  /\ \/ /\ cached # None
        /\ req' = [req EXCEPT ![w].locked = Unexpired(cached)]
        /\ ReqGoto(w, "writeback")
     \/ /\ cached = None
        /\ ReqGoto(w, "query")
        /\ UNCHANGED req
  /\ UNCHANGED <<today, listing, bought, open, cached, unsure>>

QueryPurchases(w) ==
  /\ reqStep[w] = "query"
  /\ \E dict \in Dicts : FoundBy(dict) /\ req' = [req EXCEPT ![w].locked = dict]
  /\ ReqGoto(w, "fill")
  /\ UNCHANGED <<today, listing, bought, open, cached, unsure>>

\* write_json_to_cache: a failure of redis is logged, and that is all.
WriteCache(w) ==
  /\ reqStep[w] \in {"writeback", "fill"}
  /\ \/ cached' = req[w].locked /\ UNCHANGED unsure
     \/ Faulty /\ unsure' = unsure \cup UnwrittenItems /\ UNCHANGED cached
  /\ IF req[w].kind = "redeem"
       THEN ReqFinish(w)
       ELSE ReqGoto(w, "decide") /\ UNCHANGED req
  /\ UNCHANGED <<today, listing, bought, open>>

-----------------------------------------------------------------------------
(* What the locked offers are asked for. *)

\* get_offers_for_user marks the locked ones, and changes nothing.
ListOffers(w) ==
  /\ reqStep[w] = "decide" /\ req[w].kind = "list"
  /\ ReqFinish(w)
  /\ UNCHANGED <<today, listing, bought, open, cached, unsure>>

\* book_offer_api after the check.  MaxOrders stands for the limits of create_order.
BookOfferBroken(w) ==
  LET x == req[w].item IN
  /\ reqStep[w] = "decide" /\ req[w].kind = "book"
  /\ open' = IF listing[x] = "on" /\ open[x] < MaxOrders
             THEN [open EXCEPT ![x] = @ + 1] ELSE open
  /\ ReqFinish(w)
  /\ UNCHANGED <<today, listing, bought, cached, unsure>>

BookOffer(w) ==
  LET x == req[w].item IN
  /\ reqStep[w] = "decide" /\ req[w].kind = "book"
  /\ open' = IF listing[x] = "on" /\ x \notin DOMAIN req[w].locked /\ open[x] < MaxOrders
             THEN [open EXCEPT ![x] = @ + 1] ELSE open
  /\ ReqFinish(w)
  /\ UNCHANGED <<today, listing, bought, cached, unsure>>

\* POST /offer/redeem for an order that was paid for.
Redeem(w, x) ==
  /\ reqStep[w] = "idle" /\ open[x] > 0
  /\ ReqGoto(w, "record")
  /\ req' = [req EXCEPT ![w] = [NoReq EXCEPT !.kind = "redeem", !.item = x]]
  /\ open' = [open EXCEPT ![x] = @ - 1]
  /\ unsure' = unsure \cup UnwrittenItems
  /\ UNCHANGED <<today, listing, bought, cached>>

\* create_tx in process_order; its last act is set_locked_offers.
RecordPurchaseBroken(w) ==
  LET x == req[w].item IN
  /\ reqStep[w] = "record"
  /\ bought' = bought \cup {<<x, today>>}
  /\ ReqFinish(w)
  /\ UNCHANGED <<today, listing, open, cached, unsure>>

RecordPurchase(w) ==
  LET x == req[w].item IN
  /\ reqStep[w] = "record"
  /\ bought' = bought \cup {<<x, today>>}
  /\ unsure' = IF OthersBusy(w) THEN unsure \cup {x} ELSE unsure
  /\ ReqGoto(w, "query")
  /\ UNCHANGED <<today, listing, open, cached, req>>

-----------------------------------------------------------------------------
(* What happens beside these requests. *)

\* add_offer, and set_offer_active.
SetListing(x, to) ==
  /\ listing[x] # to
  /\ listing' = [listing EXCEPT ![x] = to]
  /\ UNCHANGED <<today, bought, open, cached, reqStep, req, unsure>>

\* An order that was not paid for in time is gone.
OrderExpires(x) ==
  /\ open[x] > 0
  /\ open' = [open EXCEPT ![x] = @ - 1]
  /\ UNCHANGED <<today, listing, bought, cached, reqStep, req, unsure>>

\* The key lives for 30 minutes after it was written.
CacheExpires ==
  /\ cached # None
  /\ cached' = None
  /\ UNCHANGED <<today, listing, bought, open, reqStep, req, unsure>>

Midnight ==
  /\ today < MaxDay
  /\ today' = today + 1
  /\ UNCHANGED <<listing, bought, open, cached, reqStep, req, unsure>>

RequestDies(w) ==
  /\ Faulty /\ reqStep[w] # "idle"
  /\ ReqFinish(w)
  /\ unsure' = IF req[w].kind = "redeem" THEN unsure \cup {req[w].item} ELSE unsure
  /\ UNCHANGED <<today, listing, bought, open, cached>>

OfferLimitNext ==
  \/ \E w \in Workers :
       \/ AskOffers(w, "list", None)
       \/ \E x \in Items : AskOffers(w, "book", x) \/ Redeem(w, x)
       \/ ReadCache(w) \/ QueryPurchases(w) \/ WriteCache(w)
       \/ ListOffers(w) \/ BookOffer(w) \/ RecordPurchase(w) \/ RequestDies(w)
  \/ \E x \in Items : OrderExpires(x) \/ \E to \in {"off", "on"} : SetListing(x, to)
  \/ CacheExpires \/ Midnight

OfferLimitSpec == OfferLimitInit /\ [][OfferLimitNext]_offerVars

-----------------------------------------------------------------------------
(* Properties. *)

\* The cached dict, rewritten by every request that reads it, keeps each offer
\* whose purchase still counts.  Three cases are excepted: another request overlapped
\* the redemption, the redemption failed before it wrote the cache, and an older
\* purchase of the offer was overtaken.
CacheKeepsPurchases ==
  cached # None => \A x \in Items \ unsure :
    Counts(x) => x \in DOMAIN cached \cup UnwrittenItems \/ Overtaken(x)

\* With the same exceptions, an offer is not booked while a purchase of it counts
\* ("max offers reached"), however long ago the request was checked.
NotBookedWhileLocked ==
  [][\A x \in Items \ unsure : open'[x] > open[x] => ~Counts(x) \/ Overtaken(x)]_offerVars
=============================================================================
