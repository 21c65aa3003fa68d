--------------------------- MODULE OfferLimitProofs ---------------------------
(***************************************************************************)
(* Theorems about the limit of purchases, for every set of workers and     *)
(* offers, every range of days, and under any failure.                     *)
(***************************************************************************)
EXTENDS OfferLimit, TLAPS

-----------------------------------------------------------------------------
(* Types. *)

\* The local variables of a thread that serves no request.
LEMMA NoReqType == NoReq \in Req
<1>1. <<>> \in [{} -> Days]
  OBVIOUS
<1>2. <<>> \in Dicts
  BY <1>1 DEF Dicts
<1> QED
  BY <1>2 DEF NoReq, Req

\* The fields of a request in progress have their types.
LEMMA ReqTypes ==
  /\ \A k \in {"list", "book", "redeem"}, x \in Items \cup {None} :
       [NoReq EXCEPT !.kind = k, !.item = x] \in Req
  /\ \A r \in Req, dict \in Dicts : [r EXCEPT !.locked = dict] \in Req
BY NoReqType DEF Req, NoReq

\* What a reader finds of a dict is a part of it.
LEMMA UnexpiredType ==
  ASSUME NEW dict \in Dicts
  PROVE  /\ Unexpired(dict) \in Dicts
         /\ \A x \in DOMAIN dict : dict[x] \in Days
<1>1. PICK S \in SUBSET Items : dict \in [S -> Days]
  BY DEF Dicts
<1> DEFINE T == {y \in DOMAIN dict : dict[y] + LimitRange > today}
<1>2. T \subseteq Items /\ [x \in T |-> dict[x]] \in [T -> Days]
  BY <1>1
<1>3. Unexpired(dict) = [x \in T |-> dict[x]]
  BY DEF Unexpired
<1> QED
  BY <1>1, <1>2, <1>3 DEF Dicts

\* One request moves on with local variables that have their types.
LEMMA ReqMoves ==
  ASSUME OfferLimitTypeOK, NEW w \in Workers, NEW s \in ReqSteps, NEW r \in Req,
         reqStep' = [reqStep EXCEPT ![w] = s],
         req' = [req EXCEPT ![w] = r] \/ (req' = req /\ r = req[w])
  PROVE  /\ reqStep' \in [Workers -> ReqSteps] /\ req' \in [Workers -> Req]
         /\ reqStep'[w] = s /\ req'[w] = r
         /\ \A v \in Workers \ {w} : reqStep'[v] = reqStep[v] /\ req'[v] = req[v]
BY DEF OfferLimitTypeOK

\* Where a request stands, and what for.
ReqOK(w) ==
  /\ reqStep[w] \in {"read", "writeback", "decide"} => req[w].kind # "redeem"
  /\ reqStep[w] = "record" => req[w].kind = "redeem"
  /\ req[w].kind # "list" => req[w].item \in Items

OfferLimitInv == OfferLimitTypeOK /\ \A w \in Workers : ReqOK(w)

\* The purchases that are not in the cache yet are of offers.
LEMMA UnwrittenType == ASSUME OfferLimitInv PROVE UnwrittenItems \subseteq Items
BY DEF OfferLimitInv, ReqOK, UnwrittenItems, Unwritten

\* What a step does to its own request is enough for ReqOK.
LEMMA ReqKept ==
  ASSUME OfferLimitInv, NEW w \in Workers,
         \A v \in Workers \ {w} : reqStep'[v] = reqStep[v] /\ req'[v] = req[v],
         ReqOK(w)'
  PROVE  \A v \in Workers : ReqOK(v)'
BY DEF OfferLimitInv, ReqOK

\* Every step keeps the types and what threads hold.
LEMMA OfferLimitInvStep == OfferLimitInv /\ [OfferLimitNext]_offerVars => OfferLimitInv'
<1> SUFFICES ASSUME OfferLimitInv, [OfferLimitNext]_offerVars PROVE OfferLimitInv'
  OBVIOUS
<1> USE DEF OfferLimitInv, ReqGoto, ReqFinish
<1>0. /\ OfferLimitTypeOK /\ "idle" \in ReqSteps /\ today \in Days
      /\ \A w \in Workers : ReqOK(w) /\ req[w] \in Req /\ reqStep[w] \in ReqSteps
  BY DEF OfferLimitTypeOK, ReqSteps
<1>1. ASSUME NEW w \in Workers, NEW k \in {"list", "book"}, NEW x \in Items \cup {None},
             k = "book" => x \in Items, AskOffers(w, k, x)
      PROVE  OfferLimitInv'
  <2> DEFINE r == [NoReq EXCEPT !.kind = k, !.item = x]
  <2>1. r \in Req /\ r.kind = k /\ r.item = x
    BY ReqTypes DEF NoReq
  <2>2. /\ reqStep' \in [Workers -> ReqSteps] /\ req' \in [Workers -> Req]
        /\ reqStep'[w] = "read" /\ req'[w] = r
        /\ \A v \in Workers \ {w} : reqStep'[v] = reqStep[v] /\ req'[v] = req[v]
    BY <1>0, <1>1, <2>1, ReqMoves DEF AskOffers, ReqSteps
  <2>3. ReqOK(w)'
    BY <1>1, <2>1, <2>2 DEF ReqOK
  <2> QED
    BY <1>1, <2>2, <2>3, ReqKept, UnwrittenType DEF AskOffers, OfferLimitTypeOK
<1>2. ASSUME NEW w \in Workers, ReadCache(w) PROVE OfferLimitInv'
  <2> DEFINE r == [req[w] EXCEPT !.locked = Unexpired(cached)]
  <2>1. CASE cached # None /\ req' = [req EXCEPT ![w].locked = Unexpired(cached)]
                           /\ reqStep' = [reqStep EXCEPT ![w] = "writeback"]
    <3>1. r \in Req /\ req' = [req EXCEPT ![w] = r]
      BY <1>0, <2>1, UnexpiredType, ReqTypes DEF OfferLimitTypeOK
    <3>2. /\ reqStep' \in [Workers -> ReqSteps] /\ req' \in [Workers -> Req]
          /\ reqStep'[w] = "writeback" /\ req'[w] = r
          /\ \A v \in Workers \ {w} : reqStep'[v] = reqStep[v] /\ req'[v] = req[v]
      BY <1>0, <2>1, <3>1, ReqMoves DEF ReqSteps
    <3>3. r.kind = req[w].kind /\ r.item = req[w].item
      BY <1>0 DEF Req
    <3>4. ReqOK(w)'
      BY <1>0, <1>2, <3>2, <3>3 DEF ReqOK, ReadCache
    <3> QED
      BY <1>2, <3>2, <3>4, ReqKept DEF ReadCache, OfferLimitTypeOK
  <2>2. CASE UNCHANGED req /\ reqStep' = [reqStep EXCEPT ![w] = "query"]
    <3>1. /\ reqStep' \in [Workers -> ReqSteps] /\ req' \in [Workers -> Req]
          /\ reqStep'[w] = "query" /\ req'[w] = req[w]
          /\ \A v \in Workers \ {w} : reqStep'[v] = reqStep[v] /\ req'[v] = req[v]
      BY <1>0, <2>2, ReqMoves DEF ReqSteps
    <3>2. ReqOK(w)'
      BY <1>0, <3>1 DEF ReqOK
    <3> QED
      BY <1>2, <3>1, <3>2, ReqKept DEF ReadCache, OfferLimitTypeOK
  <2> QED
    BY <1>2, <2>1, <2>2 DEF ReadCache
<1>3. ASSUME NEW w \in Workers, QueryPurchases(w) PROVE OfferLimitInv'
  <2>1. PICK dict \in Dicts : req' = [req EXCEPT ![w].locked = dict]
    BY <1>3 DEF QueryPurchases
  <2> DEFINE r == [req[w] EXCEPT !.locked = dict]
  <2>2. r \in Req /\ req' = [req EXCEPT ![w] = r]
    BY <1>0, <2>1, ReqTypes
  <2>3. /\ reqStep' \in [Workers -> ReqSteps] /\ req' \in [Workers -> Req]
        /\ reqStep'[w] = "fill" /\ req'[w] = r
        /\ \A v \in Workers \ {w} : reqStep'[v] = reqStep[v] /\ req'[v] = req[v]
    BY <1>0, <1>3, <2>2, ReqMoves DEF QueryPurchases, ReqSteps
  <2>4. ReqOK(w)'
    BY <1>0, <2>3 DEF ReqOK, Req
  <2> QED
    BY <1>3, <2>3, <2>4, ReqKept DEF QueryPurchases, OfferLimitTypeOK
<1>4. ASSUME NEW w \in Workers, WriteCache(w) PROVE OfferLimitInv'
  <2>1. cached' \in Dicts \cup {None} /\ unsure' \subseteq Items
    BY <1>0, <1>4, UnwrittenType DEF WriteCache, OfferLimitTypeOK, Req
  <2>2. CASE req[w].kind = "redeem"
    <3>1. /\ reqStep' \in [Workers -> ReqSteps] /\ req' \in [Workers -> Req]
          /\ reqStep'[w] = "idle" /\ req'[w] = NoReq
          /\ \A v \in Workers \ {w} : reqStep'[v] = reqStep[v] /\ req'[v] = req[v]
      BY <1>0, <1>4, <2>2, ReqMoves, NoReqType DEF WriteCache
    <3>2. ReqOK(w)'
      BY <3>1 DEF ReqOK, NoReq
    <3> QED
      BY <1>4, <2>1, <3>1, <3>2, ReqKept DEF WriteCache, OfferLimitTypeOK
  <2>3. CASE req[w].kind # "redeem"
    <3>1. /\ reqStep' \in [Workers -> ReqSteps] /\ req' \in [Workers -> Req]
          /\ reqStep'[w] = "decide" /\ req'[w] = req[w]
          /\ \A v \in Workers \ {w} : reqStep'[v] = reqStep[v] /\ req'[v] = req[v]
      BY <1>0, <1>4, <2>3, ReqMoves DEF WriteCache, ReqSteps
    <3>2. ReqOK(w)'
      BY <1>0, <2>3, <3>1 DEF ReqOK
    <3> QED
      BY <1>4, <2>1, <3>1, <3>2, ReqKept DEF WriteCache, OfferLimitTypeOK
  <2> QED
    BY <2>2, <2>3
<1>5. ASSUME NEW w \in Workers, ListOffers(w) \/ BookOffer(w) \/ RequestDies(w)
      PROVE  OfferLimitInv'
  <2>1. /\ reqStep' \in [Workers -> ReqSteps] /\ req' \in [Workers -> Req]
        /\ reqStep'[w] = "idle" /\ req'[w] = NoReq
        /\ \A v \in Workers \ {w} : reqStep'[v] = reqStep[v] /\ req'[v] = req[v]
    BY <1>0, <1>5, ReqMoves, NoReqType DEF ListOffers, BookOffer, RequestDies
  <2>2. \A v \in Workers : ReqOK(v)'
    BY <2>1, ReqKept DEF ReqOK, NoReq
  <2>3. open' \in [Items -> 0 .. MaxOrders]
    BY <1>0, <1>5, OfferLimitAssumption
       DEF ListOffers, BookOffer, RequestDies, OfferLimitTypeOK, ReqOK
  <2>4. unsure' \subseteq Items
    BY <1>0, <1>5 DEF ListOffers, BookOffer, RequestDies, OfferLimitTypeOK, ReqOK
  <2> QED
    BY <1>5, <2>1, <2>2, <2>3, <2>4 DEF ListOffers, BookOffer, RequestDies, OfferLimitTypeOK
<1>6. ASSUME NEW w \in Workers, NEW x \in Items, Redeem(w, x) PROVE OfferLimitInv'
  <2> DEFINE r == [NoReq EXCEPT !.kind = "redeem", !.item = x]
  <2>1. r \in Req /\ r.kind = "redeem" /\ r.item = x
    BY ReqTypes DEF NoReq
  <2>2. /\ reqStep' \in [Workers -> ReqSteps] /\ req' \in [Workers -> Req]
        /\ reqStep'[w] = "record" /\ req'[w] = r
        /\ \A v \in Workers \ {w} : reqStep'[v] = reqStep[v] /\ req'[v] = req[v]
    BY <1>0, <1>6, <2>1, ReqMoves DEF Redeem, ReqSteps
  <2>3. ReqOK(w)'
    BY <2>1, <2>2 DEF ReqOK
  <2>4. open' \in [Items -> 0 .. MaxOrders]
    BY <1>0, <1>6, OfferLimitAssumption DEF Redeem, OfferLimitTypeOK
  <2> QED
    BY <1>6, <2>2, <2>3, <2>4, ReqKept, UnwrittenType DEF Redeem, OfferLimitTypeOK
<1>7. ASSUME NEW w \in Workers, RecordPurchase(w) PROVE OfferLimitInv'
  <2>1. req[w].item \in Items
    BY <1>0, <1>7 DEF RecordPurchase, ReqOK
  <2>2. /\ reqStep' \in [Workers -> ReqSteps] /\ req' \in [Workers -> Req]
        /\ reqStep'[w] = "query" /\ req'[w] = req[w]
        /\ \A v \in Workers \ {w} : reqStep'[v] = reqStep[v] /\ req'[v] = req[v]
    BY <1>0, <1>7, ReqMoves DEF RecordPurchase, ReqSteps
  <2>3. ReqOK(w)'
    BY <1>0, <2>1, <2>2 DEF ReqOK
  <2>4. bought' \subseteq Items \X Days /\ unsure' \subseteq Items
    BY <1>0, <1>7, <2>1 DEF RecordPurchase, OfferLimitTypeOK
  <2> QED
    BY <1>7, <2>2, <2>3, <2>4, ReqKept DEF RecordPurchase, OfferLimitTypeOK
<1>8. ASSUME NEW x \in Items, NEW to \in {"off", "on"}, SetListing(x, to) PROVE OfferLimitInv'
  BY <1>8 DEF SetListing, OfferLimitTypeOK, ReqOK
<1>9. ASSUME NEW x \in Items, OrderExpires(x) PROVE OfferLimitInv'
  BY <1>9, OfferLimitAssumption DEF OrderExpires, OfferLimitTypeOK, ReqOK
<1>10. CASE CacheExpires
  BY <1>10 DEF CacheExpires, OfferLimitTypeOK, ReqOK
<1>11. CASE Midnight
  BY <1>11, OfferLimitAssumption DEF Midnight, OfferLimitTypeOK, ReqOK, Days
<1>12. CASE UNCHANGED offerVars
  BY <1>12 DEF offerVars, OfferLimitTypeOK, ReqOK
<1>13. ASSUME NEW w \in Workers, AskOffers(w, "list", None) PROVE OfferLimitInv'
  BY <1>1, <1>13
<1>14. ASSUME NEW w \in Workers, NEW x \in Items, AskOffers(w, "book", x) PROVE OfferLimitInv'
  BY <1>1, <1>14
<1> QED
  BY <1>2, <1>3, <1>4, <1>5, <1>6, <1>7, <1>8, <1>9, <1>10, <1>11, <1>12, <1>13, <1>14
     DEF OfferLimitNext

\* The invariant holds of every state.
LEMMA OfferLimitInvHolds == OfferLimitSpec => []OfferLimitInv
<1>1. OfferLimitInit => OfferLimitInv
  <2> SUFFICES ASSUME OfferLimitInit PROVE OfferLimitInv
    OBVIOUS
  <2>1. reqStep \in [Workers -> ReqSteps] /\ req \in [Workers -> Req]
    BY NoReqType DEF OfferLimitInit, ReqSteps
  <2>2. \A w \in Workers : ReqOK(w)
    BY DEF OfferLimitInit, ReqOK, NoReq
  <2>3. open \in [Items -> 0 .. MaxOrders] /\ today \in Days
    BY OfferLimitAssumption DEF OfferLimitInit, Days
  <2> QED
    BY <2>1, <2>2, <2>3 DEF OfferLimitInit, OfferLimitInv, OfferLimitTypeOK
<1> QED
  BY <1>1, OfferLimitInvStep, PTL DEF OfferLimitSpec

\* The tables, the cached dict and the requests keep their types.
THEOREM OfferLimitTypeCorrect == OfferLimitSpec => []OfferLimitTypeOK
BY OfferLimitInvHolds, PTL DEF OfferLimitInv

-----------------------------------------------------------------------------
(* The cache.  A dict is good for an offer when it has a date of a purchase  *)
(* of it that counts, unless an older purchase was overtaken.  Dicts are     *)
(* read, held and written back; what keeps them good is that a purchase that *)
(* another request could overlap makes its offer unsure, and that a date     *)
(* which runs out before another purchase does was overtaken by it.          *)

Settled(x) == x \in Items \ unsure

GoodDict(dict, x) ==
  Counts(x) =>
    \/ Overtaken(x)
    \/ /\ x \in DOMAIN dict /\ dict[x] \in Days
       /\ <<x, dict[x]>> \in bought /\ dict[x] + LimitRange > today

\* No purchase is dated later than today.
NoneLater == \A b \in bought : b[2] <= today

\* A redemption that has yet to write the cache and another request in progress.
OverlapUnsure ==
  \A v, w \in Workers : v # w /\ Unwritten(v) /\ reqStep[w] # "idle" => req[v].item \in unsure

Holding(w) == reqStep[w] \in {"writeback", "fill", "decide"}

HeldDictsGood ==
  \A w \in Workers, x \in Items : Holding(w) /\ Settled(x) => GoodDict(req[w].locked, x)

CacheGood ==
  cached # None =>
    \A x \in Items : Settled(x) => x \in UnwrittenItems \/ GoodDict(cached, x)

CacheInv == NoneLater /\ OverlapUnsure /\ HeldDictsGood /\ CacheGood

\* The query of set_locked_offers gives a good dict.
LEMMA FoundIsGood ==
  ASSUME OfferLimitTypeOK, NoneLater, NEW dict, FoundBy(dict), NEW x \in Items
  PROVE  GoodDict(dict, x)
<1> SUFFICES ASSUME NEW e \in Days, <<x, e>> \in bought, e + LimitRange > today
             PROVE  \/ Overtaken(x)
                    \/ /\ x \in DOMAIN dict /\ dict[x] \in Days
                       /\ <<x, dict[x]>> \in bought /\ dict[x] + LimitRange > today
  BY DEF GoodDict, Counts
<1> DEFINE found == {b \in bought : b[2] + LimitRange >= today}
<1>0. /\ today \in Nat /\ LimitRange \in Nat /\ \A d \in Days : d \in Nat
      /\ e <= today
  <2>1. <<x, e>>[2] <= today
    BY DEF NoneLater
  <2> QED
    BY <2>1, OfferLimitAssumption DEF OfferLimitTypeOK, Days
<1>1. <<x, e>> \in found
  BY <1>0
<1>2. DOMAIN dict = {b[1] : b \in found} /\ \A y \in DOMAIN dict : <<y, dict[y]>> \in found
  BY DEF FoundBy
<1> HIDE DEF found
<1>3. x \in DOMAIN dict
  <2>1. x = <<x, e>>[1]
    OBVIOUS
  <2> QED
    BY <1>1, <1>2, <2>1
<1>4. <<x, dict[x]>> \in bought /\ dict[x] + LimitRange >= today
  BY <1>2, <1>3 DEF found
<1>5. dict[x] \in Days
  BY <1>4 DEF OfferLimitTypeOK
<1>6. CASE dict[x] + LimitRange > today
  BY <1>3, <1>4, <1>5, <1>6
<1>7. CASE dict[x] + LimitRange = today
  <2>1. dict[x] < e /\ e <= dict[x] + LimitRange
    BY <1>0, <1>5, <1>7
  <2> QED
    BY <1>0, <1>4, <1>5, <1>7, <2>1 DEF Overtaken
<1> QED
  BY <1>0, <1>4, <1>5, <1>6, <1>7

\* The filter of get_locked_offers keeps a dict good.
LEMMA UnexpiredIsGood ==
  ASSUME OfferLimitTypeOK, NEW dict, NEW x \in Items, GoodDict(dict, x)
  PROVE  GoodDict(Unexpired(dict), x)
BY DEF GoodDict, Unexpired

\* A good dict shows an offer whose purchase counts.
LEMMA GoodDictShows ==
  ASSUME NEW dict, NEW x \in Items, GoodDict(dict, x), Counts(x)
  PROVE  x \in DOMAIN dict \/ Overtaken(x)
BY DEF GoodDict

\* With the same purchases on the same day, the same offers count.
LEMMA CountsKept ==
  ASSUME UNCHANGED <<bought, today>>, NEW x
  PROVE  (Counts(x)' <=> Counts(x)) /\ (Overtaken(x)' <=> Overtaken(x))
BY DEF Counts, Overtaken

\* What matters of a step that records no purchase and leaves the date alone: whether
\* requests begin or end, and what they hold.
LEMMA CacheInvKept ==
  ASSUME OfferLimitInv, CacheInv, UNCHANGED <<bought, today>>,
         unsure \subseteq unsure',
         OverlapUnsure',
         \A w \in Workers, x \in Items :
           Holding(w)' /\ Settled(x)' =>
             \/ Holding(w) /\ req'[w].locked = req[w].locked
             \/ GoodDict(req'[w].locked, x),
         cached' # None =>
           \A x \in Items : Settled(x)' =>
             \/ cached' = cached /\ (x \in UnwrittenItems => x \in UnwrittenItems')
             \/ GoodDict(cached', x)
  PROVE  CacheInv'
<1>1. \A x \in Items : Settled(x)' => Settled(x)
  BY DEF Settled
<1>2. NoneLater'
  BY DEF CacheInv, NoneLater
<1>3. HeldDictsGood'
  BY <1>1, CountsKept DEF CacheInv, HeldDictsGood, GoodDict
<1>4. CacheGood'
  BY <1>1, CountsKept DEF CacheInv, CacheGood, GoodDict
<1> QED
  BY <1>2, <1>3, <1>4 DEF CacheInv

\* A request begins: what others have yet to write becomes unsure.
LEMMA BeginKeepsCache ==
  ASSUME OfferLimitInv, CacheInv, NEW w \in Workers, NEW s \in {"read", "record"},
         reqStep[w] = "idle", reqStep' = [reqStep EXCEPT ![w] = s],
         \A v \in Workers \ {w} : req'[v] = req[v],
         unsure' = unsure \cup UnwrittenItems,
         UNCHANGED <<today, bought, cached>>
  PROVE  CacheInv'
<1>1. /\ reqStep'[w] = s
      /\ \A v \in Workers \ {w} : reqStep'[v] = reqStep[v] /\ req'[v] = req[v]
  BY DEF OfferLimitInv, OfferLimitTypeOK
<1>2. \A v \in Workers : Unwritten(v)' => Unwritten(v) /\ req'[v].item \in UnwrittenItems
  BY <1>1 DEF Unwritten, UnwrittenItems
<1>3. OverlapUnsure'
  BY <1>2 DEF OverlapUnsure
<1>4. \A v \in Workers : Holding(v)' => Holding(v) /\ req'[v].locked = req[v].locked
  BY <1>1 DEF Holding
<1>5. \A x \in Items : Settled(x)' => x \notin UnwrittenItems
  BY DEF Settled
<1> QED
  BY <1>3, <1>4, <1>5, CacheInvKept

\* A request that is no redemption in progress ends, or moves on without a dict.
LEMMA EndKeepsCache ==
  ASSUME OfferLimitInv, CacheInv, NEW w \in Workers, NEW s \in {"idle", "query"},
         reqStep' = [reqStep EXCEPT ![w] = s],
         \A v \in Workers \ {w} : req'[v] = req[v],
         s = "query" => reqStep[w] # "idle" /\ req'[w] = req[w] /\ req[w].kind # "redeem",
         unsure \subseteq unsure', Unwritten(w) => req[w].item \in unsure',
         UNCHANGED <<today, bought, cached>>
  PROVE  CacheInv'
<1>1. /\ reqStep'[w] = s
      /\ \A v \in Workers \ {w} : reqStep'[v] = reqStep[v] /\ req'[v] = req[v]
  BY DEF OfferLimitInv, OfferLimitTypeOK
<1>2. ~Unwritten(w)'
  BY <1>1 DEF Unwritten
<1>3. OverlapUnsure'
  <2> SUFFICES ASSUME NEW u \in Workers, NEW v \in Workers, u # v, Unwritten(u)',
                      reqStep'[v] # "idle"
               PROVE  req'[u].item \in unsure'
    BY DEF OverlapUnsure
  <2>1. u # w
    BY <1>2
  <2>2. Unwritten(u) /\ req'[u] = req[u]
    BY <1>1, <2>1 DEF Unwritten
  <2>3. reqStep[v] # "idle"
    BY <1>1
  <2> QED
    BY <2>2, <2>3 DEF CacheInv, OverlapUnsure
<1>4. \A v \in Workers : Holding(v)' => Holding(v) /\ req'[v].locked = req[v].locked
  BY <1>1 DEF Holding
<1>5. \A x \in Items : Settled(x)' /\ x \in UnwrittenItems => x \in UnwrittenItems'
  <2> SUFFICES ASSUME NEW x \in Items, Settled(x)', NEW v \in Workers, Unwritten(v),
                      x = req[v].item
               PROVE  x \in UnwrittenItems'
    BY DEF UnwrittenItems
  <2>1. v # w
    BY DEF Settled
  <2>2. Unwritten(v)' /\ req'[v].item = x
    BY <1>1, <2>1 DEF Unwritten
  <2> QED
    BY <2>2 DEF UnwrittenItems
<1> QED
  BY <1>3, <1>4, <1>5, CacheInvKept

\* Reading the cache, or finding nothing in it.
LEMMA ReadKeepsCache ==
  ASSUME OfferLimitInv, CacheInv, NEW w \in Workers, ReadCache(w)
  PROVE  CacheInv'
<1> USE DEF OfferLimitInv
<1>1. reqStep[w] = "read" /\ req[w].kind # "redeem"
  BY DEF ReadCache, ReqOK
<1>2. CASE reqStep' = [reqStep EXCEPT ![w] = "query"] /\ UNCHANGED req
  BY <1>1, <1>2, EndKeepsCache DEF ReadCache, Unwritten
<1>3. CASE /\ cached # None /\ req' = [req EXCEPT ![w].locked = Unexpired(cached)]
           /\ reqStep' = [reqStep EXCEPT ![w] = "writeback"]
  <2>1. /\ reqStep'[w] = "writeback"
        /\ req'[w].locked = Unexpired(cached) /\ req'[w].kind = req[w].kind
        /\ \A v \in Workers \ {w} : reqStep'[v] = reqStep[v] /\ req'[v] = req[v]
    BY <1>3 DEF OfferLimitTypeOK, Req
  <2>2. \A v \in Workers : Unwritten(v)' <=> Unwritten(v)
    BY <1>1, <2>1 DEF Unwritten
  <2>3. \A v \in Workers : Unwritten(v) => v # w /\ req'[v] = req[v] /\ req[v].item \in unsure
    BY <1>1, <2>1 DEF CacheInv, OverlapUnsure, Unwritten
  <2>4. OverlapUnsure'
    BY <2>2, <2>3 DEF OverlapUnsure, ReadCache
  <2>5. \A x \in Items : Settled(x) => x \notin UnwrittenItems /\ GoodDict(cached, x)
    BY <1>3, <2>3 DEF CacheInv, CacheGood, Settled, UnwrittenItems
  <2>6. unsure' = unsure /\ cached' = cached
    BY DEF ReadCache
  <2>7. \A x \in Items : Settled(x)' => Settled(x)
    BY <2>6 DEF Settled
  <2>8. \A x \in Items : Settled(x)' => GoodDict(Unexpired(cached), x)
    BY <2>5, <2>7, UnexpiredIsGood
  <2>9. \A v \in Workers, x \in Items : Holding(v)' /\ Settled(x)' =>
          \/ Holding(v) /\ req'[v].locked = req[v].locked
          \/ GoodDict(req'[v].locked, x)
    BY <2>1, <2>8 DEF Holding
  <2> QED
    BY <2>4, <2>5, <2>6, <2>7, <2>9, CacheInvKept DEF ReadCache
<1> QED
  BY <1>2, <1>3 DEF ReadCache, ReqGoto

\* Reading the orders from the tables.
LEMMA QueryKeepsCache ==
  ASSUME OfferLimitInv, CacheInv, NEW w \in Workers, QueryPurchases(w)
  PROVE  CacheInv'
<1> USE DEF OfferLimitInv
<1>1. PICK dict \in Dicts : FoundBy(dict) /\ req' = [req EXCEPT ![w].locked = dict]
  BY DEF QueryPurchases
<1>2. /\ reqStep'[w] = "fill" /\ reqStep[w] = "query"
      /\ req'[w].locked = dict /\ req'[w].kind = req[w].kind /\ req'[w].item = req[w].item
      /\ \A v \in Workers \ {w} : reqStep'[v] = reqStep[v] /\ req'[v] = req[v]
  BY <1>1 DEF QueryPurchases, ReqGoto, OfferLimitTypeOK, Req
<1>3. \A v \in Workers : (Unwritten(v)' <=> Unwritten(v)) /\ req'[v].item = req[v].item
  BY <1>2 DEF Unwritten
<1>4. OverlapUnsure'
  BY <1>2, <1>3 DEF CacheInv, OverlapUnsure, QueryPurchases
<1>5. UnwrittenItems \subseteq UnwrittenItems'
  BY <1>3 DEF UnwrittenItems
<1>6. \A x \in Items : Settled(x)' => GoodDict(dict, x)
  BY <1>1, FoundIsGood DEF CacheInv, Settled, QueryPurchases
<1>7. \A v \in Workers, x \in Items : Holding(v)' /\ Settled(x)' =>
        \/ Holding(v) /\ req'[v].locked = req[v].locked
        \/ GoodDict(req'[v].locked, x)
  BY <1>2, <1>6 DEF Holding
<1> QED
  BY <1>4, <1>5, <1>7, CacheInvKept DEF QueryPurchases

\* Writing a dict back to redis.
LEMMA WriteKeepsCache ==
  ASSUME OfferLimitInv, CacheInv, NEW w \in Workers, WriteCache(w)
  PROVE  CacheInv'
<1> USE DEF OfferLimitInv
<1>1. /\ Holding(w)
      /\ unsure \subseteq unsure' /\ UNCHANGED <<today, bought>>
      /\ \A v \in Workers \ {w} : reqStep'[v] = reqStep[v] /\ req'[v] = req[v]
  BY DEF WriteCache, Holding, ReqFinish, ReqGoto, OfferLimitTypeOK
<1>2. /\ reqStep[w] # "idle" /\ ~Unwritten(w)'
      /\ Holding(w)' => req'[w] = req[w]
  BY DEF WriteCache, Unwritten, ReqFinish, ReqGoto, OfferLimitTypeOK, Holding
<1>3. OverlapUnsure'
  <2> SUFFICES ASSUME NEW u \in Workers, NEW v \in Workers, u # v, Unwritten(u)',
                      reqStep'[v] # "idle"
               PROVE  req'[u].item \in unsure'
    BY DEF OverlapUnsure
  <2>1. u # w
    BY <1>2
  <2>2. Unwritten(u) /\ req'[u] = req[u]
    BY <1>1, <2>1 DEF Unwritten
  <2>3. req[u].item \in unsure
    BY <1>2, <2>1, <2>2 DEF CacheInv, OverlapUnsure
  <2> QED
    BY <1>1, <2>2, <2>3
<1>4. \A v \in Workers : Holding(v)' => Holding(v) /\ req'[v].locked = req[v].locked
  BY <1>1, <1>2 DEF Holding
<1>5. \A x \in Items : Settled(x)' => Settled(x)
  BY <1>1 DEF Settled
<1>6. CASE cached' = req[w].locked
  <2>1. \A x \in Items : Settled(x)' => GoodDict(cached', x)
    BY <1>1, <1>5, <1>6 DEF CacheInv, HeldDictsGood
  <2> QED
    BY <1>1, <1>3, <1>4, <2>1, CacheInvKept
\* When redis fails, what was to be written is unsure.
<1>7. CASE cached' = cached /\ unsure' = unsure \cup UnwrittenItems
  <2>1. \A x \in Items : Settled(x)' => x \notin UnwrittenItems
    BY <1>7 DEF Settled
  <2> QED
    BY <1>1, <1>3, <1>4, <1>7, <2>1, CacheInvKept
<1> QED
  BY <1>6, <1>7 DEF WriteCache

\* A purchase: nobody else is busy, or the offer becomes unsure.
LEMMA RecordKeepsCache ==
  ASSUME OfferLimitInv, CacheInv, NEW w \in Workers, RecordPurchase(w)
  PROVE  CacheInv'
<1> DEFINE y == req[w].item
<1> USE DEF OfferLimitInv
<1>1. /\ reqStep'[w] = "query" /\ reqStep[w] = "record" /\ req' = req
      /\ \A v \in Workers \ {w} : reqStep'[v] = reqStep[v]
      /\ req[w].kind = "redeem" /\ y \in Items
  BY DEF RecordPurchase, ReqGoto, ReqOK, OfferLimitTypeOK
<1>2. /\ Unwritten(w)' /\ ~Unwritten(w)
      /\ \A v \in Workers \ {w} : Unwritten(v)' <=> Unwritten(v)
      /\ \A v \in Workers : Holding(v)' => v # w /\ Holding(v)
  BY <1>1 DEF Unwritten, Holding
<1>3. /\ bought' = bought \cup {<<y, today>>} /\ UNCHANGED <<today, cached>>
      /\ unsure \subseteq unsure'
      /\ OthersBusy(w) => y \in unsure'
      /\ today \in Days /\ \A d \in Days : d \in Nat
  BY OfferLimitAssumption DEF RecordPurchase, OfferLimitTypeOK, Days
<1>4. \A x \in Items : Settled(x)' => Settled(x)
  BY <1>3 DEF Settled
<1>5. ASSUME NEW x \in Items, NEW dict, x # y, GoodDict(dict, x)
      PROVE  Counts(x)' =>
               \/ Overtaken(x)'
               \/ /\ x \in DOMAIN dict /\ dict[x] \in Days
                  /\ <<x, dict[x]>> \in bought' /\ dict[x] + LimitRange > today'
  <2>1. \A d : <<x, d>> \in bought' <=> <<x, d>> \in bought
    BY <1>3, <1>5
  <2>2. (Counts(x)' <=> Counts(x)) /\ (Overtaken(x)' <=> Overtaken(x))
    BY <1>3, <2>1 DEF Counts, Overtaken
  <2> QED
    BY <1>3, <1>5, <2>1, <2>2 DEF GoodDict
<1>6. NoneLater'
  BY <1>3 DEF CacheInv, NoneLater
<1>7. OverlapUnsure'
  <2> SUFFICES ASSUME NEW u \in Workers, NEW v \in Workers, u # v, Unwritten(u)',
                      reqStep'[v] # "idle"
               PROVE  req[u].item \in unsure'
    BY <1>1 DEF OverlapUnsure
  <2>1. CASE u = w
    BY <1>1, <1>3, <2>1 DEF OthersBusy
  <2>2. CASE u # w
    <3>1. Unwritten(u) /\ reqStep[v] # "idle"
      BY <1>1, <1>2, <2>2
    <3> QED
      BY <1>3, <3>1 DEF CacheInv, OverlapUnsure
  <2> QED
    BY <2>1, <2>2
<1>8. HeldDictsGood'
  <2> SUFFICES ASSUME NEW v \in Workers, NEW x \in Items, Holding(v)', Settled(x)'
               PROVE  GoodDict(req[v].locked, x)'
    BY <1>1 DEF HeldDictsGood
  <2>1. OthersBusy(w)
    BY <1>2 DEF OthersBusy, Holding
  <2>2. x # y
    BY <1>3, <2>1 DEF Settled
  <2>3. GoodDict(req[v].locked, x)
    BY <1>2, <1>4 DEF CacheInv, HeldDictsGood
  <2>4. req[v].locked \in Dicts
    BY DEF OfferLimitTypeOK, Req
  <2> QED
    BY <1>1, <1>3, <1>5, <2>2, <2>3, <2>4 DEF GoodDict
<1>9. CacheGood'
  <2> SUFFICES ASSUME cached # None, NEW x \in Items, Settled(x)', x \notin UnwrittenItems'
               PROVE  GoodDict(cached, x)'
    BY <1>3 DEF CacheGood
  <2>1. x # y
    BY <1>1, <1>2 DEF UnwrittenItems
  <2>2. x \notin UnwrittenItems
    BY <1>1, <1>2 DEF UnwrittenItems
  <2>3. GoodDict(cached, x)
    BY <1>4, <2>2 DEF CacheInv, CacheGood
  <2>4. cached \in Dicts \cup {None}
    BY DEF OfferLimitTypeOK
  <2> QED
    BY <1>3, <1>5, <2>1, <2>3, <2>4 DEF GoodDict
<1> QED
  BY <1>6, <1>7, <1>8, <1>9 DEF CacheInv

\* A day that ends makes purchases count no longer, and none count anew; a date that
\* runs out with it was overtaken by the purchase that goes on counting.
LEMMA MidnightKeepsCache ==
  ASSUME OfferLimitInv, CacheInv, Midnight
  PROVE  CacheInv'
<1>1. /\ today \in Nat /\ today' = today + 1 /\ \A d \in Days : d \in Nat
      /\ UNCHANGED <<bought, cached, reqStep, req, unsure>> /\ LimitRange \in Nat
      /\ bought \subseteq Items \X Days
  BY OfferLimitAssumption DEF Midnight, OfferLimitInv, OfferLimitTypeOK, Days
<1>2. ASSUME NEW dict, NEW x \in Items, GoodDict(dict, x)
      PROVE  Counts(x)' =>
               \/ Overtaken(x)'
               \/ /\ x \in DOMAIN dict /\ dict[x] \in Days
                  /\ <<x, dict[x]>> \in bought' /\ dict[x] + LimitRange > today'
  <2> SUFFICES ASSUME NEW f \in Days, <<x, f>> \in bought, f + LimitRange > today + 1
               PROVE  \/ Overtaken(x)'
                      \/ /\ x \in DOMAIN dict /\ dict[x] \in Days
                         /\ <<x, dict[x]>> \in bought /\ dict[x] + LimitRange > today + 1
    BY <1>1 DEF Counts
  <2>1. f <= today
    <3>1. <<x, f>>[2] <= today
      BY DEF CacheInv, NoneLater
    <3> QED
      BY <3>1
  \* A purchase that counts today and not tomorrow was overtaken by f.
  <2>2. ASSUME NEW c \in Days, <<x, c>> \in bought, c + LimitRange > today,
               ~(c + LimitRange > today + 1)
        PROVE  Overtaken(x)'
    <3>1. /\ c < f /\ f <= c + LimitRange
          /\ c + LimitRange <= today' /\ today' < f + LimitRange
      BY <1>1, <2>1, <2>2
    <3> QED
      BY <1>1, <2>2, <3>1 DEF Overtaken
  <2>3. Counts(x)
    BY <1>1 DEF Counts
  <2>4. CASE Overtaken(x)
    <3>1. PICK d \in Days, e \in Days :
            /\ <<x, d>> \in bought /\ <<x, e>> \in bought
            /\ d < e /\ e <= d + LimitRange
            /\ d + LimitRange <= today /\ today < e + LimitRange
      BY <2>4 DEF Overtaken
    <3>2. CASE e + LimitRange > today + 1
      <4>1. d + LimitRange <= today' /\ today' < e + LimitRange
        BY <1>1, <3>1, <3>2
      <4> QED
        BY <1>1, <3>1, <4>1 DEF Overtaken
    <3>3. CASE ~(e + LimitRange > today + 1)
      <4>1. e + LimitRange > today
        BY <1>1, <3>1
      <4> QED
        BY <2>2, <3>1, <3>3, <4>1
    <3> QED
      BY <3>2, <3>3
  <2>5. CASE ~Overtaken(x)
    <3>1. /\ x \in DOMAIN dict /\ dict[x] \in Days
          /\ <<x, dict[x]>> \in bought /\ dict[x] + LimitRange > today
      BY <1>2, <2>3, <2>5 DEF GoodDict
    <3> QED
      BY <2>2, <3>1
  <2> QED
    BY <2>4, <2>5
<1>3. NoneLater'
  BY <1>1 DEF CacheInv, NoneLater
<1>4. UnwrittenItems' = UnwrittenItems
  BY <1>1 DEF UnwrittenItems, Unwritten
<1>5. OverlapUnsure'
  BY <1>1 DEF CacheInv, OverlapUnsure, Unwritten
<1>6. HeldDictsGood'
  <2> SUFFICES ASSUME NEW w \in Workers, NEW x \in Items, Holding(w), Settled(x)
               PROVE  GoodDict(req[w].locked, x)'
    BY <1>1 DEF HeldDictsGood, Holding, Settled
  <2>1. GoodDict(req[w].locked, x)
    BY DEF CacheInv, HeldDictsGood
  <2> QED
    BY <1>1, <1>2, <2>1 DEF GoodDict
<1>7. CacheGood'
  <2> SUFFICES ASSUME cached # None, NEW x \in Items, Settled(x), x \notin UnwrittenItems
               PROVE  GoodDict(cached, x)'
    BY <1>1, <1>4 DEF CacheGood, Settled
  <2>1. GoodDict(cached, x)
    BY DEF CacheInv, CacheGood
  <2> QED
    BY <1>1, <1>2, <2>1 DEF GoodDict
<1> QED
  BY <1>3, <1>5, <1>6, <1>7 DEF CacheInv

\* What leaves the requests, the purchases and the date alone.
LEMMA OutsideKeepsCache ==
  ASSUME CacheInv, UNCHANGED <<today, bought, reqStep, req, unsure>>,
         cached' \in {cached, None}
  PROVE  CacheInv'
<1>1. UnwrittenItems' = UnwrittenItems
  BY DEF UnwrittenItems, Unwritten
<1>2. NoneLater' /\ OverlapUnsure' /\ HeldDictsGood'
  BY CountsKept DEF CacheInv, NoneLater, OverlapUnsure, HeldDictsGood, Unwritten, Holding,
                    Settled, GoodDict
<1>3. CacheGood'
  BY <1>1, CountsKept DEF CacheInv, CacheGood, Settled, GoodDict
<1> QED
  BY <1>2, <1>3 DEF CacheInv

\* Every step keeps the dicts, in redis and in hand, as good as they are claimed to be.
LEMMA CacheInvStep == OfferLimitInv /\ CacheInv /\ [OfferLimitNext]_offerVars => CacheInv'
<1> SUFFICES ASSUME OfferLimitInv, CacheInv, [OfferLimitNext]_offerVars PROVE CacheInv'
  OBVIOUS
<1>0. OfferLimitTypeOK /\ \A w \in Workers : ReqOK(w)
  BY DEF OfferLimitInv
<1>1. ASSUME NEW w \in Workers, NEW k, NEW x, AskOffers(w, k, x) PROVE CacheInv'
  BY <1>0, <1>1, BeginKeepsCache DEF AskOffers, ReqGoto, OfferLimitTypeOK
<1>2. ASSUME NEW w \in Workers, NEW x \in Items, Redeem(w, x) PROVE CacheInv'
  BY <1>0, <1>2, BeginKeepsCache DEF Redeem, ReqGoto, OfferLimitTypeOK
<1>3. ASSUME NEW w \in Workers, ListOffers(w) \/ BookOffer(w) PROVE CacheInv'
  BY <1>0, <1>3, EndKeepsCache
     DEF ListOffers, BookOffer, ReqFinish, ReqGoto, Unwritten, OfferLimitTypeOK
<1>4. ASSUME NEW w \in Workers, RequestDies(w) PROVE CacheInv'
  BY <1>0, <1>4, EndKeepsCache
     DEF RequestDies, ReqFinish, ReqGoto, Unwritten, OfferLimitTypeOK
<1>5. ASSUME NEW x \in Items,
             OrderExpires(x) \/ \E to \in {"off", "on"} : SetListing(x, to)
      PROVE  CacheInv'
  BY <1>5, OutsideKeepsCache DEF OrderExpires, SetListing
<1>6. CASE CacheExpires
  BY <1>6, OutsideKeepsCache DEF CacheExpires
<1>7. CASE UNCHANGED offerVars
  BY <1>7, OutsideKeepsCache DEF offerVars
<1> QED
  BY <1>1, <1>2, <1>3, <1>4, <1>5, <1>6, <1>7, ReadKeepsCache, QueryKeepsCache,
     WriteKeepsCache, RecordKeepsCache, MidnightKeepsCache DEF OfferLimitNext

\* The invariant of the cache holds of every state.
LEMMA CacheInvHolds == OfferLimitSpec => []CacheInv
<1>1. OfferLimitInit => CacheInv
  BY DEF OfferLimitInit, CacheInv, NoneLater, OverlapUnsure, HeldDictsGood, CacheGood,
         Unwritten, Holding
<1> QED
  BY <1>1, CacheInvStep, OfferLimitInvHolds, PTL DEF OfferLimitSpec

\* However requests interleave and whatever fails, the cached dict keeps the offers
\* whose purchase counts, with the exceptions named.
THEOREM CacheKeeps == OfferLimitSpec => []CacheKeepsPurchases
<1>1. OfferLimitInv /\ CacheInv => CacheKeepsPurchases
  <2> SUFFICES ASSUME OfferLimitInv, CacheInv, cached # None,
                      NEW x \in Items \ unsure, Counts(x),
                      x \notin UnwrittenItems
               PROVE  x \in DOMAIN cached \/ Overtaken(x)
    BY DEF CacheKeepsPurchases
  <2>1. GoodDict(cached, x)
    BY DEF CacheInv, CacheGood, Settled
  <2> QED
    BY <2>1, GoodDictShows
<1> QED
  BY <1>1, CacheInvHolds, OfferLimitInvHolds, PTL

\* An offer is not booked while a purchase of it counts, with the same exceptions:
\* the dict a request has checked stays good until it decides.
THEOREM LimitKept == OfferLimitSpec => NotBookedWhileLocked
<1>1. ASSUME OfferLimitInv, CacheInv, [OfferLimitNext]_offerVars,
             NEW x \in Items \ unsure, open'[x] > open[x]
      PROVE  ~Counts(x) \/ Overtaken(x)
  <2>0. open \in [Items -> 0 .. MaxOrders]
    BY <1>1 DEF OfferLimitInv, OfferLimitTypeOK
  <2>1. \A y \in Items : open' # [open EXCEPT ![y] = @ - 1]
    BY <1>1, <2>0, OfferLimitAssumption
  <2>2. open' # open
    BY <1>1, <2>0, OfferLimitAssumption
  <2>3. PICK w \in Workers : BookOffer(w)
    <3>1. /\ ~\E w \in Workers, y \in Items : Redeem(w, y)
          /\ ~\E y \in Items : OrderExpires(y)
      BY <2>1 DEF Redeem, OrderExpires
    <3>2. /\ ~\E w \in Workers, k \in {"list", "book"}, y \in Items \cup {None} :
               AskOffers(w, k, y)
          /\ ~\E w \in Workers : \/ ReadCache(w) \/ QueryPurchases(w) \/ WriteCache(w)
                                 \/ ListOffers(w) \/ RecordPurchase(w) \/ RequestDies(w)
      BY <2>2 DEF AskOffers, ReadCache, QueryPurchases, WriteCache, ListOffers,
                  RecordPurchase, RequestDies
    <3>3. /\ ~\E y \in Items, to \in {"off", "on"} : SetListing(y, to)
          /\ ~CacheExpires /\ ~Midnight /\ ~UNCHANGED offerVars
      BY <2>2 DEF SetListing, CacheExpires, Midnight, offerVars
    <3> QED
      BY <1>1, <3>1, <3>2, <3>3 DEF OfferLimitNext
  <2>4. req[w].item = x /\ x \notin DOMAIN req[w].locked /\ Holding(w)
    BY <1>1, <2>0, <2>2, <2>3, OfferLimitAssumption DEF BookOffer, Holding
  <2>5. GoodDict(req[w].locked, x)
    BY <1>1, <2>4 DEF CacheInv, HeldDictsGood, Settled
  <2> QED
    BY <2>4, <2>5, GoodDictShows
<1>2. OfferLimitInv /\ CacheInv /\ [OfferLimitNext]_offerVars =>
        [\A x \in Items \ unsure : open'[x] > open[x] => ~Counts(x) \/ Overtaken(x)]_offerVars
  BY <1>1
<1> QED
  BY <1>2, CacheInvHolds, OfferLimitInvHolds, PTL DEF OfferLimitSpec, NotBookedWhileLocked
=============================================================================
