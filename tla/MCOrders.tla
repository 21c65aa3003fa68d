------------------------------ MODULE MCOrders ------------------------------
(* Small instances of Orders for TLC. *)
EXTENDS Orders, TLC

\* All goods are of one offer, or every offer has a good.
OneOffer == [g \in Goods |-> CHOOSE f \in Offers : TRUE]
EveryOffer == CHOOSE m \in [Goods -> Offers] : \A f \in Offers : \E g \in Goods : m[g] = f

\* Sound wherever no property singles out a worker, good, order or hash.
AllSymmetric ==
  Permutations(Workers) \cup Permutations(Goods) \cup Permutations(TxHashes)
    \cup Permutations(OrderIds)

\* The goods of different offers are not interchangeable.
GoodsFixed == Permutations(Workers) \cup Permutations(TxHashes) \cup Permutations(OrderIds)
=============================================================================
