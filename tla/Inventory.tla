------------------------------ MODULE Inventory ------------------------------
(***************************************************************************)
(* What the goods table promises, with no handlers, statements or locks:   *)
(* a good is free, held for one order, or sold to it for good.  An order   *)
(* holds at most one good, keeps it while it lives, and loses it only by   *)
(* lapsing unpaid.                                                         *)
(***************************************************************************)
CONSTANTS Goods, OrderIds, None

VARIABLES
  holder,  \* the order each good is put aside for, or None
  sold,    \* the goods that were handed out
  lapsed   \* the orders whose time is over

vars == <<holder, sold, lapsed>>

TypeOK ==
  /\ holder \in [Goods -> OrderIds \cup {None}]
  /\ sold \subseteq Goods
  /\ lapsed \subseteq OrderIds

Init ==
  /\ holder = [g \in Goods |-> None]
  /\ sold = {}
  /\ lapsed = {}

Reserve(g, o) ==
  /\ holder[g] = None
  /\ \A x \in Goods : holder[x] # o
  /\ holder' = [holder EXCEPT ![g] = o]
  /\ UNCHANGED <<sold, lapsed>>

Sell(g) ==
  /\ holder[g] # None
  /\ holder[g] \notin lapsed
  /\ sold' = sold \cup {g}
  /\ UNCHANGED <<holder, lapsed>>

Lapse(o) ==
  /\ lapsed' = lapsed \cup {o}
  /\ UNCHANGED <<holder, sold>>

Release(g) ==
  /\ holder[g] \in lapsed
  /\ g \notin sold
  /\ holder' = [holder EXCEPT ![g] = None]
  /\ UNCHANGED <<sold, lapsed>>

Next ==
  \/ \E g \in Goods : (\E o \in OrderIds : Reserve(g, o)) \/ Sell(g) \/ Release(g)
  \/ \E o \in OrderIds : Lapse(o)

Spec == Init /\ [][Next]_vars
=============================================================================
