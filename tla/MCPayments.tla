----------------------------- MODULE MCPayments -----------------------------
(* Small instances of Payments for TLC. *)
EXTENDS Payments, TLC

\* All tasks in one category.
OneCat == [t \in Tasks |-> CHOOSE c \in Cats : TRUE]

SharedPhone == [u \in Users |-> "phone"]

Symmetric == Permutations(Workers) \cup Permutations(Memos) \cup Permutations(PayIds)
=============================================================================
