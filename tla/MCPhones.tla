------------------------------ MODULE MCPhones ------------------------------
(* Small instances of Phones for TLC. *)
EXTENDS Phones, TLC

Symmetric == Permutations(Workers) \cup Permutations(Users) \cup Permutations(Numbers)
               \cup Permutations(Tasks)
=============================================================================
