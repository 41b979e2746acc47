-------------------------- MODULE MCCheckThenInsert --------------------------
(* CheckThenInsert for TLC: every assignment of requests to the handlers. *)
EXTENDS CheckThenInsert, TLC
CONSTANTS twoSum, palindrome
MCDefaults == <<twoSum, palindrome>>
Symmetry == Permutations(Handlers)
=============================================================================
