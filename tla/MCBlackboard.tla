----------------------------- MODULE MCBlackboard -----------------------------
(* Bounded instances of Blackboard for TLC. *)
EXTENDS Blackboard, TLC

Symmetric == Permutations(Run) \cup Permutations(Val)
SymmetricKeys == Symmetric \cup Permutations(Key)
================================================================================
