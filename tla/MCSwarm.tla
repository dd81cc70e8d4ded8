------------------------------- MODULE MCSwarm -------------------------------
(* Swarm with interchangeable agents. *)
EXTENDS Swarm, TLC

Symmetric == Permutations(Agent)
==============================================================================
