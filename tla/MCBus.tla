-------------------------------- MODULE MCBus --------------------------------
(* Instances of Bus: one or two publishers and subscriptions whose queues   *)
(* overflow by number and by bytes.                                         *)
EXTENDS Bus, TLC

Symmetric == Permutations(Publisher) \cup Permutations(Sub)
==============================================================================
