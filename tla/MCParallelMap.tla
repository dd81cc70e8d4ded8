---------------------------- MODULE MCParallelMap ----------------------------
(* Instances of ParallelMap: a few items, fewer workers.                    *)
EXTENDS ParallelMap
==============================================================================
