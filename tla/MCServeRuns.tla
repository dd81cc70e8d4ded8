----------------------------- MODULE MCServeRuns -----------------------------
(* ServeRuns with two runs and two agents, which may belong to either run:  *)
(* the smallest instance in which an agent of one run launches another      *)
(* while the other run writes the same key.  It is not symmetric in the     *)
(* agents, which are registered in order.                                   *)
EXTENDS ServeRuns
==============================================================================
