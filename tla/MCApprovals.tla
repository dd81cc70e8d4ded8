------------------------------ MODULE MCApprovals ------------------------------
(* A handoff: two processes of one program share the file, where another   *)
(* version of it has left the second approval.                             *)
EXTENDS Approvals, TLC
CONSTANTS p1, p2, r1, r2
MCNames == p1 :> {r1} @@ p2 :> {r1}
================================================================================
