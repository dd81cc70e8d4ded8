------------------------------ MODULE MCServePool ------------------------------
(* Threads and submitters are interchangeable.                             *)
EXTENDS ServePool, TLC
================================================================================
