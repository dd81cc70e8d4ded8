------------------------------ MODULE MCMemory ------------------------------
(* Small instances of Memory for TLC.                                      *)
EXTENDS Memory

CONSTANTS main, web, c1, c2

OneParent == [c \in Children |-> main]
NoParent  == [c \in {} |-> main]
=============================================================================
