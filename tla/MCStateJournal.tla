--------------------------- MODULE MCStateJournal ---------------------------
(* Instances of StateJournal: two requests and a thread without a journal   *)
(* on one key.  Each actor has a text of its own; the requests also write   *)
(* the same number.                                                         *)
EXTENDS StateJournal, TLC

CONSTANTS r1, r2, t1, t2, t3

OwnTextsAndNumbers == (r1 :> {t1, 0}) @@ (r2 :> {t2, 0}) @@ (Outside :> {t3})

(* Three operations of r1 hold every mix of two forms and a return to the   *)
(* first.                                                                   *)
ThreeTwoTwo == (r1 :> 3) @@ (r2 :> 2) @@ (Outside :> 2)

==============================================================================
