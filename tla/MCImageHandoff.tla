--------------------------- MODULE MCImageHandoff ---------------------------
(* Model-checking instance of ImageHandoff: two events with the same picture *)
(* in each, the first carrying another picture as well.                      *)
EXTENDS ImageHandoff

CONSTANTS e1, e2, cat, dog

TwoAndOne == [e \in {e1, e2} |-> IF e = e1 THEN 2 ELSE 1]
OneAndOne == [e \in {e1, e2} |-> 1]

CatTwice == [i \in Images |-> IF i = <<e1, 2>> THEN dog ELSE cat]
=============================================================================
