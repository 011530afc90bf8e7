--------------------------- MODULE MCImageTagging ---------------------------
(* Model-checking instance of ImageTagging: two images without a message id, *)
(* whose paths differ by the second only, or not at all.                     *)
EXTENDS ImageTagging

CONSTANTS cat, dog, unknown

NamesGiven   == [i \in Images |-> unknown]
PicturesHere == [i \in Images |-> i]
PatternsFind == [i \in Images |-> Names]
=============================================================================
