--------------------------- MODULE MCActionChannel ---------------------------
(* Model-checking instance of ActionChannel. *)
EXTENDS ActionChannel

CONSTANTS c1, c2
=============================================================================
