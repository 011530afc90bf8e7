---------------------------- MODULE MCTaggerQueue ----------------------------
(* Model-checking instance of TaggerQueue. *)
EXTENDS TaggerQueue

CONSTANTS p1, p2
=============================================================================
