--------------------------- MODULE MCTaggerWorker ---------------------------
(* Model-checking instance of TaggerWorker. *)
EXTENDS TaggerWorker

CONSTANTS task, junk
=============================================================================
