--------------------------- MODULE MCNatsPublisher ---------------------------
(* Model-checking instance of NatsPublisher. *)
EXTENDS NatsPublisher

CONSTANTS relay, handler, t1, t2
=============================================================================
