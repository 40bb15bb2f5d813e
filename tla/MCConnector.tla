---------------------------- MODULE MCConnector ----------------------------
(* Model-checking instance of Connector. *)
EXTENDS Connector, TLC

Cancellers == Permutations(Canceller)
=============================================================================
