--------------------------- MODULE MCReceiveBuffer ---------------------------
(* Model-checking instance of ReceiveBuffer. *)
EXTENDS ReceiveBuffer
=============================================================================
