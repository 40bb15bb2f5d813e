------------------------------ MODULE MCPyClient ------------------------------
(* Model-checking instances of PyClient. *)
EXTENDS PyClient

\* cancel() without timeouts, disconnect() with them.
MCClients ==
    {[calls |-> {"sync", "property", "cancel"}, timeouts |-> FALSE],
     [calls |-> {"connect", "receive", "property", "disconnect"}, timeouts |-> TRUE]}

MCLaterClients == {[calls |-> {"connect", "sync", "cancel"}, timeouts |-> TRUE]}
=============================================================================
