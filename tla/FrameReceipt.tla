----------------------------- MODULE FrameReceipt -----------------------------
(***************************************************************************)
(* What receiving a table frame promises, whether its decoding overlaps    *)
(* with its receipt (pipeline.rs) or follows it (read_message_body and     *)
(* decode_value_body in connector.rs): the body's bytes arrive in order,   *)
(* and the result is either an I/O error, or what decoding the complete    *)
(* body gives.                                                             *)
(***************************************************************************)
EXTENDS Naturals

CONSTANTS Total,     \* the declared body length
          Prefix     \* bytes of the body that are there to begin with

VARIABLES received,  \* bytes in place
          good,      \* whether the body is the encoding of a table
          result     \* "none", "io", "table" or "malformed"

Init ==
    /\ received = Prefix
    /\ good \in BOOLEAN
    /\ result = "none"

Arrive ==
    /\ result = "none"
    /\ received' \in (received + 1)..Total
    /\ UNCHANGED <<good, result>>

ReceiptFails ==
    /\ result = "none"
    /\ received < Total
    /\ result' = "io"
    /\ UNCHANGED <<received, good>>

Decode ==
    /\ result = "none"
    /\ received = Total
    /\ result' = IF good THEN "table" ELSE "malformed"
    /\ UNCHANGED <<received, good>>

Next == Arrive \/ ReceiptFails \/ Decode

Spec == Init /\ [][Next]_<<received, good, result>>
=============================================================================
