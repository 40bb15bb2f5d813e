----------------------------- MODULE ReceiveBuffer -----------------------------
(***************************************************************************)
(* The receive buffer of a Connector (connector.rs): a Vec<u8> that is     *)
(* kept from frame to frame.  It is reserved and zeroed once, grown        *)
(* without zeroing while a large body arrives, written through raw         *)
(* pointers by read_some() and by the pipelined receipt, handed over to    *)
(* lossless values, released when oversized, and dropped with the          *)
(* connection.                                                             *)
(*                                                                         *)
(* Bytes are counted, not stored: `capacity` bytes are allocated, the      *)
(* first `init` of them are initialized memory, `len` is the Vec's length. *)
(* The bytes of a body arrive in order, so each of these is a prefix.      *)
(***************************************************************************)
EXTENDS Naturals

CONSTANTS
    Initial,       \* INITIAL_BODY_RESERVATION
    Factor,        \* BODY_RESERVATION_FACTOR
    MaxRetained,   \* MAX_RETAINED_BUFFER_BYTES
    PipelineMin,   \* PIPELINE_MIN_BODY_BYTES
    Prefixes,      \* lengths of the decompressed-length prefix: {4, 8}
    MaxBody        \* bound on the declared body length

ASSUME BufferAssumption ==
    /\ Initial \in Nat \ {0} /\ Factor \in Nat \ {0, 1}
    /\ MaxRetained \in Nat /\ PipelineMin \in Nat \ {0}
    /\ Prefixes \subseteq Nat \ {0} /\ MaxBody \in Nat

VARIABLES
    phase,      \* "idle", "reserve", "first", "body", "pipeline", "whole"
    capacity, init, len,
    body,       \* body_length of the frame being received
    prefix,     \* prefix_length: 0 when it is not compressed
    lossless    \* settings.value_mode of the connection

vars == <<phase, capacity, init, len, body, prefix, lossless>>

Smaller(a, b) == IF a <= b THEN a ELSE b
Larger(a, b) == IF a >= b THEN a ELSE b

Init ==
    /\ phase = "idle"
    /\ capacity = 0 /\ init = 0 /\ len = 0
    /\ body = 0 /\ prefix = 0
    /\ lossless \in BOOLEAN

\* Vec::new() in the buffer's place.
NewBuffer == capacity' = 0 /\ init' = 0 /\ len' = 0

(***************************************************************************)
(* read_ipc_body().                                                        *)
(***************************************************************************)
\* The header, and the prefix of a compressed body, have been accepted.
FrameBegins(b, p) ==
    /\ phase = "idle"
    /\ p <= b
    /\ body' = b
    /\ prefix' = p
    /\ phase' = "reserve"
    /\ UNCHANGED <<capacity, init, len, lossless>>

Wanted == Larger(Smaller(body, Initial), prefix)

\* reserve_buffer() of the cleared buffer zeroes what it allocates; then the
\* prefix is copied into the buffer.
Reserve ==
    /\ phase = "reserve"
    /\ capacity' = Larger(capacity, Wanted)
    /\ init' = IF capacity >= Wanted THEN init ELSE Wanted
    /\ len' = prefix
    /\ phase' = IF ~lossless /\ prefix = 0 /\ body >= PipelineMin /\ capacity' >= body
                THEN "first" ELSE "body"
    /\ UNCHANGED <<body, prefix, lossless>>

\* read_some(): one read into the spare capacity through a raw pointer.  A
\* table whose body is not complete yet is received by the pipeline.
ReadSome(n, table) ==
    /\ phase = "first"
    /\ n <= body - len
    /\ len' = len + n
    /\ phase' = IF table /\ len + n < body THEN "pipeline" ELSE "body"
    /\ UNCHANGED <<capacity, init, body, prefix, lossless>>

\* receive_table() has filled the capacity up to the body's length; the
\* Vec's own length stays where read_some() left it.
PipelineDone ==
    /\ phase = "pipeline"
    /\ phase' = "whole"
    /\ UNCHANGED <<capacity, init, len, body, prefix, lossless>>

\* Mutant: the whole declared body is reserved at once.
GrowAtOnce ==
    /\ phase = "body"
    /\ len < body
    /\ len = capacity
    /\ capacity' = body
    /\ UNCHANGED <<phase, init, len, body, prefix, lossless>>

\* read_message_body(): a full buffer is grown, and not zeroed.
Grow ==
    /\ phase = "body"
    /\ len < body
    /\ len = capacity
    /\ capacity' = Smaller(body, Factor * capacity)
    /\ UNCHANGED <<phase, init, len, body, prefix, lossless>>

\* Mutant: a read is bounded by what is owed and not by the spare capacity.
ReadOver(n) ==
    /\ phase = "body"
    /\ n <= body - len
    /\ len' = len + n
    /\ init' = Larger(init, len + n)
    /\ UNCHANGED <<phase, capacity, body, prefix, lossless>>

\* read_message_body(): bytes arrive, at most what is owed and what there is
\* room for.
Read(n) ==
    /\ phase = "body"
    /\ n <= Smaller(capacity, body) - len
    /\ len' = len + n
    /\ init' = Larger(init, len + n)
    /\ UNCHANGED <<phase, capacity, body, prefix, lossless>>

BodyDone ==
    /\ phase = "body"
    /\ len = body
    /\ phase' = "whole"
    /\ UNCHANGED <<capacity, init, len, body, prefix, lossless>>

(***************************************************************************)
(* The rest of the connector.                                              *)
(***************************************************************************)
\* Mutant: the buffer is never released.
ReleaseNothing == UNCHANGED <<capacity, init, len>>

\* release_oversized_buffer().
ReleaseOversized ==
    IF capacity > MaxRetained THEN NewBuffer ELSE UNCHANGED <<capacity, init, len>>

\* decode_frame_body(): a lossless value keeps the buffer, any other decoding
\* borrows it.
Decode ==
    /\ phase = "whole"
    /\ IF lossless /\ prefix = 0 THEN NewBuffer ELSE ReleaseOversized
    /\ phase' = "idle"
    /\ body' = 0 /\ prefix' = 0
    /\ UNCHANGED lossless

\* Mutant: the buffer outlives the connection it failed on.
DisconnectKeeping ==
    /\ phase # "idle"
    /\ phase' = "idle"
    /\ len' = 0 /\ body' = 0 /\ prefix' = 0
    /\ UNCHANGED <<capacity, init, lossless>>

\* A failed allocation, a read error, a malformed compressed body or an
\* abort, at any point: disconnect_after_protocol_error().
Disconnect ==
    /\ phase # "idle"
    /\ NewBuffer
    /\ phase' = "idle"
    /\ body' = 0 /\ prefix' = 0
    /\ UNCHANGED lossless

\* shutdown() and configure() between two connections keep the buffer and
\* may change the value mode.
Reconfigure(l) ==
    /\ phase = "idle"
    /\ lossless' = l
    /\ UNCHANGED <<phase, capacity, init, len, body, prefix>>

Next ==
    \/ \E b \in 2..MaxBody, p \in Prefixes \cup {0} : FrameBegins(b, p)
    \/ Reserve
    \/ \E n \in 1..MaxBody : (\E t \in BOOLEAN : ReadSome(n, t)) \/ Read(n)
    \/ PipelineDone \/ Grow \/ BodyDone \/ Decode \/ Disconnect
    \/ \E l \in BOOLEAN : Reconfigure(l)

Spec == Init /\ [][Next]_vars

(***************************************************************************)
(* Properties.                                                             *)
(***************************************************************************)
\* The Vec's length and its initialized prefix never exceed its capacity,
\* although bytes are written past the length and the length set afterwards.
TypeOK ==
    /\ phase \in {"idle", "reserve", "first", "body", "pipeline", "whole"}
    /\ capacity \in Nat
    /\ init \in 0..capacity /\ len \in 0..capacity
    /\ body \in 0..MaxBody /\ prefix \in Prefixes \cup {0}
    /\ lossless \in BOOLEAN

\* The raw-pointer reads and writes of read_some() and of the pipeline stay
\* within initialized memory, whatever frames, growths, failures and
\* reconnections the buffer has been through.
RawAccessInitialized ==
    phase \in {"first", "pipeline"} => body <= init

\* A declared length alone never turns into an allocation: beyond the first
\* reservation the buffer grows only in proportion to what the peer has
\* delivered.
GrowthFollowsDelivery ==
    [][capacity' > capacity =>
          capacity' <= Larger(Initial, prefix) \/ capacity' <= Factor * len]_vars

\* One oversized frame does not pin its memory to the connection.
IdleBufferBounded == phase = "idle" => capacity <= MaxRetained
=============================================================================
