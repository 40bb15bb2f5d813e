------------------------------ MODULE Compression ------------------------------
(***************************************************************************)
(* The q IPC compression of crates/xqdb/src/serde6.rs: compress() of an    *)
(* outgoing frame and decompress() of a received one, with the structural  *)
(* bounds of connector.rs that a compressed frame must meet beforehand.    *)
(*                                                                         *)
(* A byte has Bits bits (8 in the code), and everything that follows from  *)
(* that width is derived from it: a group is one flag byte and Bits units, *)
(* a unit is a literal or a reference of two bytes, a reference copies 2   *)
(* bytes and at most 2^Bits - 1 more, and the dictionary has an entry for  *)
(* every exclusive or of two bytes.  The header's and the length prefix's  *)
(* contents are left out, their lengths are kept: positions in the plain   *)
(* frame are counted from its header on, as in the code, where 0 therefore *)
(* means "no entry".                                                       *)
(***************************************************************************)
EXTENDS Integers, Sequences

CONSTANTS
    Bits,              \* bits of a byte: 8 in the code
    Hash(_, _),         \* exclusive or of two bytes
    Header,            \* IPC_HEADER_LENGTH: 8 in the code
    Prefix,            \* length of the decompressed-length prefix: 4 or 8
    MinLength,         \* frames shorter than this are not compressed: 2000
    MaxRatio,          \* MAX_IPC_DECOMPRESSION_RATIO: 121
    Bodies,            \* value bodies to compress
    Payloads, Lengths  \* compressed bytes and declared body lengths to decompress

\* The powers of two up to 2^Bits, by recursion.
TwoTo[k \in 0..Bits] == IF k = 0 THEN 1 ELSE 2 * TwoTo[k - 1]

Byte == 0..(TwoTo[Bits] - 1)

\* The longest run's bytes beyond its first pair.
MaxExtra == TwoTo[Bits] - 1

ASSUME WidthAssumption == Bits \in Nat \ {0}
ASSUME LayoutAssumption ==
    /\ Header \in Nat \ {0} /\ Prefix \in Nat /\ MinLength \in Nat /\ MaxRatio \in Nat
    /\ MinLength \div 2 >= Header + Prefix + 2 * Bits + 1
\* A group of runs, all as long as they get, decompresses to at most MaxRatio
\* times its bytes: 8 * 257 <= 121 * 17 in the code.
ASSUME RatioAssumption == Bits * (MaxExtra + 2) <= MaxRatio * (2 * Bits + 1)
ASSUME HashAssumption ==
    /\ \A a, b \in Byte : Hash(a, b) \in Byte
    /\ \A a, b, c \in Byte : Hash(a, b) = Hash(a, c) => b = c
ASSUME InputAssumption ==
    /\ Bodies \subseteq Seq(Byte) \ {<<>>}
    /\ Payloads \subseteq Seq(Byte) /\ Lengths \subseteq Nat \ {0}

VARIABLES
    phase,     \* "encode", "kept" (sent uncompressed), "decode", "ok", "error"
    body,      \* compress(): the value body of the frame
    c,         \* the bytes of c_vec from the end of the prefix on
    o_pos,     \* position in the plain frame
    n_pos, n,  \* index in c of the group's flag byte, and its value so far
    i,         \* the unit's bit in the flag byte, 0 at the start of a group
    x,         \* the dictionary: a position in the plain frame, or 0
    px, p_pos, \* the last literal's pair, not entered yet
    vec,       \* decompress(): the compressed bytes after the prefix
    used,      \* bytes of them taken
    de_vec,    \* the destination, zeroed
    out,       \* output_position
    dict,      \* the dictionary: a position in the destination
    hashed,    \* hash_position
    flags, mask

encoder == <<body, c, o_pos, n_pos, n, i, x, px, p_pos>>
decoder == <<vec, used, de_vec, out, dict, hashed, flags, mask>>
vars == <<phase, encoder, decoder>>

INVALID_OFFSET == -1

FrameLength == Header + Len(body)
At(p) == body[p - Header + 1]
Scratch == FrameLength \div 2
c_pos == Header + Prefix + Len(c)

\* What decompress() starts with.
DecoderInit(bytes, length) ==
    /\ vec = bytes /\ used = 0
    /\ de_vec = [p \in 1..length |-> 0] /\ out = 0
    /\ dict = [h \in Byte |-> INVALID_OFFSET] /\ hashed = 0
    /\ flags = 0 /\ mask = 0

EncoderInit(b) ==
    /\ body = b /\ c = <<>> /\ o_pos = Header
    /\ n_pos = 1 /\ n = 0 /\ i = 0
    /\ x = [h \in Byte |-> 0] /\ px = 0 /\ p_pos = 0

\* compress() a body, then decompress() the result.
RoundTripInit ==
    /\ phase = "encode"
    /\ \E b \in Bodies : EncoderInit(b)
    /\ DecoderInit(<<>>, 0)

\* decompress() of whatever a peer sends.
DecodeInit ==
    /\ phase = "decode"
    /\ EncoderInit(<<>>)
    /\ \E bytes \in Payloads, length \in Lengths : DecoderInit(bytes, length)

(***************************************************************************)
(* compress().                                                             *)
(***************************************************************************)
\* Mutant: one byte of room too little.
RoomLate == c_pos <= Scratch - 2 * Bits

\* A whole group fits: its flag byte and two bytes for each unit.
Room == c_pos <= Scratch - (2 * Bits + 1)

\* Writes the finished flag byte in its place.
Flagged == IF c = <<>> THEN c ELSE [c EXCEPT ![n_pos] = n]

\* A short frame, or one that does not shrink to half, is sent as it is.
KeepFrame ==
    /\ phase = "encode"
    /\ \/ FrameLength < MinLength
       \/ o_pos < FrameLength /\ i = 0 /\ ~Room
    /\ phase' = "kept"
    /\ UNCHANGED <<encoder, decoder>>

Encoding == phase = "encode" /\ FrameLength >= MinLength /\ o_pos < FrameLength

StartGroup ==
    /\ Encoding
    /\ i = 0
    /\ Room
    /\ i' = 1
    /\ c' = Append(Flagged, 0)
    /\ n_pos' = Len(c) + 1
    /\ n' = 0
    /\ UNCHANGED <<phase, body, o_pos, x, px, p_pos, decoder>>

AtTail == FrameLength - o_pos < 3
cx == IF AtTail THEN 0 ELSE Hash(At(o_pos), At(o_pos + 1))
\* Equal first bytes and equal exclusive ors make equal pairs.
Known == ~AtTail /\ x[cx] # 0 /\ At(o_pos) = At(x[cx])

\* The dictionary with the last literal's pair.
Entered == IF p_pos > 0 THEN [x EXCEPT ![px] = p_pos] ELSE x

\* Mutant: a literal's pair is entered at once, before its second byte is
\* known to the decoder.
EncodeLiteralEagerly ==
    /\ Encoding
    /\ i # 0
    /\ ~Known
    /\ x' = [x EXCEPT ![cx] = o_pos]
    /\ px' = cx
    /\ p_pos' = 0
    /\ c' = Append(c, At(o_pos))
    /\ o_pos' = o_pos + 1
    /\ i' = (2 * i) % TwoTo[Bits]
    /\ UNCHANGED <<phase, body, n_pos, n, decoder>>

EncodeLiteral ==
    /\ Encoding
    /\ i # 0
    /\ ~Known
    /\ x' = Entered
    /\ px' = cx
    /\ p_pos' = o_pos
    /\ c' = Append(c, At(o_pos))
    /\ o_pos' = o_pos + 1
    /\ i' = (2 * i) % TwoTo[Bits]
    /\ UNCHANGED <<phase, body, n_pos, n, decoder>>

\* Bytes that match beyond the first pair.
Matches(e) ==
    /\ o_pos + 2 + e <= FrameLength
    /\ \A j \in 0..(e - 1) : At(x[cx] + 2 + j) = At(o_pos + 2 + j)

Extra == CHOOSE e \in 0..MaxExtra :
            Matches(e) /\ (e < MaxExtra => ~Matches(e + 1))

EncodeReference ==
    /\ Encoding
    /\ i # 0
    /\ Known
    /\ x' = [Entered EXCEPT ![cx] = o_pos]
    /\ p_pos' = 0
    /\ n' = n + i
    /\ c' = c \o <<cx, Extra>>
    /\ o_pos' = o_pos + 2 + Extra
    /\ i' = (2 * i) % TwoTo[Bits]
    /\ UNCHANGED <<phase, body, n_pos, px, decoder>>

\* The frame is complete and is what the other side decompresses.
EncodeDone ==
    /\ phase = "encode"
    /\ FrameLength >= MinLength
    /\ o_pos = FrameLength
    /\ phase' = "decode"
    /\ vec' = Flagged
    /\ de_vec' = [p \in 1..Len(body) |-> 0]
    /\ UNCHANGED <<encoder, used, out, dict, hashed, flags, mask>>

(***************************************************************************)
(* decompress().                                                           *)
(***************************************************************************)
Decoding == phase = "decode" /\ out < Len(de_vec)

Fail ==
    /\ phase' = "error"
    /\ UNCHANGED <<encoder, decoder>>

\* take_compressed_byte() fails: `k` more bytes are not there.
Exhausted(k) == used + k > Len(vec)

TakeFlags ==
    /\ Decoding
    /\ mask = 0
    /\ ~Exhausted(1)
    /\ flags' = vec[used + 1]
    /\ used' = used + 1
    /\ mask' = 1
    /\ UNCHANGED <<phase, encoder, vec, de_vec, out, dict, hashed>>

IsReference == (flags \div mask) % 2 = 1
UnitBytes == IF mask = 0 THEN 1 ELSE IF IsReference THEN 2 ELSE 1

\* The input ends before the unit does.
InputEnds ==
    /\ Decoding
    /\ Exhausted(UnitBytes)
    /\ Fail

\* The dictionary after the pairs at the positions from..to - 1 were entered
\* in this order.
Hashed(bytes, from, to) ==
    [h \in Byte |->
        LET at == {p \in from..(to - 1) : Hash(bytes[p + 1], bytes[p + 2]) = h}
        IN IF at = {} THEN dict[h] ELSE CHOOSE p \in at : \A q \in at : q <= p]

\* Mutant: the pair that starts at the literal is entered although its second
\* byte has not been decoded yet.
DecodeLiteralEagerly ==
    /\ Decoding
    /\ mask # 0 /\ ~IsReference
    /\ ~Exhausted(1)
    /\ de_vec' = [de_vec EXCEPT ![out + 1] = vec[used + 1]]
    /\ used' = used + 1
    /\ out' = out + 1
    /\ dict' = Hashed(de_vec', hashed, IF out + 1 < Len(de_vec) THEN out + 1 ELSE out)
    /\ hashed' = out
    /\ mask' = (2 * mask) % TwoTo[Bits]
    /\ UNCHANGED <<phase, encoder, vec, flags>>

DecodeLiteral ==
    /\ Decoding
    /\ mask # 0 /\ ~IsReference
    /\ ~Exhausted(1)
    /\ de_vec' = [de_vec EXCEPT ![out + 1] = vec[used + 1]]
    /\ used' = used + 1
    /\ out' = out + 1
    /\ dict' = Hashed(de_vec', hashed, out)
    /\ hashed' = out
    /\ mask' = (2 * mask) % TwoTo[Bits]
    /\ UNCHANGED <<phase, encoder, vec, flags>>

source == dict[vec[used + 1]]
RunLength == vec[used + 2] + 2

\* The destination after the run was copied byte by byte: a run that overlaps
\* its source repeats the bytes in between.
Copied ==
    [p \in DOMAIN de_vec |->
        IF p \in (out + 1)..(out + RunLength)
        THEN de_vec[source + 1 + ((p - out - 1) % (out - source))]
        ELSE de_vec[p]]

AtReference ==
    /\ Decoding
    /\ mask # 0 /\ IsReference
    /\ ~Exhausted(2)

\* A reference to nothing, to bytes not decoded yet, or beyond the end.
BadReference ==
    \/ source = INVALID_OFFSET
    \/ source + 2 > out
    \/ out + RunLength > Len(de_vec)

DecodeReference ==
    /\ AtReference
    /\ ~BadReference
    /\ de_vec' = Copied
    /\ used' = used + 2
    /\ out' = out + RunLength
    /\ dict' = Hashed(Copied, hashed, out + 1)
    /\ hashed' = out + RunLength
    /\ mask' = (2 * mask) % TwoTo[Bits]
    /\ UNCHANGED <<phase, encoder, vec, flags>>

RejectReference ==
    /\ AtReference
    /\ BadReference
    /\ Fail

\* The output is complete; the input must be, too.
DecodeDone ==
    /\ phase = "decode"
    /\ out = Len(de_vec)
    /\ phase' = IF used = Len(vec) THEN "ok" ELSE "error"
    /\ UNCHANGED <<encoder, decoder>>

(***************************************************************************)
(* The bounds a compressed frame is held to before it is decompressed.     *)
(***************************************************************************)
\* enforce_compressed_physical_bound(): no more input than literals need.
WithinPhysicalBound == Len(vec) <= Len(de_vec) + (Len(de_vec) + Bits - 1) \div Bits

\* Mutant: the ratio of a run without its first pair.
WithinExpansionBoundTight == Len(de_vec) <= Len(vec) * (MaxRatio - 1)

\* checked_decompressed_body_length(): no more output than runs can give.
WithinExpansionBound == Len(de_vec) <= Len(vec) * MaxRatio

(***************************************************************************)
(* The specification.                                                      *)
(***************************************************************************)
Encode == KeepFrame \/ StartGroup \/ EncodeLiteral \/ EncodeReference \/ EncodeDone

Decode ==
    \/ TakeFlags \/ InputEnds \/ DecodeLiteral \/ DecodeReference \/ RejectReference
    \/ DecodeDone

Next == Encode \/ Decode

Init == RoundTripInit \/ DecodeInit

Spec == Init /\ [][Next]_vars

(***************************************************************************)
(* Properties.                                                             *)
(***************************************************************************)
\* compress() writes c_vec[c_pos] without a check of its own: the room test at
\* the head of each group must cover everything the group can write.
ScratchSuffices == phase = "encode" /\ c # <<>> => c_pos <= Scratch

\* The two sides build their dictionaries in different ways and must agree
\* byte for byte: a compressed frame decompresses, and to the body it was
\* made from.
RoundTrip ==
    body # <<>> =>
        /\ phase # "error"
        /\ phase = "ok" => de_vec = body

\* decompress() reads only output it has written: every dictionary entry is a
\* pair of decoded bytes, whatever the peer sent, so that its own
\* "not fully initialized" error cannot occur.
DictionaryPointsBack ==
    \A h \in Byte : dict[h] # INVALID_OFFSET => dict[h] >= 0 /\ dict[h] + 2 <= out

\* The bounds that are enforced before a frame is decompressed, and before
\* memory is allocated for it, refuse no frame that decompresses.
BoundsAreNecessary == phase = "ok" => WithinPhysicalBound /\ WithinExpansionBound
=============================================================================
