--------------------------- MODULE CompressionProofs ---------------------------
(***************************************************************************)
(* Proofs about Compression, for every width of a byte, every body and     *)
(* every compressed input: compress() stays within its scratch buffer,     *)
(* decompress() reads only what it has written, the bounds a frame is held *)
(* to before it is decompressed refuse none that decompresses, and what    *)
(* compress() makes of a body decompresses to that body.                   *)
(***************************************************************************)
EXTENDS Compression, InductionLemmas

(***************************************************************************)
(* The inductive invariant.                                                *)
(***************************************************************************)
\* b is the bit of a flag byte when k units of the group are done.
UnitBit(b, k) == b = IF k = Bits THEN 0 ELSE TwoTo[k]

\* compress(): within a group of which k units are written, the flag byte has
\* no bits of other units, and there is room for the units to come.
EncoderInv ==
    /\ body \in Seq(Byte) /\ c \in Seq(Byte)
    /\ o_pos \in Header..FrameLength
    /\ n \in Byte
    /\ c = <<>> => i = 0
    /\ c # <<>> =>
         /\ n_pos \in 1..Len(c)
         /\ \E k \in 0..Bits :
              UnitBit(i, k) /\ n < TwoTo[k] /\ c_pos + 2 * (Bits - k) <= Scratch

\* decompress(): types, and that what is hashed has been decoded.
DecoderInv ==
    /\ vec \in Seq(Byte) /\ used \in 0..Len(vec)
    /\ de_vec \in Seq(Byte) /\ out \in 0..Len(de_vec)
    /\ dict \in [Byte -> Int]
    /\ hashed \in 0..out

\* Before the decoder starts, nothing has happened to its state.
IdleInv ==
    phase \in {"encode", "kept"} =>
        /\ used = 0 /\ out = 0 /\ hashed = 0 /\ flags = 0 /\ mask = 0
        /\ dict = [h \in Byte |-> INVALID_OFFSET]
        /\ body # <<>>

\* What a run adds over twice the ratio, if it does.
Excess == IF MaxExtra + 2 > 2 * MaxRatio THEN MaxExtra + 2 - 2 * MaxRatio ELSE 0

\* The bytes taken and given when f flag bytes were taken and k units of the
\* group are done: a unit gives at least as much as it takes, and a group at
\* most MaxRatio times what it takes with its flag byte.
Progress(f, k) ==
    /\ UnitBit(mask, k)
    /\ used <= f + out
    /\ f * Bits + k <= out + Bits
    /\ k = 0 => out < Len(de_vec)
    /\ k = Bits => out <= MaxRatio * used
    /\ k < Bits => out + MaxRatio <= MaxRatio * used + k * Excess

ProgressInv ==
    phase \in {"decode", "ok"} =>
        /\ Len(de_vec) > 0
        /\ \E f \in 0..used, k \in 0..Bits : Progress(f, k)
        /\ phase = "ok" => used = Len(vec) /\ out = Len(de_vec)

IInv == EncoderInv /\ DecoderInv /\ IdleInv /\ DictionaryPointsBack /\ ProgressInv

(***************************************************************************)
(* The round trip: the inductive invariant.                                *)
(***************************************************************************)
\* The pair of the last literal, which starts one position back, is the one
\* compress() holds in px, unless the frame ends there.
PairInv ==
    /\ px \in Byte /\ p_pos \in Nat
    /\ p_pos # 0 => /\ p_pos = o_pos - 1 /\ p_pos >= Header
                    /\ FrameLength - p_pos >= 3 => px = Hash(At(p_pos), At(p_pos + 1))

\* An entry of the dictionary is a pair of the frame before o_pos, and as long
\* as there are references to come it is entered under its own hash.
EntryInv ==
    /\ x \in [Byte -> Nat]
    /\ \A h \in Byte : x[h] # 0 =>
         /\ Header <= x[h] /\ x[h] + 2 <= o_pos
         /\ ~AtTail => Hash(At(x[h]), At(x[h] + 1)) = h

\* A moment of decompress() between two units: bytes taken and given, the
\* dictionary and hash_position, where the flag byte was and which unit is
\* next.
Moment == [u : Nat, o : Nat, d : [Byte -> Int], h : Nat, g : Nat, k : 0..Bits]

First == [u |-> 0, o |-> 0, d |-> [b \in Byte |-> INVALID_OFFSET], h |-> 0, g |-> 0, k |-> Bits]

\* The flag of unit k in the flag byte f.
Flag(f, k) == (f \div TwoTo[k]) % 2

\* A dictionary d after the pairs of `plain` at from..to - 1 were entered.
Entries(plain, d, from, to) ==
    [b \in Byte |->
        LET at == {p \in from..(to - 1) : Hash(plain[p + 1], plain[p + 2]) = b}
        IN IF at = {} THEN d[b] ELSE CHOOSE p \in at : \A q \in at : q <= p]

\* From s to t the decoder of F takes a flag byte, a literal, or a reference
\* to bytes of the plain body that are those of the run.
ReadsFlags(s, t) ==
    /\ s.k = Bits
    /\ t.u = s.u + 1 /\ t.o = s.o /\ t.d = s.d /\ t.h = s.h /\ t.g = s.u + 1 /\ t.k = 0

ReadsLiteral(plain, F, s, t) ==
    /\ s.k # Bits /\ Flag(F[s.g], s.k) = 0
    /\ F[s.u + 1] = plain[s.o + 1]
    /\ t.u = s.u + 1 /\ t.o = s.o + 1 /\ t.h = s.o /\ t.g = s.g /\ t.k = s.k + 1
    /\ t.d = Entries(plain, s.d, s.h, s.o)

SameRun(plain, a, o, length) == \A j \in 0..(length - 1) : plain[o + 1 + j] = plain[a + 1 + j]

ReadsRun(plain, F, s, t) ==
    /\ s.k # Bits /\ Flag(F[s.g], s.k) = 1
    /\ s.d[F[s.u + 1]] >= 0 /\ s.d[F[s.u + 1]] + 2 <= s.o
    /\ SameRun(plain, s.d[F[s.u + 1]], s.o, F[s.u + 2] + 2)
    /\ t.u = s.u + 2 /\ t.o = s.o + F[s.u + 2] + 2 /\ t.h = t.o /\ t.g = s.g /\ t.k = s.k + 1
    /\ t.d = Entries(plain, s.d, s.h, s.o + 1)

Reads(plain, F, s, t) ==
    /\ s.o < Len(plain)
    /\ ReadsFlags(s, t) \/ ReadsLiteral(plain, F, s, t) \/ ReadsRun(plain, F, s, t)

\* Where a moment is in F.
Placed(plain, F, s) ==
    /\ s.u <= Len(F) /\ s.o <= Len(plain) /\ s.g <= s.u
    /\ s.k # Bits => s.g >= 1

\* The moments R lead from the first one to `last`.
Replays(plain, F, R, last) ==
    /\ First \in R /\ last \in R
    /\ \A s \in R : Placed(plain, F, s)
    /\ \A s \in R : s = last \/ \E t \in R : Reads(plain, F, s, t)

\* The moments before the group compress() is in are over when it starts.
Behind(R, last) ==
    \A s \in R :
        /\ s.g <= n_pos
        /\ s.g < n_pos => s.u < n_pos
        /\ s.g = n_pos => s.k <= last.k

\* compress() is where the decoder of its output would be at s.
InStep(s) ==
    /\ s.u = Len(c) /\ s.o = o_pos - Header
    /\ UnitBit(i, s.k)
    /\ c # <<>> => s.g = n_pos /\ n < TwoTo[s.k]
    /\ s.h = IF p_pos = 0 THEN s.o ELSE s.o - 1
    /\ ~AtTail => \A b \in Byte :
                     s.d[b] = IF x[b] = 0 THEN INVALID_OFFSET ELSE x[b] - Header

Written ==
    \E R \in SUBSET Moment : \E last \in R :
        Replays(body, Flagged, R, last) /\ Behind(R, last) /\ InStep(last)

\* decompress() is at the moment s.
AtMoment(s) ==
    /\ used = s.u /\ out = s.o /\ dict = s.d /\ hashed = s.h
    /\ UnitBit(mask, s.k)
    /\ s.k # Bits => flags = vec[s.g]

Reading ==
    /\ Len(de_vec) = Len(body)
    /\ \A p \in 1..out : de_vec[p] = body[p]
    /\ \E R \in SUBSET Moment : \E last \in R :
         /\ Replays(body, vec, R, last) /\ last.u = Len(vec) /\ last.o = Len(body)
         /\ \E s \in R : AtMoment(s)

TripInv ==
    body # <<>> =>
        /\ phase # "error"
        /\ phase = "encode" => PairInv /\ EntryInv /\ Written
        /\ phase \in {"decode", "ok"} => Reading

(***************************************************************************)
(* Arithmetic.                                                             *)
(***************************************************************************)
\* A power of two is twice the one before.
LEMMA Powers ==
    /\ TwoTo \in [0..Bits -> Nat]
    /\ TwoTo[0] = 1
    /\ \A k \in 1..Bits : TwoTo[k] = 2 * TwoTo[k - 1]
<1> USE WidthAssumption
<1> DEFINE step == [k \in 1..Bits |-> [v \in Nat |-> 2 * v]]
           Body(s) == [k \in 0..Bits |-> IF k = 0 THEN 1 ELSE 2 * s[k - 1]]
<1>1. step \in [1..Bits -> [Nat -> Nat]]
  OBVIOUS
<1>2. PICK g \in [0..Bits -> Nat] : g[0] = 1 /\ \A k \in 1..Bits : g[k] = step[k][g[k - 1]]
  <2> HIDE DEF step
  <2> DEFINE V == Nat
             a == 1
  <2>1. step \in Step(Bits, V) /\ a \in V
    BY <1>1 DEF Step
  <2> HIDE DEF V, a
  <2>2. \E g : Iterated(Bits, V, a, step, g)
    BY <2>1, PrimitiveRecursion
  <2>3. QED
    BY <2>2 DEF V, a, Iterated
<1>3. ASSUME NEW k \in 1..Bits PROVE g[k] = 2 * g[k - 1]
  <2>1. g[k - 1] \in Nat
    OBVIOUS
  <2>2. \A v \in Nat : step[k][v] = 2 * v
    OBVIOUS
  <2> HIDE DEF step
  <2>3. QED
    BY <1>2, <2>1, <2>2
<1>4. g = Body(g)
  BY <1>2, <1>3
<1>5. TwoTo = Body(TwoTo)
  <2>1. TwoTo = CHOOSE s : s = Body(s)
    BY DEF TwoTo
  <2> HIDE DEF Body
  <2>2. QED
    BY <1>4, <2>1
<1>6. ASSUME NEW k \in 0..Bits PROVE TwoTo[k] = g[k]
  <2> DEFINE S == {m \in Nat : m <= Bits => TwoTo[m] = g[m]}
  <2>1. 0 \in S
    BY <1>2, <1>5
  <2>2. ASSUME NEW m \in Nat, m \in S PROVE m + 1 \in S
    <3> SUFFICES ASSUME m + 1 <= Bits PROVE TwoTo[m + 1] = g[m + 1]
      OBVIOUS
    <3>1. m + 1 \in 1..Bits /\ TwoTo[m] = g[m] /\ (m + 1) - 1 = m
      BY <2>2
    <3>2. TwoTo[m + 1] = 2 * TwoTo[m]
      BY <1>5, <3>1
    <3>3. QED
      BY <1>3, <3>1, <3>2
  <2>3. \A m \in Nat : m \in S
    <3> HIDE DEF S
    <3>1. QED
      BY <2>1, <2>2, SetInduction
  <2>4. QED
    BY <2>3
<1>7. TwoTo = [k \in 0..Bits |-> TwoTo[k]]
  BY <1>5
<1>8. \A k \in 0..Bits : TwoTo[k] \in Nat
  BY <1>6
<1>9. TwoTo \in [0..Bits -> Nat]
  BY <1>7, <1>8
<1>10. ASSUME NEW k \in 1..Bits PROVE TwoTo[k] = 2 * TwoTo[k - 1]
  BY <1>3, <1>6
<1>11. TwoTo[0] = 1
  BY <1>2, <1>6
<1>12. QED
  BY <1>9, <1>10, <1>11

\* The powers of two grow.
LEMMA Growing ==
    /\ \A k \in 0..Bits : TwoTo[k] \in Nat /\ TwoTo[k] >= 1
    /\ \A k \in 0..Bits : \A j \in 0..k : TwoTo[j] <= TwoTo[k]
<1> USE WidthAssumption
<1> DEFINE S == {m \in Nat : m <= Bits => /\ TwoTo[m] \in Nat /\ TwoTo[m] >= 1
                                         /\ \A j \in 0..m : TwoTo[j] <= TwoTo[m]}
<1>1. 0 \in S
  BY Powers
<1>2. ASSUME NEW m \in Nat, m \in S PROVE m + 1 \in S
  <2> SUFFICES ASSUME m + 1 <= Bits
               PROVE  /\ TwoTo[m + 1] \in Nat /\ TwoTo[m + 1] >= 1
                      /\ \A j \in 0..(m + 1) : TwoTo[j] <= TwoTo[m + 1]
    OBVIOUS
  <2>1. m + 1 \in 1..Bits /\ (m + 1) - 1 = m
    OBVIOUS
  <2>2. TwoTo[m + 1] = 2 * TwoTo[m]
    BY <2>1, Powers
  <2>3. TwoTo[m] \in Nat /\ TwoTo[m] >= 1 /\ \A j \in 0..m : TwoTo[j] <= TwoTo[m]
    BY <1>2
  <2>4. \A j \in 0..m : TwoTo[j] \in Nat
    BY Powers
  <2>5. QED
    BY <2>2, <2>3, <2>4
<1>3. \A m \in Nat : m \in S
  <2> HIDE DEF S
  <2>1. QED
    BY <1>1, <1>2, SetInduction
<1>4. QED
  BY <1>3

\* A byte has at least two values.
LEMMA ByteValues == TwoTo[Bits] \in Nat /\ TwoTo[Bits] >= 2 /\ 0 \in Byte
<1>1. Bits \in 1..Bits /\ Bits - 1 \in 0..Bits
  BY WidthAssumption
<1>2. TwoTo[Bits] = 2 * TwoTo[Bits - 1] /\ TwoTo[Bits - 1] \in Nat /\ TwoTo[Bits - 1] >= 1
  BY <1>1, Powers, Growing
<1>3. QED
  BY <1>2 DEF Byte

\* The bit of the unit after k others, which wraps to 0 behind the last.
LEMMA NextBit ==
    ASSUME NEW b, NEW k \in 0..Bits, UnitBit(b, k)
    PROVE  /\ b = 0 <=> k = Bits
           /\ b # 0 => /\ k + 1 \in 1..Bits
                       /\ UnitBit((2 * b) % TwoTo[Bits], k + 1)
                       /\ b = TwoTo[k] /\ TwoTo[k + 1] = 2 * TwoTo[k]
<1> USE WidthAssumption
<1>1. TwoTo[k] \in Nat /\ TwoTo[k] >= 1
  BY Growing
<1>2. b = 0 <=> k = Bits
  BY <1>1 DEF UnitBit
<1>3. ASSUME b # 0
      PROVE  /\ k + 1 \in 1..Bits /\ b = TwoTo[k] /\ TwoTo[k + 1] = 2 * TwoTo[k]
             /\ UnitBit((2 * b) % TwoTo[Bits], k + 1)
  <2>1. k + 1 \in 1..Bits /\ b = TwoTo[k] /\ (k + 1) - 1 = k
    BY <1>2, <1>3 DEF UnitBit
  <2>2. TwoTo[k + 1] = 2 * TwoTo[k]
    BY <2>1, Powers
  <2>3. CASE k + 1 = Bits
    <3>1. TwoTo[Bits] % TwoTo[Bits] = 0
      BY ByteValues
    <3>2. QED
      BY <2>1, <2>2, <2>3, <3>1 DEF UnitBit
  <2>4. CASE k + 1 < Bits
    <3>1. k + 2 \in 1..Bits /\ (k + 2) - 1 = k + 1 /\ k + 2 \in 0..Bits /\ k + 1 \in 0..Bits
      BY <2>4
    <3>2. TwoTo[k + 2] = 2 * TwoTo[k + 1] /\ TwoTo[k + 1] >= 1 /\ TwoTo[k + 1] \in Nat
      BY <3>1, Powers, Growing
    <3>3. TwoTo[k + 2] <= TwoTo[Bits]
      <4>1. Bits \in 0..Bits /\ k + 2 \in 0..Bits
        BY <3>1
      <4>2. QED
        BY <4>1, Growing
    <3>4. TwoTo[k + 1] < TwoTo[Bits]
      BY <3>2, <3>3, ByteValues
    <3>5. TwoTo[k + 1] % TwoTo[Bits] = TwoTo[k + 1]
      BY <3>2, <3>4, ByteValues
    <3>6. QED
      BY <2>1, <2>2, <2>4, <3>5 DEF UnitBit
  <2>5. QED
    BY <2>1, <2>2, <2>3, <2>4
<1>4. QED
  BY <1>2, <1>3

\* A number that is a multiple's bound is the quotient's.
LEMMA Quotient ==
    ASSUME NEW f \in Nat, NEW a \in Nat, NEW b \in Nat, b > 0, f * b <= a
    PROVE  f <= a \div b
<1>1. PICK q \in Nat : q = a \div b
  OBVIOUS
<1>2. a < (q + 1) * b
  BY <1>1
<1>3. ASSUME f >= q + 1 PROVE FALSE
  <2>1. f * b >= (q + 1) * b
    BY <1>3
  <2>2. QED
    BY <1>2, <2>1
<1>4. QED
  BY <1>1, <1>3

\* The excess of a whole group is no more than the ratio gives its flag byte.
LEMMA ExcessBound ==
    /\ Excess \in Nat /\ Bits * Excess <= MaxRatio
    /\ MaxExtra + 2 <= 2 * MaxRatio + Excess
    /\ MaxRatio >= 1
<1> USE WidthAssumption, LayoutAssumption, RatioAssumption, ByteValues
<1>1. MaxExtra \in Nat /\ MaxExtra >= 1
  BY DEF MaxExtra
<1>2. Excess \in Nat /\ MaxExtra + 2 <= 2 * MaxRatio + Excess
  BY <1>1 DEF Excess
<1>3. MaxRatio >= 1
  <2>1. Bits * (MaxExtra + 2) > 0
    BY <1>1
  <2>2. ASSUME MaxRatio = 0 PROVE FALSE
    <3>1. MaxRatio * (2 * Bits + 1) = 0
      BY <2>2
    <3>2. Bits * (MaxExtra + 2) <= 0
      BY <3>1
    <3>3. Bits * (MaxExtra + 2) \in Int
      BY <1>1
    <3>4. QED
      BY <2>1, <3>2, <3>3
  <2>3. QED
    BY <2>2
<1>4. Bits * Excess <= MaxRatio
  <2>1. CASE MaxExtra + 2 > 2 * MaxRatio
    <3>1. Bits * (MaxExtra + 2 - 2 * MaxRatio) = Bits * (MaxExtra + 2) - 2 * Bits * MaxRatio
      BY <1>1
    <3>2. MaxRatio * (2 * Bits + 1) = 2 * Bits * MaxRatio + MaxRatio
      OBVIOUS
    <3>3. QED
      BY <1>1, <2>1, <3>1, <3>2 DEF Excess
  <2>2. CASE ~(MaxExtra + 2 > 2 * MaxRatio)
    BY <2>2 DEF Excess
  <2>3. QED
    BY <2>1, <2>2
<1>5. QED
  BY <1>2, <1>3, <1>4

(***************************************************************************)
(* compress().                                                             *)
(***************************************************************************)
\* While there is something to encode, the bytes at hand are those of the
\* body.
LEMMA BodyBytes ==
    ASSUME EncoderInv, Encoding
    PROVE  /\ At(o_pos) \in Byte
           /\ ~AtTail => cx \in Byte
           /\ FrameLength \in Nat
<1> USE LayoutAssumption
<1>1. /\ body \in Seq(Byte) /\ Len(body) \in Nat /\ FrameLength = Header + Len(body)
      /\ o_pos \in Int /\ Header <= o_pos /\ o_pos < FrameLength
  BY DEF EncoderInv, Encoding, FrameLength
<1>2. At(o_pos) \in Byte
  <2>1. o_pos - Header + 1 \in 1..Len(body)
    BY <1>1
  <2>2. QED
    BY <1>1, <2>1 DEF At
<1>3. ASSUME ~AtTail PROVE cx \in Byte
  <2>1. o_pos + 1 - Header + 1 \in 1..Len(body)
    BY <1>1, <1>3 DEF AtTail
  <2>2. At(o_pos + 1) \in Byte
    BY <1>1, <2>1 DEF At
  <2>3. cx = Hash(At(o_pos), At(o_pos + 1))
    BY <1>3 DEF cx
  <2>4. QED
    BY <1>2, <2>2, <2>3, HashAssumption
<1>4. QED
  BY <1>1, <1>2, <1>3

\* A run ends within the frame, and its length fits into a byte.
LEMMA RunFits ==
    ASSUME EncoderInv, Encoding, Known
    PROVE  Extra \in Byte /\ o_pos + 2 + Extra <= FrameLength /\ Matches(Extra)
<1> DEFINE S == {e \in 0..MaxExtra : Matches(e)}
<1>1. FrameLength \in Nat /\ o_pos \in Int /\ MaxExtra \in Nat
  BY BodyBytes, ByteValues, LayoutAssumption DEF EncoderInv, MaxExtra
<1>2. Matches(0)
  BY <1>1 DEF Known, AtTail, Matches
<1>3. 0 \in S /\ S \in SUBSET (0..MaxExtra)
  BY <1>1, <1>2
<1>4. PICK m \in S : \A q \in S : q <= m
  <2>1. 0 \in Int /\ MaxExtra \in Int /\ S # {}
    BY <1>1, <1>3
  <2> HIDE DEF S
  <2>2. QED
    BY <1>3, <2>1, Maximum
<1>5. m \in 0..MaxExtra /\ Matches(m) /\ (m < MaxExtra => ~Matches(m + 1))
  <2>1. ASSUME m < MaxExtra, Matches(m + 1) PROVE FALSE
    <3>1. m + 1 \in S
      BY <1>1, <2>1
    <3>2. QED
      BY <1>1, <1>4, <3>1
  <2>2. QED
    BY <2>1
<1>6. Extra \in 0..MaxExtra /\ Matches(Extra)
  <2> HIDE DEF S
  <2> DEFINE P(e) == Matches(e) /\ (e < MaxExtra => ~Matches(e + 1))
  <2>1. \E e \in 0..MaxExtra : P(e)
    BY <1>5
  <2>2. Extra = CHOOSE e \in 0..MaxExtra : P(e)
    BY DEF Extra
  <2> HIDE DEF P
  <2>3. Extra \in 0..MaxExtra /\ P(Extra)
    BY <2>1, <2>2
  <2>4. QED
    BY <2>3 DEF P
<1>7. QED
  BY <1>6, ByteValues DEF Matches, MaxExtra, Byte

\* The flag byte is written in its place.
LEMMA FlaggedBytes ==
    ASSUME EncoderInv
    PROVE  Flagged \in Seq(Byte) /\ Len(Flagged) = Len(c)
<1>1. CASE c = <<>>
  BY <1>1 DEF Flagged, EncoderInv
<1>2. CASE c # <<>>
  <2>1. c \in Seq(Byte) /\ n \in Byte /\ n_pos \in 1..Len(c)
    BY <1>2 DEF EncoderInv
  <2>2. QED
    BY <1>2, <2>1 DEF Flagged
<1>3. QED
  BY <1>1, <1>2

\* A step that leaves compress() alone preserves its invariant.
LEMMA SameEncoder ==
    ASSUME EncoderInv, UNCHANGED encoder PROVE EncoderInv'
  BY DEF EncoderInv, encoder, FrameLength, c_pos, Scratch

\* What a unit of at most two bytes does within its group.
LEMMA UnitWritten ==
    ASSUME EncoderInv, Encoding, i # 0,
           UNCHANGED <<body, n_pos>>, i' = (2 * i) % TwoTo[Bits],
           c' \in Seq(Byte), Len(c') \in {Len(c) + 1, Len(c) + 2},
           n' \in {n, n + i}, o_pos' \in Int, o_pos <= o_pos', o_pos' <= FrameLength
    PROVE  EncoderInv'
<1> USE LayoutAssumption, WidthAssumption, ByteValues
<1>1. /\ c # <<>> /\ c \in Seq(Byte) /\ Len(c) \in Nat /\ n_pos \in 1..Len(c) /\ n \in Nat
      /\ body \in Seq(Byte) /\ o_pos \in Header..FrameLength
  BY DEF EncoderInv, Byte
<1>2. PICK k \in 0..Bits : UnitBit(i, k) /\ n < TwoTo[k] /\ c_pos + 2 * (Bits - k) <= Scratch
  BY <1>1 DEF EncoderInv
<1>3. /\ k + 1 \in 1..Bits /\ UnitBit(i', k + 1) /\ i = TwoTo[k] /\ TwoTo[k + 1] = 2 * TwoTo[k]
      /\ TwoTo[k] \in Nat
  BY <1>2, NextBit, Growing
<1>4. n' \in Nat /\ n' < TwoTo[k + 1]
  <2>1. n \in Nat /\ n < TwoTo[k] /\ n' \in {n, n + TwoTo[k]} /\ TwoTo[k] \in Nat
    BY <1>1, <1>2, <1>3
  <2>2. n' \in Nat /\ n' < 2 * TwoTo[k]
    BY <2>1
  <2>3. QED
    BY <1>3, <2>2
<1>5. n' \in Byte
  <2>1. TwoTo[k + 1] <= TwoTo[Bits] /\ TwoTo[k + 1] \in Nat
    BY <1>3, Growing
  <2>2. QED
    BY <1>4, <2>1 DEF Byte
<1>6. FrameLength' = FrameLength /\ Scratch' = Scratch /\ FrameLength \in Nat /\ Scratch \in Int
  BY <1>1 DEF FrameLength, Scratch
<1>7. c_pos' + 2 * (Bits - (k + 1)) <= Scratch' /\ c' # <<>> /\ n_pos' \in 1..Len(c')
  <2>1. c_pos = Header + Prefix + Len(c) /\ c_pos' = Header + Prefix + Len(c')
    BY DEF c_pos
  <2>2. QED
    BY <1>1, <1>2, <1>6, <2>1, SMTT(60)
<1>8. k + 1 \in 0..Bits
  BY <1>3
<1>9. QED
  BY <1>1, <1>3, <1>4, <1>5, <1>6, <1>7, <1>8, SMTT(60) DEF EncoderInv

\* Every step of compress() preserves it.
LEMMA EncoderStep ==
    ASSUME EncoderInv, Next PROVE EncoderInv'
<1>1. CASE StartGroup
  <2> USE <1>1, LayoutAssumption, WidthAssumption, ByteValues DEF StartGroup
  <2>1. c' \in Seq(Byte) /\ Len(c') = Len(c) + 1 /\ Len(c) \in Nat /\ c' # <<>>
    BY FlaggedBytes DEF EncoderInv
  <2>2. FrameLength' = FrameLength /\ Scratch' = Scratch /\ Scratch \in Int /\ Len(body) \in Nat
    BY DEF FrameLength, Scratch, EncoderInv
  <2>3. UnitBit(i', 0) /\ n' < TwoTo[0] /\ 0 \in 0..Bits
    BY Powers DEF UnitBit
  <2>4. c_pos' + 2 * (Bits - 0) <= Scratch'
    BY <2>1, <2>2 DEF c_pos, Room
  <2>5. n_pos' \in 1..Len(c') /\ n' \in Byte
    BY <2>1
  <2>6. QED
    BY <2>1, <2>2, <2>3, <2>4, <2>5 DEF EncoderInv
<1>2. CASE EncodeLiteral
  <2>1. c' \in Seq(Byte) /\ Len(c') = Len(c) + 1
    BY <1>2, BodyBytes DEF EncodeLiteral, EncoderInv
  <2>2. o_pos' \in Int /\ o_pos <= o_pos' /\ o_pos' <= FrameLength
    BY <1>2, BodyBytes, LayoutAssumption DEF EncodeLiteral, EncoderInv, Encoding
  <2>3. QED
    BY <1>2, <2>1, <2>2, UnitWritten DEF EncodeLiteral
<1>3. CASE EncodeReference
  <2>1. Extra \in Byte /\ cx \in Byte /\ o_pos + 2 + Extra <= FrameLength /\ FrameLength \in Nat
    BY <1>3, BodyBytes, RunFits DEF EncodeReference, Known
  <2>2. c' \in Seq(Byte) /\ Len(c') = Len(c) + 2
    BY <1>3, <2>1 DEF EncodeReference, EncoderInv
  <2>3. o_pos' \in Int /\ o_pos <= o_pos' /\ o_pos' <= FrameLength
    BY <1>3, <2>1, ByteValues, LayoutAssumption DEF EncodeReference, EncoderInv, Byte
  <2>4. QED
    BY <1>3, <2>2, <2>3, UnitWritten DEF EncodeReference
<1>4. CASE KeepFrame \/ EncodeDone \/ Decode
  <2>1. UNCHANGED encoder
    BY <1>4 DEF KeepFrame, EncodeDone, Decode, TakeFlags, InputEnds, DecodeLiteral, DecodeReference,
       RejectReference, DecodeDone, Fail
  <2>2. QED
    BY <2>1, SameEncoder
<1>5. QED
  BY <1>1, <1>2, <1>3, <1>4 DEF Next, Encode

(***************************************************************************)
(* decompress().                                                           *)
(***************************************************************************)
\* The pairs entered into the dictionary are at the positions asked for.
LEMMA HashedEntries ==
    ASSUME NEW bytes, NEW from \in Nat, NEW to \in Int, dict \in [Byte -> Int]
    PROVE  /\ Hashed(bytes, from, to) \in [Byte -> Int]
           /\ \A h \in Byte : \/ Hashed(bytes, from, to)[h] = dict[h]
                              \/ Hashed(bytes, from, to)[h] \in from..(to - 1)
<1> DEFINE at(h) == {p \in from..(to - 1) : Hash(bytes[p + 1], bytes[p + 2]) = h}
           e(h) == IF at(h) = {} THEN dict[h] ELSE CHOOSE p \in at(h) : \A q \in at(h) : q <= p
<1>1. Hashed(bytes, from, to) = [h \in Byte |-> e(h)]
  BY DEF Hashed
<1>2. ASSUME NEW h \in Byte PROVE e(h) = dict[h] \/ e(h) \in from..(to - 1)
  <2>1. CASE at(h) = {}
    BY <2>1
  <2>2. CASE at(h) # {}
    <3> DEFINE S == at(h)
    <3>1. from \in Int /\ to - 1 \in Int /\ S \in SUBSET (from..(to - 1)) /\ S # {}
      BY <2>2
    <3>2. e(h) = CHOOSE p \in S : \A q \in S : q <= p
      BY <2>2
    <3> HIDE DEF S, at, e
    <3>3. \E p \in S : \A q \in S : q <= p
      BY <3>1, Maximum
    <3>4. e(h) \in S
      BY <3>2, <3>3
    <3>5. QED
      BY <3>1, <3>4
  <2>3. QED
    BY <2>1, <2>2
<1> HIDE DEF at, e
<1>3. \A h \in Byte : e(h) \in Int
  BY <1>2
<1>4. QED
  BY <1>1, <1>2, <1>3

\* A reference that is accepted copies bytes that have been decoded.
LEMMA CopiedBytes ==
    ASSUME DecoderInv, DictionaryPointsBack, AtReference, ~BadReference
    PROVE  /\ Copied \in Seq(Byte) /\ Len(Copied) = Len(de_vec)
           /\ RunLength \in 2..(MaxExtra + 2) /\ out + RunLength <= Len(de_vec)
           /\ used + 2 <= Len(vec)
<1> USE ByteValues
<1>1. /\ vec \in Seq(Byte) /\ Len(vec) \in Nat /\ used \in Nat /\ out \in Nat
      /\ de_vec \in Seq(Byte) /\ Len(de_vec) \in Nat /\ out <= Len(de_vec)
      /\ used + 2 <= Len(vec)
  BY DEF DecoderInv, AtReference, Exhausted
<1>2. vec[used + 1] \in Byte /\ vec[used + 2] \in Byte
  BY <1>1
<1>3. RunLength \in 2..(MaxExtra + 2)
  BY <1>2 DEF RunLength, MaxExtra, Byte
<1>4. source \in Int /\ source >= 0 /\ source + 2 <= out /\ out + RunLength <= Len(de_vec)
  BY <1>1, <1>2, <1>3, SMTT(60) DEF source, DecoderInv, DictionaryPointsBack, BadReference
<1>5. ASSUME NEW p \in 1..Len(de_vec), p \in (out + 1)..(out + RunLength)
      PROVE  de_vec[source + 1 + ((p - out - 1) % (out - source))] \in Byte
  <2>1. PICK a \in Nat, d \in Nat : a = p - out - 1 /\ d = out - source /\ d >= 2
    BY <1>1, <1>3, <1>4, <1>5
  <2>2. a % d \in 0..(d - 1)
    BY <2>1
  <2>3. source + 1 + (a % d) \in 1..Len(de_vec)
    BY <1>1, <1>4, <2>1, <2>2
  <2>4. QED
    BY <1>1, <2>1, <2>3
<1>6. Copied \in [1..Len(de_vec) -> Byte]
  <2> DEFINE v(p) == IF p \in (out + 1)..(out + RunLength)
                     THEN de_vec[source + 1 + ((p - out - 1) % (out - source))]
                     ELSE de_vec[p]
  <2>1. Copied = [p \in 1..Len(de_vec) |-> v(p)]
    BY <1>1 DEF Copied
  <2>2. ASSUME NEW p \in 1..Len(de_vec) PROVE v(p) \in Byte
    BY <1>1, <1>5
  <2> HIDE DEF v
  <2>3. QED
    BY <2>1, <2>2
<1>7. Copied \in Seq(Byte) /\ Len(Copied) = Len(de_vec)
  BY <1>1, <1>6
<1>8. QED
  BY <1>1, <1>3, <1>4, <1>7

\* What decoding a unit does to the state of decompress(): the pairs hashed
\* lie behind the output of the unit.
LEMMA UnitState ==
    ASSUME DecoderInv, DictionaryPointsBack,
           NEW u \in Nat, NEW g \in Nat, NEW to \in Int, NEW bytes,
           used' = used + u, used + u <= Len(vec), UNCHANGED vec,
           de_vec' \in Seq(Byte), Len(de_vec') = Len(de_vec),
           out' = out + g, out + g <= Len(de_vec),
           dict' = Hashed(bytes, hashed, to), to + 1 <= out + g,
           hashed' \in 0..(out + g)
    PROVE  DecoderInv' /\ DictionaryPointsBack'
<1>1. /\ vec \in Seq(Byte) /\ used \in Nat /\ out \in Nat /\ hashed \in Nat
      /\ dict \in [Byte -> Int] /\ Len(vec) \in Nat /\ Len(de_vec) \in Nat
  BY DEF DecoderInv
<1>2. /\ dict' \in [Byte -> Int]
      /\ \A h \in Byte : dict'[h] = dict[h] \/ dict'[h] \in hashed..(to - 1)
  BY <1>1, HashedEntries
<1>3. DecoderInv'
  BY <1>1, <1>2 DEF DecoderInv
<1>4. DictionaryPointsBack'
  <2> SUFFICES ASSUME NEW h \in Byte, dict'[h] # INVALID_OFFSET
               PROVE  dict'[h] >= 0 /\ dict'[h] + 2 <= out'
    BY DEF DictionaryPointsBack
  <2>1. CASE dict'[h] = dict[h]
    BY <1>1, <2>1 DEF DictionaryPointsBack
  <2>2. CASE dict'[h] \in hashed..(to - 1)
    BY <1>1, <2>2, SMTT(30)
  <2>3. QED
    BY <1>2, <2>1, <2>2
<1>5. QED
  BY <1>3, <1>4

\* Every step preserves it.
LEMMA DecoderStep ==
    ASSUME EncoderInv, DecoderInv, IdleInv, DictionaryPointsBack, Next
    PROVE  DecoderInv' /\ DictionaryPointsBack'
<1>1. CASE DecodeLiteral
  <2> USE <1>1 DEF DecodeLiteral, Decoding, Exhausted
  <2>1. /\ used \in Nat /\ Len(vec) \in Nat /\ out \in Nat /\ Len(de_vec) \in Nat
        /\ out < Len(de_vec) /\ used + 1 <= Len(vec) /\ hashed \in 0..out
    BY SMTT(30) DEF DecoderInv
  <2>2. vec[used + 1] \in Byte
    BY <2>1 DEF DecoderInv
  <2>3. de_vec' \in Seq(Byte) /\ Len(de_vec') = Len(de_vec)
    BY <2>2, SMTT(30) DEF DecoderInv
  <2>4. /\ 1 \in Nat /\ out \in Int /\ used' = used + 1 /\ UNCHANGED vec /\ out' = out + 1
        /\ dict' = Hashed(de_vec', hashed, out) /\ out + 1 <= out + 1 /\ hashed' \in 0..(out + 1)
        /\ out + 1 <= Len(de_vec)
    BY <2>1
  <2>5. QED
    BY <2>1, <2>3, <2>4, UnitState
<1>2. CASE DecodeReference
  <2> USE <1>2 DEF DecodeReference
  <2>1. /\ Copied \in Seq(Byte) /\ Len(Copied) = Len(de_vec)
        /\ RunLength \in 2..(MaxExtra + 2) /\ out + RunLength <= Len(de_vec)
        /\ used + 2 <= Len(vec)
    BY CopiedBytes
  <2>2. out \in Nat /\ RunLength \in Nat /\ RunLength >= 2
    BY <2>1, ByteValues DEF DecoderInv, MaxExtra
  <2>3. /\ 2 \in Nat /\ out + 1 \in Int /\ used' = used + 2 /\ UNCHANGED vec
        /\ out' = out + RunLength /\ dict' = Hashed(Copied, hashed, out + 1)
        /\ out + 1 + 1 <= out + RunLength /\ hashed' \in 0..(out + RunLength)
    BY <2>2
  <2>4. QED
    BY <2>1, <2>2, <2>3, UnitState
<1>3. CASE TakeFlags
  <2>1. /\ UNCHANGED <<vec, de_vec, out, dict, hashed>> /\ used' = used + 1
        /\ used + 1 <= Len(vec) \/ ~(used + 1 > Len(vec))
    BY <1>3 DEF TakeFlags, Exhausted
  <2>2. QED
    BY <2>1 DEF DecoderInv, DictionaryPointsBack
<1>4. CASE EncodeDone
  <2>1. /\ used = 0 /\ out = 0 /\ hashed = 0 /\ Flagged \in Seq(Byte) /\ body \in Seq(Byte)
    BY <1>4, FlaggedBytes DEF EncodeDone, IdleInv, EncoderInv
  <2>2. UNCHANGED <<used, out, dict, hashed>> /\ vec' = Flagged /\ de_vec' = [p \in 1..Len(body) |-> 0]
    BY <1>4 DEF EncodeDone
  <2>3. de_vec' \in Seq(Byte) /\ Len(de_vec') = Len(body)
    BY <2>1, <2>2, ByteValues
  <2>4. QED
    BY <2>1, <2>2, <2>3 DEF DecoderInv, DictionaryPointsBack
<1>5. CASE \/ KeepFrame \/ StartGroup \/ EncodeLiteral \/ EncodeReference
           \/ InputEnds \/ RejectReference \/ DecodeDone
  <2>1. UNCHANGED decoder
    BY <1>5 DEF KeepFrame, StartGroup, EncodeLiteral, EncodeReference, InputEnds, RejectReference,
       DecodeDone, Fail
  <2>2. QED
    BY <2>1 DEF decoder, DecoderInv, DictionaryPointsBack
<1>6. QED
  BY <1>1, <1>2, <1>3, <1>4, <1>5 DEF Next, Encode, Decode

(***************************************************************************)
(* Bytes taken and bytes given.                                            *)
(***************************************************************************)
\* A literal gives the byte it takes; a reference takes two bytes and gives at
\* least two, and at most what the ratio and the excess allow.
LEMMA UnitProgress ==
    ASSUME ProgressInv, DecoderInv, phase = "decode", phase' = "decode", mask # 0,
           mask' = (2 * mask) % TwoTo[Bits], Len(de_vec') = Len(de_vec),
           NEW u \in Nat, NEW g \in Nat, used' = used + u, out' = out + g,
           \/ u = 1 /\ g = 1
           \/ u = 2 /\ g \in 2..(MaxExtra + 2)
    PROVE  ProgressInv'
<1> USE WidthAssumption, LayoutAssumption
<1>1. used \in Nat /\ out \in Nat /\ Len(de_vec) \in Nat /\ MaxExtra \in Nat /\ MaxRatio \in Nat
  BY ByteValues DEF DecoderInv, MaxExtra
<1>2. PICK f \in 0..used, k \in 0..Bits : Progress(f, k)
  BY DEF ProgressInv, Progress
<1>3. k \in Nat /\ k < Bits /\ k + 1 \in 1..Bits /\ UnitBit(mask', k + 1)
  BY <1>2, NextBit DEF Progress
<1>4. f \in Nat /\ f \in 0..used'
  BY <1>1
<1>5. u >= 1 /\ g >= u
  OBVIOUS
<1>6. used' <= f + out'
  BY <1>1, <1>2, <1>4, <1>5 DEF Progress
<1>7. f * Bits + (k + 1) <= out' + Bits
  <2>1. f * Bits \in Nat /\ f * Bits + k <= out + Bits
    BY <1>2, <1>4 DEF Progress
  <2>2. QED
    BY <1>1, <1>3, <1>5, <2>1
<1>8. out' + MaxRatio <= MaxRatio * used' + (k + 1) * Excess
  <2>1. /\ Excess \in Nat /\ MaxExtra + 2 <= 2 * MaxRatio + Excess /\ MaxRatio >= 1
    BY ExcessBound
  <2>2. out + MaxRatio <= MaxRatio * used + k * Excess
    BY <1>2, <1>3 DEF Progress
  <2>3. (k + 1) * Excess = k * Excess + Excess /\ k * Excess \in Nat
    BY <1>3, <2>1
  <2>4. CASE u = 1 /\ g = 1
    <3>1. MaxRatio * used' = MaxRatio * used + MaxRatio /\ MaxRatio * used \in Nat
      BY <1>1, <2>4
    <3>2. QED
      BY <1>1, <2>1, <2>2, <2>3, <2>4, <3>1
  <2>5. CASE u = 2 /\ g \in 2..(MaxExtra + 2)
    <3>1. MaxRatio * used' = MaxRatio * used + 2 * MaxRatio /\ MaxRatio * used \in Nat
      BY <1>1, <2>5
    <3>2. QED
      BY <1>1, <2>1, <2>2, <2>3, <2>5, <3>1
  <2>6. QED
    BY <2>4, <2>5
<1>9. k + 1 = Bits => out' <= MaxRatio * used'
  <2> SUFFICES ASSUME k + 1 = Bits PROVE out' <= MaxRatio * used'
    OBVIOUS
  <2>1. (k + 1) * Excess <= MaxRatio /\ (k + 1) * Excess \in Nat
    BY ExcessBound
  <2>2. MaxRatio * used' \in Nat /\ out' \in Nat
    BY <1>1
  <2>3. QED
    BY <1>1, <1>8, <2>1, <2>2
<1>10. Progress(f, k + 1)'
  BY <1>3, <1>6, <1>7, <1>8, <1>9, SMTT(30) DEF Progress, UnitBit
<1>11. k + 1 \in 0..Bits /\ Len(de_vec') > 0
  BY <1>3 DEF ProgressInv
<1>12. QED
  BY <1>4, <1>10, <1>11 DEF ProgressInv, Progress

\* A flag byte is taken at the end of a group, and only when there is a unit
\* to come.
LEMMA FlagsProgress ==
    ASSUME ProgressInv, DecoderInv, TakeFlags
    PROVE  ProgressInv'
<1> USE WidthAssumption, LayoutAssumption DEF TakeFlags, Decoding
<1>1. used \in Nat /\ out \in Nat /\ Len(de_vec) \in Nat /\ MaxRatio \in Nat /\ out < Len(de_vec)
  BY DEF DecoderInv
<1>2. PICK f \in 0..used, k \in 0..Bits : Progress(f, k)
  BY DEF ProgressInv, Progress
<1>3. k = Bits
  BY <1>2, NextBit DEF Progress
<1>4. UnitBit(1, 0) /\ 0 \in 0..Bits /\ f + 1 \in 0..used'
  BY <1>1, Powers DEF UnitBit
<1>5. used' <= (f + 1) + out
  BY <1>1, <1>2 DEF Progress
<1>6. (f + 1) * Bits + 0 <= out + Bits
  <2>1. (f + 1) * Bits = f * Bits + Bits /\ f * Bits \in Nat
    BY <1>1
  <2>2. f * Bits + Bits <= out + Bits
    BY <1>2, <1>3 DEF Progress
  <2>3. QED
    BY <2>1, <2>2
<1>7. out + MaxRatio <= MaxRatio * used' + 0 * Excess
  <2>1. MaxRatio * used' = MaxRatio * used + MaxRatio /\ MaxRatio * used \in Nat
    BY <1>1
  <2>2. 0 * Excess = 0
    BY ExcessBound
  <2>3. out <= MaxRatio * used
    BY <1>2, <1>3 DEF Progress
  <2>4. QED
    BY <1>1, <2>1, <2>2, <2>3
<1>8. Progress(f + 1, 0)'
  BY <1>1, <1>4, <1>5, <1>6, <1>7 DEF Progress, UnitBit
<1>9. QED
  BY <1>1, <1>4, <1>8 DEF ProgressInv, Progress

\* Where decompress() starts, nothing is taken and nothing given; stated of the
\* next state, for the end of compress(), and of the present one.
LEMMA StartProgress ==
    /\ used = 0 /\ out = 0 /\ mask = 0 /\ Len(de_vec) > 0 /\ phase = "decode" => ProgressInv
    /\ used' = 0 /\ out' = 0 /\ mask' = 0 /\ Len(de_vec') > 0 /\ phase' = "decode" => ProgressInv'
<1> USE WidthAssumption, LayoutAssumption
<1>1. UnitBit(0, Bits) /\ Bits \in 0..Bits /\ 0 \in 0..0
  BY DEF UnitBit
<1>2. 0 * Bits + Bits <= 0 + Bits /\ 0 <= MaxRatio * 0 /\ 0 <= 0 + 0
  OBVIOUS
<1>3. ASSUME used = 0, out = 0, mask = 0, Len(de_vec) > 0, phase = "decode" PROVE ProgressInv
  BY <1>1, <1>2, <1>3 DEF ProgressInv, Progress, UnitBit
<1>4. ASSUME used' = 0, out' = 0, mask' = 0, Len(de_vec') > 0, phase' = "decode"
      PROVE  ProgressInv'
  BY <1>1, <1>2, <1>4 DEF ProgressInv, Progress, UnitBit
<1>5. QED
  BY <1>3, <1>4

\* Every step preserves it.
LEMMA ProgressStep ==
    ASSUME IInv, Next
    PROVE  ProgressInv' /\ IdleInv'
<1> USE DEF IInv
<1>1. CASE DecodeLiteral
  <2>1. /\ phase = "decode" /\ phase' = "decode" /\ mask # 0 /\ mask' = (2 * mask) % TwoTo[Bits]
        /\ used' = used + 1 /\ out' = out + 1 /\ Len(de_vec') = Len(de_vec)
    BY <1>1 DEF DecodeLiteral, Decoding, DecoderInv
  <2>2. ProgressInv'
    BY <2>1, UnitProgress
  <2>3. QED
    BY <2>1, <2>2 DEF IdleInv
<1>2. CASE DecodeReference
  <2>1. /\ phase = "decode" /\ phase' = "decode" /\ mask # 0 /\ mask' = (2 * mask) % TwoTo[Bits]
        /\ used' = used + 2 /\ out' = out + RunLength
    BY <1>2 DEF DecodeReference, AtReference, Decoding
  <2>2. Len(de_vec') = Len(de_vec) /\ RunLength \in 2..(MaxExtra + 2) /\ RunLength \in Nat
    BY <1>2, CopiedBytes, ByteValues DEF DecodeReference, MaxExtra
  <2>3. ProgressInv'
    BY <2>1, <2>2, UnitProgress
  <2>4. QED
    BY <2>1, <2>3 DEF IdleInv
<1>3. CASE TakeFlags
  BY <1>3, FlagsProgress DEF IdleInv, TakeFlags, Decoding
<1>4. CASE EncodeDone
  <2>1. used' = 0 /\ out' = 0 /\ mask' = 0 /\ phase' = "decode"
    BY <1>4 DEF EncodeDone, IdleInv
  <2>2. body \in Seq(Byte) /\ body # <<>> /\ de_vec' = [p \in 1..Len(body) |-> 0]
    BY <1>4 DEF EncodeDone, IdleInv, EncoderInv
  <2>3. Len(body) \in Nat /\ Len(body) > 0 /\ Len(de_vec') = Len(body)
    BY <2>2
  <2>4. ProgressInv'
    BY <2>1, <2>3, StartProgress
  <2>5. QED
    BY <2>1, <2>4 DEF IdleInv
<1>5. CASE DecodeDone
  BY <1>5 DEF DecodeDone, decoder, encoder, ProgressInv, Progress, IdleInv, UnitBit
<1>6. CASE KeepFrame \/ StartGroup \/ EncodeLiteral \/ EncodeReference
  <2>1. phase = "encode" /\ phase' \in {"encode", "kept"} /\ UNCHANGED <<decoder, body>>
    BY <1>6 DEF KeepFrame, StartGroup, EncodeLiteral, EncodeReference, Encoding, encoder
  <2>2. QED
    BY <2>1 DEF ProgressInv, IdleInv, decoder
<1>7. CASE InputEnds \/ RejectReference
  BY <1>7 DEF InputEnds, RejectReference, Fail, ProgressInv, IdleInv
<1>8. QED
  BY <1>1, <1>2, <1>3, <1>4, <1>5, <1>6, <1>7 DEF Next, Encode, Decode

(***************************************************************************)
(* Flag bytes and dictionaries.                                            *)
(***************************************************************************)
\* A power of two divides the greater ones.
LEMMA Multiple ==
    ASSUME NEW j \in 0..Bits
    PROVE  \A k \in 0..Bits : k > j => \E m \in Nat : TwoTo[k] = 2 * m * TwoTo[j]
<1> USE WidthAssumption
<1> DEFINE S == {e \in Nat : j + 1 + e <= Bits => \E m \in Nat : TwoTo[j + 1 + e] = 2 * m * TwoTo[j]}
<1>0. TwoTo[j] \in Nat
  BY Growing
<1>1. 0 \in S
  <2> SUFFICES ASSUME j + 1 <= Bits PROVE \E m \in Nat : TwoTo[j + 1] = 2 * m * TwoTo[j]
    OBVIOUS
  <2>1. j + 1 \in 1..Bits /\ (j + 1) - 1 = j
    OBVIOUS
  <2>2. TwoTo[j + 1] = 2 * 1 * TwoTo[j]
    BY <1>0, <2>1, Powers
  <2>3. QED
    BY <2>2
<1>2. ASSUME NEW e \in Nat, e \in S PROVE e + 1 \in S
  <2> SUFFICES ASSUME j + 1 + (e + 1) <= Bits
               PROVE  \E m \in Nat : TwoTo[j + 1 + (e + 1)] = 2 * m * TwoTo[j]
    OBVIOUS
  <2>1. PICK m \in Nat : TwoTo[j + 1 + e] = 2 * m * TwoTo[j]
    BY <1>2
  <2>2. j + 1 + (e + 1) \in 1..Bits /\ (j + 1 + (e + 1)) - 1 = j + 1 + e
    OBVIOUS
  <2>3. TwoTo[j + 1 + (e + 1)] = 2 * TwoTo[j + 1 + e]
    BY <2>2, Powers
  <2>4. 2 * (2 * m * TwoTo[j]) = 2 * (2 * m) * TwoTo[j] /\ 2 * m \in Nat
    BY <1>0
  <2>5. QED
    BY <2>1, <2>3, <2>4
<1>3. \A e \in Nat : e \in S
  <2> HIDE DEF S
  <2>1. QED
    BY <1>1, <1>2, SetInduction
<1>4. ASSUME NEW k \in 0..Bits, k > j PROVE \E m \in Nat : TwoTo[k] = 2 * m * TwoTo[j]
  <2>1. k - j - 1 \in Nat /\ j + 1 + (k - j - 1) = k
    BY <1>4
  <2>2. k - j - 1 \in S
    BY <1>3, <2>1
  <2>3. QED
    BY <2>1, <2>2
<1>5. QED
  BY <1>4

\* Division: adding a multiple of the divisor adds to the quotient.
LEMMA AddMultiple ==
    ASSUME NEW a \in Nat, NEW b \in Nat, b > 0, NEW m \in Nat
    PROVE  (a + 2 * m * b) \div b = a \div b + 2 * m
<1>1. PICK q \in Nat, r \in Nat : a = q * b + r /\ r < b /\ q = a \div b
  OBVIOUS
<1>2. a + 2 * m * b = (q + 2 * m) * b + r
  BY <1>1
<1>3. (a + 2 * m * b) \div b = q + 2 * m
  BY <1>1, <1>2
<1>4. QED
  BY <1>1, <1>3

\* The flag of a unit does not change the flags of the units before it.
LEMMA FlagsKept ==
    ASSUME NEW f \in Nat, NEW k \in 0..Bits, k # Bits, f < TwoTo[k]
    PROVE  /\ Flag(f, k) = 0 /\ Flag(f + TwoTo[k], k) = 1
           /\ \A j \in 0..Bits : j < k => Flag(f + TwoTo[k], j) = Flag(f, j)
<1> USE WidthAssumption
<1>1. TwoTo[k] \in Nat /\ TwoTo[k] >= 1
  BY Growing
<1>2. Flag(f, k) = 0 /\ Flag(f + TwoTo[k], k) = 1
  <2>1. PICK b \in Nat : b = TwoTo[k] /\ b > 0 /\ f < b
    BY <1>1
  <2>2. f \div b = 0
    BY <2>1
  <2>2a. f + b = 1 * b + f
    BY <2>1
  <2>2b. (f + b) \div b = 1
    BY <2>1, <2>2a
  <2>3. QED
    BY <2>1, <2>2, <2>2b DEF Flag
<1>3. ASSUME NEW j \in 0..Bits, j < k PROVE Flag(f + TwoTo[k], j) = Flag(f, j)
  <2>1. PICK m \in Nat : TwoTo[k] = 2 * m * TwoTo[j]
    BY <1>3, Multiple
  <2>2. TwoTo[j] \in Nat /\ TwoTo[j] > 0
    BY Growing
  <2>3. (f + TwoTo[k]) \div TwoTo[j] = f \div TwoTo[j] + 2 * m
    <3>1. PICK b \in Nat : b = TwoTo[j] /\ b > 0
      BY <2>2
    <3>2. (f + 2 * m * b) \div b = f \div b + 2 * m
      BY <3>1, AddMultiple, ZenonT(60)
    <3>3. QED
      BY <2>1, <3>1, <3>2
  <2>4. PICK q \in Nat : q = f \div TwoTo[j]
    BY <2>2
  <2>5. (q + 2 * m) % 2 = q % 2
    BY <2>4
  <2>6. QED
    BY <2>3, <2>4, <2>5 DEF Flag
<1>4. QED
  BY <1>2, <1>3

\* Entering no pair.
LEMMA NoEntries ==
    ASSUME NEW plain, NEW d \in [Byte -> Int], NEW from \in Int, NEW b \in Byte
    PROVE  Entries(plain, d, from, from)[b] = d[b]
<1>1. {p \in from..(from - 1) : Hash(plain[p + 1], plain[p + 2]) = b} = {}
  OBVIOUS
<1>2. QED
  BY <1>1 DEF Entries

\* Entering one pair more.
LEMMA OneEntry ==
    ASSUME NEW plain, NEW d \in [Byte -> Int], NEW from \in Int, NEW m \in Int, m >= from,
           NEW to \in Int, to = m + 1, NEW b \in Byte
    PROVE  /\ Hash(plain[m + 1], plain[m + 2]) = b => Entries(plain, d, from, to)[b] = m
           /\ Hash(plain[m + 1], plain[m + 2]) # b =>
                Entries(plain, d, from, to)[b] = Entries(plain, d, from, m)[b]
<1> DEFINE at(w) == {p \in from..(w - 1) : Hash(plain[p + 1], plain[p + 2]) = b}
           max(S) == CHOOSE p \in S : \A q \in S : q <= p
           e(w) == IF at(w) = {} THEN d[b] ELSE max(at(w))
<1>1. Entries(plain, d, from, to)[b] = e(m + 1) /\ Entries(plain, d, from, m)[b] = e(m)
  BY DEF Entries
<1>2. CASE Hash(plain[m + 1], plain[m + 2]) = b
  <2> DEFINE S == at(m + 1)
  <2>1. m \in S /\ \A q \in S : q \in Int /\ q <= m
    BY <1>2
  <2>2. e(m + 1) = max(S)
    BY <2>1
  <2> HIDE DEF S, at
  <2>3. max(S) = m
    <3>1. max(S) \in S /\ \A q \in S : q <= max(S)
      BY <2>1
    <3> DEFINE w == max(S)
    <3>2. w \in S /\ \A q \in S : q <= w
      BY <3>1
    <3> HIDE DEF w, max
    <3>3. w = m
      BY <2>1, <3>2
    <3>4. QED
      BY <3>3 DEF w
  <2> HIDE DEF max, e
  <2>4. QED
    BY <1>1, <1>2, <2>2, <2>3
<1>3. CASE Hash(plain[m + 1], plain[m + 2]) # b
  <2>1. at(m + 1) = at(m)
    BY <1>3
  <2> HIDE DEF at, max
  <2>2. e(m + 1) = e(m)
    BY <2>1
  <2> HIDE DEF e
  <2>3. QED
    BY <1>1, <1>3, <2>2
<1>4. QED
  BY <1>2, <1>3

\* Entries are positions, or what was there before.
LEMMA EntriesType ==
    ASSUME NEW plain, NEW d \in [Byte -> Int], NEW from \in Int, NEW to \in Int
    PROVE  Entries(plain, d, from, to) \in [Byte -> Int]
<1> DEFINE at(b) == {p \in from..(to - 1) : Hash(plain[p + 1], plain[p + 2]) = b}
           max(S) == CHOOSE p \in S : \A q \in S : q <= p
           e(b) == IF at(b) = {} THEN d[b] ELSE max(at(b))
<1>1. Entries(plain, d, from, to) = [b \in Byte |-> e(b)]
  BY DEF Entries
<1>2. ASSUME NEW b \in Byte PROVE e(b) \in Int
  <2> DEFINE S == at(b)
  <2>1. CASE S = {}
    BY <2>1
  <2>2. CASE S # {}
    <3>1. to - 1 \in Int /\ S \in SUBSET (from..(to - 1)) /\ e(b) = max(S)
      BY <2>2
    <3> HIDE DEF S, at, e
    <3>2. \E p \in S : \A q \in S : q <= p
      BY <2>2, <3>1, Maximum
    <3>3. max(S) \in S
      BY <3>2
    <3>4. \A q \in S : q \in Int
      BY <3>1
    <3> HIDE DEF max
    <3>5. QED
      BY <3>1, <3>3, <3>4, Zenon
  <2>3. QED
    BY <2>1, <2>2
<1> HIDE DEF e
<1>3. QED
  BY <1>1, <1>2

(***************************************************************************)
(* compress(): its dictionary.                                             *)
(***************************************************************************)
\* What is known while there is a unit to write.
LEMMA EncoderFacts ==
    ASSUME EncoderInv, Encoding
    PROVE  /\ body \in Seq(Byte) /\ Len(body) \in Nat /\ FrameLength = Header + Len(body)
           /\ o_pos \in Nat /\ Header <= o_pos /\ o_pos < FrameLength /\ FrameLength \in Nat
           /\ Header \in Nat /\ Header >= 1 /\ cx \in Byte
           /\ ~AtTail <=> o_pos + 3 <= FrameLength
           /\ ~AtTail => cx = Hash(At(o_pos), At(o_pos + 1))
<1>1. /\ body \in Seq(Byte) /\ Len(body) \in Nat /\ FrameLength = Header + Len(body)
      /\ o_pos \in Nat /\ Header <= o_pos /\ o_pos < FrameLength /\ FrameLength \in Nat
      /\ Header \in Nat /\ Header >= 1
  BY LayoutAssumption DEF EncoderInv, Encoding, FrameLength
<1>2. cx \in Byte
  BY BodyBytes, ByteValues DEF cx
<1>3. ~AtTail => cx = Hash(At(o_pos), At(o_pos + 1))
  BY DEF cx
<1>4. ~AtTail <=> o_pos + 3 <= FrameLength
  BY <1>1 DEF AtTail
<1>5. QED
  BY <1>1, <1>2, <1>3, <1>4

\* The last literal's pair is entered when the next unit is written.
LEMMA EnteredFacts ==
    ASSUME EncoderInv, Encoding, PairInv, EntryInv
    PROVE  /\ Entered \in [Byte -> Nat]
           /\ \A h \in Byte : Entered[h] = IF p_pos # 0 /\ h = px THEN p_pos ELSE x[h]
           /\ \A h \in Byte : Entered[h] # 0 =>
                /\ Header <= Entered[h] /\ Entered[h] + 2 <= o_pos + 1
                /\ ~AtTail => Hash(At(Entered[h]), At(Entered[h] + 1)) = h
<1>1. p_pos \in Nat /\ px \in Byte /\ x \in [Byte -> Nat]
  BY DEF PairInv, EntryInv
<1>2. /\ Entered \in [Byte -> Nat]
      /\ \A h \in Byte : Entered[h] = IF p_pos # 0 /\ h = px THEN p_pos ELSE x[h]
  BY <1>1 DEF Entered
<1>3. ASSUME NEW h \in Byte, Entered[h] # 0
      PROVE  /\ Header <= Entered[h] /\ Entered[h] + 2 <= o_pos + 1
             /\ ~AtTail => Hash(At(Entered[h]), At(Entered[h] + 1)) = h
  <2>1. CASE p_pos # 0 /\ h = px
    <3>1. Entered[h] = p_pos
      BY <1>2, <2>1
    <3>2. p_pos = o_pos - 1 /\ p_pos >= Header
      BY <2>1 DEF PairInv
    <3>3. ASSUME ~AtTail PROVE Hash(At(p_pos), At(p_pos + 1)) = h
      <4>1. FrameLength - p_pos >= 3
        BY <3>2, <3>3, EncoderFacts
      <4>2. QED
        BY <2>1, <4>1 DEF PairInv
    <3>4. QED
      BY <3>1, <3>2, <3>3, EncoderFacts
  <2>2. CASE ~(p_pos # 0 /\ h = px)
    <3>1. Entered[h] = x[h] /\ x[h] \in Nat
      BY <1>1, <1>2, <2>2
    <3>2. Header <= x[h] /\ x[h] + 2 <= o_pos /\ (~AtTail => Hash(At(x[h]), At(x[h] + 1)) = h)
      BY <1>3, <3>1 DEF EntryInv
    <3>3. QED
      BY <3>1, <3>2, EncoderFacts
  <2>3. QED
    BY <2>1, <2>2
<1>4. QED
  BY <1>2, <1>3

\* A literal keeps what is known of the dictionary and the pair.
LEMMA LiteralPairs ==
    ASSUME EncoderInv, PairInv, EntryInv, EncodeLiteral
    PROVE  PairInv' /\ EntryInv'
<1>1. /\ Encoding /\ x' = Entered /\ px' = cx /\ p_pos' = o_pos /\ o_pos' = o_pos + 1
      /\ body' = body
  BY DEF EncodeLiteral
<1>2. FrameLength' = FrameLength /\ \A p : At(p)' = At(p)
  BY <1>1 DEF FrameLength, At
<1>3. PairInv'
  <2>1. At(p_pos)' = At(o_pos) /\ At(p_pos + 1)' = At(o_pos + 1)
    BY <1>1 DEF At
  <2>2. FrameLength - o_pos >= 3 => cx = Hash(At(o_pos), At(o_pos + 1))
    BY <1>1, EncoderFacts
  <2>3. QED
    BY <1>1, <1>2, <2>1, <2>2, EncoderFacts DEF PairInv
<1>4. EntryInv'
  <2>1. ~AtTail' => ~AtTail
    BY <1>1, <1>2, EncoderFacts DEF AtTail
  <2>2. ASSUME NEW h \in Byte, x'[h] # 0
        PROVE  /\ Header <= x'[h] /\ x'[h] + 2 <= o_pos'
               /\ ~AtTail' => Hash(At(x[h])', At(x[h] + 1)') = h
    <3>1. At(x[h])' = At(Entered[h]) /\ At(x[h] + 1)' = At(Entered[h] + 1)
      BY <1>1 DEF At
    <3>2. QED
      BY <1>1, <2>1, <2>2, <3>1, EnteredFacts
  <2>3. QED
    BY <1>1, <2>2, EnteredFacts DEF EntryInv
<1>5. QED
  BY <1>3, <1>4

\* And so does a reference, whose own pair is entered at once.
LEMMA ReferencePairs ==
    ASSUME EncoderInv, PairInv, EntryInv, EncodeReference
    PROVE  /\ PairInv' /\ EntryInv'
           /\ \A h \in Byte : x'[h] = IF h = cx THEN o_pos ELSE Entered[h]
<1>1. /\ Encoding /\ x' = [Entered EXCEPT ![cx] = o_pos] /\ px' = px /\ p_pos' = 0
      /\ o_pos' = o_pos + 2 + Extra /\ body' = body /\ Known
  BY DEF EncodeReference
<1>2. Extra \in Nat /\ FrameLength' = FrameLength
  BY <1>1, RunFits, ByteValues DEF Byte, FrameLength
<1>3. /\ x' \in [Byte -> Nat]
      /\ \A h \in Byte : x'[h] = IF h = cx THEN o_pos ELSE Entered[h]
  BY <1>1, EncoderFacts, EnteredFacts
<1>4. PairInv'
  BY <1>1 DEF PairInv
<1>5. EntryInv'
  <2>1. ~AtTail /\ cx = Hash(At(o_pos), At(o_pos + 1))
    BY <1>1, EncoderFacts DEF Known
  <2>2. ASSUME NEW h \in Byte, x'[h] # 0
        PROVE  /\ Header <= x'[h] /\ x'[h] + 2 <= o_pos'
               /\ Hash(At(x[h])', At(x[h] + 1)') = h
    <3>1. CASE h = cx
      <4>1. x'[h] = o_pos
        BY <1>3, <3>1
      <4>2. At(x[h])' = At(o_pos) /\ At(x[h] + 1)' = At(o_pos + 1)
        BY <1>1, <4>1 DEF At
      <4>3. QED
        BY <1>1, <1>2, <2>1, <3>1, <4>1, <4>2, EncoderFacts
    <3>2. CASE h # cx
      <4>1. x'[h] = Entered[h] /\ Entered[h] \in Nat
        BY <1>1, <1>3, <3>2, EnteredFacts
      <4>2. At(x[h])' = At(Entered[h]) /\ At(x[h] + 1)' = At(Entered[h] + 1)
        BY <1>1, <4>1 DEF At
      <4>3. /\ Header <= Entered[h] /\ Entered[h] + 2 <= o_pos + 1
            /\ Hash(At(Entered[h]), At(Entered[h] + 1)) = h
        BY <1>1, <2>1, <2>2, <4>1, EnteredFacts
      <4>4. QED
        BY <1>1, <1>2, <4>1, <4>2, <4>3, EncoderFacts, SMTT(40)
    <3>3. QED
      BY <3>1, <3>2
  <2>3. QED
    BY <1>3, <2>2 DEF EntryInv
<1>6. QED
  BY <1>3, <1>4, <1>5

\* The bytes a reference stands for are those of the run.
LEMMA KnownRun ==
    ASSUME EncoderInv, PairInv, EntryInv, Encoding, Known
    PROVE  /\ x[cx] # 0 /\ x[cx] \in Nat /\ Header <= x[cx] /\ x[cx] + 2 <= o_pos
           /\ SameRun(body, x[cx] - Header, o_pos - Header, Extra + 2)
<1>1. ~AtTail /\ x[cx] # 0 /\ At(o_pos) = At(x[cx])
  BY DEF Known
<1>2. x[cx] \in Nat /\ Header <= x[cx] /\ x[cx] + 2 <= o_pos /\ Hash(At(x[cx]), At(x[cx] + 1)) = cx
  BY <1>1, EncoderFacts DEF EntryInv
<1>3. PICK a \in Nat : a = x[cx] /\ Header <= a /\ a + 2 <= o_pos
  BY <1>2
<1>4. /\ o_pos \in Nat /\ Header \in Nat /\ Header <= o_pos /\ body \in Seq(Byte) /\ Len(body) \in Nat
      /\ o_pos + 3 <= Header + Len(body)
  BY <1>1, EncoderFacts
<1>5. Extra \in Nat
  BY RunFits, ByteValues DEF Byte
<1>6. At(o_pos + 1) = At(a + 1)
  <2>1. /\ o_pos - Header + 1 \in 1..Len(body) /\ o_pos + 1 - Header + 1 \in 1..Len(body)
        /\ a + 1 - Header + 1 \in 1..Len(body)
    BY <1>3, <1>4, SMTT(40)
  <2>2. At(o_pos) \in Byte /\ At(o_pos + 1) \in Byte /\ At(a + 1) \in Byte
    BY <1>4, <2>1 DEF At
  <2>3. Hash(At(o_pos), At(o_pos + 1)) = cx /\ Hash(At(o_pos), At(a + 1)) = cx
    BY <1>1, <1>2, <1>3, EncoderFacts
  <2>4. QED
    BY <2>2, <2>3, HashAssumption
<1>7. ASSUME NEW j \in 0..((Extra + 2) - 1) PROVE At(o_pos + j) = At(a + j)
  <2>1. CASE j = 0
    BY <1>1, <1>3, <1>4, <2>1
  <2>2. CASE j = 1
    BY <1>6, <2>2
  <2>3. CASE j >= 2
    <3>1. j - 2 \in 0..(Extra - 1) /\ a + 2 + (j - 2) = a + j /\ o_pos + 2 + (j - 2) = o_pos + j
      BY <1>3, <1>4, <1>5, <2>3
    <3>2. \A m \in 0..(Extra - 1) : At(a + 2 + m) = At(o_pos + 2 + m)
      BY <1>3, RunFits DEF Matches
    <3>3. At(a + 2 + (j - 2)) = At(o_pos + 2 + (j - 2))
      BY <3>1, <3>2
    <3>4. QED
      BY <3>1, <3>3
  <2>4. QED
    BY <1>5, <2>1, <2>2, <2>3
<1>8. ASSUME NEW j \in 0..((Extra + 2) - 1)
      PROVE  body[(o_pos - Header) + 1 + j] = body[(a - Header) + 1 + j]
  <2>1. /\ (o_pos - Header) + 1 + j = (o_pos + j) - Header + 1
        /\ (a - Header) + 1 + j = (a + j) - Header + 1
    BY <1>3, <1>4, <1>5, SMTT(40)
  <2>2. At(o_pos + j) = body[(o_pos + j) - Header + 1] /\ At(a + j) = body[(a + j) - Header + 1]
    BY DEF At
  <2>3. At(o_pos + j) = At(a + j)
    BY <1>7
  <2>4. QED
    BY <2>1, <2>2, <2>3
<1>9. SameRun(body, a - Header, o_pos - Header, Extra + 2)
  BY <1>8 DEF SameRun
<1>10. QED
  BY <1>1, <1>2, <1>3, <1>9

(***************************************************************************)
(* compress(): the moments of a decoder of its output.                     *)
(***************************************************************************)
\* A moment's fields.
LEMMA MomentTypes ==
    ASSUME NEW s \in Moment
    PROVE  /\ s.u \in Nat /\ s.o \in Nat /\ s.h \in Nat /\ s.g \in Nat /\ s.k \in 0..Bits
           /\ s.k \in Nat /\ s.d \in [Byte -> Int]
  BY WidthAssumption DEF Moment

\* A step is the same over other bytes if its flag and its unit's bytes are.
LEMMA ReadsKept ==
    ASSUME NEW plain, NEW F, NEW G, NEW s \in Moment, NEW t \in Moment,
           Reads(plain, F, s, t),
           s.k # Bits => /\ Flag(G[s.g], s.k) = Flag(F[s.g], s.k)
                         /\ \A p \in (s.u + 1)..t.u : G[p] = F[p]
    PROVE  Reads(plain, G, s, t)
<1>1. CASE ReadsFlags(s, t)
  BY <1>1 DEF Reads
<1>2. CASE ReadsLiteral(plain, F, s, t)
  <2>1. s.u + 1 \in (s.u + 1)..t.u /\ s.k # Bits
    BY <1>2, MomentTypes DEF ReadsLiteral
  <2>2. G[s.u + 1] = F[s.u + 1] /\ Flag(G[s.g], s.k) = Flag(F[s.g], s.k)
    BY <2>1
  <2>3. ReadsLiteral(plain, G, s, t)
    BY <1>2, <2>2 DEF ReadsLiteral
  <2>4. QED
    BY <2>3 DEF Reads
<1>3. CASE ReadsRun(plain, F, s, t)
  <2>1. s.u + 1 \in (s.u + 1)..t.u /\ s.u + 2 \in (s.u + 1)..t.u /\ s.k # Bits
    BY <1>3, MomentTypes DEF ReadsRun
  <2>2. /\ G[s.u + 1] = F[s.u + 1] /\ G[s.u + 2] = F[s.u + 2]
        /\ Flag(G[s.g], s.k) = Flag(F[s.g], s.k)
    BY <2>1
  <2>3. ReadsRun(plain, G, s, t)
    BY <1>3, <2>2 DEF ReadsRun
  <2>4. QED
    BY <2>3 DEF Reads
<1>4. QED
  BY <1>1, <1>2, <1>3 DEF Reads

\* A unit stays in its group.
LEMMA SameGroup ==
    ASSUME NEW plain, NEW F, NEW s, NEW t, Reads(plain, F, s, t), s.k # Bits
    PROVE  t.g = s.g /\ t.k = s.k + 1 /\ (ReadsLiteral(plain, F, s, t) \/ ReadsRun(plain, F, s, t))
  BY DEF Reads, ReadsFlags, ReadsLiteral, ReadsRun

\* One moment more.
LEMMA MoreMoments ==
    ASSUME NEW plain, NEW F, NEW G, NEW R \in SUBSET Moment, NEW last \in R, NEW new \in Moment,
           Replays(plain, F, R, last),
           \A s \in R : Placed(plain, G, s), Placed(plain, G, new),
           Reads(plain, G, last, new),
           \A s, t \in R : Reads(plain, F, s, t) => Reads(plain, G, s, t)
    PROVE  Replays(plain, G, R \cup {new}, new)
<1>1. First \in R /\ \A s \in R : s = last \/ \E t \in R : Reads(plain, F, s, t)
  BY DEF Replays
<1>2. ASSUME NEW s \in R \cup {new}, s # new
      PROVE  \E t \in R \cup {new} : Reads(plain, G, s, t)
  <2>1. s \in R
    BY <1>2
  <2>2. CASE s = last
    BY <2>2
  <2>3. CASE s # last
    <3>1. PICK t \in R : Reads(plain, F, s, t)
      BY <1>1, <2>1, <2>3
    <3>2. Reads(plain, G, s, t)
      BY <2>1, <3>1
    <3>3. QED
      BY <3>2
  <2>4. QED
    BY <2>2, <2>3
<1>3. \A s \in R \cup {new} : Placed(plain, G, s)
  OBVIOUS
<1>4. QED
  BY <1>1, <1>2, <1>3 DEF Replays

\* A sequence with one element replaced.
LEMMA Replaced ==
    ASSUME NEW q \in Seq(Byte), NEW v \in Byte, NEW p \in 1..Len(q)
    PROVE  /\ [q EXCEPT ![p] = v] \in Seq(Byte) /\ Len([q EXCEPT ![p] = v]) = Len(q)
           /\ [q EXCEPT ![p] = v][p] = v
           /\ \A r \in 1..Len(q) : r # p => [q EXCEPT ![p] = v][r] = q[r]
  OBVIOUS

\* compress() written so far, as a sequence with its flag byte in place.
LEMMA FlaggedAt ==
    ASSUME EncoderInv
    PROVE  /\ Flagged \in Seq(Byte) /\ Len(Flagged) = Len(c) /\ Len(c) \in Nat
           /\ c # <<>> => /\ Flagged[n_pos] = n /\ n_pos \in 1..Len(c)
                          /\ \A p \in 1..Len(c) : p # n_pos => Flagged[p] = c[p]
<1>1. Flagged \in Seq(Byte) /\ Len(Flagged) = Len(c) /\ Len(c) \in Nat
  BY FlaggedBytes DEF EncoderInv
<1>2. ASSUME c # <<>>
      PROVE  /\ Flagged[n_pos] = n /\ n_pos \in 1..Len(c)
             /\ \A p \in 1..Len(c) : p # n_pos => Flagged[p] = c[p]
  <2>1. c \in Seq(Byte) /\ n \in Byte /\ n_pos \in 1..Len(c) /\ Flagged = [c EXCEPT ![n_pos] = n]
    BY <1>2 DEF EncoderInv, Flagged
  <2>2. QED
    BY <2>1, Replaced
<1>3. QED
  BY <1>1, <1>2

\* The same after a step.
LEMMA FlaggedThen ==
    ASSUME EncoderInv', c' # <<>>
    PROVE  /\ Flagged' \in Seq(Byte) /\ Len(Flagged') = Len(c') /\ Len(c') \in Nat
           /\ Flagged'[n_pos'] = n' /\ n_pos' \in 1..Len(c')
           /\ \A p \in 1..Len(c') : p # n_pos' => Flagged'[p] = c'[p]
<1>1. /\ c' \in Seq(Byte) /\ n' \in Byte /\ n_pos' \in 1..Len(c')
      /\ Flagged' = [c' EXCEPT ![n_pos'] = n']
  BY DEF EncoderInv, Flagged
<1>2. Len(c') \in Nat
  BY <1>1
<1>3. QED
  BY <1>1, <1>2, Replaced

\* A group that is started.
LEMMA GroupWritten ==
    ASSUME EncoderInv, EncoderInv', Written, StartGroup
    PROVE  Written'
<1> USE WidthAssumption
<1>1. PICK R \in SUBSET Moment : \E last \in R :
        Replays(body, Flagged, R, last) /\ Behind(R, last) /\ InStep(last)
  BY DEF Written
<1>2. PICK last \in R : Replays(body, Flagged, R, last) /\ Behind(R, last) /\ InStep(last)
  BY <1>1
<1>3. /\ Encoding /\ i = 0 /\ i' = 1 /\ c' = Append(Flagged, 0) /\ n_pos' = Len(c) + 1 /\ n' = 0
      /\ UNCHANGED <<phase, body, o_pos, x, px, p_pos>>
  BY DEF StartGroup
<1>4. last \in Moment /\ last.k = Bits /\ last.u = Len(c) /\ last.o = o_pos - Header
  <2>1. last \in Moment /\ UnitBit(i, last.k)
    BY <1>2 DEF InStep
  <2>2. QED
    BY <1>2, <1>3, <2>1, MomentTypes, NextBit DEF InStep
<1>5. /\ last.u \in Nat /\ last.o \in Nat /\ last.h \in Nat /\ last.d \in [Byte -> Int]
  BY <1>4, MomentTypes
<1>6. PICK new \in Moment :
        /\ new.u = last.u + 1 /\ new.o = last.o /\ new.d = last.d /\ new.h = last.h
        /\ new.g = last.u + 1 /\ new.k = 0
  <2> DEFINE m == [u |-> last.u + 1, o |-> last.o, d |-> last.d, h |-> last.h,
                   g |-> last.u + 1, k |-> 0]
  <2>1. m \in Moment
    BY <1>5 DEF Moment
  <2>2. QED
    BY <2>1
<1>7. /\ Flagged \in Seq(Byte) /\ Len(Flagged) = Len(c) /\ Len(c) \in Nat
      /\ Len(c') = Len(c) + 1 /\ c' # <<>> /\ c'[Len(c) + 1] = 0
      /\ \A p \in 1..Len(c) : c'[p] = Flagged[p]
  BY <1>3, FlaggedAt, ByteValues
<1>8. Len(Flagged') = Len(c) + 1 /\ \A p \in 1..Len(c) : Flagged'[p] = Flagged[p]
  BY <1>3, <1>7, FlaggedThen
<1>9. last.o < Len(body) /\ Len(body) \in Nat
  BY <1>3, <1>4, EncoderFacts
<1>10. \A s \in R : /\ s.u <= Len(c) /\ s.o <= Len(body) /\ s.g <= s.u /\ (s.k # Bits => s.g >= 1)
                    /\ s \in Moment
  BY <1>2, <1>7 DEF Replays, Placed
<1>11. Replays(body, Flagged', R \cup {new}, new)
  <2>1. ASSUME NEW s \in R PROVE Placed(body, Flagged', s)
    BY <1>7, <1>8, <1>10, MomentTypes DEF Placed
  <2>2. Placed(body, Flagged', new)
    BY <1>4, <1>5, <1>6, <1>8, <1>9 DEF Placed
  <2>3. Reads(body, Flagged', last, new)
    BY <1>4, <1>6, <1>9 DEF Reads, ReadsFlags
  <2>4. ASSUME NEW s \in R, NEW t \in R, Reads(body, Flagged, s, t)
        PROVE  Reads(body, Flagged', s, t)
    <3>1. /\ s \in Moment /\ t \in Moment /\ s.u \in Nat /\ t.u \in Nat /\ s.g \in Nat
          /\ t.u <= Len(c) /\ s.g <= Len(c)
      BY <1>7, <1>10, MomentTypes
    <3>2. \A p \in (s.u + 1)..t.u : Flagged'[p] = Flagged[p]
      BY <1>7, <1>8, <3>1
    <3>3. s.k # Bits => Flagged'[s.g] = Flagged[s.g]
      BY <1>7, <1>8, <1>10, <3>1
    <3>4. QED
      BY <2>4, <3>1, <3>2, <3>3, ReadsKept
  <2>5. QED
    BY <1>2, <2>1, <2>2, <2>3, <2>4, MoreMoments
<1>12. Behind(R \cup {new}, new)'
  <2>1. ASSUME NEW s \in R \cup {new}
        PROVE  s.g <= n_pos' /\ (s.g < n_pos' => s.u < n_pos') /\ (s.g = n_pos' => s.k <= new.k)
    <3>1. CASE s = new
      BY <1>3, <1>4, <1>5, <1>6, <3>1
    <3>2. CASE s \in R
      <4>1. s \in Moment /\ s.u <= Len(c) /\ s.g <= s.u /\ s.u \in Nat /\ s.g \in Nat
        BY <1>10, <3>2, MomentTypes
      <4>2. s.g < n_pos' /\ s.u < n_pos' /\ s.g # n_pos'
        BY <1>3, <1>7, <4>1
      <4>3. QED
        BY <1>3, <1>7, <4>1, <4>2
    <3>3. QED
      BY <3>1, <3>2
  <2>2. QED
    BY <2>1 DEF Behind
<1>13. InStep(new)'
  <2>1. FrameLength' = FrameLength /\ (AtTail' <=> AtTail)
    BY <1>3 DEF FrameLength, AtTail
  <2>2. UnitBit(i', new.k) /\ n' < TwoTo[new.k]
    BY <1>3, <1>6, Powers DEF UnitBit
  <2>3. new.u = Len(c') /\ new.o = o_pos' - Header /\ new.g = n_pos'
    BY <1>3, <1>4, <1>6, <1>7
  <2>4. new.h = IF p_pos' = 0 THEN new.o ELSE new.o - 1
    BY <1>2, <1>3, <1>6 DEF InStep
  <2>5. ~AtTail' => \A b \in Byte :
          new.d[b] = IF x'[b] = 0 THEN INVALID_OFFSET ELSE x'[b] - Header
    BY <1>2, <1>3, <1>6, <2>1 DEF InStep
  <2>6. UnitBit(i, new.k)' /\ c' # <<>>
    BY <1>7, <2>2 DEF UnitBit
  <2>7. QED
    BY <2>2, <2>3, <2>4, <2>5, <2>6 DEF InStep
<1>14. R \cup {new} \in SUBSET Moment /\ new \in R \cup {new}
  OBVIOUS
<1>15. Replays(body, Flagged, R \cup {new}, new)'
  BY <1>3, <1>11
<1>16. QED
  BY <1>12, <1>13, <1>14, <1>15 DEF Written

\* A unit that is written leaves the moments before it as they are: the flags
\* of the group's earlier units do not change.
LEMMA UnitMoment ==
    ASSUME EncoderInv, EncoderInv', i # 0,
           NEW R \in SUBSET Moment, NEW last \in R, NEW new \in Moment,
           Replays(body, Flagged, R, last), Behind(R, last), InStep(last),
           body' = body, n_pos' = n_pos, Len(c) < Len(c'), c' # <<>>,
           \A p \in 1..Len(c) : c'[p] = c[p], n' \in {n, n + i},
           new.u = Len(c'), new.o <= Len(body), new.g = last.g, new.k = last.k + 1,
           Reads(body, Flagged', last, new)
    PROVE  Replays(body, Flagged', R \cup {new}, new) /\ Behind(R \cup {new}, new)'
<1> USE WidthAssumption
<1>1. c # <<>> /\ n \in Nat /\ n_pos \in Nat
  BY ByteValues DEF EncoderInv, Byte
<1>2. last \in Moment /\ last.u = Len(c) /\ last.g = n_pos /\ n < TwoTo[last.k] /\ UnitBit(i, last.k)
  BY <1>1 DEF InStep
<1>3. last.k \in 0..Bits /\ last.k # Bits /\ i = TwoTo[last.k] /\ last.k \in Nat
  BY <1>2, MomentTypes, NextBit
<1>4. /\ Flagged \in Seq(Byte) /\ Len(Flagged) = Len(c) /\ Len(c) \in Nat
      /\ Flagged[n_pos] = n /\ n_pos \in 1..Len(c)
      /\ \A p \in 1..Len(c) : p # n_pos => Flagged[p] = c[p]
  BY <1>1, FlaggedAt
<1>5. /\ Len(Flagged') = Len(c') /\ Len(c') \in Nat /\ Flagged'[n_pos] = n'
      /\ \A p \in 1..Len(c) : p # n_pos => Flagged'[p] = Flagged[p]
  BY <1>4, FlaggedThen
<1>6. \A s \in R : /\ s \in Moment /\ s.u <= Len(c) /\ s.o <= Len(body) /\ s.g <= s.u
                   /\ (s.k # Bits => s.g >= 1)
  BY <1>4 DEF Replays, Placed
<1>7. \A s \in R : /\ s.g <= n_pos /\ (s.g < n_pos => s.u < n_pos)
                   /\ (s.g = n_pos => s.k <= last.k)
  BY DEF Behind
<1>8. ASSUME NEW s \in R PROVE Placed(body, Flagged', s)
  <2>1. s \in Moment /\ s.u \in Nat /\ s.u <= Len(c) /\ s.o <= Len(body) /\ s.g <= s.u
    BY <1>6, MomentTypes
  <2>2. s.u <= Len(Flagged')
    BY <1>4, <1>5, <2>1
  <2>3. QED
    BY <1>6, <2>1, <2>2 DEF Placed
<1>9. Placed(body, Flagged', new)
  BY <1>2, <1>4, <1>5 DEF Placed
<1>10. ASSUME NEW s \in R, NEW t \in R, Reads(body, Flagged, s, t)
       PROVE  Reads(body, Flagged', s, t)
  <2>1. /\ s \in Moment /\ t \in Moment /\ s.u \in Nat /\ t.u \in Nat /\ s.g \in Nat /\ s.k \in 0..Bits
        /\ t.u <= Len(c) /\ s.g <= s.u /\ (s.k # Bits => s.g >= 1) /\ s.k \in Nat /\ s.u <= Len(c)
    BY <1>6, MomentTypes
  <2>2. ASSUME s.k # Bits
        PROVE  /\ Flag(Flagged'[s.g], s.k) = Flag(Flagged[s.g], s.k)
               /\ \A p \in (s.u + 1)..t.u : Flagged'[p] = Flagged[p]
    <3>1. t.g = s.g /\ t.k = s.k + 1
      BY <1>10, <2>2, SameGroup
    <3>2. CASE s.g = n_pos
      <4>1. s.k < last.k
        BY <1>3, <1>7, <2>1, <3>1, <3>2
      <4>2. Flag(n', s.k) = Flag(n, s.k)
        <5>1. Flag(n + TwoTo[last.k], s.k) = Flag(n, s.k)
          BY <1>1, <1>2, <1>3, <2>1, <4>1, FlagsKept
        <5>2. QED
          BY <1>3, <5>1
      <4>3. \A p \in (s.u + 1)..t.u : p \in 1..Len(c) /\ p # n_pos
        BY <1>4, <2>1, <3>2
      <4>4. QED
        BY <1>4, <1>5, <3>2, <4>2, <4>3
    <3>3. CASE s.g < n_pos
      <4>1. t.u < n_pos
        BY <1>7, <3>1, <3>3
      <4>2. \A p \in (s.u + 1)..t.u : p \in 1..Len(c) /\ p # n_pos
        BY <1>4, <2>1, <4>1
      <4>3. s.g \in 1..Len(c) /\ s.g # n_pos
        BY <1>4, <2>1, <2>2, <3>3
      <4>4. QED
        BY <1>5, <4>2, <4>3
    <3>4. QED
      BY <1>1, <1>7, <2>1, <3>2, <3>3
  <2>3. QED
    BY <1>10, <2>1, <2>2, ReadsKept
<1>11. Replays(body, Flagged', R \cup {new}, new)
  BY <1>8, <1>9, <1>10, MoreMoments
<1>12. ASSUME NEW s \in R \cup {new}
       PROVE  s.g <= n_pos' /\ (s.g < n_pos' => s.u < n_pos') /\ (s.g = n_pos' => s.k <= new.k)
  <2>1. CASE s = new
    BY <1>1, <1>2, <2>1, MomentTypes
  <2>2. CASE s \in R
    <3>1. s \in Moment /\ s.k \in Nat
      BY <1>6, <2>2, MomentTypes
    <3>2. QED
      BY <1>3, <1>7, <2>2, <3>1
  <2>3. QED
    BY <2>1, <2>2
<1>13. QED
  BY <1>11, <1>12 DEF Behind

\* The decoder enters the last literal's pair when the encoder does.
LEMMA LastPair ==
    ASSUME EncoderInv, Encoding, PairInv, EntryInv, ~AtTail,
           NEW d \in [Byte -> Int], NEW o \in Int, NEW h \in Int,
           o = o_pos - Header, h = IF p_pos = 0 THEN o ELSE o - 1,
           \A e \in Byte : d[e] = IF x[e] = 0 THEN INVALID_OFFSET ELSE x[e] - Header,
           NEW b \in Byte
    PROVE  Entries(body, d, h, o)[b] = IF Entered[b] = 0 THEN INVALID_OFFSET ELSE Entered[b] - Header
<1>1. Entered[b] = IF p_pos # 0 /\ b = px THEN p_pos ELSE x[b]
  BY EnteredFacts
<1>2. CASE p_pos = 0
  <2>1. Entries(body, d, h, h)[b] = d[b] /\ h = o
    BY <1>2, NoEntries
  <2>2. QED
    BY <1>1, <1>2, <2>1
<1>3. CASE p_pos # 0
  <2>1. /\ o_pos \in Nat /\ Header \in Nat /\ Header >= 1 /\ Header <= o_pos /\ FrameLength \in Nat
        /\ o_pos + 3 <= FrameLength
    BY EncoderFacts
  <2>2. p_pos = o_pos - 1 /\ p_pos >= Header /\ p_pos \in Nat
    BY <1>3 DEF PairInv
  <2>3. px = Hash(At(p_pos), At(p_pos + 1))
    BY <1>3, <2>1, <2>2 DEF PairInv
  <2>4. o = h + 1 /\ p_pos - Header = h
    BY <1>3, <2>1, <2>2
  <2>5. At(p_pos) = body[h + 1] /\ At(p_pos + 1) = body[h + 2]
    <3>1. (p_pos - Header) + 1 = h + 1 /\ ((p_pos + 1) - Header) + 1 = h + 2
      BY <2>1, <2>2, <2>4
    <3>2. At(p_pos) = body[(p_pos - Header) + 1] /\ At(p_pos + 1) = body[((p_pos + 1) - Header) + 1]
      BY DEF At
    <3>3. QED
      BY <3>1, <3>2
  <2>6. /\ Hash(body[h + 1], body[h + 2]) = b => Entries(body, d, h, o)[b] = h
        /\ Hash(body[h + 1], body[h + 2]) # b => Entries(body, d, h, o)[b] = Entries(body, d, h, h)[b]
    <3>1. h >= h
      OBVIOUS
    <3>2. QED
      BY <2>4, <3>1, OneEntry
  <2>7. Entries(body, d, h, h)[b] = d[b]
    BY NoEntries
  <2>8. Entries(body, d, h, o)[b] = IF px = b THEN h ELSE d[b]
    BY <2>3, <2>4, <2>5, <2>6, <2>7
  <2>9. QED
    BY <1>1, <1>3, <2>1, <2>2, <2>4, <2>8
<1>4. QED
  BY <1>2, <1>3

\* A literal that is written.
LEMMA LiteralWritten ==
    ASSUME EncoderInv, EncoderInv', PairInv, EntryInv, Written, EncodeLiteral
    PROVE  Written'
<1> USE WidthAssumption
<1>1. PICK R \in SUBSET Moment : \E last \in R :
        Replays(body, Flagged, R, last) /\ Behind(R, last) /\ InStep(last)
  BY DEF Written
<1>2. PICK last \in R : Replays(body, Flagged, R, last) /\ Behind(R, last) /\ InStep(last)
  BY <1>1
<1>3. /\ Encoding /\ i # 0 /\ x' = Entered /\ px' = cx /\ p_pos' = o_pos
      /\ c' = Append(c, At(o_pos)) /\ o_pos' = o_pos + 1 /\ i' = (2 * i) % TwoTo[Bits]
      /\ UNCHANGED <<body, n_pos, n>>
  BY DEF EncodeLiteral
<1>4. /\ c # <<>> /\ c \in Seq(Byte) /\ Len(c) \in Nat /\ n \in Nat /\ n_pos \in 1..Len(c)
  BY <1>3, ByteValues DEF EncoderInv, Byte
<1>5. /\ last \in Moment /\ last.u = Len(c) /\ last.o = o_pos - Header /\ last.g = n_pos
      /\ n < TwoTo[last.k] /\ UnitBit(i, last.k)
      /\ last.h = IF p_pos = 0 THEN last.o ELSE last.o - 1
  BY <1>2, <1>4 DEF InStep
<1>6. /\ last.u \in Nat /\ last.o \in Nat /\ last.h \in Nat /\ last.g \in Nat /\ last.k \in 0..Bits
      /\ last.d \in [Byte -> Int]
  BY <1>5, MomentTypes
<1>7. /\ last.k # Bits /\ last.k + 1 \in 0..Bits /\ i = TwoTo[last.k] /\ UnitBit(i', last.k + 1)
      /\ TwoTo[last.k + 1] = 2 * TwoTo[last.k] /\ TwoTo[last.k] \in Nat
  <2>1. PICK k \in 0..Bits : k = last.k
    BY <1>6
  <2>2. UnitBit(i, k)
    BY <1>5, <2>1
  <2>3. /\ k # Bits /\ k + 1 \in 1..Bits /\ UnitBit((2 * i) % TwoTo[Bits], k + 1)
        /\ i = TwoTo[k] /\ TwoTo[k + 1] = 2 * TwoTo[k]
    BY <1>3, <2>2, NextBit
  <2>4. TwoTo[k] \in Nat
    BY Growing
  <2>5. QED
    BY <1>3, <2>1, <2>3, <2>4
<1>a. /\ o_pos \in Nat /\ Header \in Nat /\ Header >= 1 /\ Header <= o_pos /\ FrameLength \in Nat
      /\ (~AtTail <=> o_pos + 3 <= FrameLength)
  BY <1>3, EncoderFacts
<1>b. PICK d \in [Byte -> Int], o \in Int, h \in Int : d = last.d /\ o = last.o /\ h = last.h
  BY <1>6
<1> DEFINE D == Entries(body, d, h, o)
<1>8. D \in [Byte -> Int]
  BY EntriesType
<1>9. PICK new \in Moment :
        /\ new.u = last.u + 1 /\ new.o = last.o + 1 /\ new.d = D /\ new.h = last.o
        /\ new.g = last.g /\ new.k = last.k + 1
  <2> HIDE DEF D
  <2> DEFINE m == [u |-> last.u + 1, o |-> last.o + 1, d |-> D, h |-> last.o,
                   g |-> last.g, k |-> last.k + 1]
  <2>1. m \in Moment
    BY <1>6, <1>7, <1>8 DEF Moment
  <2>2. QED
    BY <2>1
<1>10. /\ Len(c') = Len(c) + 1 /\ c' # <<>> /\ c'[Len(c) + 1] = At(o_pos)
       /\ \A p \in 1..Len(c) : c'[p] = c[p]
  BY <1>3, <1>4, BodyBytes, SMTT(40)
<1>11. last.o < Len(body) /\ Len(body) \in Nat /\ At(o_pos) = body[last.o + 1] /\ last.o + 1 <= Len(body)
  <2>1. Len(body) \in Nat /\ FrameLength = Header + Len(body) /\ o_pos < FrameLength
    BY <1>3, EncoderFacts
  <2>2. At(o_pos) = body[o_pos - Header + 1]
    BY DEF At
  <2>3. last.o < Len(body) /\ last.o + 1 <= Len(body)
    BY <1>5, <1>a, <2>1
  <2>4. QED
    BY <1>5, <2>1, <2>2, <2>3
<1>12. Reads(body, Flagged', last, new)
  <2>1. Flagged'[n_pos] = n /\ Flagged'[last.u + 1] = body[last.o + 1]
    <3>1. Len(c) + 1 \in 1..Len(c') /\ Len(c) + 1 # n_pos'
      BY <1>3, <1>4, <1>10
    <3>2. Flagged'[n_pos'] = n' /\ Flagged'[Len(c) + 1] = c'[Len(c) + 1]
      BY <1>10, <3>1, FlaggedThen
    <3>3. QED
      BY <1>3, <1>5, <1>10, <1>11, <3>2
  <2>2. Flag(n, last.k) = 0
    BY <1>4, <1>5, <1>6, <1>7, FlagsKept
  <2>3. ReadsLiteral(body, Flagged', last, new)
    BY <1>5, <1>7, <1>9, <1>b, <2>1, <2>2 DEF ReadsLiteral
  <2>4. QED
    BY <1>11, <2>3 DEF Reads
<1>13. Replays(body, Flagged', R \cup {new}, new) /\ Behind(R \cup {new}, new)'
  <2>1. Len(c) < Len(c') /\ new.u = Len(c') /\ new.o <= Len(body)
    BY <1>4, <1>5, <1>9, <1>10, <1>11
  <2>2. body' = body /\ n_pos' = n_pos /\ n' \in {n, n + i}
    BY <1>3
  <2>3. QED
    BY <1>2, <1>3, <1>9, <1>10, <1>12, <2>1, <2>2, UnitMoment
<1>14. InStep(new)'
  <2>1. UnitBit(i, new.k)' /\ n' < TwoTo[new.k]
    <3>1. UnitBit(i', new.k)
      BY <1>7, <1>9
    <3>2. n' < TwoTo[new.k]
      BY <1>3, <1>4, <1>5, <1>7, <1>9, SMTT(40)
    <3>3. QED
      BY <3>1, <3>2 DEF UnitBit
  <2>2. new.u = Len(c') /\ new.o = o_pos' - Header /\ new.g = n_pos'
    BY <1>3, <1>4, <1>5, <1>9, <1>10, EncoderFacts
  <2>3. new.h = IF p_pos' = 0 THEN new.o ELSE new.o - 1
    BY <1>3, <1>6, <1>9, <1>a, SMTT(40)
  <2>4. ASSUME ~AtTail', NEW b \in Byte
        PROVE  new.d[b] = IF x'[b] = 0 THEN INVALID_OFFSET ELSE x'[b] - Header
    <3>1. ~AtTail
      <4>1. FrameLength' = FrameLength
        BY <1>3 DEF FrameLength
      <4>2. QED
        BY <1>3, <1>a, <2>4, <4>1 DEF AtTail
    <3>2. /\ \A e \in Byte : d[e] = IF x[e] = 0 THEN INVALID_OFFSET ELSE x[e] - Header
          /\ o = o_pos - Header /\ h = IF p_pos = 0 THEN o ELSE o - 1
      BY <1>2, <1>5, <1>b, <3>1 DEF InStep
    <3>3. Entries(body, d, h, o)[b] = IF Entered[b] = 0 THEN INVALID_OFFSET ELSE Entered[b] - Header
      BY <1>3, <3>1, <3>2, LastPair, SMTT(40)
    <3>4. QED
      BY <1>3, <1>9, <3>3
  <2>5. QED
    BY <1>10, <2>1, <2>2, <2>3, <2>4 DEF InStep
<1>15. R \cup {new} \in SUBSET Moment /\ new \in R \cup {new}
  OBVIOUS
<1>16. Replays(body, Flagged, R \cup {new}, new)'
  BY <1>3, <1>13
<1>17. QED
  BY <1>13, <1>14, <1>15, <1>16 DEF Written

\* A reference that is written.
LEMMA ReferenceWritten ==
    ASSUME EncoderInv, EncoderInv', PairInv, EntryInv, Written, EncodeReference
    PROVE  Written'
<1> USE WidthAssumption
<1>1. PICK R \in SUBSET Moment : \E last \in R :
        Replays(body, Flagged, R, last) /\ Behind(R, last) /\ InStep(last)
  BY DEF Written
<1>2. PICK last \in R : Replays(body, Flagged, R, last) /\ Behind(R, last) /\ InStep(last)
  BY <1>1
<1>3. /\ Encoding /\ i # 0 /\ Known /\ p_pos' = 0 /\ n' = n + i
      /\ c' = c \o <<cx, Extra>> /\ o_pos' = o_pos + 2 + Extra /\ i' = (2 * i) % TwoTo[Bits]
      /\ UNCHANGED <<body, n_pos>>
  BY DEF EncodeReference
<1>4. /\ c # <<>> /\ c \in Seq(Byte) /\ Len(c) \in Nat /\ n \in Nat /\ n_pos \in 1..Len(c)
  BY <1>3, ByteValues DEF EncoderInv, Byte
<1>5. /\ last \in Moment /\ last.u = Len(c) /\ last.o = o_pos - Header /\ last.g = n_pos
      /\ n < TwoTo[last.k] /\ UnitBit(i, last.k)
      /\ last.h = IF p_pos = 0 THEN last.o ELSE last.o - 1
  BY <1>2, <1>4 DEF InStep
<1>6. /\ last.u \in Nat /\ last.o \in Nat /\ last.h \in Nat /\ last.g \in Nat /\ last.k \in 0..Bits
      /\ last.d \in [Byte -> Int]
  BY <1>5, MomentTypes
<1>7. /\ last.k # Bits /\ last.k + 1 \in 0..Bits /\ i = TwoTo[last.k] /\ UnitBit(i', last.k + 1)
      /\ TwoTo[last.k + 1] = 2 * TwoTo[last.k] /\ TwoTo[last.k] \in Nat
  <2>1. PICK k \in 0..Bits : k = last.k
    BY <1>6
  <2>2. UnitBit(i, k)
    BY <1>5, <2>1
  <2>3. /\ k # Bits /\ k + 1 \in 1..Bits /\ UnitBit((2 * i) % TwoTo[Bits], k + 1)
        /\ i = TwoTo[k] /\ TwoTo[k + 1] = 2 * TwoTo[k]
    BY <1>3, <2>2, NextBit
  <2>4. TwoTo[k] \in Nat
    BY Growing
  <2>5. QED
    BY <1>3, <2>1, <2>3, <2>4
<1>a. /\ o_pos \in Nat /\ Header \in Nat /\ Header >= 1 /\ Header <= o_pos /\ FrameLength \in Nat
      /\ ~AtTail /\ cx \in Byte /\ cx = Hash(At(o_pos), At(o_pos + 1))
      /\ Len(body) \in Nat /\ FrameLength = Header + Len(body) /\ o_pos < FrameLength
  BY <1>3, EncoderFacts DEF Known
<1>b. PICK d \in [Byte -> Int], o \in Int, h \in Int : d = last.d /\ o = last.o /\ h = last.h
  BY <1>6
<1>c. /\ \A e \in Byte : d[e] = IF x[e] = 0 THEN INVALID_OFFSET ELSE x[e] - Header
      /\ o = o_pos - Header /\ h = IF p_pos = 0 THEN o ELSE o - 1
  BY <1>2, <1>5, <1>a, <1>b DEF InStep
<1>d. Extra \in Byte /\ Extra \in Nat /\ o_pos + 2 + Extra <= FrameLength
  BY <1>3, RunFits, ByteValues DEF Byte
<1> DEFINE D == Entries(body, d, h, o + 1)
<1>8. D \in [Byte -> Int]
  <2>1. o + 1 \in Int
    OBVIOUS
  <2>2. QED
    BY <2>1, EntriesType
<1>9. PICK new \in Moment :
        /\ new.u = last.u + 2 /\ new.o = last.o + Extra + 2 /\ new.d = D /\ new.h = new.o
        /\ new.g = last.g /\ new.k = last.k + 1
  <2> HIDE DEF D
  <2> DEFINE m == [u |-> last.u + 2, o |-> last.o + Extra + 2, d |-> D, h |-> last.o + Extra + 2,
                   g |-> last.g, k |-> last.k + 1]
  <2>1. m \in Moment
    BY <1>6, <1>7, <1>8, <1>d DEF Moment
  <2>2. QED
    BY <2>1
<1>10. /\ Len(c') = Len(c) + 2 /\ c' # <<>> /\ c'[Len(c) + 1] = cx /\ c'[Len(c) + 2] = Extra
       /\ \A p \in 1..Len(c) : c'[p] = c[p]
  BY <1>3, <1>4, <1>a, <1>d, SMTT(40)
<1>11. last.o < Len(body) /\ new.o <= Len(body)
  BY <1>5, <1>9, <1>a, <1>d
<1>12. Reads(body, Flagged', last, new)
  <2>1. /\ Flagged'[last.g] = n + TwoTo[last.k] /\ Flagged'[last.u + 1] = cx
        /\ Flagged'[last.u + 2] = Extra
    <3>1. /\ Len(c) + 1 \in 1..Len(c') /\ Len(c) + 1 # n_pos'
          /\ Len(c) + 2 \in 1..Len(c') /\ Len(c) + 2 # n_pos'
      BY <1>3, <1>4, <1>10
    <3>2. /\ Flagged'[n_pos'] = n' /\ Flagged'[Len(c) + 1] = c'[Len(c) + 1]
          /\ Flagged'[Len(c) + 2] = c'[Len(c) + 2]
      BY <1>10, <3>1, FlaggedThen
    <3>3. QED
      BY <1>3, <1>5, <1>7, <1>10, <3>2
  <2>2. Flag(n + TwoTo[last.k], last.k) = 1
    BY <1>4, <1>5, <1>6, <1>7, FlagsKept
  <2>3. /\ x[cx] # 0 /\ x[cx] \in Nat /\ Header <= x[cx] /\ x[cx] + 2 <= o_pos
        /\ SameRun(body, x[cx] - Header, o_pos - Header, Extra + 2)
    BY <1>3, KnownRun
  <2>4. last.d[cx] = x[cx] - Header
    BY <1>a, <1>b, <1>c, <2>3
  <2>5. last.d[cx] >= 0 /\ last.d[cx] + 2 <= last.o /\ SameRun(body, last.d[cx], last.o, Extra + 2)
    BY <1>5, <1>a, <2>3, <2>4
  <2>6. ReadsRun(body, Flagged', last, new)
    BY <1>7, <1>9, <1>b, <2>1, <2>2, <2>5 DEF ReadsRun
  <2>7. QED
    BY <1>11, <2>6 DEF Reads
<1>13. Replays(body, Flagged', R \cup {new}, new) /\ Behind(R \cup {new}, new)'
  <2>1. Len(c) < Len(c') /\ new.u = Len(c') /\ new.o <= Len(body)
    BY <1>4, <1>5, <1>9, <1>10, <1>11
  <2>2. body' = body /\ n_pos' = n_pos /\ n' \in {n, n + i}
    BY <1>3
  <2>3. QED
    BY <1>2, <1>3, <1>9, <1>10, <1>12, <2>1, <2>2, UnitMoment
<1>14. InStep(new)'
  <2>1. UnitBit(i, new.k)' /\ n' < TwoTo[new.k]
    <3>1. UnitBit(i', new.k)
      BY <1>7, <1>9
    <3>2. n' < TwoTo[new.k]
      <4>1. PICK w \in Nat : w = TwoTo[last.k]
        BY <1>7
      <4>2. n < w /\ n' = n + w /\ TwoTo[new.k] = 2 * w
        BY <1>3, <1>5, <1>7, <1>9, <4>1
      <4>3. QED
        BY <1>4, <4>1, <4>2
    <3>3. QED
      BY <3>1, <3>2 DEF UnitBit
  <2>2. new.u = Len(c') /\ new.o = o_pos' - Header /\ new.g = n_pos'
    BY <1>3, <1>4, <1>5, <1>9, <1>10, <1>a, <1>d
  <2>3. new.h = IF p_pos' = 0 THEN new.o ELSE new.o - 1
    BY <1>3, <1>9
  <2>4. ASSUME NEW b \in Byte
        PROVE  new.d[b] = IF x'[b] = 0 THEN INVALID_OFFSET ELSE x'[b] - Header
    <3>1. Entries(body, d, h, o)[b] = IF Entered[b] = 0 THEN INVALID_OFFSET ELSE Entered[b] - Header
      BY <1>3, <1>a, <1>c, LastPair, ZenonT(60)
    <3>2. o >= h
      BY <1>c
    <3>3. /\ Hash(body[o + 1], body[o + 2]) = b => D[b] = o
          /\ Hash(body[o + 1], body[o + 2]) # b => D[b] = Entries(body, d, h, o)[b]
      <4>1. PICK w \in Int : w = o + 1
        OBVIOUS
      <4>2. /\ Hash(body[o + 1], body[o + 2]) = b => Entries(body, d, h, w)[b] = o
            /\ Hash(body[o + 1], body[o + 2]) # b => Entries(body, d, h, w)[b] = Entries(body, d, h, o)[b]
        <5> HIDE DEF D
        <5>1. o \in Int /\ h \in Int /\ w \in Int /\ o >= h /\ w = o + 1 /\ d \in [Byte -> Int] /\ b \in Byte
          BY <3>2, <4>1
        <5>2. Hash(body[o + 1], body[o + 2]) = b => Entries(body, d, h, w)[b] = o
          <6>1. PICK y : y = Entries(body, d, h, o)[b]
            OBVIOUS
          <6>2. QED
            BY <5>1, <6>1, OneEntry
        <5>3. Hash(body[o + 1], body[o + 2]) # b => Entries(body, d, h, w)[b] = Entries(body, d, h, o)[b]
          BY <5>1, OneEntry
        <5>4. QED
          BY <5>2, <5>3
      <4>3. QED
        BY <4>1, <4>2
    <3>4. At(o_pos) = body[o + 1] /\ At(o_pos + 1) = body[o + 2]
      <4>1. (o_pos - Header) + 1 = o + 1 /\ ((o_pos + 1) - Header) + 1 = o + 2
        BY <1>a, <1>c
      <4>2. At(o_pos) = body[(o_pos - Header) + 1] /\ At(o_pos + 1) = body[((o_pos + 1) - Header) + 1]
        BY DEF At
      <4>3. QED
        BY <4>1, <4>2
    <3>5. x'[b] = IF b = cx THEN o_pos ELSE Entered[b]
      BY ReferencePairs
    <3>6. new.d[b] = IF b = cx THEN o ELSE Entries(body, d, h, o)[b]
      BY <1>9, <1>a, <3>3, <3>4
    <3>7. QED
      BY <1>a, <1>c, <3>1, <3>5, <3>6
  <2>5. QED
    BY <1>10, <2>1, <2>2, <2>3, <2>4 DEF InStep
<1>15. R \cup {new} \in SUBSET Moment /\ new \in R \cup {new}
  OBVIOUS
<1>16. Replays(body, Flagged, R \cup {new}, new)'
  BY <1>3, <1>13
<1>17. QED
  BY <1>13, <1>14, <1>15, <1>16 DEF Written

(***************************************************************************)
(* decompress(): from one moment to the next.                              *)
(***************************************************************************)
\* Where the destination agrees with the body, the same pairs are entered.
LEMMA SamePairs ==
    ASSUME NEW bytes, NEW from \in Nat, NEW to \in Int,
           \A p \in from..(to - 1) : bytes[p + 1] = body[p + 1] /\ bytes[p + 2] = body[p + 2]
    PROVE  Hashed(bytes, from, to) = Entries(body, dict, from, to)
<1> DEFINE at(q, h) == {p \in from..(to - 1) : Hash(q[p + 1], q[p + 2]) = h}
           max(S) == CHOOSE p \in S : \A q \in S : q <= p
           e(q, h) == IF at(q, h) = {} THEN dict[h] ELSE max(at(q, h))
<1>1. Hashed(bytes, from, to) = [h \in Byte |-> e(bytes, h)]
  BY DEF Hashed
<1>2. Entries(body, dict, from, to) = [h \in Byte |-> e(body, h)]
  BY DEF Entries
<1>3. ASSUME NEW h \in Byte PROVE at(bytes, h) = at(body, h)
  OBVIOUS
<1> HIDE DEF at, max
<1>4. \A h \in Byte : e(bytes, h) = e(body, h)
  BY <1>3
<1> HIDE DEF e
<1>5. QED
  BY <1>1, <1>2, <1>4

\* Taking a whole divisor away leaves the remainder.
LEMMA Remainder ==
    ASSUME NEW m \in Nat, NEW w \in Nat, w > 0
    PROVE  /\ m < w => m % w = m
           /\ m >= w => (m - w) % w = m % w
<1>1. ASSUME m >= w PROVE (m - w) % w = m % w
  <2>1. PICK q \in Nat, r \in Nat : m = q * w + r /\ r < w /\ q = m \div w
    OBVIOUS
  <2>2. m - w = (q - 1) * w + r
    BY <2>1
  <2>3. (m - w) % w = r
    BY <1>1, <2>1, <2>2
  <2>4. m % w = r
    BY <2>1
  <2>5. QED
    BY <2>3, <2>4
<1>2. QED
  BY <1>1

\* A run that overlaps its source repeats the bytes in between.
LEMMA Repeats ==
    ASSUME NEW plain, NEW a \in Nat, NEW o \in Nat, NEW w \in Nat, w > 0, o = a + w,
           NEW length \in Nat, SameRun(plain, a, o, length)
    PROVE  \A j \in 0..(length - 1) : plain[o + 1 + j] = plain[a + 1 + (j % w)]
<1> DEFINE S == {m \in Nat : \A j \in 0..m : j < length => plain[o + 1 + j] = plain[a + 1 + (j % w)]}
<1>1. \A j \in 0..(length - 1) : plain[o + 1 + j] = plain[a + 1 + j]
  BY DEF SameRun
<1>2. ASSUME NEW j \in Nat, j < w, j < length PROVE plain[o + 1 + j] = plain[a + 1 + (j % w)]
  <2>1. j % w = j /\ j \in 0..(length - 1)
    BY <1>2, Remainder
  <2>2. plain[o + 1 + j] = plain[a + 1 + j]
    BY <1>1, <2>1
  <2>3. QED
    BY <2>1, <2>2
<1>3. 0 \in S
  BY <1>2
<1>4. ASSUME NEW m \in Nat, m \in S PROVE m + 1 \in S
  <2> SUFFICES ASSUME m + 1 < length
               PROVE  plain[o + 1 + (m + 1)] = plain[a + 1 + ((m + 1) % w)]
    BY <1>4
  <2>1. CASE m + 1 < w
    BY <1>2, <2>1
  <2>2. CASE m + 1 >= w
    <3>1. PICK l \in Nat : l = m + 1 - w /\ l \in 0..m /\ l < length
      BY <2>2
    <3>2. plain[o + 1 + (m + 1)] = plain[a + 1 + (m + 1)]
      <4>1. PICK j \in 0..(length - 1) : j = m + 1
        OBVIOUS
      <4>2. plain[o + 1 + j] = plain[a + 1 + j]
        BY <1>1
      <4>3. QED
        BY <4>1, <4>2
    <3>3. a + 1 + (m + 1) = o + 1 + l
      BY <3>1
    <3>4. plain[o + 1 + l] = plain[a + 1 + (l % w)]
      BY <1>4, <3>1
    <3>5. l % w = (m + 1) % w
      BY <2>2, <3>1, Remainder
    <3>6. QED
      BY <3>2, <3>3, <3>4, <3>5
  <2>3. QED
    BY <2>1, <2>2
<1>5. \A m \in Nat : m \in S
  <2> HIDE DEF S
  <2>1. QED
    BY <1>3, <1>4, SetInduction
<1>6. QED
  BY <1>5

\* While there is output to come there is a moment to come.
LEMMA Coming ==
    ASSUME DecoderInv, Reading, Decoding
    PROVE  \E R \in SUBSET Moment : \E last \in R : \E s \in R : \E t \in R :
             /\ Replays(body, vec, R, last) /\ last.u = Len(vec) /\ last.o = Len(body)
             /\ AtMoment(s) /\ Reads(body, vec, s, t)
<1>1. PICK R \in SUBSET Moment : \E last \in R :
        /\ Replays(body, vec, R, last) /\ last.u = Len(vec) /\ last.o = Len(body)
        /\ \E s \in R : AtMoment(s)
  BY DEF Reading
<1>2. PICK last \in R :
        /\ Replays(body, vec, R, last) /\ last.u = Len(vec) /\ last.o = Len(body)
        /\ \E s \in R : AtMoment(s)
  BY <1>1
<1>3. PICK s \in R : AtMoment(s)
  BY <1>2
<1>4. s # last
  <2>1. s.o = out /\ out < Len(de_vec) /\ Len(de_vec) = Len(body) /\ out \in Nat
    BY <1>3 DEF AtMoment, Decoding, Reading, DecoderInv
  <2>2. QED
    BY <1>2, <2>1
<1>5. PICK t \in R : Reads(body, vec, s, t)
  BY <1>2, <1>4 DEF Replays
<1>6. QED
  BY <1>2, <1>3, <1>5

\* decompress() takes what it meets for what it is, and it is all there.
LEMMA UnitKind ==
    ASSUME NEW s \in Moment, NEW t \in Moment, AtMoment(s), Reads(body, vec, s, t)
    PROVE  /\ mask = 0 => ReadsFlags(s, t)
           /\ mask # 0 /\ ~IsReference => ReadsLiteral(body, vec, s, t)
           /\ mask # 0 /\ IsReference => ReadsRun(body, vec, s, t)
           /\ t.u = used + UnitBytes
<1>1. /\ ReadsFlags(s, t) \/ ReadsLiteral(body, vec, s, t) \/ ReadsRun(body, vec, s, t)
      /\ UnitBit(mask, s.k) /\ used = s.u /\ (s.k # Bits => flags = vec[s.g])
  BY DEF Reads, AtMoment
<1>2. PICK k \in 0..Bits : k = s.k
  BY MomentTypes
<1>3. UnitBit(mask, k)
  BY <1>1, <1>2
<1>4. (mask = 0 <=> k = Bits) /\ (mask # 0 => mask = TwoTo[k])
  BY <1>3, NextBit
<1>5. CASE mask = 0
  <2>1. s.k = Bits
    BY <1>2, <1>4, <1>5
  <2>2. ReadsFlags(s, t)
    BY <1>1, <2>1 DEF ReadsLiteral, ReadsRun
  <2>3. QED
    BY <1>1, <1>5, <2>2 DEF ReadsFlags, UnitBytes
<1>6. CASE mask # 0
  <2>1. s.k # Bits /\ Flag(vec[s.g], s.k) = (flags \div mask) % 2
    BY <1>1, <1>2, <1>4, <1>6 DEF Flag
  <2>2. IsReference <=> Flag(vec[s.g], s.k) = 1
    BY <2>1 DEF IsReference
  <2>3. ~ReadsFlags(s, t)
    BY <2>1 DEF ReadsFlags
  <2>4. CASE IsReference
    <3>1. ReadsRun(body, vec, s, t)
      BY <1>1, <2>2, <2>3, <2>4 DEF ReadsLiteral
    <3>2. QED
      BY <1>1, <1>6, <2>4, <3>1 DEF ReadsRun, UnitBytes
  <2>5. CASE ~IsReference
    <3>1. ReadsLiteral(body, vec, s, t)
      BY <1>1, <2>2, <2>3, <2>5 DEF ReadsRun
    <3>2. QED
      BY <1>1, <1>6, <2>5, <3>1 DEF ReadsLiteral, UnitBytes
  <2>6. QED
    BY <2>4, <2>5
<1>7. QED
  BY <1>5, <1>6

\* The step to the next moment.
LEMMA Advances ==
    ASSUME NEW R \in SUBSET Moment, NEW last \in R, NEW t \in R,
           Replays(body, vec, R, last), last.u = Len(vec), last.o = Len(body),
           body' = body, vec' = vec, Len(de_vec') = Len(body),
           \A p \in 1..out' : de_vec'[p] = body[p], AtMoment(t)'
    PROVE  Reading'
<1>1. Replays(body, vec, R, last)' /\ last.u = Len(vec)' /\ last.o = Len(body)'
  OBVIOUS
<1>2. QED
  BY <1>1 DEF Reading

\* A flag byte that is taken.
LEMMA FlagsRead ==
    ASSUME DecoderInv, Reading, TakeFlags
    PROVE  Reading'
<1> USE WidthAssumption
<1>1. /\ Decoding /\ mask = 0 /\ flags' = vec[used + 1] /\ used' = used + 1 /\ mask' = 1
      /\ UNCHANGED <<body, vec, de_vec, out, dict, hashed>>
  BY DEF TakeFlags, encoder
<1>2. PICK R \in SUBSET Moment : \E last \in R : \E s \in R : \E t \in R :
        /\ Replays(body, vec, R, last) /\ last.u = Len(vec) /\ last.o = Len(body)
        /\ AtMoment(s) /\ Reads(body, vec, s, t)
  BY <1>1, Coming
<1>3. PICK last \in R : \E s \in R : \E t \in R :
        /\ Replays(body, vec, R, last) /\ last.u = Len(vec) /\ last.o = Len(body)
        /\ AtMoment(s) /\ Reads(body, vec, s, t)
  BY <1>2
<1>4. PICK s \in R, t \in R : AtMoment(s) /\ Reads(body, vec, s, t)
  BY <1>3
<1>5. s \in Moment /\ t \in Moment
  OBVIOUS
<1>6. ReadsFlags(s, t)
  BY <1>1, <1>4, <1>5, UnitKind
<1>7. UnitBit(mask', t.k)
  BY <1>1, <1>6, Powers DEF ReadsFlags, UnitBit
<1>8. AtMoment(t)'
  BY <1>1, <1>4, <1>6, <1>7 DEF AtMoment, ReadsFlags, UnitBit
<1>9. Len(de_vec') = Len(body) /\ \A p \in 1..out' : de_vec'[p] = body[p]
  BY <1>1 DEF Reading
<1>10. QED
  BY <1>1, <1>3, <1>8, <1>9, Advances

\* A literal that is decoded.
LEMMA LiteralRead ==
    ASSUME DecoderInv, Reading, DecodeLiteral
    PROVE  Reading'
<1> USE WidthAssumption
<1>1. /\ Decoding /\ mask # 0 /\ ~IsReference /\ used' = used + 1 /\ out' = out + 1 /\ hashed' = out
      /\ de_vec' = [de_vec EXCEPT ![out + 1] = vec[used + 1]]
      /\ dict' = Hashed(de_vec', hashed, out) /\ mask' = (2 * mask) % TwoTo[Bits]
      /\ UNCHANGED <<body, vec, flags>>
  BY DEF DecodeLiteral, encoder
<1>2. PICK R \in SUBSET Moment : \E last \in R : \E s \in R : \E t \in R :
        /\ Replays(body, vec, R, last) /\ last.u = Len(vec) /\ last.o = Len(body)
        /\ AtMoment(s) /\ Reads(body, vec, s, t)
  BY <1>1, Coming
<1>3. PICK last \in R : \E s \in R : \E t \in R :
        /\ Replays(body, vec, R, last) /\ last.u = Len(vec) /\ last.o = Len(body)
        /\ AtMoment(s) /\ Reads(body, vec, s, t)
  BY <1>2
<1>4. PICK s \in R, t \in R : AtMoment(s) /\ Reads(body, vec, s, t)
  BY <1>3
<1>5. s \in Moment /\ t \in Moment
  OBVIOUS
<1>6. ReadsLiteral(body, vec, s, t)
  BY <1>1, <1>4, <1>5, UnitKind
<1>7. /\ used = s.u /\ out = s.o /\ dict = s.d /\ hashed = s.h /\ UnitBit(mask, s.k)
      /\ (s.k # Bits => flags = vec[s.g])
  BY <1>4 DEF AtMoment
<1>8. /\ out \in Nat /\ hashed \in 0..out /\ out < Len(de_vec) /\ Len(de_vec) \in Nat
      /\ de_vec \in Seq(Byte) /\ Len(de_vec) = Len(body) /\ \A p \in 1..out : de_vec[p] = body[p]
  BY <1>1 DEF DecoderInv, Decoding, Reading
<1>9. Len(de_vec') = Len(body) /\ \A p \in 1..out' : de_vec'[p] = body[p]
  <2>1. vec[used + 1] = body[out + 1]
    BY <1>6, <1>7 DEF ReadsLiteral
  <2>2. Len(de_vec') = Len(de_vec) /\ de_vec'[out + 1] = vec[used + 1]
        /\ \A p \in 1..out : de_vec'[p] = de_vec[p]
    BY <1>1, <1>8
  <2>3. QED
    BY <1>1, <1>8, <2>1, <2>2
<1>10. dict' = t.d
  <2>1. PICK q : q = de_vec'
    OBVIOUS
  <2>2. ASSUME NEW p \in hashed..(out - 1) PROVE q[p + 1] = body[p + 1] /\ q[p + 2] = body[p + 2]
    <3>1. p + 1 \in 1..(out + 1) /\ p + 2 \in 1..(out + 1)
      BY <1>8
    <3>2. QED
      BY <1>1, <1>9, <2>1, <3>1
  <2>3. hashed \in Nat /\ out \in Int
    BY <1>8
  <2>4. Hashed(q, hashed, out) = Entries(body, dict, hashed, out)
    BY <2>2, <2>3, SamePairs
  <2>5. QED
    BY <1>1, <1>6, <1>7, <2>1, <2>4 DEF ReadsLiteral
<1>11. UnitBit(mask', t.k)
  <2>1. PICK k \in 0..Bits : k = s.k
    BY <1>5, MomentTypes
  <2>2. UnitBit((2 * mask) % TwoTo[Bits], k + 1)
    BY <1>1, <1>7, <2>1, NextBit
  <2>3. QED
    BY <1>1, <1>6, <2>1, <2>2 DEF ReadsLiteral
<1>12. AtMoment(t)'
  BY <1>1, <1>6, <1>7, <1>10, <1>11 DEF AtMoment, ReadsLiteral, UnitBit
<1>13. QED
  BY <1>1, <1>3, <1>9, <1>12, Advances

\* What a reference that is read names and gives.
LEMMA RunRead ==
    ASSUME DecoderInv, Reading, AtReference, NEW s \in Moment, NEW t \in Moment,
           AtMoment(s), ReadsRun(body, vec, s, t), Placed(body, vec, t)
    PROVE  /\ source \in Nat /\ source + 2 <= out /\ out \in Nat /\ RunLength \in Nat /\ RunLength >= 2
           /\ out + RunLength = t.o /\ t.o <= Len(body) /\ Len(body) = Len(de_vec)
           /\ SameRun(body, source, out, RunLength)
           /\ ~BadReference
<1>1. used = s.u /\ out = s.o /\ dict = s.d
  BY DEF AtMoment
<1>2. /\ vec \in Seq(Byte) /\ Len(vec) \in Nat /\ used \in Nat /\ used + 2 <= Len(vec) /\ out \in Nat
      /\ dict \in [Byte -> Int] /\ Len(de_vec) \in Nat
  BY DEF DecoderInv, AtReference, Exhausted
<1>3. vec[used + 1] \in Byte /\ vec[used + 2] \in Byte
  BY <1>2
<1>4. RunLength \in Nat /\ RunLength >= 2 /\ vec[used + 2] \in Nat
  BY <1>3, ByteValues DEF RunLength, Byte
<1>5. source \in Int
  BY <1>2, <1>3 DEF source
<1>6. source >= 0 /\ source + 2 <= out /\ SameRun(body, source, out, RunLength)
  BY <1>1 DEF ReadsRun, source, RunLength
<1>7. out + RunLength = t.o
  <2>1. t.o = s.o + vec[s.u + 2] + 2
    BY DEF ReadsRun
  <2>2. PICK v \in Nat : v = vec[used + 2] /\ RunLength = v + 2
    BY <1>4 DEF RunLength
  <2>3. QED
    BY <1>1, <1>2, <2>1, <2>2, SMTT(40)
<1>8. t.o <= Len(body) /\ Len(body) = Len(de_vec)
  BY DEF Placed, Reading
<1>9. ~BadReference
  BY <1>2, <1>4, <1>5, <1>6, <1>7, <1>8 DEF BadReference, INVALID_OFFSET
<1>10. QED
  BY <1>2, <1>4, <1>5, <1>6, <1>7, <1>8, <1>9

\* A reference that is decoded.
LEMMA ReferenceRead ==
    ASSUME DecoderInv, DictionaryPointsBack, Reading, DecodeReference
    PROVE  Reading'
<1> USE WidthAssumption
<1>1. /\ AtReference /\ ~BadReference /\ used' = used + 2 /\ out' = out + RunLength
      /\ hashed' = out + RunLength /\ de_vec' = Copied
      /\ dict' = Hashed(Copied, hashed, out + 1) /\ mask' = (2 * mask) % TwoTo[Bits]
      /\ UNCHANGED <<body, vec, flags>> /\ Decoding /\ mask # 0 /\ IsReference
  BY DEF DecodeReference, AtReference, encoder
<1>2. PICK R \in SUBSET Moment : \E last \in R : \E s \in R : \E t \in R :
        /\ Replays(body, vec, R, last) /\ last.u = Len(vec) /\ last.o = Len(body)
        /\ AtMoment(s) /\ Reads(body, vec, s, t)
  BY <1>1, Coming
<1>3. PICK last \in R : \E s \in R : \E t \in R :
        /\ Replays(body, vec, R, last) /\ last.u = Len(vec) /\ last.o = Len(body)
        /\ AtMoment(s) /\ Reads(body, vec, s, t)
  BY <1>2
<1>4. PICK s \in R, t \in R : AtMoment(s) /\ Reads(body, vec, s, t)
  BY <1>3
<1>5. s \in Moment /\ t \in Moment /\ Placed(body, vec, t)
  BY <1>3 DEF Replays
<1>6. ReadsRun(body, vec, s, t)
  BY <1>1, <1>4, <1>5, UnitKind
<1>7. /\ used = s.u /\ out = s.o /\ dict = s.d /\ hashed = s.h /\ UnitBit(mask, s.k)
      /\ (s.k # Bits => flags = vec[s.g])
  BY <1>4 DEF AtMoment
<1>8. /\ out \in Nat /\ hashed \in 0..out /\ Len(de_vec) \in Nat /\ DOMAIN de_vec = 1..Len(de_vec)
      /\ de_vec \in Seq(Byte) /\ Len(de_vec) = Len(body) /\ \A p \in 1..out : de_vec[p] = body[p]
  BY <1>1 DEF DecoderInv, Reading
<1>9. /\ source \in Nat /\ source + 2 <= out /\ RunLength \in Nat /\ RunLength >= 2
      /\ out + RunLength = t.o /\ t.o <= Len(body) /\ SameRun(body, source, out, RunLength)
  BY <1>1, <1>4, <1>5, <1>6, RunRead
<1>10. Len(Copied) = Len(body) /\ \A p \in 1..(out + RunLength) : Copied[p] = body[p]
  <2>1. Len(Copied) = Len(de_vec)
    BY <1>1, CopiedBytes
  <2>2. PICK w \in Nat : w = out - source /\ w > 0 /\ out = source + w
    BY <1>8, <1>9
  <2>3. \A j \in 0..(RunLength - 1) : body[out + 1 + j] = body[source + 1 + (j % w)]
    <3>1. PICK a \in Nat, o \in Nat, l \in Nat : a = source /\ o = out /\ l = RunLength
      BY <1>8, <1>9
    <3>2. SameRun(body, a, o, l) /\ o = a + w /\ w > 0
      BY <1>9, <2>2, <3>1
    <3>3. \A j \in 0..(l - 1) : body[o + 1 + j] = body[a + 1 + (j % w)]
      BY <3>2, Repeats
    <3>4. QED
      BY <3>1, <3>3
  <2>4. ASSUME NEW p \in 1..(out + RunLength) PROVE Copied[p] = body[p]
    <3>1. p \in 1..Len(de_vec)
      BY <1>8, <1>9
    <3>2. CASE p \in (out + 1)..(out + RunLength)
      <4>1. PICK j \in 0..(RunLength - 1) : j = p - out - 1 /\ p = out + 1 + j
        <5>1. PICK l \in Nat : l = RunLength
          BY <1>9
        <5>2. p - out - 1 \in 0..(l - 1) /\ p = out + 1 + (p - out - 1)
          BY <1>8, <3>2, <5>1
        <5>3. QED
          BY <5>1, <5>2
      <4>2. Copied[p] = de_vec[source + 1 + (j % w)]
        BY <1>8, <2>2, <3>1, <3>2, <4>1 DEF Copied
      <4>3. source + 1 + (j % w) \in 1..out
        <5>1. PICK r \in 0..(w - 1) : r = j % w
          <6>1. j \in Nat
            BY <1>9, <4>1
          <6>2. QED
            BY <2>2, <6>1
        <5>2. source + 1 + r \in 1..out
          BY <1>8, <1>9, <2>2
        <5>3. QED
          BY <5>1, <5>2
      <4>4. de_vec[source + 1 + (j % w)] = body[source + 1 + (j % w)]
        BY <1>8, <4>3
      <4>5. QED
        BY <2>3, <4>1, <4>2, <4>4
    <3>3. CASE p \notin (out + 1)..(out + RunLength)
      <4>1. p \in 1..out
        BY <1>8, <1>9, <3>3
      <4>2. Copied[p] = de_vec[p]
        BY <1>8, <3>1, <3>3 DEF Copied
      <4>3. QED
        BY <1>8, <4>1, <4>2
    <3>4. QED
      BY <3>2, <3>3
  <2>5. QED
    BY <1>8, <2>1, <2>4
<1>11. dict' = t.d
  <2>1. PICK v \in Int : v = out + 1
    BY <1>8
  <2>2. PICK q : q = Copied
    OBVIOUS
  <2>3. ASSUME NEW p \in hashed..(v - 1) PROVE q[p + 1] = body[p + 1] /\ q[p + 2] = body[p + 2]
    <3>1. p + 1 \in 1..(out + RunLength) /\ p + 2 \in 1..(out + RunLength)
      BY <1>8, <1>9, <2>1
    <3>2. QED
      BY <1>10, <2>2, <3>1
  <2>4. hashed \in Nat
    BY <1>8
  <2>5. Hashed(q, hashed, v) = Entries(body, dict, hashed, v)
    BY <2>3, <2>4, SamePairs
  <2>6. QED
    BY <1>1, <1>6, <1>7, <2>1, <2>2, <2>5 DEF ReadsRun
<1>12. UnitBit(mask', t.k)
  <2>1. PICK k \in 0..Bits : k = s.k
    BY <1>5, MomentTypes
  <2>2. UnitBit((2 * mask) % TwoTo[Bits], k + 1)
    BY <1>1, <1>7, <2>1, NextBit
  <2>3. QED
    BY <1>1, <1>6, <2>1, <2>2 DEF ReadsRun
<1>13. AtMoment(t)'
  BY <1>1, <1>6, <1>7, <1>9, <1>11, <1>12 DEF AtMoment, ReadsRun, UnitBit
<1>14. Len(de_vec') = Len(body) /\ \A p \in 1..out' : de_vec'[p] = body[p]
  BY <1>1, <1>10
<1>15. QED
  BY <1>1, <1>3, <1>13, <1>14, Advances

\* compress() is done: decompress() starts at the first moment.
LEMMA StartsReading ==
    ASSUME EncoderInv, IdleInv, Written, EncodeDone
    PROVE  Reading'
<1>1. /\ phase = "encode" /\ o_pos = FrameLength /\ vec' = Flagged
      /\ de_vec' = [p \in 1..Len(body) |-> 0] /\ body' = body
      /\ UNCHANGED <<used, out, dict, hashed, flags, mask>>
  BY DEF EncodeDone, encoder
<1>2. PICK R \in SUBSET Moment : \E last \in R :
        Replays(body, Flagged, R, last) /\ Behind(R, last) /\ InStep(last)
  BY DEF Written
<1>3. PICK last \in R : Replays(body, Flagged, R, last) /\ InStep(last)
  BY <1>2
<1>4. body \in Seq(Byte) /\ Len(body) \in Nat /\ FrameLength = Header + Len(body) /\ Header \in Nat
  BY LayoutAssumption DEF EncoderInv, FrameLength
<1>5. last.u = Len(vec') /\ last.o = Len(body)
  BY <1>1, <1>3, <1>4, FlaggedAt DEF InStep
<1>6. /\ First.u = 0 /\ First.o = 0 /\ First.h = 0 /\ First.k = Bits
      /\ First.d = [b \in Byte |-> INVALID_OFFSET] /\ First \in R
  BY <1>3 DEF First, Replays
<1>7. /\ used' = 0 /\ out' = 0 /\ hashed' = 0 /\ mask' = 0
      /\ dict' = [h \in Byte |-> INVALID_OFFSET]
  BY <1>1 DEF IdleInv
<1>8. AtMoment(First)'
  BY <1>6, <1>7 DEF AtMoment, UnitBit
<1>9. Replays(body, vec, R, last)' /\ last.u = Len(vec)' /\ last.o = Len(body)'
  BY <1>1, <1>3, <1>5
<1>10. Len(de_vec)' = Len(body)' /\ \A p \in 1..out' : de_vec'[p] = body'[p]
  BY <1>1, <1>4, <1>7
<1>11. QED
  BY <1>6, <1>8, <1>9, <1>10 DEF Reading

\* A reader of compress()'s output meets no error.
LEMMA NoRejection ==
    ASSUME DecoderInv, Reading
    PROVE  ~InputEnds /\ ~RejectReference
<1> SUFFICES ASSUME InputEnds \/ RejectReference PROVE FALSE
  OBVIOUS
<1>1. Decoding
  BY DEF InputEnds, RejectReference, AtReference
<1>2. PICK R \in SUBSET Moment : \E last \in R : \E s \in R : \E t \in R :
        /\ Replays(body, vec, R, last) /\ last.u = Len(vec) /\ last.o = Len(body)
        /\ AtMoment(s) /\ Reads(body, vec, s, t)
  BY <1>1, Coming
<1>3. PICK last \in R : \E s \in R : \E t \in R :
        Replays(body, vec, R, last) /\ AtMoment(s) /\ Reads(body, vec, s, t)
  BY <1>2
<1>4. PICK s \in R, t \in R : Replays(body, vec, R, last) /\ AtMoment(s) /\ Reads(body, vec, s, t)
  BY <1>3
<1>5. s \in Moment /\ t \in Moment /\ Placed(body, vec, t)
  BY <1>4 DEF Replays
<1>6. CASE InputEnds
  <2>1. used + UnitBytes > Len(vec)
    BY <1>6 DEF InputEnds, Exhausted
  <2>2. t.u = used + UnitBytes
    BY <1>4, <1>5, UnitKind
  <2>3. t.u <= Len(vec) /\ t.u \in Nat /\ Len(vec) \in Nat
    BY <1>5, MomentTypes DEF Placed, DecoderInv
  <2>4. QED
    BY <2>1, <2>2, <2>3
<1>7. CASE RejectReference
  <2>1. AtReference /\ BadReference /\ mask # 0 /\ IsReference
    BY <1>7 DEF RejectReference, AtReference
  <2>2. ReadsRun(body, vec, s, t)
    BY <1>4, <1>5, <2>1, UnitKind
  <2>3. QED
    BY <1>4, <1>5, <2>1, <2>2, RunRead
<1>8. QED
  BY <1>6, <1>7

\* When the output is complete, so is the input.
LEMMA BothEnd ==
    ASSUME DecoderInv, Reading, DecodeDone
    PROVE  phase' = "ok" /\ Reading'
<1>1. PICK R \in SUBSET Moment : \E last \in R :
        /\ Replays(body, vec, R, last) /\ last.u = Len(vec) /\ last.o = Len(body)
        /\ \E s \in R : AtMoment(s)
  BY DEF Reading
<1>2. PICK last \in R :
        /\ Replays(body, vec, R, last) /\ last.u = Len(vec) /\ last.o = Len(body)
        /\ \E s \in R : AtMoment(s)
  BY <1>1
<1>3. PICK s \in R : AtMoment(s)
  BY <1>2
<1>4. s.o = Len(body) /\ s.o \in Nat
  BY <1>3 DEF AtMoment, DecodeDone, Reading, DecoderInv
<1>5. ASSUME NEW t, Reads(body, vec, s, t) PROVE FALSE
  BY <1>4, <1>5 DEF Reads
<1>6. s = last
  BY <1>2, <1>5 DEF Replays
<1>7. phase' = "ok"
  BY <1>2, <1>3, <1>6 DEF AtMoment, DecodeDone
<1>8. UNCHANGED <<body, vec, used, de_vec, out, dict, hashed, flags, mask>>
  BY DEF DecodeDone, encoder, decoder
<1>9. AtMoment(s)'
  BY <1>3, <1>8 DEF AtMoment, UnitBit
<1>10. Len(de_vec') = Len(body) /\ \A p \in 1..out' : de_vec'[p] = body[p]
  BY <1>8 DEF Reading
<1>11. Reading'
  BY <1>2, <1>8, <1>9, <1>10, Advances
<1>12. QED
  BY <1>7, <1>11

\* Where compress() starts.
LEMMA TripInit ==
    ASSUME Init PROVE TripInv
<1> USE WidthAssumption, LayoutAssumption, ByteValues
<1>1. CASE DecodeInit
  BY <1>1 DEF DecodeInit, EncoderInit, TripInv
<1>2. CASE RoundTripInit
  <2>1. PICK b \in Bodies : EncoderInit(b)
    BY <1>2 DEF RoundTripInit
  <2>2. phase = "encode"
    BY <1>2 DEF RoundTripInit
  <2>3. /\ c = <<>> /\ o_pos = Header /\ n_pos = 1 /\ n = 0 /\ i = 0
        /\ x = [h \in Byte |-> 0] /\ px = 0 /\ p_pos = 0 /\ body \in Seq(Byte)
    BY <2>1, InputAssumption DEF EncoderInit
  <2>4. PairInv
    BY <2>3 DEF PairInv
  <2>5. EntryInv
    BY <2>3 DEF EntryInv
  <2>6. First \in Moment
    BY DEF First, Moment, INVALID_OFFSET
  <2>7. /\ First.u = 0 /\ First.o = 0 /\ First.h = 0 /\ First.g = 0 /\ First.k = Bits
        /\ First.d = [h \in Byte |-> INVALID_OFFSET]
    BY DEF First
  <2> DEFINE R == {First}
  <2>8. Replays(body, Flagged, R, First)
    <3>1. Flagged = <<>> /\ Len(Flagged) = 0 /\ Len(body) \in Nat
      BY <2>3 DEF Flagged
    <3>2. Placed(body, Flagged, First)
      BY <2>7, <3>1 DEF Placed
    <3>3. QED
      BY <3>2 DEF Replays
  <2>9. Behind(R, First)
    BY <2>3, <2>7 DEF Behind
  <2>10. InStep(First)
    <3>1. First.u = Len(c) /\ First.o = o_pos - Header
      BY <2>3, <2>7
    <3>2. UnitBit(i, First.k)
      BY <2>3, <2>7 DEF UnitBit
    <3>3. \A h \in Byte : First.d[h] = IF x[h] = 0 THEN INVALID_OFFSET ELSE x[h] - Header
      BY <2>3, <2>7
    <3>4. QED
      BY <2>3, <2>7, <3>1, <3>2, <3>3 DEF InStep
  <2>11. R \in SUBSET Moment /\ First \in R
    BY <2>6
  <2>12. Written
    BY <2>8, <2>9, <2>10, <2>11 DEF Written
  <2>13. QED
    BY <2>2, <2>4, <2>5, <2>12 DEF TripInv
<1>3. QED
  BY <1>1, <1>2 DEF Init

\* Every step keeps the encoder in step with the decoder to come, and then the
\* decoder with the encoder that was.
LEMMA TripStep ==
    ASSUME IInv, TripInv, Next PROVE TripInv'
<1>1. EncoderInv /\ DecoderInv /\ IdleInv /\ DictionaryPointsBack /\ EncoderInv'
  BY EncoderStep DEF IInv
<1> SUFFICES ASSUME body' # <<>>
             PROVE  /\ phase' # "error"
                    /\ phase' = "encode" => PairInv' /\ EntryInv' /\ Written'
                    /\ phase' \in {"decode", "ok"} => Reading'
  BY DEF TripInv
<1>2. body' = body
  BY DEF Next, Encode, Decode, KeepFrame, StartGroup, EncodeLiteral, EncodeReference, EncodeDone,
     TakeFlags, InputEnds, DecodeLiteral, DecodeReference, RejectReference, DecodeDone, Fail, encoder
<1>3. /\ phase # "error"
      /\ phase = "encode" => PairInv /\ EntryInv /\ Written
      /\ phase \in {"decode", "ok"} => Reading
  BY <1>2 DEF TripInv
<1>4. CASE KeepFrame
  BY <1>4 DEF KeepFrame
<1>5. CASE StartGroup
  <2>1. /\ phase = "encode" /\ phase' = "encode"
        /\ UNCHANGED <<body, o_pos, x, px, p_pos>>
    BY <1>5 DEF StartGroup, Encoding
  <2>2. PairInv' /\ EntryInv'
    BY <1>3, <2>1 DEF PairInv, EntryInv, FrameLength, AtTail, At
  <2>3. Written'
    BY <1>1, <1>3, <1>5, <2>1, GroupWritten
  <2>4. QED
    BY <2>1, <2>2, <2>3
<1>6. CASE EncodeLiteral
  <2>1. phase = "encode" /\ phase' = "encode"
    BY <1>6 DEF EncodeLiteral, Encoding
  <2>2. PairInv' /\ EntryInv' /\ Written'
    BY <1>1, <1>3, <1>6, <2>1, LiteralPairs, LiteralWritten
  <2>3. QED
    BY <2>1, <2>2
<1>7. CASE EncodeReference
  <2>1. phase = "encode" /\ phase' = "encode"
    BY <1>7 DEF EncodeReference, Encoding
  <2>2. PairInv' /\ EntryInv' /\ Written'
    BY <1>1, <1>3, <1>7, <2>1, ReferencePairs, ReferenceWritten
  <2>3. QED
    BY <2>1, <2>2
<1>8. CASE EncodeDone
  <2>1. phase = "encode" /\ phase' = "decode"
    BY <1>8 DEF EncodeDone
  <2>2. Reading'
    BY <1>1, <1>3, <1>8, <2>1, StartsReading
  <2>3. QED
    BY <2>1, <2>2
<1>9. CASE TakeFlags \/ DecodeLiteral \/ DecodeReference
  <2>1. phase = "decode" /\ phase' = "decode"
    BY <1>9 DEF TakeFlags, DecodeLiteral, DecodeReference, AtReference, Decoding
  <2>2. Reading'
    BY <1>1, <1>3, <1>9, <2>1, FlagsRead, LiteralRead, ReferenceRead
  <2>3. QED
    BY <2>1, <2>2
<1>10. CASE InputEnds \/ RejectReference
  <2>1. phase = "decode"
    BY <1>10 DEF InputEnds, RejectReference, AtReference, Decoding
  <2>2. QED
    BY <1>1, <1>3, <1>10, <2>1, NoRejection
<1>11. CASE DecodeDone
  <2>1. phase = "decode"
    BY <1>11 DEF DecodeDone
  <2>2. phase' = "ok" /\ Reading'
    BY <1>1, <1>3, <1>11, <2>1, BothEnd
  <2>3. QED
    BY <2>2
<1>12. QED
  BY <1>4, <1>5, <1>6, <1>7, <1>8, <1>9, <1>10, <1>11 DEF Next, Encode, Decode

\* A step that changes nothing.
LEMMA TripStutter ==
    ASSUME TripInv, UNCHANGED vars PROVE TripInv'
<1>1. /\ UNCHANGED <<phase, body, c, o_pos, n_pos, n, i, x, px, p_pos>>
      /\ UNCHANGED <<vec, used, de_vec, out, dict, hashed, flags, mask>>
  BY DEF vars, encoder, decoder
<1>2. PairInv => PairInv'
  BY <1>1 DEF PairInv, FrameLength, At
<1>3. EntryInv => EntryInv'
  BY <1>1 DEF EntryInv, FrameLength, At, AtTail
<1>4. \A s : InStep(s) => InStep(s)'
  BY <1>1 DEF InStep, UnitBit, AtTail, FrameLength
<1>5. \A R, s : Behind(R, s) => Behind(R, s)'
  BY <1>1 DEF Behind
<1>6. Flagged' = Flagged
  BY <1>1 DEF Flagged
<1>7. Written => Written'
  BY <1>1, <1>4, <1>5, <1>6 DEF Written
<1>8. \A s : AtMoment(s) => AtMoment(s)'
  BY <1>1 DEF AtMoment, UnitBit
<1>9. Reading => Reading'
  BY <1>1, <1>8 DEF Reading
<1>10. QED
  BY <1>1, <1>2, <1>3, <1>7, <1>9 DEF TripInv

(***************************************************************************)
(* The theorems.                                                           *)
(***************************************************************************)
\* The inductive invariant holds of every reachable state.
LEMMA Inductive == Spec => []IInv
<1>1. Init => IInv
  <2> SUFFICES ASSUME Init PROVE IInv
    OBVIOUS
  <2> USE InputAssumption, LayoutAssumption, WidthAssumption, ByteValues
  <2>1. PICK b \in Seq(Byte), bytes \in Seq(Byte), length \in Nat :
          /\ EncoderInit(b) /\ DecoderInit(bytes, length)
          /\ (phase = "encode" /\ b # <<>>) \/ (phase = "decode" /\ length > 0)
    <3>1. CASE RoundTripInit
      <4>1. PICK b \in Bodies : EncoderInit(b)
        BY <3>1 DEF RoundTripInit
      <4>2. b \in Seq(Byte) /\ b # <<>> /\ <<>> \in Seq(Byte) /\ 0 \in Nat
        OBVIOUS
      <4>3. DecoderInit(<<>>, 0) /\ phase = "encode"
        BY <3>1 DEF RoundTripInit
      <4>4. (phase = "encode" /\ b # <<>>) \/ (phase = "decode" /\ 0 > 0)
        BY <4>2, <4>3
      <4> WITNESS b \in Seq(Byte), <<>> \in Seq(Byte), 0 \in Nat
      <4>5. QED
        BY <4>1, <4>3, <4>4
    <3>2. CASE DecodeInit
      <4>1. PICK bytes \in Payloads, length \in Lengths : DecoderInit(bytes, length)
        BY <3>2 DEF DecodeInit
      <4>2. <<>> \in Seq(Byte) /\ bytes \in Seq(Byte) /\ length \in Nat /\ length > 0
        OBVIOUS
      <4>3. EncoderInit(<<>>) /\ phase = "decode"
        BY <3>2 DEF DecodeInit
      <4>4. QED
        BY <4>1, <4>2, <4>3
    <3>3. QED
      BY <3>1, <3>2 DEF Init
  <2>2. EncoderInv
    BY <2>1 DEF EncoderInit, EncoderInv, FrameLength
  <2>3. DecoderInv /\ DictionaryPointsBack /\ Len(de_vec) = length
    BY <2>1 DEF DecoderInit, DecoderInv, DictionaryPointsBack, INVALID_OFFSET
  <2>4. IdleInv
    BY <2>1 DEF DecoderInit, EncoderInit, IdleInv
  <2>5. ProgressInv
    BY <2>1, <2>3, StartProgress DEF DecoderInit, ProgressInv
  <2>6. QED
    BY <2>2, <2>3, <2>4, <2>5 DEF IInv
<1>2. IInv /\ [Next]_vars => IInv'
  <2> SUFFICES ASSUME IInv, [Next]_vars PROVE IInv'
    OBVIOUS
  <2>1. CASE Next
    BY <2>1, EncoderStep, DecoderStep, ProgressStep DEF IInv
  <2>2. CASE UNCHANGED vars
    <3>1. EncoderInv'
      BY <2>2, SameEncoder DEF vars, IInv
    <3>2. DecoderInv' /\ DictionaryPointsBack' /\ IdleInv' /\ ProgressInv'
      BY <2>2 DEF vars, encoder, decoder, IInv, DecoderInv, DictionaryPointsBack, IdleInv,
         ProgressInv, Progress, UnitBit
    <3>3. QED
      BY <3>1, <3>2 DEF IInv
  <2>3. QED
    BY <2>1, <2>2
<1>3. QED
  BY <1>1, <1>2, PTL DEF Spec

\* compress() never writes behind its scratch buffer: the room for a whole
\* group that is tested at its head is enough for whatever its units are.
THEOREM ScratchIsEnough == Spec => []ScratchSuffices
<1>1. IInv => ScratchSuffices
  <2> SUFFICES ASSUME IInv, c # <<>> PROVE c_pos <= Scratch
    BY DEF ScratchSuffices
  <2>1. PICK k \in 0..Bits : c_pos + 2 * (Bits - k) <= Scratch
    BY DEF IInv, EncoderInv
  <2>2. c_pos \in Int /\ Scratch \in Int
    BY LayoutAssumption DEF IInv, EncoderInv, c_pos, Scratch, FrameLength
  <2>3. QED
    BY <2>1, <2>2, WidthAssumption
<1>2. QED
  BY <1>1, Inductive, PTL

\* decompress() only ever copies from output it has written, whatever bytes a
\* peer sends.
THEOREM ReadsWhatItWrote == Spec => []DictionaryPointsBack
<1>1. IInv => DictionaryPointsBack
  BY DEF IInv
<1>2. QED
  BY <1>1, Inductive, PTL

\* enforce_compressed_physical_bound() and checked_decompressed_body_length()
\* refuse no frame that decompresses.
THEOREM BoundsRefuseNothing == Spec => []BoundsAreNecessary
<1>1. IInv => BoundsAreNecessary
  <2> SUFFICES ASSUME IInv, phase = "ok" PROVE WithinPhysicalBound /\ WithinExpansionBound
    BY DEF BoundsAreNecessary
  <2> USE WidthAssumption, LayoutAssumption
  <2>1. PICK f \in 0..used, k \in 0..Bits : Progress(f, k)
    BY DEF IInv, ProgressInv, Progress
  <2>2. used = Len(vec) /\ out = Len(de_vec) /\ used \in Nat /\ out \in Nat
    BY DEF IInv, ProgressInv, DecoderInv
  <2>3. WithinPhysicalBound
    <3>1. k >= 1 /\ f * Bits + k <= out + Bits /\ f * Bits \in Nat /\ used <= f + out
      BY <2>1, <2>2 DEF Progress
    <3>2. f * Bits <= out + Bits - 1 /\ out + Bits - 1 \in Nat
      BY <2>2, <3>1
    <3>3. f <= (out + Bits - 1) \div Bits
      BY <2>2, <3>2, Quotient
    <3>4. (out + Bits - 1) \div Bits \in Nat
      BY <3>2
    <3>5. QED
      BY <2>2, <3>1, <3>3, <3>4 DEF WithinPhysicalBound
  <2>4. WithinExpansionBound
    <3>1. CASE k = Bits
      BY <2>1, <2>2, <3>1 DEF Progress, WithinExpansionBound
    <3>2. CASE k < Bits
      <4>1. out + MaxRatio <= MaxRatio * used + k * Excess
        BY <2>1, <3>2 DEF Progress
      <4>2. k * Excess <= Bits * Excess /\ k * Excess \in Nat /\ Bits * Excess \in Nat
        BY <3>2, ExcessBound
      <4>3. MaxRatio * used \in Nat
        BY <2>2
      <4>4. QED
        BY <2>2, <4>1, <4>2, <4>3, ExcessBound DEF WithinExpansionBound
    <3>3. QED
      BY <3>1, <3>2
  <2>5. QED
    BY <2>3, <2>4
<1>2. QED
  BY <1>1, Inductive, PTL

\* What compress() sends decompresses, to the body it was made from, for every
\* body and every width of a byte.
THEOREM DecompressesToItself == Spec => []RoundTrip
<1>1. Init => TripInv
  BY TripInit
<1>2. IInv /\ TripInv /\ [Next]_vars => TripInv'
  BY TripStep, TripStutter
<1>3. IInv /\ TripInv => RoundTrip
  <2> SUFFICES ASSUME IInv, TripInv, body # <<>> PROVE phase # "error" /\ (phase = "ok" => de_vec = body)
    BY DEF RoundTrip
  <2>1. phase # "error" /\ (phase = "ok" => Reading)
    BY DEF TripInv
  <2>2. ASSUME phase = "ok" PROVE de_vec = body
    <3>1. Len(de_vec) = Len(body) /\ \A p \in 1..out : de_vec[p] = body[p]
      BY <2>1, <2>2 DEF Reading
    <3>2. out = Len(de_vec) /\ de_vec \in Seq(Byte) /\ body \in Seq(Byte)
      BY <2>2 DEF IInv, ProgressInv, DecoderInv, EncoderInv
    <3>3. QED
      BY <3>1, <3>2
  <2>3. QED
    BY <2>1, <2>2
<1>4. QED
  BY <1>1, <1>2, <1>3, Inductive, PTL DEF Spec
================================================================================
