--------------------------------- MODULE Wire ---------------------------------
(***************************************************************************)
(* Bytes of q values: the reading helpers of crates/xqdb/src/serde6.rs and *)
(* the layout of a list, on which the resumable scan (module ListScan),    *)
(* the native codec (module Serde6) and the lossless parser (module        *)
(* QValue) rest.  Offsets count from 0, as in the code; None stands for    *)
(* the error that the code returns.                                        *)
(***************************************************************************)
EXTENDS Integers, Sequences

Byte == 0..255

None == -1

\* K_TYPE_SIZE: bytes of one element of a list, 0 where the size varies.
K_TYPE_SIZE ==
    [t \in 0..19 |->
        CASE t \in {1, 4, 10} -> 1
          [] t = 5 -> 2
          [] t \in {6, 8, 13, 14, 17, 18, 19} -> 4
          [] t \in {7, 9, 12, 15, 16} -> 8
          [] t = 2 -> 16
          [] t \in {0, 3, 11} -> 0]

At(bytes, p) == bytes[p + 1]

\* bytes[from..to]
Slice(bytes, from, to) == SubSeq(bytes, from + 1, to)

\* The largest count told apart; a real one is a 32-bit integer.
HugeCount == 16777216

\* i32::from_le_bytes() of the bytes at p, None if it is negative.
Count(bytes, p) ==
    IF At(bytes, p + 3) >= 128 THEN None
    ELSE IF At(bytes, p + 3) > 0 THEN HugeCount
    ELSE At(bytes, p) + 256 * At(bytes, p + 1) + 65536 * At(bytes, p + 2)

\* take_list_length(): the count behind the attribute byte at p.
take_list_length(bytes, p) ==
    IF p + 5 > Len(bytes) THEN None ELSE Count(bytes, p + 1)

\* q_list_length()
q_list_length(n) == <<n % 256, (n \div 256) % 256, n \div 65536, 0>>

\* memchr(0): offset of the first NUL at p or after it.
NulAt(bytes, p) ==
    LET nuls == {i \in p..(Len(bytes) - 1) : At(bytes, i) = 0}
    IN IF nuls = {} THEN None ELSE CHOOSE i \in nuls : \A j \in nuls : i <= j

\* take_until_nul(): the offset behind the terminator.
AfterNul(bytes, p) == IF p = None \/ NulAt(bytes, p) = None THEN None ELSE NulAt(bytes, p) + 1

\* The offset behind n symbols that start at p.
AfterSymbols(bytes, p, n) ==
    LET after[k \in 0..n] == IF k = 0 THEN p ELSE AfterNul(bytes, after[k - 1])
    IN IF n > Len(bytes) THEN None ELSE after[n]

\* p if it does not lie beyond the bytes.
Within(bytes, p) == IF p > Len(bytes) THEN None ELSE p

(***************************************************************************)
(* Where a list ends whose attribute byte is at p: the layout that         *)
(* calculate_array_end_index() recognises when it has all the bytes.       *)
(***************************************************************************)
NestedTypes == {1, 4, 5, 6, 7, 8, 9, 10, 11, 12}

ListTypes == {t \in 0..19 : t \in {0, 11} \/ K_TYPE_SIZE[t] > 0}

\* Behind the row of a nested list that starts at r.at, and the type that all
\* rows have: the first row's.  A generic list stands for an empty row.
AfterRow(bytes, r) ==
    LET type == At(bytes, r.at)
        n == take_list_length(bytes, r.at + 1)
        end == IF type = 11 THEN AfterSymbols(bytes, r.at + 6, n)
               ELSE Within(bytes, r.at + 6 + n * K_TYPE_SIZE[type])
        bad == [at |-> None, child |-> r.child]
    IN IF r.at = None \/ r.at + 6 > Len(bytes) \/ n = None THEN bad
       ELSE IF type = 0 /\ r.child # None /\ n = 0 THEN [r EXCEPT !.at = @ + 6]
       ELSE IF type \in NestedTypes /\ r.child \in {None, type}
            THEN [at |-> end, child |-> type]
       ELSE bad

\* Behind n rows that start at p, with their type.
RowsFrom(bytes, p, n) ==
    LET after[k \in 0..n] ==
            IF k = 0 THEN [at |-> p, child |-> None] ELSE AfterRow(bytes, after[k - 1])
    IN after[n]

AfterRows(bytes, p, n) == IF n > Len(bytes) THEN None ELSE RowsFrom(bytes, p, n).at

ListEnd(bytes, k_type, p) ==
    LET n == take_list_length(bytes, p)
    IN IF k_type \notin ListTypes \/ n = None THEN None
       ELSE CASE k_type = 0 -> AfterRows(bytes, p + 5, n)
              [] k_type = 11 -> AfterSymbols(bytes, p + 5, n)
              [] OTHER -> Within(bytes, p + 5 + n * K_TYPE_SIZE[k_type])
=============================================================================
