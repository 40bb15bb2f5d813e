---------------------------- MODULE MCCompression ----------------------------
(* Model-checking instance of Compression: bytes of three bits, so that a *)
(* group has three units, a run at most nine bytes and the dictionary eight *)
(* entries.                                                                 *)
EXTENDS Compression, Bitwise

MCHash(a, b) == a ^^ b

Words(S, lo, hi) == UNION {[1..k -> S] : k \in lo..hi}
Repeat(w, k) == [p \in 1..k |-> w[((p - 1) % Len(w)) + 1]]

\* Two stretches of a repeated word with any short beginning and any short
\* interruption, and bodies that do not compress, or are too short.
MCBodies ==
    {u \o Repeat(v, k) \o w \o Repeat(v, 24) :
        u \in Words({0, 1, 6}, 2, 3), v \in Words({0, 1, 7}, 1, 2), k \in {20, 27},
        w \in Words({1, 7}, 1, 3)}
      \cup {[p \in 1..k |-> (p * m) % 8] : k \in {20, 34}, m \in 1..7}
      \cup {Repeat(v, k) : v \in Words({0, 1, 7}, 1, 2), k \in {60, 80}}
      \cup Words({0, 1}, 5, 7)

\* Any flags, then literals and references in any order.
MCPayloads == {<<f>> \o w : f \in 0..7, w \in Words(0..3, 0, 5)}
=============================================================================
