---------------------------- MODULE ListScanProofs ----------------------------
(***************************************************************************)
(* Proofs about ListScan, for every list, every frame and every way in     *)
(* which its bytes may arrive: the scan never reads behind what has        *)
(* arrived, never waits for what cannot come, and reports the end or the   *)
(* error that the one-shot search finds in the whole frame.                *)
(***************************************************************************)
EXTENDS ListScan, InductionLemmas

(***************************************************************************)
(* The inductive invariant.                                                *)
(***************************************************************************)
\* What the scan knows in each of its states.
PcInv ==
    /\ pc \notin {"new", "done"} => list.k_type \in ListTypes
    /\ outcome # "none" <=> pc = "done"
    /\ pc \in {"new", "start", "header"} => rows_left = None
    /\ pc \in {"rows", "end"} => rows_left # None
    /\ pc = "end" => rows_left = 0
    /\ rows_left = None => pos = 0 /\ child_type = None /\ child_symbols_left = 0

\* Where its place is: within the frame, and within what it sees as long as it
\* counts off symbols.
PlaceInv ==
    /\ pos <= total
    /\ pc = "wait" => seen < total
    /\ rows_left # None /\ list.k_type = 11 => pos <= seen
    /\ child_symbols_left > 0 => pos <= seen /\ list.k_type = 0 /\ rows_left > 0

Rows == take_list_length(list.body, 0)
Done == Rows - rows_left

\* The scan is within a row of symbols that starts at q.
InRow(q) ==
    LET symbols == take_list_length(list.body, q + 1)
        done == symbols - child_symbols_left
    IN /\ q >= 5 + Done /\ q + 6 <= total
       /\ RowsFrom(list.body, 5, Done).at = q
       /\ RowsFrom(list.body, 5, Done).child \in {None, 11}
       /\ At(list.body, q) = 11 /\ child_type = 11
       /\ symbols # None /\ done >= 0
       /\ pos >= q + 6 + done
       /\ pos = AfterSymbols(list.body, q + 6, done)

\* What is counted off is what the one-shot search has passed.
CountInv ==
    rows_left # None =>
        /\ Rows # None /\ Done >= 0
        /\ list.k_type \in ListTypes
        /\ list.k_type = 11 => pos >= 5 + Done /\ pos = AfterSymbols(list.body, 5, Done)
        /\ list.k_type = 0 =>
             IF child_symbols_left = 0
             THEN pos >= 5 + Done
                  /\ RowsFrom(list.body, 5, Done) = [at |-> pos, child |-> child_type]
             ELSE \E q \in 0..total : InRow(q)
        /\ list.k_type \notin {0, 11} =>
             rows_left = 0 /\ pos = ListEnd(list.body, list.k_type, 0)

IInv == TypeOK /\ PcInv /\ PlaceInv /\ CountInv /\ outcome # "panic" /\ SameAsOneShot

(***************************************************************************)
(* Reading bytes: what is found in a prefix is what the whole has.         *)
(***************************************************************************)
\* Bytes are numbers.
LEMMA ByteNat == \A b \in Byte : b \in Nat
  BY DEF Byte

\* The prefix that advance() sees.
LEMMA Prefix ==
    ASSUME NEW bytes \in Seq(Byte), NEW s \in 0..Len(bytes)
    PROVE  /\ SubSeq(bytes, 1, s) \in Seq(Byte) /\ Len(SubSeq(bytes, 1, s)) = s
           /\ \A p \in 0..(s - 1) : At(SubSeq(bytes, 1, s), p) = At(bytes, p)
           /\ s = Len(bytes) => SubSeq(bytes, 1, s) = bytes
<1>1. SubSeq(bytes, 1, s) \in Seq(Byte) /\ Len(SubSeq(bytes, 1, s)) = s
  OBVIOUS
<1>2. \A p \in 0..(s - 1) : At(SubSeq(bytes, 1, s), p) = At(bytes, p)
  BY DEF At
<1>3. s = Len(bytes) => SubSeq(bytes, 1, s) = bytes
  OBVIOUS
<1>4. QED
  BY <1>1, <1>2, <1>3

\* take_list_length() gives a count or an error, the same for a prefix that
\* has the bytes it reads.
LEMMA ListLength ==
    ASSUME NEW bytes \in Seq(Byte), NEW p \in Nat
    PROVE  /\ take_list_length(bytes, p) \in Nat \cup {None}
           /\ take_list_length(bytes, p) # None => p + 5 <= Len(bytes)
           /\ \A s \in 0..Len(bytes) : p + 5 <= s =>
                take_list_length(SubSeq(bytes, 1, s), p) = take_list_length(bytes, p)
<1>1. ASSUME p + 5 <= Len(bytes) PROVE take_list_length(bytes, p) \in Nat \cup {None}
  <2>1. ASSUME NEW q \in 0..(Len(bytes) - 1) PROVE At(bytes, q) \in Nat
    <3>1. q + 1 \in 1..Len(bytes)
      OBVIOUS
    <3>2. bytes[q + 1] \in Byte
      BY <3>1
    <3>3. QED
      BY <3>2, ByteNat DEF At
  <2>2. /\ At(bytes, p + 1) \in Nat /\ At(bytes, p + 1 + 1) \in Nat
        /\ At(bytes, p + 1 + 2) \in Nat /\ At(bytes, p + 1 + 3) \in Nat
    BY <1>1, <2>1
  <2>3. QED
    <3>1. HugeCount \in Nat
      BY SMT DEF HugeCount
    <3>2. Count(bytes, p + 1) \in Nat \cup {None}
      BY <2>2, <3>1, SMT DEF Count
    <3>3. QED
      BY <3>2 DEF take_list_length
<1>2. CASE ~(p + 5 <= Len(bytes))
  BY <1>2 DEF take_list_length, None
<1>3. ASSUME NEW s \in 0..Len(bytes), p + 5 <= s
      PROVE  take_list_length(SubSeq(bytes, 1, s), p) = take_list_length(bytes, p)
  <2>1. Len(SubSeq(bytes, 1, s)) = s
    BY Prefix
  <2>2. /\ At(SubSeq(bytes, 1, s), p + 1) = At(bytes, p + 1)
        /\ At(SubSeq(bytes, 1, s), p + 1 + 1) = At(bytes, p + 1 + 1)
        /\ At(SubSeq(bytes, 1, s), p + 1 + 2) = At(bytes, p + 1 + 2)
        /\ At(SubSeq(bytes, 1, s), p + 1 + 3) = At(bytes, p + 1 + 3)
    BY <1>3, Prefix
  <2>3. QED
    BY <1>3, <2>1, <2>2, SMT DEF take_list_length, Count
<1>4. take_list_length(bytes, p) # None => p + 5 <= Len(bytes)
  BY DEF take_list_length, None
<1>5. QED
  BY <1>1, <1>2, <1>3, <1>4

\* memchr() finds the first NUL, if there is one.
LEMMA FirstNul ==
    ASSUME NEW bytes \in Seq(Byte), NEW p \in Nat
    PROVE  \/ /\ NulAt(bytes, p) = None
              /\ \A j \in p..(Len(bytes) - 1) : At(bytes, j) # 0
           \/ /\ NulAt(bytes, p) \in p..(Len(bytes) - 1) /\ NulAt(bytes, p) # None
              /\ At(bytes, NulAt(bytes, p)) = 0
              /\ \A j \in p..(NulAt(bytes, p) - 1) : At(bytes, j) # 0
<1> DEFINE nuls == {j \in p..(Len(bytes) - 1) : At(bytes, j) = 0}
<1>1. CASE nuls = {}
  BY <1>1 DEF NulAt
<1>2. CASE nuls # {}
  <2>1. p \in Int /\ Len(bytes) - 1 \in Int /\ nuls \in SUBSET (p..(Len(bytes) - 1))
    OBVIOUS
  <2>2. NulAt(bytes, p) = CHOOSE j \in nuls : \A q \in nuls : j <= q
    BY <1>2 DEF NulAt
  <2>3. NulAt(bytes, p) \in nuls /\ \A q \in nuls : NulAt(bytes, p) <= q
    <3> HIDE DEF nuls
    <3>1. \E j \in nuls : \A q \in nuls : j <= q
      BY <1>2, <2>1, Minimum
    <3>2. QED
      BY <2>2, <3>1
  <2>4. ASSUME NEW j \in p..(NulAt(bytes, p) - 1) PROVE At(bytes, j) # 0
    <3>1. j \notin nuls
      BY <2>3
    <3>2. QED
      BY <2>3, <3>1
  <2>5. QED
    BY <2>3, <2>4 DEF None
<1>3. QED
  BY <1>1, <1>2

\* A NUL found in a prefix is the first of the whole.
LEMMA NulInPrefix ==
    ASSUME NEW bytes \in Seq(Byte), NEW s \in 0..Len(bytes), NEW p \in Nat,
           NulAt(SubSeq(bytes, 1, s), p) # None
    PROVE  NulAt(bytes, p) = NulAt(SubSeq(bytes, 1, s), p)
<1> DEFINE seen_ == SubSeq(bytes, 1, s)
           m == NulAt(seen_, p)
<1>1. seen_ \in Seq(Byte) /\ Len(seen_) = s /\ \A j \in 0..(s - 1) : At(seen_, j) = At(bytes, j)
  BY Prefix
<1>2. /\ m \in p..(s - 1) /\ At(seen_, m) = 0 /\ \A j \in p..(m - 1) : At(seen_, j) # 0
  BY <1>1, FirstNul
<1>3. m \in p..(Len(bytes) - 1) /\ At(bytes, m) = 0 /\ \A j \in p..(m - 1) : At(bytes, j) # 0
  BY <1>1, <1>2
<1> HIDE DEF m, seen_
<1>4. NulAt(bytes, p) # None
  BY <1>3, FirstNul
<1>5. /\ NulAt(bytes, p) \in p..(Len(bytes) - 1) /\ At(bytes, NulAt(bytes, p)) = 0
      /\ \A j \in p..(NulAt(bytes, p) - 1) : At(bytes, j) # 0
  BY <1>4, FirstNul
<1>6. ~(NulAt(bytes, p) < m) /\ ~(m < NulAt(bytes, p))
  BY <1>3, <1>5
<1>7. QED
  BY <1>3, <1>5, <1>6 DEF m, seen_

(***************************************************************************)
(* Symbols and rows, one after the other.                                  *)
(***************************************************************************)
Places == Nat \cup {None}

\* take_until_nul() goes on behind its place, or fails; it does not recover.
LEMMA NulStep ==
    ASSUME NEW bytes \in Seq(Byte), NEW p \in Places
    PROVE  /\ AfterNul(bytes, p) \in Places
           /\ AfterNul(bytes, p) # None =>
                p # None /\ AfterNul(bytes, p) >= p + 1 /\ AfterNul(bytes, p) <= Len(bytes)
           /\ p = None => AfterNul(bytes, p) = None
<1>1. CASE p = None
  BY <1>1 DEF AfterNul, Places
<1>2. CASE p # None
  <2>1. p \in Nat
    BY <1>2 DEF Places
  <2>2. CASE NulAt(bytes, p) = None
    BY <1>2, <2>2 DEF AfterNul, Places
  <2>3. CASE NulAt(bytes, p) # None
    <3>1. NulAt(bytes, p) \in p..(Len(bytes) - 1)
      BY <2>1, <2>3, FirstNul
    <3>2. AfterNul(bytes, p) = NulAt(bytes, p) + 1
      BY <1>2, <2>3 DEF AfterNul
    <3>3. QED
      BY <1>2, <2>1, <3>1, <3>2 DEF Places
  <2>4. QED
    BY <2>2, <2>3
<1>3. QED
  BY <1>1, <1>2

\* One step of AfterSymbols, as a function.
NulFunction(bytes) == [v \in Places |-> AfterNul(bytes, v)]

\* AfterSymbols repeats it.
LEMMA SymbolsOrbit ==
    ASSUME NEW bytes \in Seq(Byte), NEW p \in Nat, NEW n \in Nat, n <= Len(bytes)
    PROVE  \E g : /\ Orbit(n, Places, p, NulFunction(bytes), g)
                  /\ AfterSymbols(bytes, p, n) = g[n]
<1> DEFINE V == Places
           F == NulFunction(bytes)
           Body(s) == [k \in 0..n |-> IF k = 0 THEN p ELSE AfterNul(bytes, s[k - 1])]
           after == CHOOSE s : s = Body(s)
<1>1. F \in [V -> V] /\ \A v \in V : F[v] = AfterNul(bytes, v)
  BY NulStep DEF NulFunction
<1>2. p \in V
  BY DEF Places
<1>3. PICK g : Orbit(n, V, p, F, g)
  <2> HIDE DEF V, F
  <2>1. QED
    BY <1>1, <1>2, OrbitExists
<1>4. g = Body(g)
  <2>1. g \in [0..n -> V] /\ g[0] = p /\ \A k \in 1..n : g[k] = F[g[k - 1]]
    BY <1>3 DEF Orbit
  <2>2. \A k \in 1..n : g[k - 1] \in V
    BY <2>1
  <2>3. \A k \in 1..n : g[k] = AfterNul(bytes, g[k - 1])
    BY <1>1, <2>1, <2>2
  <2> HIDE DEF V, F
  <2>4. QED
    BY <2>1, <2>3
<1>5. after = Body(after)
  <2> HIDE DEF Body
  <2>1. QED
    BY <1>4
<1>6. AfterSymbols(bytes, p, n) = after[n]
  BY DEF AfterSymbols
<1> HIDE DEF after
<1>7. Orbit(n, V, p, F, after)
  <2> DEFINE S == {k \in Nat : k <= n => after[k] \in V}
  <2>1. 0 \in S
    BY <1>2, <1>5
  <2>2. ASSUME NEW k \in Nat, k \in S PROVE k + 1 \in S
    <3> SUFFICES ASSUME k + 1 <= n PROVE after[k + 1] \in V
      OBVIOUS
    <3>1. after[k + 1] = AfterNul(bytes, after[k])
      BY <1>5
    <3>2. after[k] \in V
      BY <2>2
    <3>3. QED
      BY <3>1, <3>2, NulStep
  <2>3. \A k \in Nat : k \in S
    <3> HIDE DEF S
    <3>1. QED
      BY <2>1, <2>2, SetInduction
  <2>4. \A k \in 0..n : after[k] \in V
    BY <2>3
  <2>5. after = [k \in 0..n |-> after[k]]
    BY <1>5
  <2>6. after \in [0..n -> V]
    <3> HIDE DEF V
    <3>1. QED
      BY <2>4, <2>5
  <2>7. ASSUME NEW k \in 1..n PROVE after[k] = F[after[k - 1]]
    <3>1. k - 1 \in 0..n /\ k \in 0..n /\ k # 0
      OBVIOUS
    <3>2. after[k] = AfterNul(bytes, after[k - 1]) /\ after[k - 1] \in V
      BY <1>5, <2>4, <3>1
    <3> HIDE DEF F, V
    <3>3. QED
      BY <1>1, <3>2
  <2>8. after[0] = p
    BY <1>5
  <2>9. QED
    BY <2>6, <2>7, <2>8 DEF Orbit
<1>8. QED
  BY <1>6, <1>7

\* One symbol more.
LEMMA SymbolsNext ==
    ASSUME NEW bytes \in Seq(Byte), NEW p \in Nat, NEW k \in Nat
    PROVE  /\ k = 0 => AfterSymbols(bytes, p, k) = p
           /\ AfterSymbols(bytes, p, k) \in Places
           /\ k + 1 <= Len(bytes) =>
                AfterSymbols(bytes, p, k + 1) = AfterNul(bytes, AfterSymbols(bytes, p, k))
<1> DEFINE V == Places
           F == NulFunction(bytes)
<1>1. CASE k > Len(bytes)
  BY <1>1 DEF AfterSymbols, Places
<1>2. CASE k <= Len(bytes)
  <2>1. PICK g : Orbit(k, V, p, F, g) /\ AfterSymbols(bytes, p, k) = g[k]
    BY <1>2, SymbolsOrbit
  <2>2. g[k] \in V /\ g[0] = p
    BY <2>1 DEF Orbit
  <2>3. ASSUME k + 1 <= Len(bytes)
        PROVE  AfterSymbols(bytes, p, k + 1) = AfterNul(bytes, AfterSymbols(bytes, p, k))
    <3>1. PICK h : Orbit(k + 1, V, p, F, h) /\ AfterSymbols(bytes, p, k + 1) = h[k + 1]
      <4>1. k + 1 \in Nat
        OBVIOUS
      <4>2. QED
        BY <2>3, <4>1, SymbolsOrbit
    <3> HIDE DEF V, F
    <3>2. h[k] = g[k]
      <4>1. k + 1 \in Nat /\ k <= k + 1 /\ k <= k
        OBVIOUS
      <4>2. QED
        BY <2>1, <3>1, <4>1, OrbitAgree
    <3>3. h[k + 1] = F[h[k]]
      BY <3>1 DEF Orbit
    <3>4. F[g[k]] = AfterNul(bytes, g[k])
      BY <2>2 DEF F, V, NulFunction
    <3>5. QED
      BY <2>1, <3>1, <3>2, <3>3, <3>4
  <2>4. QED
    BY <2>1, <2>2, <2>3
<1>3. QED
  BY <1>1, <1>2

\* Symbols that are cut off stay so, however many follow.
LEMMA SymbolsCut ==
    ASSUME NEW bytes \in Seq(Byte), NEW p \in Nat, NEW k \in Nat, NEW n \in Nat, k <= n,
           AfterSymbols(bytes, p, k) = None
    PROVE  AfterSymbols(bytes, p, n) = None
<1> DEFINE S == {d \in Nat : AfterSymbols(bytes, p, k + d) = None}
<1>1. 0 \in S
  OBVIOUS
<1>2. ASSUME NEW d \in Nat, d \in S PROVE d + 1 \in S
  <2>1. AfterSymbols(bytes, p, k + d) = None /\ k + d \in Nat /\ (k + d) + 1 = k + (d + 1)
    BY <1>2
  <2>2. CASE (k + d) + 1 <= Len(bytes)
    <3>1. AfterSymbols(bytes, p, (k + d) + 1) = AfterNul(bytes, AfterSymbols(bytes, p, k + d))
      BY <2>1, <2>2, SymbolsNext
    <3>2. AfterNul(bytes, None) = None
      BY DEF AfterNul
    <3>3. QED
      BY <2>1, <3>1, <3>2
  <2>3. CASE ~((k + d) + 1 <= Len(bytes))
    <3>1. k + (d + 1) > Len(bytes)
      BY <2>1, <2>3
    <3>2. QED
      BY <3>1 DEF AfterSymbols
  <2>4. QED
    BY <2>2, <2>3
<1>3. \A d \in Nat : d \in S
  <2> HIDE DEF S
  <2>1. QED
    BY <1>1, <1>2, SetInduction
<1>4. n - k \in Nat /\ k + (n - k) = n
  OBVIOUS
<1>5. n - k \in S
  BY <1>3, <1>4
<1>6. AfterSymbols(bytes, p, k + (n - k)) = None
  BY <1>5
<1>7. QED
  BY <1>4, <1>6

RowStates == [at : Places, child : NestedTypes \cup {None}]

\* The sizes of the elements of lists.
LEMMA TypeSizes ==
    /\ \A t \in NestedTypes : t \in Nat /\ K_TYPE_SIZE[t] \in Nat
    /\ \A t \in ListTypes : t \in Nat /\ K_TYPE_SIZE[t] \in Nat
<1>1. \A t \in 0..19 : K_TYPE_SIZE[t] \in Nat
  <2>1. ASSUME NEW t \in 0..19 PROVE K_TYPE_SIZE[t] \in Nat
    BY SMT DEF K_TYPE_SIZE
  <2>2. QED
    BY <2>1
<1>2. \A t \in NestedTypes : t \in 0..19
  BY DEF NestedTypes
<1>3. \A t \in ListTypes : t \in 0..19
  BY DEF ListTypes
<1>4. QED
  BY <1>1, <1>2, <1>3

\* A row ends behind its place, or the rows end with an error for good.
LEMMA RowStep ==
    ASSUME NEW bytes \in Seq(Byte), NEW r \in RowStates
    PROVE  /\ AfterRow(bytes, r) \in RowStates
           /\ r.at = None => AfterRow(bytes, r) = r
<1> DEFINE type == At(bytes, r.at)
           m == take_list_length(bytes, r.at + 1)
           end == IF type = 11 THEN AfterSymbols(bytes, r.at + 6, m)
                  ELSE Within(bytes, r.at + 6 + m * K_TYPE_SIZE[type])
           bad == [at |-> None, child |-> r.child]
<1>1. r.at \in Places /\ r.child \in NestedTypes \cup {None} /\ r = [at |-> r.at, child |-> r.child]
  BY DEF RowStates
<1>2. bad \in RowStates
  BY <1>1 DEF RowStates, Places
<1>3. CASE r.at = None \/ r.at + 6 > Len(bytes) \/ m = None
  <2>1. AfterRow(bytes, r) = bad
    BY <1>3 DEF AfterRow
  <2>2. r.at = None => bad = r
    BY <1>1
  <2>3. QED
    BY <1>2, <2>1, <2>2
<1>4. CASE ~(r.at = None \/ r.at + 6 > Len(bytes) \/ m = None)
  <2>1. r.at \in Nat
    BY <1>1, <1>4 DEF Places
  <2>2. m \in Nat
    BY <1>4, <2>1, ListLength
  <2>3. CASE type = 0 /\ r.child # None /\ m = 0
    <3>1. AfterRow(bytes, r) = [r EXCEPT !.at = @ + 6]
      BY <1>4, <2>3 DEF AfterRow
    <3>2. QED
      BY <1>1, <1>4, <2>1, <3>1 DEF RowStates, Places
  <2>4. CASE /\ ~(type = 0 /\ r.child # None /\ m = 0)
             /\ type \in NestedTypes /\ r.child \in {None, type}
    <3>1. AfterRow(bytes, r) = [at |-> end, child |-> type]
      BY <1>4, <2>4 DEF AfterRow
    <3>2. end \in Places
      <4>1. CASE type = 11
        BY <2>1, <2>2, <4>1, SymbolsNext
      <4>2. CASE type # 11
        <5>1. r.at + 6 + m * K_TYPE_SIZE[type] \in Nat
          BY <2>1, <2>2, <2>4, TypeSizes
        <5>2. QED
          BY <4>2, <5>1 DEF Within, Places
      <4>3. QED
        BY <4>1, <4>2
    <3> HIDE DEF end, type
    <3>3. QED
      BY <1>4, <2>4, <3>1, <3>2 DEF RowStates
  <2>5. CASE /\ ~(type = 0 /\ r.child # None /\ m = 0)
             /\ ~(type \in NestedTypes /\ r.child \in {None, type})
    <3>1. AfterRow(bytes, r) = bad
      BY <1>4, <2>5 DEF AfterRow
    <3>2. QED
      BY <1>2, <1>4, <3>1
  <2>6. QED
    BY <2>3, <2>4, <2>5
<1>5. QED
  BY <1>3, <1>4

\* One step of RowsFrom, as a function.
RowFunction(bytes) == [v \in RowStates |-> AfterRow(bytes, v)]

FirstRowAt(p) == [at |-> p, child |-> None]

\* RowsFrom repeats it.
LEMMA RowsOrbit ==
    ASSUME NEW bytes \in Seq(Byte), NEW p \in Nat, NEW n \in Nat
    PROVE  \E g : /\ Orbit(n, RowStates, FirstRowAt(p), RowFunction(bytes), g)
                  /\ RowsFrom(bytes, p, n) = g[n]
<1> DEFINE V == RowStates
           a == FirstRowAt(p)
           F == RowFunction(bytes)
           Body(s) == [k \in 0..n |-> IF k = 0 THEN a ELSE AfterRow(bytes, s[k - 1])]
           after == CHOOSE s : s = Body(s)
<1>1. F \in [V -> V] /\ \A v \in V : F[v] = AfterRow(bytes, v)
  BY RowStep DEF RowFunction
<1>2. a \in V
  BY DEF RowStates, Places, FirstRowAt
<1>3. PICK g : Orbit(n, V, a, F, g)
  <2> HIDE DEF V, F, a
  <2>1. QED
    BY <1>1, <1>2, OrbitExists
<1>4. g = Body(g)
  <2> HIDE DEF V, F, a
  <2>1. g \in [0..n -> V] /\ g[0] = a /\ \A k \in 1..n : g[k] = F[g[k - 1]]
    BY <1>3 DEF Orbit
  <2>2. \A k \in 1..n : g[k - 1] \in V
    BY <2>1
  <2>3. \A k \in 1..n : g[k] = AfterRow(bytes, g[k - 1])
    BY <1>1, <2>1, <2>2
  <2>4. QED
    BY <2>1, <2>3
<1>5. after = Body(after)
  <2> HIDE DEF Body
  <2>1. QED
    BY <1>4
<1>6. RowsFrom(bytes, p, n) = after[n]
  BY DEF RowsFrom, FirstRowAt
<1> HIDE DEF after, a
<1>7. Orbit(n, V, a, F, after)
  <2> DEFINE S == {k \in Nat : k <= n => after[k] \in V}
  <2>1. 0 \in S
    BY <1>2, <1>5
  <2>2. ASSUME NEW k \in Nat, k \in S PROVE k + 1 \in S
    <3> SUFFICES ASSUME k + 1 <= n PROVE after[k + 1] \in V
      OBVIOUS
    <3>1. after[k + 1] = AfterRow(bytes, after[k])
      BY <1>5
    <3>2. after[k] \in V
      BY <2>2
    <3>3. QED
      BY <3>1, <3>2, RowStep
  <2>3. \A k \in Nat : k \in S
    <3> HIDE DEF S
    <3>1. QED
      BY <2>1, <2>2, SetInduction
  <2>4. \A k \in 0..n : after[k] \in V
    BY <2>3
  <2>5. after = [k \in 0..n |-> after[k]]
    BY <1>5
  <2>6. after \in [0..n -> V]
    <3> HIDE DEF V
    <3>1. QED
      BY <2>4, <2>5
  <2>7. ASSUME NEW k \in 1..n PROVE after[k] = F[after[k - 1]]
    <3>1. k - 1 \in 0..n /\ k \in 0..n /\ k # 0
      OBVIOUS
    <3>2. after[k] = AfterRow(bytes, after[k - 1]) /\ after[k - 1] \in V
      BY <1>5, <2>4, <3>1
    <3> HIDE DEF F, V
    <3>3. QED
      BY <1>1, <3>2
  <2>8. after[0] = a
    BY <1>5
  <2>9. QED
    BY <2>6, <2>7, <2>8 DEF Orbit
<1>8. QED
  BY <1>6, <1>7 DEF a

\* One row more.
LEMMA RowsNext ==
    ASSUME NEW bytes \in Seq(Byte), NEW p \in Nat, NEW k \in Nat
    PROVE  /\ k = 0 => RowsFrom(bytes, p, k) = FirstRowAt(p)
           /\ RowsFrom(bytes, p, k) \in RowStates
           /\ RowsFrom(bytes, p, k + 1) = AfterRow(bytes, RowsFrom(bytes, p, k))
<1> DEFINE V == RowStates
           a == FirstRowAt(p)
           F == RowFunction(bytes)
<1>1. k + 1 \in Nat /\ k <= k + 1 /\ k <= k /\ k + 1 \in 1..(k + 1) /\ (k + 1) - 1 = k
  OBVIOUS
<1>2. PICK g : Orbit(k, V, a, F, g) /\ RowsFrom(bytes, p, k) = g[k]
  BY RowsOrbit
<1>3. PICK h : Orbit(k + 1, V, a, F, h) /\ RowsFrom(bytes, p, k + 1) = h[k + 1]
  BY <1>1, RowsOrbit
<1>4. \A v \in V : F[v] = AfterRow(bytes, v)
  BY DEF RowFunction
<1> HIDE DEF V, F, a
<1>5. g[k] \in V /\ g[0] = a
  BY <1>2 DEF Orbit
<1>6. h[k] = g[k]
  BY <1>1, <1>2, <1>3, OrbitAgree
<1>7. h[k + 1] = F[h[k]]
  BY <1>1, <1>3 DEF Orbit
<1>8. RowsFrom(bytes, p, k + 1) = AfterRow(bytes, RowsFrom(bytes, p, k))
  BY <1>2, <1>3, <1>4, <1>5, <1>6, <1>7
<1>9. QED
  BY <1>2, <1>5, <1>8 DEF V, a

\* Rows that are cut off, or refused, stay so.
LEMMA RowsCut ==
    ASSUME NEW bytes \in Seq(Byte), NEW p \in Nat, NEW k \in Nat, NEW n \in Nat, k <= n,
           RowsFrom(bytes, p, k).at = None
    PROVE  RowsFrom(bytes, p, n).at = None
<1> DEFINE S == {d \in Nat : RowsFrom(bytes, p, k + d).at = None}
<1>1. 0 \in S
  OBVIOUS
<1>2. ASSUME NEW d \in Nat, d \in S PROVE d + 1 \in S
  <2>1. RowsFrom(bytes, p, k + d).at = None /\ k + d \in Nat /\ (k + d) + 1 = k + (d + 1)
    BY <1>2
  <2>2. /\ RowsFrom(bytes, p, k + d) \in RowStates
        /\ RowsFrom(bytes, p, (k + d) + 1) = AfterRow(bytes, RowsFrom(bytes, p, k + d))
    BY <2>1, RowsNext
  <2>3. AfterRow(bytes, RowsFrom(bytes, p, k + d)) = RowsFrom(bytes, p, k + d)
    BY <2>1, <2>2, RowStep
  <2>4. QED
    BY <2>1, <2>2, <2>3
<1>3. \A d \in Nat : d \in S
  <2> HIDE DEF S
  <2>1. QED
    BY <1>1, <1>2, SetInduction
<1>4. n - k \in Nat /\ k + (n - k) = n
  OBVIOUS
<1>5. n - k \in S
  BY <1>3, <1>4
<1>6. RowsFrom(bytes, p, k + (n - k)).at = None
  BY <1>5
<1>7. QED
  BY <1>4, <1>6

(***************************************************************************)
(* The steps.                                                              *)
(***************************************************************************)
End0 == ListEnd(list.body, list.k_type, 0)

\* Where the one-shot search finds the end, by the kind of list.
LEMMA EndOf ==
    ASSUME NEW bytes, NEW k_type \in ListTypes
    PROVE  LET n == take_list_length(bytes, 0)
           IN /\ n = None => ListEnd(bytes, k_type, 0) = None
              /\ n # None /\ k_type = 0 => ListEnd(bytes, k_type, 0) = AfterRows(bytes, 5, n)
              /\ n # None /\ k_type = 11 => ListEnd(bytes, k_type, 0) = AfterSymbols(bytes, 5, n)
              /\ n # None /\ k_type \notin {0, 11} =>
                   ListEnd(bytes, k_type, 0) = Within(bytes, 5 + n * K_TYPE_SIZE[k_type])
<1> DEFINE n == take_list_length(bytes, 0)
<1>1. 0 + 5 = 5
  OBVIOUS
<1>2. n = None => ListEnd(bytes, k_type, 0) = None
  BY DEF ListEnd
<1>3. ASSUME n # None
      PROVE  ListEnd(bytes, k_type, 0) =
               CASE k_type = 0 -> AfterRows(bytes, 5, n)
                 [] k_type = 11 -> AfterSymbols(bytes, 5, n)
                 [] OTHER -> Within(bytes, 5 + n * K_TYPE_SIZE[k_type])
  BY <1>1, <1>3, Zenon DEF ListEnd
<1> HIDE DEF n
<1>4. n # None /\ k_type = 0 => ListEnd(bytes, k_type, 0) = AfterRows(bytes, 5, n)
  BY <1>3
<1>5. n # None /\ k_type = 11 => ListEnd(bytes, k_type, 0) = AfterSymbols(bytes, 5, n)
  BY <1>3
<1>6. n # None /\ k_type \notin {0, 11} =>
        ListEnd(bytes, k_type, 0) = Within(bytes, 5 + n * K_TYPE_SIZE[k_type])
  BY <1>3
<1>7. QED
  BY <1>2, <1>4, <1>5, <1>6 DEF n

\* What the types say of the frame and of the part of it that is seen.
LEMMA Frame ==
    ASSUME TypeOK
    PROVE  /\ list.body \in Seq(Byte) /\ list.k_type \in 0..255 /\ total = Len(list.body)
           /\ total \in Nat /\ received \in Nat /\ seen \in Nat
           /\ seen <= received /\ received <= total
           /\ seen \in 0..Len(list.body) /\ Seen \in Seq(Byte) /\ Len(Seen) = seen
           /\ Rows \in Nat \cup {None}
<1>1. list.body \in Seq(Byte) /\ list.k_type \in 0..255
  BY ListsAssumption DEF TypeOK
<1>2. total = Len(list.body) /\ total \in Nat
  BY <1>1 DEF total
<1>3. received \in Nat /\ seen \in Nat /\ seen <= received /\ received <= total
  BY <1>2 DEF TypeOK
<1>4. seen \in 0..Len(list.body)
  BY <1>2, <1>3
<1>5. Seen \in Seq(Byte) /\ Len(Seen) = seen
  BY <1>1, <1>4, Prefix DEF Seen
<1>6. Rows \in Nat \cup {None}
  BY <1>1, ListLength DEF Rows
<1>7. QED
  BY <1>1, <1>2, <1>3, <1>4, <1>5, <1>6

\* A step that keeps the scan's state and does not end it.
LEMMA SameScan ==
    ASSUME IInv, UNCHANGED <<list, scan, outcome>>, pc # "done", pc' # "done", TypeOK',
           PcInv', PlaceInv'
    PROVE  IInv'
<1>1. CountInv'
  BY DEF IInv, CountInv, scan, Rows, Done, InRow, total
<1>2. outcome = "none" /\ outcome' = "none"
  BY DEF IInv, PcInv
<1>3. SameAsOneShot' /\ outcome' # "panic"
  BY <1>2 DEF SameAsOneShot
<1>4. QED
  BY <1>1, <1>3 DEF IInv

\* An error is reported when the one-shot search finds one, too.
LEMMA StopError ==
    ASSUME IInv, Stop("error"), End0 = None
    PROVE  IInv'
<1> USE DEF Stop, scan
<1>1. TypeOK'
  BY DEF IInv, TypeOK, total
<1>2. PcInv' /\ PlaceInv'
  BY DEF IInv, PcInv, PlaceInv, total
<1>3. CountInv'
  BY DEF IInv, CountInv, Rows, Done, InRow, total
<1>4. SameAsOneShot' /\ outcome' # "panic"
  BY DEF SameAsOneShot, End0
<1>5. QED
  BY <1>1, <1>2, <1>3, <1>4 DEF IInv

\* The scan waits only while there is more to come.
LEMMA Waits ==
    ASSUME IInv, pc \in {"header", "rows", "end"}, Goto("wait"), UNCHANGED scan, seen < total
    PROVE  IInv'
<1> USE DEF Goto, scan
<1>1. TypeOK'
  BY DEF IInv, TypeOK, total
<1>2. PcInv' /\ PlaceInv'
  BY DEF IInv, PcInv, PlaceInv, total
<1>3. QED
  BY <1>1, <1>2, SameScan DEF IInv, PcInv

\* Bytes arrive, the scan starts, advance() is called, the rows are done.
LEMMA OutsideStep ==
    ASSUME IInv, Arrive \/ New \/ Advance \/ RowsDone
    PROVE  IInv'
<1> USE Frame DEF IInv, scan
<1>1. CASE Arrive
  <2>1. TypeOK'
    BY <1>1 DEF Arrive, TypeOK, total
  <2>2. PcInv' /\ PlaceInv' /\ CountInv' /\ outcome' # "panic"
    BY <1>1 DEF Arrive, PcInv, PlaceInv, CountInv, Rows, Done, InRow, total
  <2>3. SameAsOneShot'
    <3>1. received <= received' /\ received \in Nat /\ received' \in Nat /\ pos \in Nat
      BY <1>1, <2>1, Frame DEF Arrive, TypeOK
    <3>2. QED
      BY <1>1, <3>1 DEF Arrive, SameAsOneShot
  <2>4. QED
    BY <2>1, <2>2, <2>3
<1>2. CASE New
  <2>1. CASE list.k_type \in ListTypes
    <3>1. /\ TypeOK' /\ PcInv' /\ PlaceInv' /\ UNCHANGED <<list, scan, outcome>>
          /\ pc' # "done" /\ pc # "done"
      BY <1>2, <2>1 DEF New, Goto, TypeOK, PcInv, PlaceInv, total
    <3>2. QED
      BY <3>1, SameScan
  <2>2. CASE list.k_type \notin ListTypes
    <3>1. End0 = None
      BY <2>2 DEF End0, ListEnd
    <3>2. QED
      BY <1>2, <2>2, <3>1, StopError DEF New
  <2>3. QED
    BY <2>1, <2>2
<1>3. CASE Advance
  <2>1. seen <= seen' /\ seen' = received
    BY <1>3 DEF Advance
  <2>2. TypeOK'
    BY <1>3 DEF Advance, TypeOK, total
  <2>3. PcInv'
    BY <1>3 DEF Advance, PcInv
  <2>4. PlaceInv'
    BY <1>3, <2>1, <2>2 DEF Advance, PlaceInv, TypeOK, total
  <2>5. UNCHANGED <<list, scan, outcome>> /\ pc' # "done" /\ pc # "done"
    BY <1>3 DEF Advance
  <2>6. QED
    BY <2>2, <2>3, <2>4, <2>5, SameScan
<1>4. CASE RowsDone
  <2>1. /\ TypeOK' /\ PcInv' /\ PlaceInv' /\ UNCHANGED <<list, scan, outcome>>
        /\ pc' # "done" /\ pc # "done"
    BY <1>4 DEF RowsDone, Goto, TypeOK, PcInv, PlaceInv, total
  <2>2. QED
    BY <2>1, SameScan
<1>5. QED
  BY <1>1, <1>2, <1>3, <1>4

\* The end that is reported is the end of the list.
LEMMA EndStep ==
    ASSUME IInv, End
    PROVE  IInv'
<1> USE Frame DEF IInv, scan, End
<1>1. pos \in Nat /\ rows_left = 0 /\ child_symbols_left = 0 /\ list.k_type \in ListTypes
  BY DEF TypeOK, PcInv, PlaceInv, None
<1>2. CASE pos > seen
  <2>1. seen < total /\ Goto("wait") /\ UNCHANGED scan
    BY <1>1, <1>2 DEF PlaceInv
  <2>2. QED
    BY <2>1, Waits
<1>3. CASE pos <= seen
  <2>1. Rows \in Nat /\ Rows # None /\ Done = Rows /\ rows_left # None
    BY <1>1 DEF CountInv, Done, None
  <2>2. pos = End0
    <3>1. CASE list.k_type = 11
      <4>1. pos = AfterSymbols(list.body, 5, Rows)
        BY <2>1, <3>1 DEF CountInv
      <4>2. QED
        BY <1>1, <2>1, <3>1, <4>1, EndOf DEF End0, Rows
    <3>2. CASE list.k_type = 0
      <4>1. pos >= 5 + Rows /\ RowsFrom(list.body, 5, Rows) = [at |-> pos, child |-> child_type]
        BY <1>1, <2>1, <3>2 DEF CountInv
      <4>2. Rows <= Len(list.body)
        BY <1>1, <1>3, <2>1, <4>1
      <4>3. AfterRows(list.body, 5, Rows) = pos
        BY <2>1, <4>1, <4>2 DEF AfterRows
      <4>4. QED
        BY <1>1, <2>1, <3>2, <4>3, EndOf DEF End0, Rows
    <3>3. CASE list.k_type \notin {0, 11}
      BY <1>1, <2>1, <3>3 DEF CountInv, End0
    <3>4. QED
      BY <3>1, <3>2, <3>3
  <2>3. Stop("complete")
    BY <1>3
  <2>4. TypeOK' /\ PcInv' /\ PlaceInv'
    BY <2>3 DEF Stop, TypeOK, PcInv, PlaceInv, total
  <2>5. CountInv'
    BY <2>3 DEF Stop, CountInv, Rows, Done, InRow, total
  <2>6. SameAsOneShot' /\ outcome' # "panic"
    BY <1>1, <1>3, <2>2, <2>3 DEF Stop, SameAsOneShot, End0
  <2>7. QED
    BY <2>4, <2>5, <2>6
<1>4. QED
  BY <1>1, <1>2, <1>3

\* A step that does not end the scan is right when its parts are.
LEMMA GoesOn ==
    ASSUME outcome' = "none", TypeOK', PcInv', PlaceInv', CountInv'
    PROVE  IInv'
  BY DEF IInv, SameAsOneShot

\* The list's own header: advance() reads the count that the one-shot search
\* reads, and skips what it skips.
LEMMA HeaderStep ==
    ASSUME IInv, Header
    PROVE  IInv'
<1> DEFINE end == 5 + Rows * K_TYPE_SIZE[list.k_type]
<1>1. /\ pc = "header" /\ pos = 0 /\ rows_left = None /\ child_type = None
      /\ child_symbols_left = 0 /\ list.k_type \in ListTypes /\ outcome = "none"
      /\ pos + 5 = 5
  BY DEF IInv, PcInv, TypeOK, Header
<1>2. CASE 5 > seen
  <2>1. Incomplete(5)
    BY <1>1, <1>2 DEF Header
  <2>2. CASE 5 > total
    <3>1. Rows = None
      BY <2>2 DEF Rows, take_list_length, total
    <3>2. End0 = None
      BY <1>1, <3>1, EndOf DEF End0, Rows
    <3>3. QED
      BY <2>1, <2>2, <3>2, StopError DEF Incomplete
  <2>3. CASE ~(5 > total)
    <3>1. seen < total
      BY <1>2, <2>3, Frame DEF IInv
    <3>2. QED
      BY <1>1, <2>1, <2>3, <3>1, Waits DEF Incomplete
  <2>4. QED
    BY <2>2, <2>3
<1>3. CASE ~(5 > seen)
  <2>1. take_list_length(Seen, pos) = Rows
    <3>1. list.body \in Seq(Byte) /\ seen \in 0..Len(list.body) /\ 0 + 5 <= seen
      BY <1>3, Frame DEF IInv
    <3>2. QED
      BY <1>1, <3>1, ListLength DEF Seen, Rows
  <2>2. CASE Rows = None
    <3>1. Stop("error")
      BY <1>1, <1>3, <2>1, <2>2 DEF Header
    <3>2. End0 = None
      BY <1>1, <2>2, EndOf DEF End0, Rows
    <3>3. QED
      BY <3>1, <3>2, StopError
  <2>3. CASE Rows # None /\ list.k_type \in {0, 11}
    <3>1. /\ pos' = 5 /\ rows_left' = Rows /\ Goto("rows")
          /\ child_type' = None /\ child_symbols_left' = 0
      BY <1>1, <1>3, <2>1, <2>3 DEF Header
    <3>2. Rows \in Nat /\ list.body \in Seq(Byte)
      BY <2>3, Frame DEF IInv
    <3>3. TypeOK'
      BY <1>1, <3>1, <3>2 DEF IInv, TypeOK, Goto, total
    <3>4. PcInv' /\ PlaceInv'
      <4>1. 5 <= seen /\ 5 <= total
        BY <1>3, Frame DEF IInv
      <4>2. QED
        BY <1>1, <2>3, <3>1, <4>1 DEF PcInv, PlaceInv, Goto, total
    <3>5. CountInv'
      <4>1. Rows' = Rows /\ Done' = 0 /\ list' = list
        BY <3>1, <3>2 DEF Rows, Done, Goto
      <4>2. AfterSymbols(list.body, 5, 0) = 5
        BY <3>2, SymbolsNext
      <4>3. RowsFrom(list.body, 5, 0) = [at |-> 5, child |-> None]
        BY <3>2, RowsNext DEF FirstRowAt
      <4>4. QED
        BY <1>1, <2>3, <3>1, <4>1, <4>2, <4>3 DEF CountInv
    <3>6. QED
      BY <1>1, <3>1, <3>3, <3>4, <3>5, GoesOn DEF Goto
  <2>4. CASE Rows # None /\ list.k_type \notin {0, 11}
    <3>1. Rows \in Nat /\ list.body \in Seq(Byte) /\ total = Len(list.body) /\ total \in Nat
      BY <2>4, Frame DEF IInv
    <3>2. end \in Nat
      BY <1>1, <3>1, TypeSizes, SMTT(30)
    <3>3. End0 = Within(list.body, end)
      BY <1>1, <2>4, EndOf DEF End0, Rows
    <3> HIDE DEF end
    <3>4. CASE end > total
      <4>1. Stop("error")
        BY <1>1, <1>3, <2>1, <2>4, <3>4 DEF Header, end
      <4>2. End0 = None
        BY <3>1, <3>3, <3>4 DEF Within
      <4>3. QED
        BY <4>1, <4>2, StopError
    <3>5. CASE ~(end > total)
      <4>1. /\ pos' = end /\ rows_left' = 0 /\ Goto("end")
            /\ child_type' = None /\ child_symbols_left' = 0
        BY <1>1, <1>3, <2>1, <2>4, <3>5 DEF Header, end
      <4>2. TypeOK'
        BY <1>1, <3>2, <4>1 DEF IInv, TypeOK, Goto, total
      <4>3. PcInv' /\ PlaceInv'
        BY <1>1, <2>4, <3>1, <3>2, <3>5, <4>1 DEF PcInv, PlaceInv, Goto, total, None
      <4>4. End0 = end
        BY <3>1, <3>3, <3>5 DEF Within
      <4>5. CountInv'
        <5>1. Rows' = Rows /\ Done' = Rows /\ list' = list
          BY <3>1, <4>1 DEF Rows, Done, Goto
        <5>2. QED
          BY <1>1, <2>4, <3>1, <4>1, <4>4, <5>1 DEF CountInv, End0
      <4>6. QED
        BY <1>1, <4>1, <4>2, <4>3, <4>5, GoesOn DEF Goto
    <3>6. QED
      BY <3>4, <3>5
  <2>5. QED
    BY <2>2, <2>3, <2>4
<1>4. QED
  BY <1>2, <1>3

\* One symbol that is cut off cuts off the symbols it belongs to.
LEMMA SymbolsEnd ==
    ASSUME NEW bytes \in Seq(Byte), NEW p \in Nat, NEW d \in Nat, NEW n \in Nat, d + 1 <= n,
           AfterNul(bytes, AfterSymbols(bytes, p, d)) = None
    PROVE  AfterSymbols(bytes, p, n) = None
<1>1. CASE d + 1 <= Len(bytes)
  <2>1. AfterSymbols(bytes, p, d + 1) = None
    BY <1>1, SymbolsNext
  <2>2. d + 1 \in Nat
    OBVIOUS
  <2>3. QED
    BY <2>1, <2>2, SymbolsCut
<1>2. CASE ~(d + 1 <= Len(bytes))
  <2>1. n > Len(bytes)
    BY <1>2
  <2>2. QED
    BY <2>1 DEF AfterSymbols
<1>3. QED
  BY <1>1, <1>2

\* One row that is refused makes the list end nowhere.
LEMMA RowError ==
    ASSUME TypeOK, list.k_type = 0, list.k_type \in ListTypes, Rows # None, Done \in Nat,
           Done + 1 <= Rows, AfterRow(list.body, RowsFrom(list.body, 5, Done)).at = None
    PROVE  End0 = None
<1>1. list.body \in Seq(Byte) /\ Rows \in Nat /\ Done + 1 \in Nat /\ 5 \in Nat
  BY Frame
<1>2. RowsFrom(list.body, 5, Done + 1) = AfterRow(list.body, RowsFrom(list.body, 5, Done))
  BY <1>1, RowsNext
<1>3. RowsFrom(list.body, 5, Done + 1).at = None
  BY <1>2
<1> DEFINE k == Done + 1
<1>4. RowsFrom(list.body, 5, k).at = None /\ k \in Nat /\ k <= Rows
  BY <1>1, <1>3
<1> HIDE DEF k
<1>5. RowsFrom(list.body, 5, Rows).at = None
  BY <1>1, <1>4, RowsCut
<1>6. AfterRows(list.body, 5, Rows) = None
  BY <1>5 DEF AfterRows
<1>7. End0 = AfterRows(list.body, 5, Rows)
  BY EndOf DEF End0, Rows
<1>8. QED
  BY <1>6, <1>7

\* A row of symbols, if it may follow the rows before it.
LEMMA SymbolRow ==
    ASSUME NEW bytes \in Seq(Byte), NEW r \in RowStates, r.at \in Nat,
           r.at + 6 <= Len(bytes), At(bytes, r.at) = 11, r.child \in {None, 11},
           take_list_length(bytes, r.at + 1) # None
    PROVE  AfterRow(bytes, r) =
             [at |-> AfterSymbols(bytes, r.at + 6, take_list_length(bytes, r.at + 1)),
              child |-> 11]
<1>1. r.at # None /\ ~(r.at + 6 > Len(bytes)) /\ 11 \in NestedTypes /\ At(bytes, r.at) # 0
  BY DEF None, NestedTypes
<1>2. QED
  BY <1>1, Zenon DEF AfterRow

\* memchr() over what is seen: a NUL is that of the frame, none may only be
\* one that has not arrived.
LEMMA NulSeen ==
    ASSUME TypeOK, pos <= seen
    PROVE  /\ NulAt(Seen, pos) # None =>
                /\ NulAt(Seen, pos) \in Nat /\ NulAt(Seen, pos) >= pos
                /\ NulAt(Seen, pos) + 1 <= seen
                /\ AfterNul(list.body, pos) = NulAt(Seen, pos) + 1
           /\ NulAt(Seen, pos) = None /\ ~(seen < total) => AfterNul(list.body, pos) = None
<1>1. /\ list.body \in Seq(Byte) /\ seen \in 0..Len(list.body) /\ pos \in Nat /\ seen \in Nat
      /\ Seen \in Seq(Byte) /\ Len(Seen) = seen /\ total = Len(list.body)
  BY Frame DEF TypeOK
<1>2. ASSUME NulAt(Seen, pos) # None
      PROVE  /\ NulAt(Seen, pos) \in Nat /\ NulAt(Seen, pos) >= pos /\ NulAt(Seen, pos) + 1 <= seen
             /\ AfterNul(list.body, pos) = NulAt(Seen, pos) + 1
  <2>1. NulAt(Seen, pos) \in pos..(seen - 1)
    BY <1>1, <1>2, FirstNul
  <2>2. NulAt(list.body, pos) = NulAt(Seen, pos)
    BY <1>1, <1>2, NulInPrefix DEF Seen
  <2>3. pos # None
    BY <1>1 DEF None
  <2>4. QED
    BY <1>1, <1>2, <2>1, <2>2, <2>3 DEF AfterNul
<1>3. ASSUME NulAt(Seen, pos) = None, ~(seen < total)
      PROVE  AfterNul(list.body, pos) = None
  <2>1. seen = Len(list.body)
    BY <1>1, <1>3
  <2>2. Seen = list.body
    BY <1>1, <2>1, Prefix DEF Seen
  <2>3. QED
    BY <1>3, <2>2 DEF AfterNul
<1>4. QED
  BY <1>2, <1>3

\* scan_symbols() in a list of symbols.
LEMMA ListSymbolStep ==
    ASSUME IInv, Symbol, list.k_type = 11
    PROVE  IInv'
<1> DEFINE nul == NulAt(Seen, pos)
<1>1. /\ pc = "rows" /\ outcome = "none" /\ rows_left \in Nat /\ rows_left > 0 /\ rows_left # None
      /\ pos \in Nat /\ pos <= seen /\ 11 \in ListTypes /\ child_symbols_left = 0
  BY DEF IInv, Symbol, PcInv, PlaceInv, TypeOK, None
<1>2. /\ Rows \in Nat /\ Rows # None /\ Done \in Nat /\ Done + 1 <= Rows
      /\ pos >= 5 + Done /\ pos = AfterSymbols(list.body, 5, Done)
  <2>1. Rows # None /\ Done >= 0 /\ pos >= 5 + Done /\ pos = AfterSymbols(list.body, 5, Done)
    BY <1>1 DEF IInv, CountInv
  <2>2. Rows \in Nat
    BY <2>1, Frame DEF IInv
  <2>3. QED
    BY <1>1, <2>1, <2>2 DEF Done
<1>3. /\ list.body \in Seq(Byte) /\ total = Len(list.body) /\ total \in Nat /\ seen \in Nat
      /\ seen <= total
  BY Frame DEF IInv
<1>4. /\ nul # None => /\ nul \in Nat /\ nul >= pos /\ nul + 1 <= seen
                       /\ AfterNul(list.body, pos) = nul + 1
      /\ nul = None /\ ~(seen < total) => AfterNul(list.body, pos) = None
  BY <1>1, NulSeen DEF IInv
<1> HIDE DEF nul
<1>5. CASE nul # None
  <2>1. /\ pos' = nul + 1 /\ rows_left' = rows_left - 1 /\ Goto("rows")
        /\ UNCHANGED <<child_type, child_symbols_left>>
    BY <1>1, <1>3, <1>5 DEF Symbol, CountOff, nul
  <2>2. TypeOK'
    BY <1>1, <1>4, <1>5, <2>1 DEF IInv, TypeOK, Goto, total
  <2>3. PcInv' /\ PlaceInv'
    BY <1>1, <1>3, <1>4, <1>5, <2>1 DEF IInv, PcInv, PlaceInv, Goto, total, None
  <2>4. AfterSymbols(list.body, 5, Done + 1) = nul + 1
    <3>1. Done + 1 <= Len(list.body)
      BY <1>1, <1>2, <1>3
    <3>2. QED
      BY <1>2, <1>3, <1>4, <1>5, <3>1, SymbolsNext
  <2>5. CountInv'
    <3>1. Rows' = Rows /\ list' = list
      BY <2>1 DEF Rows, Goto
    <3>2. Done' = Done + 1
      BY <1>1, <1>2, <2>1, <3>1 DEF Done
    <3>3. nul + 1 >= 5 + (Done + 1)
      BY <1>1, <1>2, <1>4, <1>5
    <3>4. QED
      BY <1>1, <1>2, <2>1, <2>4, <3>1, <3>2, <3>3 DEF CountInv
  <2>6. QED
    BY <1>1, <2>1, <2>2, <2>3, <2>5, GoesOn DEF Goto
<1>6. CASE nul = None /\ seen < total
  <2>1. Goto("wait") /\ UNCHANGED scan
    BY <1>1, <1>3, <1>6 DEF Symbol, nul
  <2>2. QED
    BY <1>1, <1>6, <2>1, Waits
<1>7. CASE nul = None /\ ~(seen < total)
  <2>1. Stop("error")
    BY <1>1, <1>3, <1>7 DEF Symbol, nul
  <2>2. AfterSymbols(list.body, 5, Rows) = None
    BY <1>2, <1>3, <1>4, <1>7, SymbolsEnd
  <2>3. End0 = None
    BY <1>1, <1>2, <2>2, EndOf DEF End0, Rows
  <2>4. QED
    BY <2>1, <2>3, StopError
<1>8. QED
  BY <1>5, <1>6, <1>7

\* scan_symbols() in a row of symbols of a nested list.
LEMMA RowSymbolStep ==
    ASSUME IInv, Symbol, list.k_type # 11
    PROVE  IInv'
<1> DEFINE nul == NulAt(Seen, pos)
<1>1. /\ pc = "rows" /\ outcome = "none" /\ rows_left \in Nat /\ rows_left > 0 /\ rows_left # None
      /\ pos \in Nat /\ pos <= seen /\ list.k_type = 0 /\ list.k_type \in ListTypes
      /\ child_symbols_left \in Nat /\ child_symbols_left > 0
  BY DEF IInv, Symbol, PcInv, PlaceInv, TypeOK, None
<1>2. Rows \in Nat /\ Rows # None /\ Done \in Nat /\ Done + 1 <= Rows
  <2>1. Rows # None /\ Done >= 0
    BY <1>1 DEF IInv, CountInv
  <2>2. Rows \in Nat
    BY <2>1, Frame DEF IInv
  <2>3. QED
    BY <1>1, <2>1, <2>2 DEF Done
<1>3. PICK q \in 0..total : InRow(q)
  BY <1>1 DEF IInv, CountInv
<1> DEFINE symbols == take_list_length(list.body, q + 1)
           done == symbols - child_symbols_left
           r == RowsFrom(list.body, 5, Done)
<1>4. /\ list.body \in Seq(Byte) /\ total = Len(list.body) /\ total \in Nat /\ seen \in Nat
      /\ seen <= total /\ q \in Nat
  BY Frame DEF IInv
<1>5. /\ q >= 5 + Done /\ q + 6 <= total /\ r.at = q /\ r.child \in {None, 11}
      /\ At(list.body, q) = 11 /\ child_type = 11
      /\ symbols # None /\ done >= 0 /\ pos >= q + 6 + done
      /\ pos = AfterSymbols(list.body, q + 6, done)
  BY <1>3 DEF InRow
<1>6. symbols \in Nat /\ done \in Nat /\ done + 1 <= symbols /\ q + 6 \in Nat
  <2>1. symbols \in Nat
    BY <1>4, <1>5, ListLength
  <2> HIDE DEF symbols
  <2>2. QED
    BY <1>1, <1>4, <1>5, <2>1
<1>7. /\ r \in RowStates /\ RowsFrom(list.body, 5, Done + 1) = AfterRow(list.body, r)
      /\ AfterRow(list.body, r) = [at |-> AfterSymbols(list.body, q + 6, symbols), child |-> 11]
  <2>1. r \in RowStates /\ RowsFrom(list.body, 5, Done + 1) = AfterRow(list.body, r)
    BY <1>2, <1>4, RowsNext
  <2> HIDE DEF r
  <2>2. QED
    BY <1>4, <1>5, <2>1, SymbolRow
<1>8. /\ nul # None => /\ nul \in Nat /\ nul >= pos /\ nul + 1 <= seen
                       /\ AfterNul(list.body, pos) = nul + 1
      /\ nul = None /\ ~(seen < total) => AfterNul(list.body, pos) = None
  BY <1>1, NulSeen DEF IInv
<1> HIDE DEF nul, symbols, r
<1>9. CASE nul # None
  <2>1. /\ pos' = nul + 1 /\ child_symbols_left' = child_symbols_left - 1
        /\ rows_left' = IF child_symbols_left = 1 THEN rows_left - 1 ELSE rows_left
        /\ Goto("rows") /\ UNCHANGED child_type
    BY <1>1, <1>4, <1>9 DEF Symbol, CountOff, nul
  <2>2. TypeOK'
    BY <1>1, <1>8, <1>9, <2>1 DEF IInv, TypeOK, Goto, total
  <2>3. PcInv' /\ PlaceInv'
    BY <1>1, <1>4, <1>8, <1>9, <2>1 DEF IInv, PcInv, PlaceInv, Goto, total, None
  <2>4. AfterSymbols(list.body, q + 6, done + 1) = nul + 1
    <3>1. done + 1 <= Len(list.body)
      BY <1>1, <1>4, <1>5, <1>6
    <3> HIDE DEF done
    <3>2. QED
      BY <1>4, <1>5, <1>6, <1>8, <1>9, <3>1, SymbolsNext
  <2>5. Rows' = Rows /\ list' = list /\ total' = total
    BY <2>1 DEF Rows, Goto, total
  <2>6. CASE child_symbols_left = 1
    <3>1. Done' = Done + 1
      BY <1>1, <1>2, <2>1, <2>5, <2>6 DEF Done
    <3>2. done + 1 = symbols
      BY <1>6, <2>6
    <3>3. RowsFrom(list.body, 5, Done + 1) = [at |-> nul + 1, child |-> 11]
      BY <1>7, <2>4, <3>2
    <3>4. nul + 1 >= 5 + (Done + 1)
      BY <1>1, <1>2, <1>4, <1>5, <1>6, <1>8, <1>9
    <3>5. CountInv'
      BY <1>1, <1>2, <1>5, <2>1, <2>5, <2>6, <3>1, <3>3, <3>4 DEF CountInv
    <3>6. QED
      BY <1>1, <2>1, <2>2, <2>3, <3>5, GoesOn DEF Goto
  <2>7. CASE child_symbols_left # 1
    <3>1. Done' = Done /\ child_symbols_left' # 0 /\ rows_left' = rows_left
      BY <1>1, <1>2, <2>1, <2>5, <2>7 DEF Done
    <3>2. symbols - child_symbols_left' = done + 1
      BY <1>1, <1>6, <2>1
    <3>3. nul + 1 >= q + 6 + (done + 1)
      BY <1>1, <1>4, <1>5, <1>6, <1>8, <1>9
    <3> HIDE DEF done
    <3>4. InRow(q)'
      BY <1>4, <1>5, <1>6, <2>1, <2>4, <2>5, <3>1, <3>2, <3>3, SMTT(30) DEF InRow, symbols, r
    <3>5. CountInv'
      BY <1>1, <1>2, <1>3, <2>5, <3>1, <3>4 DEF CountInv
    <3>6. QED
      BY <1>1, <2>1, <2>2, <2>3, <3>5, GoesOn DEF Goto
  <2>8. QED
    BY <2>6, <2>7
<1>10. CASE nul = None /\ seen < total
  <2>1. Goto("wait") /\ UNCHANGED scan
    BY <1>1, <1>4, <1>10 DEF Symbol, nul
  <2>2. QED
    BY <1>1, <1>10, <2>1, Waits
<1>11. CASE nul = None /\ ~(seen < total)
  <2>1. Stop("error")
    BY <1>1, <1>4, <1>11 DEF Symbol, nul
  <2>2. AfterSymbols(list.body, q + 6, symbols) = None
    <3> HIDE DEF done
    <3>1. QED
      BY <1>4, <1>5, <1>6, <1>8, <1>11, SymbolsEnd
  <2>3. AfterRow(list.body, r).at = None
    BY <1>7, <2>2
  <2>4. End0 = None
    BY <1>1, <1>2, <2>3, RowError DEF r, IInv
  <2>5. QED
    BY <2>1, <2>4, StopError
<1>12. QED
  BY <1>9, <1>10, <1>11

\* advance_nested(): the header of a row is accepted or refused as the
\* one-shot search does.
LEMMA NestedRowStep ==
    ASSUME IInv, NestedRow
    PROVE  IInv'
<1> DEFINE type == At(list.body, pos)
           n == take_list_length(list.body, pos + 1)
           child == IF child_type = None THEN type ELSE child_type
           r == RowsFrom(list.body, 5, Done)
           end == pos + 6 + n * K_TYPE_SIZE[type]
<1>1. /\ pc = "rows" /\ outcome = "none" /\ rows_left \in Nat /\ rows_left > 0 /\ rows_left # None
      /\ pos \in Nat /\ pos # None /\ list.k_type = 0 /\ list.k_type \in ListTypes
      /\ child_symbols_left = 0 /\ child_type \in NestedTypes \cup {None}
  BY DEF IInv, NestedRow, PcInv, TypeOK, None
<1>2. /\ Rows \in Nat /\ Rows # None /\ Done \in Nat /\ Done + 1 <= Rows
      /\ pos >= 5 + Done /\ r = [at |-> pos, child |-> child_type]
  <2>1. Rows # None /\ Done >= 0 /\ pos >= 5 + Done /\ r = [at |-> pos, child |-> child_type]
    BY <1>1 DEF IInv, CountInv
  <2>2. Rows \in Nat
    BY <2>1, Frame DEF IInv
  <2>3. QED
    BY <1>1, <2>1, <2>2 DEF Done
<1>3. /\ list.body \in Seq(Byte) /\ total = Len(list.body) /\ total \in Nat /\ seen \in Nat
      /\ seen <= total /\ seen \in 0..Len(list.body)
  BY Frame DEF IInv
<1>4. RowsFrom(list.body, 5, Done + 1) = AfterRow(list.body, r)
  BY <1>2, <1>3, RowsNext
<1>5. AfterRow(list.body, r).at = None => End0 = None
  BY <1>1, <1>2, RowError DEF IInv
<1>6. r.at = pos /\ r.child = child_type
  BY <1>2
<1> HIDE DEF r
<1>7. CASE pos + 6 > seen
  <2>1. Incomplete(pos + 6)
    BY <1>7 DEF NestedRow
  <2>2. CASE pos + 6 > total
    <3>1. AfterRow(list.body, r).at = None
      BY <1>3, <1>6, <2>2 DEF AfterRow
    <3>2. QED
      BY <1>5, <2>1, <2>2, <3>1, StopError DEF Incomplete
  <2>3. CASE ~(pos + 6 > total)
    <3>1. seen < total
      BY <1>1, <1>3, <1>7, <2>3
    <3>2. QED
      BY <1>1, <2>1, <2>3, <3>1, Waits DEF Incomplete
  <2>4. QED
    BY <2>2, <2>3
<1>8. CASE ~(pos + 6 > seen)
  <2> DEFINE refused == \/ child \notin NestedTypes
                        \/ type \notin {0, child}
                        \/ n = None
                        \/ type = 0 /\ n # 0
  <2>1. At(Seen, pos) = type /\ take_list_length(Seen, pos + 1) = n
    <3>1. pos \in 0..(seen - 1) /\ pos + 1 \in Nat /\ (pos + 1) + 5 <= seen
      BY <1>1, <1>3, <1>8
    <3>2. At(Seen, pos) = type
      BY <1>3, <3>1, Prefix DEF Seen
    <3>3. QED
      BY <1>3, <3>1, <3>2, ListLength DEF Seen
  <2> HIDE DEF n, type
  <2>2. /\ refused => Stop("error")
        /\ ~refused /\ type \in {0, 11} =>
             /\ pos' = pos + 6 /\ child_type' = child /\ child_symbols_left' = n
             /\ rows_left' = IF n = 0 THEN rows_left - 1 ELSE rows_left
             /\ Goto("rows")
        /\ ~refused /\ type \notin {0, 11} => Skipped(type, n)
    BY <1>8, <2>1 DEF NestedRow
  <2>3. ~(r.at + 6 > Len(list.body)) /\ r.at # None
    BY <1>1, <1>3, <1>6, <1>8
  <2>4. 0 \notin NestedTypes /\ 11 \in NestedTypes /\ None \notin NestedTypes
    BY DEF NestedTypes, None
  <2>5. CASE refused
    <3>1. ~(n # None /\ type = 0 /\ child_type # None /\ n = 0)
      BY <1>1, <2>5
    <3>2. ~(n # None /\ type \in NestedTypes /\ child_type \in {None, type})
      BY <1>1, <2>4, <2>5
    <3>3. AfterRow(list.body, r).at = None
      BY <1>6, <2>3, <3>1, <3>2 DEF AfterRow, n, type
    <3>4. QED
      BY <1>5, <2>2, <2>5, <3>3, StopError
  <2>6. CASE ~refused
    <3>1. n \in Nat /\ n # None
      <4>1. pos + 1 \in Nat
        BY <1>1
      <4>2. QED
        BY <1>3, <2>6, <4>1, ListLength DEF n
    <3>2. CASE type = 0
      <4>1. n = 0 /\ child_type # None /\ child = child_type
        BY <1>1, <2>4, <2>6, <3>2
      <4>2. AfterRow(list.body, r) = [at |-> pos + 6, child |-> child_type]
        <5>1. AfterRow(list.body, r) = [r EXCEPT !.at = @ + 6]
          BY <1>6, <2>3, <3>1, <3>2, <4>1 DEF AfterRow, n, type
        <5>2. QED
          BY <1>2, <5>1
      <4>3. /\ pos' = pos + 6 /\ child_type' = child_type /\ child_symbols_left' = 0
            /\ rows_left' = rows_left - 1 /\ Goto("rows")
        BY <2>2, <2>6, <3>2, <4>1
      <4> HIDE DEF refused, child, end
      <4>4. TypeOK'
        BY <1>1, <4>3 DEF IInv, TypeOK, Goto, total
      <4>5. PcInv' /\ PlaceInv'
        BY <1>1, <1>3, <1>8, <4>3 DEF IInv, PcInv, PlaceInv, Goto, total, None
      <4>6. CountInv'
        <5>1. Rows' = Rows /\ list' = list
          BY <4>3 DEF Rows, Goto
        <5>2. Done' = Done + 1
          BY <1>1, <1>2, <4>3, <5>1 DEF Done
        <5>3. pos + 6 >= 5 + (Done + 1)
          BY <1>1, <1>2
        <5>4. QED
          BY <1>1, <1>2, <1>4, <4>2, <4>3, <5>1, <5>2, <5>3 DEF CountInv
      <4>7. QED
        BY <1>1, <4>3, <4>4, <4>5, <4>6, GoesOn DEF Goto
    <3>3. CASE type = 11
      <4>1. child = 11 /\ child_type \in {None, 11}
        BY <1>1, <2>4, <2>6, <3>3
      <4>2. AfterRow(list.body, r) = [at |-> AfterSymbols(list.body, pos + 6, n), child |-> 11]
        <5>1. r \in RowStates
          BY <1>2, <1>3, RowsNext DEF r
        <5>2. r.at \in Nat /\ r.at + 6 <= Len(list.body)
          BY <1>1, <1>3, <1>6, <2>3
        <5>3. take_list_length(list.body, r.at + 1) = n /\ At(list.body, r.at) = 11
          BY <1>6, <3>3 DEF n, type
        <5>4. QED
          BY <1>3, <1>6, <3>1, <4>1, <5>1, <5>2, <5>3, SymbolRow
      <4>3. /\ pos' = pos + 6 /\ child_type' = 11 /\ child_symbols_left' = n
            /\ rows_left' = IF n = 0 THEN rows_left - 1 ELSE rows_left
            /\ Goto("rows")
        BY <2>2, <2>6, <3>3, <4>1
      <4>4. AfterSymbols(list.body, pos + 6, 0) = pos + 6
        BY <1>1, <1>3, SymbolsNext
      <4> HIDE DEF refused, child, end
      <4>5. TypeOK'
        BY <1>1, <2>4, <3>1, <4>3 DEF IInv, TypeOK, Goto, total
      <4>6. PcInv' /\ PlaceInv'
        BY <1>1, <1>3, <1>8, <3>1, <4>3 DEF IInv, PcInv, PlaceInv, Goto, total, None
      <4>7. Rows' = Rows /\ list' = list /\ total' = total
        BY <4>3 DEF Rows, Goto, total
      <4>8. CASE n = 0
        <5>1. Done' = Done + 1
          BY <1>1, <1>2, <4>3, <4>7, <4>8 DEF Done
        <5>2. pos + 6 >= 5 + (Done + 1)
          BY <1>1, <1>2
        <5>3. CountInv'
          BY <1>1, <1>2, <1>4, <4>2, <4>3, <4>4, <4>7, <4>8, <5>1, <5>2 DEF CountInv
        <5>4. QED
          BY <1>1, <4>3, <4>5, <4>6, <5>3, GoesOn DEF Goto
      <4>9. CASE n # 0
        <5>1. Done' = Done /\ rows_left' = rows_left
          BY <1>1, <1>2, <4>3, <4>7, <4>9 DEF Done
        <5>2. n - child_symbols_left' = 0
          BY <3>1, <4>3
        <5>3. pos + 6 >= pos + 6 + 0 /\ pos \in 0..total /\ pos + 6 <= total
          BY <1>1, <1>3, <1>8
        <5>4. PICK q \in 0..total : q = pos
          BY <5>3
        <5>5. InRow(q)'
          <6>1. take_list_length(list.body, q + 1) = n /\ At(list.body, q) = 11
            BY <3>3, <5>4 DEF n, type
          <6>2. r.at = q /\ r.child \in {None, 11} /\ q >= 5 + Done
            BY <1>2, <1>6, <4>1, <5>4
          <6>3. pos' = AfterSymbols(list.body, q + 6, 0) /\ pos' >= q + 6 + 0 /\ q + 6 <= total
            BY <1>1, <4>3, <4>4, <5>3, <5>4
          <6>4. QED
            BY <3>1, <4>3, <4>7, <5>1, <5>2, <6>1, <6>2, <6>3 DEF InRow, r
        <5>6. CountInv'
          BY <1>1, <1>2, <4>3, <4>7, <4>9, <5>1, <5>5 DEF CountInv
        <5>7. QED
          BY <1>1, <4>3, <4>5, <4>6, <5>6, GoesOn DEF Goto
      <4>10. QED
        BY <4>8, <4>9
    <3>4. CASE type \notin {0, 11}
      <4>1. child = type /\ type \in NestedTypes /\ child_type \in {None, type}
        BY <1>1, <2>4, <2>6, <3>4
      <4>2. end \in Nat /\ end >= pos + 6
        <5>1. n * K_TYPE_SIZE[type] \in Nat
          BY <3>1, <4>1, TypeSizes
        <5>2. QED
          BY <1>1, <5>1
      <4>3. AfterRow(list.body, r) = [at |-> Within(list.body, end), child |-> type]
        BY <1>6, <2>3, <3>1, <3>4, <4>1 DEF AfterRow, n, type
      <4>4. Skipped(type, n)
        BY <2>2, <2>6, <3>4
      <4> HIDE DEF refused, child, end
      <4>5. CASE end > total
        <5>1. Stop("error")
          BY <4>4, <4>5 DEF Skipped, end
        <5>2. AfterRow(list.body, r).at = None
          BY <1>3, <4>3, <4>5 DEF Within
        <5>3. QED
          BY <1>5, <5>1, <5>2, StopError
      <4>6. CASE ~(end > total)
        <5>1. /\ pos' = end /\ child_type' = type /\ rows_left' = rows_left - 1
              /\ child_symbols_left' = 0 /\ Goto(IF end > seen THEN "wait" ELSE "rows")
          BY <1>1, <4>4, <4>6 DEF Skipped, end
        <5>2. TypeOK'
          BY <1>1, <4>1, <4>2, <5>1 DEF IInv, TypeOK, Goto, total
        <5>3. PcInv' /\ PlaceInv'
          BY <1>1, <1>3, <4>2, <4>6, <5>1 DEF IInv, PcInv, PlaceInv, Goto, total, None
        <5>4. AfterRow(list.body, r) = [at |-> end, child |-> type]
          BY <1>3, <4>3, <4>6 DEF Within
        <5>5. CountInv'
          <6>1. Rows' = Rows /\ list' = list
            BY <5>1 DEF Rows, Goto
          <6>2. Done' = Done + 1
            BY <1>1, <1>2, <5>1, <6>1 DEF Done
          <6>3. end >= 5 + (Done + 1)
            BY <1>1, <1>2, <4>2
          <6>4. QED
            BY <1>1, <1>2, <1>4, <5>1, <5>4, <6>1, <6>2, <6>3 DEF CountInv
        <5>6. QED
          BY <1>1, <5>1, <5>2, <5>3, <5>5, GoesOn DEF Goto
      <4>7. QED
        BY <4>5, <4>6
    <3>5. QED
      BY <3>2, <3>3, <3>4
  <2>7. QED
    BY <2>5, <2>6
<1>9. QED
  BY <1>7, <1>8

(***************************************************************************)
(* The theorems.                                                           *)
(***************************************************************************)
\* The invariant holds at the start and is kept by every step.
LEMMA Inductive == Spec => []IInv
<1>1. Init => IInv
  <2> SUFFICES ASSUME Init PROVE IInv
    OBVIOUS
  <2>1. list.body \in Seq(Byte) /\ Len(list.body) \in Nat
    BY ListsAssumption DEF Init
  <2>2. TypeOK
    BY <2>1 DEF Init, TypeOK, total
  <2>3. PcInv /\ PlaceInv /\ CountInv /\ outcome # "panic" /\ SameAsOneShot
    BY <2>1 DEF Init, PcInv, PlaceInv, CountInv, SameAsOneShot, total, None
  <2>4. QED
    BY <2>2, <2>3 DEF IInv
<1>2. IInv /\ [Next]_vars => IInv'
  <2> SUFFICES ASSUME IInv, [Next]_vars PROVE IInv'
    OBVIOUS
  <2>1. CASE Arrive \/ New \/ Advance \/ RowsDone
    BY <2>1, OutsideStep
  <2>2. CASE Header
    BY <2>2, HeaderStep
  <2>3. CASE Symbol
    BY <2>3, ListSymbolStep, RowSymbolStep
  <2>4. CASE NestedRow
    BY <2>4, NestedRowStep
  <2>5. CASE End
    BY <2>5, EndStep
  <2>6. CASE UNCHANGED vars
    <3>1. TypeOK' /\ PcInv' /\ PlaceInv'
      BY <2>6 DEF IInv, TypeOK, PcInv, PlaceInv, vars, scan, total
    <3>2. CountInv' /\ outcome' # "panic" /\ SameAsOneShot'
      BY <2>6 DEF IInv, CountInv, SameAsOneShot, InRow, Rows, Done, vars, scan, total
    <3>3. QED
      BY <3>1, <3>2 DEF IInv
  <2>7. QED
    BY <2>1, <2>2, <2>3, <2>4, <2>5, <2>6 DEF Next, Scan
<1>3. QED
  BY <1>1, <1>2, PTL DEF Spec

\* Type correctness of the scan.
THEOREM Types == Spec => []TypeOK
<1>1. IInv => TypeOK
  BY DEF IInv
<1>2. QED
  BY <1>1, Inductive, PTL

\* advance() slices only what has arrived, its place never leaves the frame,
\* and scan_to_end() never waits for bytes that cannot come.
THEOREM Inside == Spec => []ScanStaysInside
<1>1. IInv => ScanStaysInside
  BY DEF IInv, PlaceInv, ScanStaysInside
<1>2. QED
  BY <1>1, Inductive, PTL

\* However the bytes of a frame arrive, the resumable scan reports what
\* calculate_array_end_index() finds in the whole frame.
THEOREM OneShot == Spec => []SameAsOneShot
<1>1. IInv => SameAsOneShot
  BY DEF IInv
<1>2. QED
  BY <1>1, Inductive, PTL
===============================================================================
