----------------------------- MODULE WorkerProofs -----------------------------
(***************************************************************************)
(* Proofs about Worker, for every capacity and every number of permits,    *)
(* cancellations and bytes: types, the exactness of the admission          *)
(* counters, the order of the commands, and that no promise is left to a   *)
(* slot nobody looks at.                                                   *)
(***************************************************************************)
EXTENDS Worker, InductionLemmas

(***************************************************************************)
(* The inductive invariant.                                                *)
(***************************************************************************)
\* The JavaScript thread inside a call owns the permit the call is about;
\* nothing but the drop of the NativeConnector takes the generation over
\* its bound; only live reservations have charges.
JsInv ==
    /\ jpc \in {"admitted", "sent"} => jp \in Permit /\ jp = permits /\ res[jp] = "permit"
    /\ jpc = "prepared" => jp \in Permit /\ res[jp] = "prepared"
    /\ jpc \in {"dropping", "aborted", "gone"} => stopping
    /\ jpc \notin {"dropping", "aborted", "gone"} => gen <= MaxCancels
    /\ \A p \in Permit : res[p] = "none" <=> p > permits
    /\ \A p \in Permit : bytes[p] # 0 => Live(p)

\* The last permit whose placeholder was sent.
LastSent == IF jpc = "admitted" THEN permits - 1 ELSE permits

\* Commands run, the command in the worker's hands and the placeholders of
\* the channel follow each other in the order of their reservations; Stop
\* is the last thing sent.
OrderInv ==
    /\ \A i \in 1..Len(chan) : chan[i] = 0 => jpc = "gone" /\ i = Len(chan)
    /\ \A i \in 1..Len(chan) : chan[i] <= LastSent
    /\ \A i, j \in 1..Len(chan) : i < j /\ chan[j] # 0 => chan[i] < chan[j]
    /\ \A j \in 1..Len(chan) : chan[j] # 0 => wp < chan[j]
    /\ \A i \in 1..Len(started), j \in 1..Len(chan) : chan[j] # 0 => started[i] < chan[j]
    /\ wp <= LastSent
    /\ \A i \in 1..Len(started) : started[i] <= LastSent
    /\ wpc \in {"wait", "disarm", "check", "start"} /\ wp # 0 =>
         \A i \in 1..Len(started) : started[i] < wp
    /\ InReservationOrder

\* What the worker holds in each of its states.
HandsInv ==
    /\ wp \in Permit \cup {0}
    /\ wpc \in {"wait", "disarm", "start"} => wp \in Permit
    /\ wpc \in {"check", "start"} /\ wp # 0 =>
         res[wp] = "command" /\ reply[wp] = "pending" /\ slot[wp] # "command"
    /\ wpc \in {"disconnect", "attempt", "begin", "operation", "connected", "executed",
                "backoff"} =>
         wp \in Permit /\ res[wp] = "dropped" /\ reply[wp] = "pending"
    /\ receiver <=> wpc # "done"
    /\ wpc = "done" => chan = <<>>

InChannel(p) == \E i \in 1..Len(chan) : chan[i] = p

\* A slot that holds a command, or can still be given one, has its
\* placeholder where the worker will find it.
SlotInv ==
    \A p \in Permit :
        /\ slot[p] = "command" => res[p] = "command"
        /\ res[p] = "command" => reply[p] = "pending"
        /\ res[p] = "command" /\ slot[p] # "command" => wp = p /\ wpc \in {"check", "start"}
        /\ slot[p] = "command" \/ (res[p] \in {"permit", "prepared"} /\ slot[p] = "empty") =>
             \/ InChannel(p)
             \/ wp = p /\ wpc \in {"wait", "disarm"}
             \/ jp = p /\ jpc = "admitted"

IInv ==
    TypeOK /\ JsInv /\ OrderInv /\ HandsInv /\ SlotInv /\ NoOrphanedReply /\ AccountsExact

(***************************************************************************)
(* Sums.                                                                   *)
(***************************************************************************)
\* SumTo is what its recursion says.
LEMMA SumRec ==
    ASSUME NEW N \in Nat, NEW c \in [1..N -> Int]
    PROVE  \E g \in [0..N -> Int] :
             /\ g[0] = 0 /\ \A n \in 1..N : g[n] = g[n - 1] + c[n]
             /\ SumTo(c, N) = g[N]
<1> DEFINE step == [i \in 1..N |-> [x \in Int |-> x + c[i]]]
           Body(s) == [n \in 0..N |-> IF n = 0 THEN 0 ELSE s[n - 1] + c[n]]
<1>1. step \in [1..N -> [Int -> Int]]
  OBVIOUS
<1>2. PICK g \in [0..N -> Int] : g[0] = 0 /\ \A n \in 1..N : g[n] = step[n][g[n - 1]]
  <2> HIDE DEF step
  <2>1. 0 \in Int
    OBVIOUS
  <2> DEFINE V == Int
             a == 0
  <2>2. step \in Step(N, V) /\ a \in V
    BY <1>1, <2>1 DEF Step
  <2> HIDE DEF V, a
  <2>3. \E g : Iterated(N, V, a, step, g)
    BY <2>2, PrimitiveRecursion
  <2>4. QED
    BY <2>3 DEF V, a, Iterated
<1>3. ASSUME NEW n \in 1..N PROVE g[n] = g[n - 1] + c[n]
  <2>1. g[n - 1] \in Int
    OBVIOUS
  <2>2. \A x \in Int : step[n][x] = x + c[n]
    OBVIOUS
  <2> HIDE DEF step
  <2>3. QED
    BY <1>2, <2>1, <2>2
<1>4. g = Body(g)
  BY <1>2, <1>3
<1> DEFINE s == CHOOSE s : s = Body(s)
<1>5. s = Body(s)
  <2> HIDE DEF Body
  <2>1. QED
    BY <1>4
<1>6. SumTo(c, N) = s[N]
  BY DEF SumTo
<1> HIDE DEF s
<1>7. s[0] = 0 /\ \A n \in 1..N : s[n] = s[n - 1] + c[n]
  BY <1>5
<1>8. \A n \in Nat : n \in {m \in Nat : m <= N => s[m] = g[m]}
  <2> DEFINE E == {m \in Nat : m <= N => s[m] = g[m]}
  <2>1. 0 \in E
    BY <1>7, <1>2
  <2>2. ASSUME NEW n \in Nat, n \in E PROVE n + 1 \in E
    <3> SUFFICES ASSUME n + 1 <= N PROVE s[n + 1] = g[n + 1]
      OBVIOUS
    <3>1. n + 1 \in 1..N /\ (n + 1) - 1 = n /\ s[n] = g[n]
      BY <2>2
    <3>2. QED
      BY <3>1, <1>3, <1>7
  <2> HIDE DEF E
  <2>3. \A n \in Nat : n \in E
    BY <2>1, <2>2, SetInduction
  <2>4. QED
    BY <2>3 DEF E
<1>9. s[N] = g[N]
  BY <1>8
<1>10. QED
  BY <1>2, <1>3, <1>6, <1>9

\* Changing one summand changes the sum by as much.
LEMMA SumChange ==
    ASSUME NEW N \in Nat, NEW c \in [1..N -> Int], NEW d \in [1..N -> Int], NEW p \in 1..N,
           \A i \in 1..N : i # p => d[i] = c[i]
    PROVE  SumTo(d, N) = SumTo(c, N) + (d[p] - c[p])
<1>1. PICK g \in [0..N -> Int] : /\ g[0] = 0 /\ \A n \in 1..N : g[n] = g[n - 1] + c[n]
                                 /\ SumTo(c, N) = g[N]
  BY SumRec
<1>2. PICK h \in [0..N -> Int] : /\ h[0] = 0 /\ \A n \in 1..N : h[n] = h[n - 1] + d[n]
                                 /\ SumTo(d, N) = h[N]
  BY SumRec
<1> DEFINE diff(m) == IF m >= p THEN d[p] - c[p] ELSE 0
           E == {n \in Nat : n <= N => h[n] = g[n] + diff(n)}
<1>3. 0 \in E
  BY <1>1, <1>2
<1>4. ASSUME NEW n \in Nat, n \in E PROVE n + 1 \in E
  <2> SUFFICES ASSUME n + 1 <= N PROVE h[n + 1] = g[n + 1] + diff(n + 1)
    OBVIOUS
  <2>1. n + 1 \in 1..N /\ (n + 1) - 1 = n /\ n \in 0..N /\ h[n] = g[n] + diff(n)
    BY <1>4
  <2>2. g[n + 1] = g[n] + c[n + 1] /\ h[n + 1] = h[n] + d[n + 1]
    BY <1>1, <1>2, <2>1
  <2>3. g[n] \in Int /\ h[n] \in Int /\ c[n + 1] \in Int /\ d[n + 1] \in Int
        /\ d[p] \in Int /\ c[p] \in Int
    BY <2>1
  <2> HIDE DEF E
  <2>4. CASE n + 1 = p
    <3>1. ~(n >= p) /\ n + 1 >= p
      BY <2>4
    <3>2. diff(n) = 0 /\ diff(n + 1) = d[n + 1] - c[n + 1]
      BY <3>1, <2>4
    <3> HIDE DEF diff
    <3>3. QED
      BY <3>2, <2>1, <2>2, <2>3
  <2>5. CASE n + 1 # p
    <3>1. d[n + 1] = c[n + 1] /\ (n >= p <=> n + 1 >= p)
      BY <2>1, <2>5
    <3>2. diff(n + 1) = diff(n) /\ diff(n) \in Int
      BY <3>1, <2>3
    <3> HIDE DEF diff
    <3>3. QED
      BY <3>1, <3>2, <2>1, <2>2, <2>3
  <2>6. QED
    BY <2>4, <2>5
<1>5. N \in E
  <2> HIDE DEF E
  <2>1. QED
    BY <1>3, <1>4, SetInduction
<1>6. QED
  BY <1>1, <1>2, <1>5

\* A sum of natural numbers is one, and no summand is greater.
LEMMA SumBound ==
    ASSUME NEW N \in Nat, NEW c \in [1..N -> Nat], NEW p \in 1..N
    PROVE  SumTo(c, N) \in Nat /\ c[p] <= SumTo(c, N)
<1>1. c \in [1..N -> Int]
  OBVIOUS
<1>2. PICK g \in [0..N -> Int] : /\ g[0] = 0 /\ \A n \in 1..N : g[n] = g[n - 1] + c[n]
                                 /\ SumTo(c, N) = g[N]
  BY <1>1, SumRec
<1> DEFINE E == {n \in Nat : n <= N => g[n] >= (IF n >= p THEN c[p] ELSE 0)}
<1>3. 0 \in E
  BY <1>2
<1>4. ASSUME NEW n \in Nat, n \in E PROVE n + 1 \in E
  <2> SUFFICES ASSUME n + 1 <= N PROVE g[n + 1] >= (IF n + 1 >= p THEN c[p] ELSE 0)
    OBVIOUS
  <2>1. n + 1 \in 1..N /\ (n + 1) - 1 = n /\ n \in 0..N /\ g[n] >= (IF n >= p THEN c[p] ELSE 0)
    BY <1>4
  <2>2. g[n + 1] = g[n] + c[n + 1] /\ g[n] \in Int /\ c[n + 1] \in Nat /\ c[p] \in Nat
    BY <1>2, <2>1
  <2>3. CASE n + 1 = p
    <3>1. g[n] >= 0 /\ c[p] = c[n + 1]
      BY <2>1, <2>2, <2>3
    <3>2. QED
      BY <3>1, <2>2, <2>3
  <2>4. CASE n + 1 # p
    BY <2>1, <2>2, <2>4
  <2>5. QED
    BY <2>3, <2>4
<1>5. N \in E
  <2> HIDE DEF E
  <2>1. QED
    BY <1>3, <1>4, SetInduction
<1>6. g[N] >= c[p] /\ c[p] \in Nat
  BY <1>5
<1>7. QED
  BY <1>2, <1>6

\* A sum of zeros is zero.
LEMMA SumZero ==
    ASSUME NEW N \in Nat, NEW c \in [1..N -> Int], \A i \in 1..N : c[i] = 0
    PROVE  SumTo(c, N) = 0
<1>1. PICK g \in [0..N -> Int] : /\ g[0] = 0 /\ \A n \in 1..N : g[n] = g[n - 1] + c[n]
                                 /\ SumTo(c, N) = g[N]
  BY SumRec
<1> DEFINE E == {n \in Nat : n <= N => g[n] = 0}
<1>2. 0 \in E
  BY <1>1
<1>3. ASSUME NEW n \in Nat, n \in E PROVE n + 1 \in E
  <2> SUFFICES ASSUME n + 1 <= N PROVE g[n + 1] = 0
    OBVIOUS
  <2>1. n + 1 \in 1..N /\ (n + 1) - 1 = n /\ g[n] = 0
    BY <1>3
  <2>2. QED
    BY <1>1, <2>1
<1>4. N \in E
  <2> HIDE DEF E
  <2>1. QED
    BY <1>2, <1>3, SetInduction
<1>5. QED
  BY <1>1, <1>4

(***************************************************************************)
(* The admission counters.                                                 *)
(***************************************************************************)
LiveSet == {p \in Permit : Live(p)}

\* There are finitely many permits, so the reservations alive can be counted.
LEMMA LiveFinite == IsFiniteSet(LiveSet)
<1>1. IsFiniteSet(Permit)
  BY BoundAssumption, FS_Interval DEF Permit
<1>2. LiveSet \in SUBSET Permit
  BY DEF LiveSet
<1>3. QED
  BY <1>1, <1>2, FS_Subset

\* What each reservation has charged is a number.
LEMMA ChargedType ==
    ASSUME TypeOK
    PROVE  Charged \in [1..MaxPermits -> Nat] /\ Charged \in [1..MaxPermits -> Int]
  BY BoundAssumption DEF TypeOK, Charged, Permit

\* A step that keeps the reservations alive and their charges keeps the
\* counters exact.
LEMMA SameAccounts ==
    ASSUME TypeOK, AccountsExact, UNCHANGED <<bytes, cmds, qbytes>>,
           \A p \in Permit : Live(p)' <=> Live(p)
    PROVE  AccountsExact'
<1>1. LiveSet' = LiveSet
  BY DEF LiveSet
<1>2. Charged' = Charged
  BY DEF Charged
<1>3. QED
  BY <1>1, <1>2 DEF AccountsExact, LiveSet

\* AdmissionState::reserve counts the new reservation, which has no charge.
LEMMA AdmitAccounts ==
    ASSUME TypeOK, JsInv, AccountsExact, NEW q \in Permit, res[q] = "none",
           res' = [res EXCEPT ![q] = "permit"], cmds' = cmds + 1, UNCHANGED <<bytes, qbytes>>
    PROVE  AccountsExact'
<1>1. LiveSet' = LiveSet \cup {q} /\ q \notin LiveSet
  BY DEF LiveSet, Live, TypeOK
<1>2. Cardinality(LiveSet') = Cardinality(LiveSet) + 1
  BY <1>1, LiveFinite, FS_AddElement
<1>3. Charged' = Charged
  BY DEF Charged, Live, JsInv, TypeOK
<1>4. QED
  BY <1>2, <1>3 DEF AccountsExact, LiveSet

\* charge_bytes() adds to the counter what it adds to its reservation.
LEMMA ChargeAccounts ==
    ASSUME TypeOK, AccountsExact, NEW q \in Permit, NEW b \in Nat, Live(q),
           bytes' = [bytes EXCEPT ![q] = @ + b], qbytes' = qbytes + b, UNCHANGED <<res, cmds>>
    PROVE  AccountsExact'
<1>1. LiveSet' = LiveSet
  BY DEF LiveSet, Live
<1>2. /\ Charged' \in [1..MaxPermits -> Int]
      /\ Charged'[q] = Charged[q] + b
      /\ \A i \in 1..MaxPermits : i # q => Charged'[i] = Charged[i]
  BY BoundAssumption DEF Charged, Permit, Live, TypeOK
<1>3. SumTo(Charged', MaxPermits) = SumTo(Charged, MaxPermits) + (Charged'[q] - Charged[q])
  BY <1>2, ChargedType, SumChange, BoundAssumption DEF Permit
<1>4. Charged[q] \in Int
  BY ChargedType DEF Permit
<1>5. qbytes' = SumTo(Charged', MaxPermits)
  BY <1>2, <1>3, <1>4, SMTT(30) DEF AccountsExact, TypeOK
<1>6. cmds' = Cardinality(LiveSet')
  BY <1>1 DEF AccountsExact, LiveSet
<1>7. QED
  BY <1>5, <1>6 DEF AccountsExact, LiveSet

\* Dropping a live reservation takes itself and its charges off the counters:
\* neither saturates.
LEMMA DropAccounts ==
    ASSUME TypeOK, AccountsExact, NEW q \in Permit, Live(q), DropReservation(q)
    PROVE  /\ AccountsExact'
           /\ cmds' \in 0..CommandCapacity /\ qbytes' \in 0..ByteCapacity
           /\ res' \in [Permit -> {"none", "permit", "prepared", "command", "dropped"}]
           /\ bytes' \in [Permit -> 0..MaxBytes]
           /\ \A p \in Permit : res'[p] = IF p = q THEN "dropped" ELSE res[p]
           /\ \A p \in Permit : bytes'[p] = IF p = q THEN 0 ELSE bytes[p]
<1>1. LiveSet' = LiveSet \ {q} /\ q \in LiveSet
  BY DEF LiveSet, Live, DropReservation, TypeOK
<1>2. Cardinality(LiveSet') = Cardinality(LiveSet) - 1
  BY <1>1, LiveFinite, FS_RemoveElement
<1>3. Cardinality(LiveSet') \in Nat
  BY <1>1, LiveFinite, FS_RemoveElement, FS_CardinalityType
<1>4. cmds' = Cardinality(LiveSet') /\ cmds' \in 0..CommandCapacity
  BY <1>2, <1>3, CapacityAssumption, SMTT(30)
  DEF AccountsExact, LiveSet, DropReservation, SaturatingSub, TypeOK
<1>5. /\ Charged' \in [1..MaxPermits -> Int]
      /\ Charged'[q] = 0 /\ Charged[q] = bytes[q]
      /\ \A i \in 1..MaxPermits : i # q => Charged'[i] = Charged[i]
  BY BoundAssumption DEF Charged, Permit, Live, DropReservation, TypeOK
<1>6. SumTo(Charged', MaxPermits) = SumTo(Charged, MaxPermits) + (Charged'[q] - Charged[q])
  BY <1>5, ChargedType, SumChange, BoundAssumption DEF Permit
<1>7. Charged[q] <= SumTo(Charged, MaxPermits)
  BY ChargedType, SumBound, BoundAssumption DEF Permit
<1>8. bytes[q] \in Nat
  BY BoundAssumption DEF TypeOK
<1>9. qbytes' = SumTo(Charged', MaxPermits) /\ qbytes' \in 0..ByteCapacity
  <2>1. qbytes = SumTo(Charged, MaxPermits) /\ qbytes \in 0..ByteCapacity
    BY DEF AccountsExact, TypeOK
  <2>2. qbytes >= bytes[q]
    BY <1>5, <1>7, <2>1
  <2>3. qbytes' = qbytes - bytes[q]
    BY <2>2 DEF DropReservation, SaturatingSub
  <2>4. QED
    BY <1>5, <1>6, <1>8, <2>1, <2>2, <2>3, CapacityAssumption
<1>10. /\ res' \in [Permit -> {"none", "permit", "prepared", "command", "dropped"}]
       /\ \A p \in Permit : res'[p] = IF p = q THEN "dropped" ELSE res[p]
  BY DEF TypeOK, DropReservation
<1>11. /\ bytes' \in [Permit -> 0..MaxBytes]
       /\ \A p \in Permit : bytes'[p] = IF p = q THEN 0 ELSE bytes[p]
  BY BoundAssumption DEF TypeOK, DropReservation
<1>12. QED
  BY <1>4, <1>9, <1>10, <1>11 DEF AccountsExact, LiveSet

(***************************************************************************)
(* The channel.                                                            *)
(***************************************************************************)
\* What a channel holds is what was sent.
LEMMA Elements ==
    ASSUME NEW S, NEW s \in Seq(S)
    PROVE  Len(s) \in Nat /\ \A i \in 1..Len(s) : s[i] \in S
  OBVIOUS

\* try_send() puts one more placeholder behind the others.
LEMMA Sent ==
    ASSUME NEW S, NEW s \in Seq(S), NEW x \in S, NEW t, t = Append(s, x)
    PROVE  /\ t \in Seq(S) /\ Len(t) = Len(s) + 1
           /\ \A i \in 1..Len(s) : i \in 1..Len(t) /\ t[i] = s[i]
           /\ \A i \in 1..Len(t) : i \in 1..Len(s) \/ i = Len(t)
           /\ t[Len(t)] = x /\ Len(t) \in 1..Len(t)
  OBVIOUS

\* The numbers the order of the commands is about.
LEMMA Numbers ==
    ASSUME TypeOK
    PROVE  /\ Len(chan) \in Nat /\ \A i \in 1..Len(chan) : chan[i] \in 0..MaxPermits
           /\ Len(started) \in Nat /\ \A i \in 1..Len(started) : started[i] \in 1..MaxPermits
           /\ wp \in Nat /\ permits \in Nat /\ LastSent \in Int
           /\ MaxPermits \in Nat
<1>1. chan \in Seq(0..MaxPermits) /\ started \in Seq(1..MaxPermits)
  BY DEF TypeOK, Permit
<1>2. permits \in Nat /\ wp \in Nat /\ MaxPermits \in Nat
  BY BoundAssumption DEF TypeOK
<1>3. LastSent \in Int
  BY <1>2 DEF LastSent
<1>4. Len(chan) \in Nat /\ Len(started) \in Nat
  BY <1>1
<1>5. \A i \in 1..Len(chan) : chan[i] \in 0..MaxPermits
  BY <1>1, Elements
<1>6. \A i \in 1..Len(started) : started[i] \in 1..MaxPermits
  BY <1>1, Elements
<1>7. QED
  BY <1>2, <1>3, <1>4, <1>5, <1>6

\* recv() takes the first placeholder and leaves the others in order.
LEMMA Taken ==
    ASSUME TypeOK, chan # <<>>, chan' = Tail(chan)
    PROVE  /\ chan' \in Seq(0..MaxPermits) /\ Len(chan') = Len(chan) - 1
           /\ Head(chan) = chan[1] /\ Head(chan) \in Permit \cup {0} /\ 1 \in 1..Len(chan)
           /\ \A i \in 1..Len(chan') : i + 1 \in 1..Len(chan) /\ chan'[i] = chan[i + 1]
           /\ \A i \in 1..Len(chan) : i = 1 \/ (i - 1 \in 1..Len(chan') /\ chan'[i - 1] = chan[i])
<1>1. chan \in Seq(0..MaxPermits) /\ Len(chan) \in Nat /\ Len(chan) # 0
  BY DEF TypeOK
<1>2. chan' \in Seq(0..MaxPermits) /\ Len(chan') = Len(chan) - 1
  BY <1>1
<1>3. Head(chan) = chan[1] /\ 1 \in 1..Len(chan)
  BY <1>1
<1>4. chan[1] \in Permit \cup {0}
  BY <1>3, Numbers DEF Permit
<1>5. \A i \in 1..Len(chan') : i + 1 \in 1..Len(chan) /\ chan'[i] = chan[i + 1]
  BY <1>1, <1>2
<1>6. \A i \in 1..Len(chan) : i = 1 \/ (i - 1 \in 1..Len(chan') /\ chan'[i - 1] = chan[i])
  BY <1>1, <1>2, <1>5
<1>7. QED
  BY <1>2, <1>3, <1>4, <1>5, <1>6

\* The placeholders left behind are in order, and behind the one taken.
LEMMA TakenOrder ==
    ASSUME TypeOK, OrderInv, chan # <<>>, chan' = Tail(chan), UNCHANGED <<jpc, permits>>
    PROVE  /\ LastSent' = LastSent
           /\ \A i \in 1..Len(chan') : chan'[i] = 0 => jpc' = "gone" /\ i = Len(chan')
           /\ \A i \in 1..Len(chan') : chan'[i] <= LastSent'
           /\ \A i, j \in 1..Len(chan') : i < j /\ chan'[j] # 0 => chan'[i] < chan'[j]
           /\ \A j \in 1..Len(chan') : chan'[j] # 0 => wp < chan'[j] /\ chan[1] < chan'[j]
           /\ \A i \in 1..Len(started), j \in 1..Len(chan') : chan'[j] # 0 => started[i] < chan'[j]
<1>1. /\ Len(chan') = Len(chan) - 1 /\ 1 \in 1..Len(chan)
      /\ \A i \in 1..Len(chan') : i + 1 \in 1..Len(chan) /\ chan'[i] = chan[i + 1]
  BY Taken
<1>2. LastSent' = LastSent
  BY DEF LastSent
<1>3. ASSUME NEW i \in 1..Len(chan'), chan'[i] = 0
      PROVE  jpc' = "gone" /\ i = Len(chan')
  <2>1. i + 1 \in 1..Len(chan) /\ chan[i + 1] = 0
    BY <1>1, <1>3
  <2>2. jpc = "gone" /\ i + 1 = Len(chan)
    BY <2>1 DEF OrderInv
  <2>3. i \in Int /\ Len(chan) \in Nat
    BY Numbers
  <2>4. Len(chan') = Len(chan) - 1
    BY <1>1
  <2>5. QED
    BY <2>2, <2>3, <2>4
<1>4. \A i \in 1..Len(chan') : chan'[i] <= LastSent'
  BY <1>1, <1>2 DEF OrderInv
<1>5. ASSUME NEW i \in 1..Len(chan'), NEW j \in 1..Len(chan'), i < j, chan'[j] # 0
      PROVE  chan'[i] < chan'[j]
  <2>1. i + 1 \in 1..Len(chan) /\ j + 1 \in 1..Len(chan) /\ i + 1 < j + 1
    BY <1>1, <1>5, Numbers
  <2>2. chan[i + 1] < chan[j + 1]
    BY <1>1, <1>5, <2>1 DEF OrderInv
  <2>3. QED
    BY <1>1, <2>2
<1>6. ASSUME NEW j \in 1..Len(chan'), chan'[j] # 0
      PROVE  /\ wp < chan'[j] /\ chan[1] < chan'[j]
             /\ \A i \in 1..Len(started) : started[i] < chan'[j]
  <2>1. j + 1 \in 1..Len(chan) /\ 1 < j + 1 /\ chan'[j] = chan[j + 1]
    BY <1>1, Numbers
  <2>2. QED
    BY <1>1, <1>6, <2>1 DEF OrderInv
<1>7. QED
  BY <1>2, <1>3, <1>4, <1>5, <1>6

\* Storing a value for one permit.
LEMMA Update ==
    ASSUME NEW S, NEW T, NEW f \in [S -> T], NEW q \in S, NEW v \in T,
           NEW g, g = [f EXCEPT ![q] = v]
    PROVE  g \in [S -> T] /\ \A p \in S : g[p] = IF p = q THEN v ELSE f[p]
  OBVIOUS

\* 0 stands for no permit.
LEMMA NoPermit == 0 \in 0..MaxPermits /\ 0 \notin Permit
  BY BoundAssumption DEF Permit

(***************************************************************************)
(* The steps.                                                              *)
(***************************************************************************)
\* Every step of the JavaScript thread preserves it.
LEMMA JsStepInv ==
    ASSUME IInv, JsStep \/ JsCall \/ (\E p \in Permit : Release(p))
    PROVE  IInv'
<1> USE DEF IInv, js, admission, slots, worker, WGoto
<1>1. ASSUME ReserveAdmit PROVE IInv'
  <2> USE <1>1 DEF ReserveAdmit
  <2>u. /\ permits + 1 \in Permit /\ res[permits + 1] = "none"
        /\ res' \in [Permit -> {"none", "permit", "prepared", "command", "dropped"}]
        /\ \A i \in Permit : res'[i] = IF i = permits + 1 THEN "permit" ELSE res[i]
    BY BoundAssumption DEF TypeOK, JsInv, Permit
  <2>1. TypeOK'
    BY <2>u, CapacityAssumption, BoundAssumption, CommandAssumption
    DEF TypeOK, JsInv, HandsInv, Permit
  <2>2. JsInv'
    BY <2>u, BoundAssumption DEF TypeOK, JsInv, Live, Permit
  <2>3. OrderInv'
    BY <2>u, Numbers DEF JsInv, OrderInv, LastSent, InReservationOrder
  <2>4. HandsInv'
    BY <2>u DEF JsInv, HandsInv, SlotInv
  <2>5. SlotInv'
    BY <2>u DEF JsInv, HandsInv, SlotInv, InChannel
  <2>6. NoOrphanedReply'
    BY <2>u DEF JsInv, HandsInv, SlotInv, NoOrphanedReply, InChannel, Running
  <2>7. AccountsExact'
    <3>1. permits + 1 \in Permit /\ res[permits + 1] = "none"
      BY BoundAssumption DEF TypeOK, JsInv, Permit
    <3>2. QED
      BY <3>1, AdmitAccounts
  <2>8. QED
    BY <2>1, <2>2, <2>3, <2>4, <2>5, <2>6, <2>7 DEF IInv
<1>2. ASSUME ReserveSend, receiver /\ Len(chan) < ChannelCapacity PROVE IInv'
  <2> USE <1>2 DEF ReserveSend
  <2>s. /\ chan' \in Seq(0..MaxPermits) /\ Len(chan') = Len(chan) + 1
        /\ \A i \in 1..Len(chan) : i \in 1..Len(chan') /\ chan'[i] = chan[i]
        /\ \A i \in 1..Len(chan') : i \in 1..Len(chan) \/ i = Len(chan')
        /\ chan'[Len(chan')] = jp /\ Len(chan') \in 1..Len(chan')
    <3>1. chan \in Seq(0..MaxPermits) /\ jp \in 0..MaxPermits /\ chan' = Append(chan, jp)
      BY BoundAssumption DEF TypeOK, JsInv, Permit
    <3>2. QED
      BY <3>1, Sent
  <2>1. TypeOK'
    BY <2>s, CapacityAssumption, BoundAssumption, CommandAssumption, SMTT(30)
    DEF TypeOK, JsInv, HandsInv, Permit
  <2>2. JsInv'
    BY <2>s, BoundAssumption DEF TypeOK, JsInv, Live, Permit
  <2>3. OrderInv'
    <3> USE Numbers DEF OrderInv
    <3>1. LastSent' = LastSent + 1 /\ jp = LastSent'
      BY DEF JsInv, LastSent
    <3>2. \A i \in 1..Len(chan') : chan'[i] = 0 => jpc' = "gone" /\ i = Len(chan')
      BY <2>s, <3>1 DEF JsInv, Permit
    <3>3. \A i \in 1..Len(chan') : chan'[i] <= LastSent'
      BY <2>s, <3>1, SMTT(30)
    <3>4. ASSUME NEW i \in 1..Len(chan'), NEW j \in 1..Len(chan'), i < j, chan'[j] # 0
          PROVE  chan'[i] < chan'[j]
      <4>1. i \in 1..Len(chan) /\ chan'[i] = chan[i] /\ chan[i] <= LastSent
        BY <2>s, <3>4
      <4>2. CASE j = Len(chan')
        BY <2>s, <3>1, <4>1, <4>2
      <4>3. CASE j \in 1..Len(chan)
        BY <2>s, <3>4, <4>1, <4>3
      <4>4. QED
        BY <2>s, <4>2, <4>3
    <3>5. ASSUME NEW j \in 1..Len(chan'), chan'[j] # 0
          PROVE  wp < chan'[j] /\ \A i \in 1..Len(started) : started[i] < chan'[j]
      <4>1. CASE j = Len(chan')
        BY <2>s, <3>1, <4>1
      <4>2. CASE j \in 1..Len(chan)
        BY <2>s, <3>5, <4>2
      <4>3. QED
        BY <2>s, <4>1, <4>2
    <3>6. QED
      BY <3>1, <3>2, <3>3, <3>4, <3>5 DEF InReservationOrder
  <2>4. HandsInv'
    BY <2>s DEF HandsInv
  <2>5. SlotInv'
    BY <2>s DEF JsInv, HandsInv, SlotInv, InChannel
  <2>6. NoOrphanedReply'
    BY <2>s DEF JsInv, HandsInv, SlotInv, NoOrphanedReply, InChannel, Running
  <2>7. AccountsExact'
    BY <2>s, SameAccounts DEF Live
  <2>8. QED
    BY <2>1, <2>2, <2>3, <2>4, <2>5, <2>6, <2>7 DEF IInv
<1>3. ASSUME ReserveSend, ~(receiver /\ Len(chan) < ChannelCapacity) PROVE IInv'
  <2> USE <1>3 DEF ReserveSend
  <2>a. /\ jp \in Permit /\ res[jp] = "permit" /\ AccountsExact'
        /\ cmds' \in 0..CommandCapacity /\ qbytes' \in 0..ByteCapacity
        /\ res' \in [Permit -> {"none", "permit", "prepared", "command", "dropped"}]
        /\ bytes' \in [Permit -> 0..MaxBytes]
        /\ \A i \in Permit : res'[i] = IF i = jp THEN "dropped" ELSE res[i]
        /\ \A i \in Permit : bytes'[i] = IF i = jp THEN 0 ELSE bytes[i]
    <3>1. jp \in Permit /\ res[jp] = "permit"
      BY NoPermit DEF JsInv
    <3>2. Live(jp) /\ DropReservation(jp)
      BY <3>1 DEF Live
    <3>3. QED
      BY <3>1, <3>2, DropAccounts
  <2>u. /\ slot' \in [Permit -> {"empty", "cancelled", "command"}]
        /\ \A i \in Permit : slot'[i] = IF i = jp THEN "cancelled" ELSE slot[i]
    <3>1. /\ jp \in Permit
          /\ "cancelled" \in {"empty", "cancelled", "command"}
          /\ slot \in [Permit -> {"empty", "cancelled", "command"}]
      BY DEF TypeOK, JsInv
    <3>2. slot' = [slot EXCEPT ![jp] = "cancelled"]
      OBVIOUS
    <3>3. QED
      BY <3>1, <3>2, Update
  <2>n. /\ jpc' = "run" /\ jp' = 0
        /\ UNCHANGED <<permits, chan, kind, reply, receiver, stopping, gen, registered>>
        /\ UNCHANGED worker
    OBVIOUS
  <2>1. TypeOK'
    <3>1. /\ receiver' \in BOOLEAN /\ stopping' \in BOOLEAN
          /\ registered' \in BOOLEAN /\ connected' \in BOOLEAN
      BY <2>n, Zenon DEF TypeOK
    <3>2. QED
      BY <3>1, <2>a, <2>u, <2>n, NoPermit DEF TypeOK
  <2>2. JsInv'
    BY <2>a, <2>u, <2>n, Numbers DEF JsInv, Live
  <2>3. OrderInv'
    BY Numbers DEF JsInv, OrderInv, LastSent, InReservationOrder
  <2>4. HandsInv'
    BY <2>a, <2>u, <2>n DEF JsInv, HandsInv, SlotInv, Live
  <2>5. SlotInv'
    BY <2>a, <2>u, <2>n DEF JsInv, HandsInv, SlotInv, InChannel, Live
  <2>6. NoOrphanedReply'
    BY <2>a, <2>u, <2>n DEF JsInv, HandsInv, SlotInv, NoOrphanedReply, InChannel, Running
  <2>7. AccountsExact'
    BY <2>a
  <2>8. QED
    BY <2>1, <2>2, <2>3, <2>4, <2>5, <2>6, <2>7 DEF IInv
<1>4. ASSUME ReserveRecheck, stopping PROVE IInv'
  <2> USE <1>4 DEF ReserveRecheck, Cancelled
  <2>a. /\ jp \in Permit /\ res[jp] = "permit" /\ AccountsExact'
        /\ cmds' \in 0..CommandCapacity /\ qbytes' \in 0..ByteCapacity
        /\ res' \in [Permit -> {"none", "permit", "prepared", "command", "dropped"}]
        /\ bytes' \in [Permit -> 0..MaxBytes]
        /\ \A i \in Permit : res'[i] = IF i = jp THEN "dropped" ELSE res[i]
        /\ \A i \in Permit : bytes'[i] = IF i = jp THEN 0 ELSE bytes[i]
    <3>1. jp \in Permit /\ res[jp] = "permit"
      BY NoPermit DEF JsInv
    <3>2. Live(jp) /\ DropReservation(jp)
      BY <3>1 DEF Live
    <3>3. QED
      BY <3>1, <3>2, DropAccounts
  <2>u. /\ slot' \in [Permit -> {"empty", "cancelled", "command"}]
        /\ \A i \in Permit :
             slot'[i] = IF i = jp THEN (IF slot[jp] = "empty" THEN "cancelled" ELSE slot[jp]) ELSE slot[i]
    <3>1. /\ jp \in Permit
          /\ (IF slot[jp] = "empty" THEN "cancelled" ELSE slot[jp]) \in {"empty", "cancelled", "command"}
          /\ slot \in [Permit -> {"empty", "cancelled", "command"}]
      BY DEF TypeOK, JsInv
    <3>2. slot' = [slot EXCEPT ![jp] = (IF slot[jp] = "empty" THEN "cancelled" ELSE slot[jp])]
      OBVIOUS
    <3>3. QED
      BY <3>1, <3>2, Update
  <2>1. TypeOK'
    BY <2>a, <2>u, NoPermit, ZenonT(60) DEF TypeOK
  <2>2. JsInv'
    BY <2>a, <2>u, Numbers DEF JsInv, Live
  <2>3. OrderInv'
    BY Numbers DEF JsInv, OrderInv, LastSent, InReservationOrder
  <2>4. HandsInv'
    BY <2>a, <2>u DEF JsInv, HandsInv, SlotInv, Live
  <2>5. SlotInv'
    BY <2>a, <2>u DEF JsInv, HandsInv, SlotInv, InChannel, Live
  <2>6. NoOrphanedReply'
    BY <2>a, <2>u DEF JsInv, HandsInv, SlotInv, NoOrphanedReply, InChannel, Running
  <2>7. AccountsExact'
    BY <2>a
  <2>8. QED
    BY <2>1, <2>2, <2>3, <2>4, <2>5, <2>6, <2>7 DEF IInv
<1>5. ASSUME ReserveRecheck, ~stopping PROVE IInv'
  <2> USE <1>5 DEF ReserveRecheck
  <2>1. TypeOK'
    BY CapacityAssumption, BoundAssumption, CommandAssumption DEF TypeOK, JsInv, HandsInv, Permit
  <2>2. JsInv'
    BY BoundAssumption DEF TypeOK, JsInv, Live, Permit
  <2>3. OrderInv'
    BY Numbers DEF JsInv, OrderInv, LastSent, InReservationOrder
  <2>4. HandsInv'
    BY DEF JsInv, HandsInv, SlotInv
  <2>5. SlotInv'
    BY DEF JsInv, HandsInv, SlotInv, InChannel
  <2>6. NoOrphanedReply'
    BY DEF JsInv, HandsInv, SlotInv, NoOrphanedReply, InChannel, Running
  <2>7. AccountsExact'
    BY SameAccounts DEF Live
  <2>8. QED
    BY <2>1, <2>2, <2>3, <2>4, <2>5, <2>6, <2>7 DEF IInv
<1>6. ASSUME NEW p \in Permit, Release(p), res[p] = "permit" PROVE IInv'
  <2> USE <1>6 DEF Release, DropFromPermit, Cancelled
  <2>a. /\ p \in Permit /\ res[p] = "permit" /\ AccountsExact'
        /\ cmds' \in 0..CommandCapacity /\ qbytes' \in 0..ByteCapacity
        /\ res' \in [Permit -> {"none", "permit", "prepared", "command", "dropped"}]
        /\ bytes' \in [Permit -> 0..MaxBytes]
        /\ \A i \in Permit : res'[i] = IF i = p THEN "dropped" ELSE res[i]
        /\ \A i \in Permit : bytes'[i] = IF i = p THEN 0 ELSE bytes[i]
    <3>1. p \in Permit /\ res[p] = "permit"
      BY NoPermit DEF Permit
    <3>2. Live(p) /\ DropReservation(p)
      BY <3>1 DEF Live
    <3>3. QED
      BY <3>1, <3>2, DropAccounts
  <2>u. /\ slot' \in [Permit -> {"empty", "cancelled", "command"}]
        /\ \A i \in Permit :
             slot'[i] = IF i = p THEN (IF slot[p] = "empty" THEN "cancelled" ELSE slot[p]) ELSE slot[i]
    <3>1. /\ p \in Permit
          /\ (IF slot[p] = "empty" THEN "cancelled" ELSE slot[p]) \in {"empty", "cancelled", "command"}
          /\ slot \in [Permit -> {"empty", "cancelled", "command"}]
      BY DEF TypeOK, JsInv
    <3>2. slot' = [slot EXCEPT ![p] = (IF slot[p] = "empty" THEN "cancelled" ELSE slot[p])]
      OBVIOUS
    <3>3. QED
      BY <3>1, <3>2, Update
  <2>1. TypeOK'
    BY <2>a, <2>u, NoPermit DEF TypeOK
  <2>2. JsInv'
    BY <2>a, <2>u, Numbers, ZenonT(60) DEF JsInv, Live
  <2>3. OrderInv'
    BY Numbers DEF JsInv, OrderInv, LastSent, InReservationOrder
  <2>4. HandsInv'
    BY <2>a, <2>u DEF JsInv, HandsInv, SlotInv, Live
  <2>5. SlotInv'
    BY <2>a, <2>u DEF JsInv, HandsInv, SlotInv, InChannel, Live
  <2>6. NoOrphanedReply'
    BY <2>a, <2>u DEF JsInv, HandsInv, SlotInv, NoOrphanedReply, InChannel, Running
  <2>7. AccountsExact'
    BY <2>a
  <2>8. QED
    BY <2>1, <2>2, <2>3, <2>4, <2>5, <2>6, <2>7 DEF IInv
<1>7. ASSUME NEW p \in Permit, Release(p), res[p] # "permit" PROVE IInv'
  <2> USE <1>7 DEF Release, DropFromPermit, Cancelled
  <2>u. /\ slot' \in [Permit -> {"empty", "cancelled", "command"}]
        /\ \A i \in Permit :
             slot'[i] = IF i = p THEN (IF slot[p] = "empty" THEN "cancelled" ELSE slot[p]) ELSE slot[i]
    <3>1. /\ p \in Permit
          /\ (IF slot[p] = "empty" THEN "cancelled" ELSE slot[p]) \in {"empty", "cancelled", "command"}
          /\ slot \in [Permit -> {"empty", "cancelled", "command"}]
      BY DEF TypeOK, JsInv
    <3>2. slot' = [slot EXCEPT ![p] = (IF slot[p] = "empty" THEN "cancelled" ELSE slot[p])]
      OBVIOUS
    <3>3. QED
      BY <3>1, <3>2, Update
  <2>1. TypeOK'
    BY <2>u, CapacityAssumption, BoundAssumption, CommandAssumption
    DEF TypeOK, JsInv, HandsInv, Permit
  <2>2. JsInv'
    BY <2>u, BoundAssumption, SMTT(30) DEF TypeOK, JsInv, Live, Permit
  <2>3. OrderInv'
    BY <2>u, Numbers DEF JsInv, OrderInv, LastSent, InReservationOrder
  <2>4. HandsInv'
    BY <2>u DEF JsInv, HandsInv, SlotInv
  <2>5. SlotInv'
    BY <2>u DEF JsInv, HandsInv, SlotInv, InChannel
  <2>6. NoOrphanedReply'
    BY <2>u DEF JsInv, HandsInv, SlotInv, NoOrphanedReply, InChannel, Running
  <2>7. AccountsExact'
    BY <2>u, SameAccounts DEF Live
  <2>8. QED
    BY <2>1, <2>2, <2>3, <2>4, <2>5, <2>6, <2>7 DEF IInv
<1>8. ASSUME NEW p \in Permit, Take(p) PROVE IInv'
  <2> USE <1>8 DEF Take
  <2>u. /\ res' \in [Permit -> {"none", "permit", "prepared", "command", "dropped"}]
        /\ \A i \in Permit : res'[i] = IF i = p THEN "prepared" ELSE res[i]
    <3>1. /\ p \in Permit
          /\ "prepared" \in {"none", "permit", "prepared", "command", "dropped"}
          /\ res \in [Permit -> {"none", "permit", "prepared", "command", "dropped"}]
      BY DEF TypeOK, JsInv
    <3>2. res' = [res EXCEPT ![p] = "prepared"]
      OBVIOUS
    <3>3. QED
      BY <3>1, <3>2, Update
  <2>1. TypeOK'
    BY <2>u, CapacityAssumption, BoundAssumption, CommandAssumption
    DEF TypeOK, JsInv, HandsInv, Permit
  <2>2. JsInv'
    BY <2>u, BoundAssumption DEF TypeOK, JsInv, Live, Permit
  <2>3. OrderInv'
    BY <2>u, Numbers DEF JsInv, OrderInv, LastSent, InReservationOrder
  <2>4. HandsInv'
    BY <2>u DEF JsInv, HandsInv, SlotInv
  <2>5. SlotInv'
    BY <2>u DEF JsInv, HandsInv, SlotInv, InChannel
  <2>6. NoOrphanedReply'
    BY <2>u DEF JsInv, HandsInv, SlotInv, NoOrphanedReply, InChannel, Running
  <2>7. AccountsExact'
    BY <2>u, SameAccounts DEF Live
  <2>8. QED
    BY <2>1, <2>2, <2>3, <2>4, <2>5, <2>6, <2>7 DEF IInv
<1>9. ASSUME NEW b \in Size, Charge(b) PROVE IInv'
  <2> USE <1>9 DEF Charge
  <2>1. TypeOK'
    BY CapacityAssumption, BoundAssumption, CommandAssumption, SMTT(30) DEF TypeOK, JsInv, HandsInv, Permit
  <2>2. JsInv'
    BY BoundAssumption DEF TypeOK, JsInv, Live, Permit
  <2>3. OrderInv'
    BY Numbers DEF JsInv, OrderInv, LastSent, InReservationOrder
  <2>4. HandsInv'
    BY DEF JsInv, HandsInv, SlotInv
  <2>5. SlotInv'
    BY DEF JsInv, HandsInv, SlotInv, InChannel
  <2>6. NoOrphanedReply'
    BY DEF JsInv, HandsInv, SlotInv, NoOrphanedReply, InChannel, Running
  <2>7. AccountsExact'
    <3>1. jp \in Permit /\ Live(jp) /\ b \in Nat
      BY CapacityAssumption DEF JsInv, Live
    <3>2. QED
      BY <3>1, ChargeAccounts
  <2>8. QED
    BY <2>1, <2>2, <2>3, <2>4, <2>5, <2>6, <2>7 DEF IInv
<1>10. ASSUME PrepareFails PROVE IInv'
  <2> USE <1>10 DEF PrepareFails, Cancelled
  <2>a. /\ jp \in Permit /\ res[jp] = "prepared" /\ AccountsExact'
        /\ cmds' \in 0..CommandCapacity /\ qbytes' \in 0..ByteCapacity
        /\ res' \in [Permit -> {"none", "permit", "prepared", "command", "dropped"}]
        /\ bytes' \in [Permit -> 0..MaxBytes]
        /\ \A i \in Permit : res'[i] = IF i = jp THEN "dropped" ELSE res[i]
        /\ \A i \in Permit : bytes'[i] = IF i = jp THEN 0 ELSE bytes[i]
    <3>1. jp \in Permit /\ res[jp] = "prepared"
      BY NoPermit DEF JsInv
    <3>2. Live(jp) /\ DropReservation(jp)
      BY <3>1 DEF Live
    <3>3. QED
      BY <3>1, <3>2, DropAccounts
  <2>u. /\ slot' \in [Permit -> {"empty", "cancelled", "command"}]
        /\ \A i \in Permit :
             slot'[i] = IF i = jp THEN (IF slot[jp] = "empty" THEN "cancelled" ELSE slot[jp]) ELSE slot[i]
    <3>1. /\ jp \in Permit
          /\ (IF slot[jp] = "empty" THEN "cancelled" ELSE slot[jp]) \in {"empty", "cancelled", "command"}
          /\ slot \in [Permit -> {"empty", "cancelled", "command"}]
      BY DEF TypeOK, JsInv
    <3>2. slot' = [slot EXCEPT ![jp] = (IF slot[jp] = "empty" THEN "cancelled" ELSE slot[jp])]
      OBVIOUS
    <3>3. QED
      BY <3>1, <3>2, Update
  <2>1. TypeOK'
    BY <2>a, <2>u, NoPermit, ZenonT(60) DEF TypeOK
  <2>2. JsInv'
    BY <2>a, <2>u, Numbers DEF JsInv, Live
  <2>3. OrderInv'
    BY Numbers DEF JsInv, OrderInv, LastSent, InReservationOrder
  <2>4. HandsInv'
    BY <2>a, <2>u DEF JsInv, HandsInv, SlotInv, Live
  <2>5. SlotInv'
    BY <2>a, <2>u DEF JsInv, HandsInv, SlotInv, InChannel, Live
  <2>6. NoOrphanedReply'
    BY <2>a, <2>u DEF JsInv, HandsInv, SlotInv, NoOrphanedReply, InChannel, Running
  <2>7. AccountsExact'
    BY <2>a
  <2>8. QED
    BY <2>1, <2>2, <2>3, <2>4, <2>5, <2>6, <2>7 DEF IInv
<1>11. ASSUME NEW k \in Kind, Commit(k), slot[jp] = "empty" PROVE IInv'
  <2> USE <1>11 DEF Commit
  <2>u. /\ slot' \in [Permit -> {"empty", "cancelled", "command"}]
        /\ \A i \in Permit : slot'[i] = IF i = jp THEN "command" ELSE slot[i]
    <3>1. /\ jp \in Permit
          /\ "command" \in {"empty", "cancelled", "command"}
          /\ slot \in [Permit -> {"empty", "cancelled", "command"}]
      BY DEF TypeOK, JsInv
    <3>2. slot' = [slot EXCEPT ![jp] = "command"]
      OBVIOUS
    <3>3. QED
      BY <3>1, <3>2, Update
  <2>v. /\ reply' \in [Permit -> {"none", "pending", "ok", "failed"}]
        /\ \A i \in Permit : reply'[i] = IF i = jp THEN "pending" ELSE reply[i]
    <3>1. /\ jp \in Permit
          /\ "pending" \in {"none", "pending", "ok", "failed"}
          /\ reply \in [Permit -> {"none", "pending", "ok", "failed"}]
      BY DEF TypeOK, JsInv
    <3>2. reply' = [reply EXCEPT ![jp] = "pending"]
      OBVIOUS
    <3>3. QED
      BY <3>1, <3>2, Update
  <2>w. /\ res' \in [Permit -> {"none", "permit", "prepared", "command", "dropped"}]
        /\ \A i \in Permit : res'[i] = IF i = jp THEN "command" ELSE res[i]
    <3>1. /\ jp \in Permit
          /\ "command" \in {"none", "permit", "prepared", "command", "dropped"}
          /\ res \in [Permit -> {"none", "permit", "prepared", "command", "dropped"}]
      BY DEF TypeOK, JsInv
    <3>2. res' = [res EXCEPT ![jp] = "command"]
      OBVIOUS
    <3>3. QED
      BY <3>1, <3>2, Update
  <2>x. /\ kind' \in [Permit -> AllKind]
        /\ \A i \in Permit : kind'[i] = IF i = jp THEN k ELSE kind[i]
    <3>1. jp \in Permit /\ k \in AllKind /\ kind \in [Permit -> AllKind]
      BY CommandAssumption DEF TypeOK, JsInv
    <3>2. kind' = [kind EXCEPT ![jp] = k]
      OBVIOUS
    <3>3. QED
      BY <3>1, <3>2, Update
  <2>1. TypeOK'
    BY <2>u, <2>v, <2>w, <2>x, CapacityAssumption, BoundAssumption, CommandAssumption
    DEF TypeOK, JsInv, HandsInv, Permit
  <2>2. JsInv'
    BY <2>u, <2>v, <2>w, <2>x, BoundAssumption DEF TypeOK, JsInv, Live, Permit
  <2>3. OrderInv'
    BY <2>u, <2>v, <2>w, <2>x, Numbers DEF JsInv, OrderInv, LastSent, InReservationOrder
  <2>4. HandsInv'
    BY <2>u, <2>v, <2>w, <2>x DEF JsInv, HandsInv, SlotInv
  <2>5. SlotInv'
    BY <2>u, <2>v, <2>w, <2>x DEF JsInv, HandsInv, SlotInv, InChannel
  <2>6. NoOrphanedReply'
    BY <2>u, <2>v, <2>w, <2>x DEF JsInv, HandsInv, SlotInv, NoOrphanedReply, InChannel, Running
  <2>7. AccountsExact'
    BY <2>w, SameAccounts DEF JsInv, Live
  <2>8. QED
    BY <2>1, <2>2, <2>3, <2>4, <2>5, <2>6, <2>7 DEF IInv
<1>12. ASSUME NEW k \in Kind, Commit(k), slot[jp] # "empty" PROVE IInv'
  <2> USE <1>12 DEF Commit
  <2>a. /\ jp \in Permit /\ res[jp] = "prepared" /\ AccountsExact'
        /\ cmds' \in 0..CommandCapacity /\ qbytes' \in 0..ByteCapacity
        /\ res' \in [Permit -> {"none", "permit", "prepared", "command", "dropped"}]
        /\ bytes' \in [Permit -> 0..MaxBytes]
        /\ \A i \in Permit : res'[i] = IF i = jp THEN "dropped" ELSE res[i]
        /\ \A i \in Permit : bytes'[i] = IF i = jp THEN 0 ELSE bytes[i]
    <3>1. jp \in Permit /\ res[jp] = "prepared"
      BY NoPermit DEF JsInv
    <3>2. Live(jp) /\ DropReservation(jp)
      BY <3>1 DEF Live
    <3>3. QED
      BY <3>1, <3>2, DropAccounts
  <2>v. /\ reply' \in [Permit -> {"none", "pending", "ok", "failed"}]
        /\ \A i \in Permit : reply'[i] = IF i = jp THEN "failed" ELSE reply[i]
    <3>1. /\ jp \in Permit
          /\ "failed" \in {"none", "pending", "ok", "failed"}
          /\ reply \in [Permit -> {"none", "pending", "ok", "failed"}]
      BY DEF TypeOK, JsInv
    <3>2. reply' = [reply EXCEPT ![jp] = "failed"]
      OBVIOUS
    <3>3. QED
      BY <3>1, <3>2, Update
  <2>x. /\ kind' \in [Permit -> AllKind]
        /\ \A i \in Permit : kind'[i] = IF i = jp THEN k ELSE kind[i]
    <3>1. jp \in Permit /\ k \in AllKind /\ kind \in [Permit -> AllKind]
      BY CommandAssumption DEF TypeOK, JsInv
    <3>2. kind' = [kind EXCEPT ![jp] = k]
      OBVIOUS
    <3>3. QED
      BY <3>1, <3>2, Update
  <2>1. TypeOK'
    BY <2>a, <2>v, <2>x, NoPermit, SMTT(30) DEF TypeOK
  <2>2. JsInv'
    BY <2>a, <2>v, <2>x, Numbers DEF JsInv, Live
  <2>3. OrderInv'
    BY Numbers DEF JsInv, OrderInv, LastSent, InReservationOrder
  <2>4. HandsInv'
    BY <2>a, <2>v, <2>x DEF JsInv, HandsInv, SlotInv, Live
  <2>5. SlotInv'
    BY <2>a, <2>v, <2>x DEF JsInv, HandsInv, SlotInv, InChannel, Live
  <2>6. NoOrphanedReply'
    BY <2>a, <2>v, <2>x DEF JsInv, HandsInv, SlotInv, NoOrphanedReply, InChannel, Running
  <2>7. AccountsExact'
    BY <2>a
  <2>8. QED
    BY <2>1, <2>2, <2>3, <2>4, <2>5, <2>6, <2>7 DEF IInv
<1>13. ASSUME CancelGeneration PROVE IInv'
  <2> USE <1>13 DEF CancelGeneration
  <2>1. TypeOK'
    BY CapacityAssumption, BoundAssumption, CommandAssumption DEF TypeOK, JsInv, HandsInv, Permit
  <2>2. JsInv'
    BY BoundAssumption DEF TypeOK, JsInv, Live, Permit
  <2>3. OrderInv'
    BY Numbers DEF JsInv, OrderInv, LastSent, InReservationOrder
  <2>4. HandsInv'
    BY DEF JsInv, HandsInv, SlotInv
  <2>5. SlotInv'
    BY DEF JsInv, HandsInv, SlotInv, InChannel
  <2>6. NoOrphanedReply'
    BY DEF JsInv, HandsInv, SlotInv, NoOrphanedReply, InChannel, Running
  <2>7. AccountsExact'
    BY SameAccounts DEF Live
  <2>8. QED
    BY <2>1, <2>2, <2>3, <2>4, <2>5, <2>6, <2>7 DEF IInv
<1>14. ASSUME CancelAbort PROVE IInv'
  <2> USE <1>14 DEF CancelAbort
  <2>1. TypeOK'
    BY CapacityAssumption, BoundAssumption, CommandAssumption, ZenonT(60) DEF TypeOK, JsInv, HandsInv, Permit
  <2>2. JsInv'
    BY BoundAssumption DEF TypeOK, JsInv, Live, Permit
  <2>3. OrderInv'
    BY Numbers DEF JsInv, OrderInv, LastSent, InReservationOrder
  <2>4. HandsInv'
    BY DEF JsInv, HandsInv, SlotInv
  <2>5. SlotInv'
    BY DEF JsInv, HandsInv, SlotInv, InChannel
  <2>6. NoOrphanedReply'
    BY DEF JsInv, HandsInv, SlotInv, NoOrphanedReply, InChannel, Running
  <2>7. AccountsExact'
    BY SameAccounts DEF Live
  <2>8. QED
    BY <2>1, <2>2, <2>3, <2>4, <2>5, <2>6, <2>7 DEF IInv
<1>15. ASSUME DropStop PROVE IInv'
  <2> USE <1>15 DEF DropStop
  <2>1. TypeOK'
    BY CapacityAssumption, BoundAssumption, CommandAssumption, SMTT(30) DEF TypeOK, JsInv, HandsInv, Permit
  <2>2. JsInv'
    BY BoundAssumption DEF TypeOK, JsInv, Live, Permit
  <2>3. OrderInv'
    BY Numbers DEF JsInv, OrderInv, LastSent, InReservationOrder
  <2>4. HandsInv'
    BY DEF JsInv, HandsInv, SlotInv
  <2>5. SlotInv'
    BY DEF JsInv, HandsInv, SlotInv, InChannel
  <2>6. NoOrphanedReply'
    BY DEF JsInv, HandsInv, SlotInv, NoOrphanedReply, InChannel, Running
  <2>7. AccountsExact'
    BY SameAccounts DEF Live
  <2>8. QED
    BY <2>1, <2>2, <2>3, <2>4, <2>5, <2>6, <2>7 DEF IInv
<1>16. ASSUME DropAbort PROVE IInv'
  <2> USE <1>16 DEF DropAbort
  <2>1. TypeOK'
    BY CapacityAssumption, BoundAssumption, CommandAssumption DEF TypeOK, JsInv, HandsInv, Permit
  <2>2. JsInv'
    BY BoundAssumption DEF TypeOK, JsInv, Live, Permit
  <2>3. OrderInv'
    BY Numbers DEF JsInv, OrderInv, LastSent, InReservationOrder
  <2>4. HandsInv'
    BY DEF JsInv, HandsInv, SlotInv
  <2>5. SlotInv'
    BY DEF JsInv, HandsInv, SlotInv, InChannel
  <2>6. NoOrphanedReply'
    BY DEF JsInv, HandsInv, SlotInv, NoOrphanedReply, InChannel, Running
  <2>7. AccountsExact'
    BY SameAccounts DEF Live
  <2>8. QED
    BY <2>1, <2>2, <2>3, <2>4, <2>5, <2>6, <2>7 DEF IInv
<1>17. ASSUME DropSend, receiver /\ Len(chan) < ChannelCapacity PROVE IInv'
  <2> USE <1>17 DEF DropSend
  <2>s. /\ chan' \in Seq(0..MaxPermits) /\ Len(chan') = Len(chan) + 1
        /\ \A i \in 1..Len(chan) : i \in 1..Len(chan') /\ chan'[i] = chan[i]
        /\ \A i \in 1..Len(chan') : i \in 1..Len(chan) \/ i = Len(chan')
        /\ chan'[Len(chan')] = 0 /\ Len(chan') \in 1..Len(chan')
    <3>1. chan \in Seq(0..MaxPermits) /\ 0 \in 0..MaxPermits /\ chan' = Append(chan, 0)
      BY BoundAssumption DEF TypeOK, JsInv, Permit
    <3>2. QED
      BY <3>1, Sent
  <2>1. TypeOK'
    BY <2>s, CapacityAssumption, BoundAssumption, CommandAssumption
    DEF TypeOK, JsInv, HandsInv, Permit
  <2>2. JsInv'
    BY <2>s, BoundAssumption DEF TypeOK, JsInv, Live, Permit
  <2>3. OrderInv'
    BY <2>s, Numbers DEF JsInv, OrderInv, LastSent, InReservationOrder
  <2>4. HandsInv'
    BY <2>s DEF HandsInv
  <2>5. SlotInv'
    BY <2>s DEF JsInv, HandsInv, SlotInv, InChannel
  <2>6. NoOrphanedReply'
    BY <2>s DEF JsInv, HandsInv, SlotInv, NoOrphanedReply, InChannel, Running
  <2>7. AccountsExact'
    BY <2>s, SameAccounts DEF Live
  <2>8. QED
    BY <2>1, <2>2, <2>3, <2>4, <2>5, <2>6, <2>7 DEF IInv
<1>18. ASSUME DropSend, ~(receiver /\ Len(chan) < ChannelCapacity) PROVE IInv'
  <2> USE <1>18 DEF DropSend
  <2>1. TypeOK'
    BY CapacityAssumption, BoundAssumption, CommandAssumption DEF TypeOK, JsInv, HandsInv, Permit
  <2>2. JsInv'
    BY BoundAssumption DEF TypeOK, JsInv, Live, Permit
  <2>3. OrderInv'
    BY Numbers DEF JsInv, OrderInv, LastSent, InReservationOrder
  <2>4. HandsInv'
    BY DEF JsInv, HandsInv, SlotInv
  <2>5. SlotInv'
    BY DEF JsInv, HandsInv, SlotInv, InChannel
  <2>6. NoOrphanedReply'
    BY DEF JsInv, HandsInv, SlotInv, NoOrphanedReply, InChannel, Running
  <2>7. AccountsExact'
    BY SameAccounts DEF Live
  <2>8. QED
    BY <2>1, <2>2, <2>3, <2>4, <2>5, <2>6, <2>7 DEF IInv
<1>19. QED
  BY <1>1, <1>2, <1>3, <1>4, <1>5, <1>6, <1>7, <1>8, <1>9, <1>10, <1>11, <1>12, <1>13, <1>14, <1>15, <1>16, <1>17, <1>18
  DEF JsStep, JsCall

\* The worker's steps on the channel and the slots preserve it.
LEMMA QueueStepInv ==
    ASSUME IInv, LoopTop \/ Recv \/ WaitSlot \/ Disarm \/ CheckStopping \/ Start
             \/ EnterDrain \/ ShutdownConnector
    PROVE  IInv'
<1> USE DEF IInv, js, admission, slots, worker, WGoto
<1>1. ASSUME LoopTop PROVE IInv'
  <2> USE <1>1 DEF LoopTop
  <2>1. TypeOK'
    BY CapacityAssumption, BoundAssumption, CommandAssumption DEF TypeOK, JsInv, HandsInv, Permit
  <2>2. JsInv'
    BY BoundAssumption DEF TypeOK, JsInv, Live, Permit
  <2>3. OrderInv'
    BY Numbers DEF JsInv, OrderInv, LastSent, InReservationOrder
  <2>4. HandsInv'
    BY DEF JsInv, HandsInv, SlotInv
  <2>5. SlotInv'
    BY DEF JsInv, HandsInv, SlotInv, InChannel
  <2>6. NoOrphanedReply'
    BY DEF JsInv, HandsInv, SlotInv, NoOrphanedReply, InChannel, Running
  <2>7. AccountsExact'
    BY SameAccounts DEF Live
  <2>8. QED
    BY <2>1, <2>2, <2>3, <2>4, <2>5, <2>6, <2>7 DEF IInv
<1>2. ASSUME Recv, chan # <<>> PROVE IInv'
  <2> USE <1>2 DEF Recv
  <2>t. /\ chan' \in Seq(0..MaxPermits) /\ Len(chan') = Len(chan) - 1
        /\ Head(chan) = chan[1] /\ Head(chan) \in Permit \cup {0} /\ 1 \in 1..Len(chan)
        /\ \A i \in 1..Len(chan') : i + 1 \in 1..Len(chan) /\ chan'[i] = chan[i + 1]
        /\ \A i \in 1..Len(chan) : i = 1 \/ (i - 1 \in 1..Len(chan') /\ chan'[i - 1] = chan[i])
    BY Taken
  <2>1. TypeOK'
    <3>1. wp' \in 0..MaxPermits
      BY <2>t, NoPermit, BoundAssumption DEF Permit
    <3>2. Len(chan') <= ChannelCapacity
      BY <2>t, Numbers, CapacityAssumption DEF TypeOK
    <3>3. QED
      BY <2>t, <3>1, <3>2, SMTT(30) DEF TypeOK
  <2>2. JsInv'
    BY <2>t, BoundAssumption DEF TypeOK, JsInv, Live, Permit
  <2>3. OrderInv'
    <3>1. wp' = chan[1] /\ started' = started /\ UNCHANGED <<jpc, permits>>
      BY <2>t
    <3>2. /\ wp' <= LastSent /\ \A i \in 1..Len(started) : started[i] <= LastSent
          /\ wp' # 0 => \A i \in 1..Len(started) : started[i] < wp'
      BY <2>t, <3>1 DEF OrderInv
    <3>3. QED
      BY <3>1, <3>2, TakenOrder DEF OrderInv, InReservationOrder
  <2>4. HandsInv'
    BY <2>t DEF JsInv, HandsInv, SlotInv
  <2>5. SlotInv'
    <3> SUFFICES ASSUME NEW p \in Permit,
                        slot[p] = "command" \/ (res[p] \in {"permit", "prepared"} /\ slot[p] = "empty")
                 PROVE  \/ InChannel(p)'
                        \/ wp' = p /\ wpc' \in {"wait", "disarm"}
                        \/ jp' = p /\ jpc' = "admitted"
      BY DEF SlotInv
    <3>1. InChannel(p) \/ (jp = p /\ jpc = "admitted")
      BY DEF SlotInv
    <3>2. CASE InChannel(p)
      <4>1. PICK i \in 1..Len(chan) : chan[i] = p
        BY <3>2 DEF InChannel
      <4>2. CASE i = 1
        BY <2>t, <4>1, <4>2, NoPermit
      <4>3. CASE i # 1
        BY <2>t, <4>1, <4>3 DEF InChannel
      <4>4. QED
        BY <4>2, <4>3
    <3>3. QED
      BY <3>1, <3>2
  <2>6. NoOrphanedReply'
    <3> SUFFICES ASSUME NEW p \in Permit, reply[p] = "pending"
                 PROVE  /\ slot'[p] = "command"
                        /\ InChannel(p)' \/ (wp' = p /\ wpc' \in {"wait", "disarm"})
      BY DEF NoOrphanedReply, InChannel
    <3>1. slot[p] = "command" /\ \E i \in 1..Len(chan) : chan[i] = p
      BY DEF NoOrphanedReply, Running
    <3>2. PICK i \in 1..Len(chan) : chan[i] = p
      BY <3>1
    <3>3. CASE i = 1
      BY <2>t, <3>1, <3>2, <3>3, NoPermit
    <3>4. CASE i # 1
      BY <2>t, <3>1, <3>2, <3>4 DEF InChannel
    <3>5. QED
      BY <3>3, <3>4
  <2>7. AccountsExact'
    BY <2>t, SameAccounts DEF Live
  <2>8. QED
    BY <2>1, <2>2, <2>3, <2>4, <2>5, <2>6, <2>7 DEF IInv
<1>3. ASSUME Recv, chan = <<>> PROVE IInv'
  <2> USE <1>3 DEF Recv
  <2>1. TypeOK'
    BY CapacityAssumption, BoundAssumption, CommandAssumption DEF TypeOK, JsInv, HandsInv, Permit
  <2>2. JsInv'
    BY BoundAssumption DEF TypeOK, JsInv, Live, Permit
  <2>3. OrderInv'
    BY Numbers DEF JsInv, OrderInv, LastSent, InReservationOrder
  <2>4. HandsInv'
    BY DEF JsInv, HandsInv, SlotInv
  <2>5. SlotInv'
    BY DEF JsInv, HandsInv, SlotInv, InChannel
  <2>6. NoOrphanedReply'
    BY DEF JsInv, HandsInv, SlotInv, NoOrphanedReply, InChannel, Running
  <2>7. AccountsExact'
    BY SameAccounts DEF Live
  <2>8. QED
    BY <2>1, <2>2, <2>3, <2>4, <2>5, <2>6, <2>7 DEF IInv
<1>4. ASSUME WaitSlot PROVE IInv'
  <2> USE <1>4 DEF WaitSlot
  <2>u. /\ slot' \in [Permit -> {"empty", "cancelled", "command"}]
        /\ \A i \in Permit : slot'[i] = IF i = wp THEN "empty" ELSE slot[i]
    <3>1. /\ wp \in Permit
          /\ "empty" \in {"empty", "cancelled", "command"}
          /\ slot \in [Permit -> {"empty", "cancelled", "command"}]
      BY DEF TypeOK, HandsInv
    <3>2. slot' = [slot EXCEPT ![wp] = "empty"]
      OBVIOUS
    <3>3. QED
      BY <3>1, <3>2, Update
  <2>1. TypeOK'
    BY <2>u, CapacityAssumption, BoundAssumption, CommandAssumption
    DEF TypeOK, JsInv, HandsInv, Permit
  <2>2. JsInv'
    BY <2>u, BoundAssumption DEF TypeOK, JsInv, Live, Permit
  <2>3. OrderInv'
    BY <2>u, Numbers DEF JsInv, OrderInv, LastSent, InReservationOrder
  <2>4. HandsInv'
    BY <2>u DEF JsInv, HandsInv, SlotInv
  <2>5. SlotInv'
    BY <2>u DEF JsInv, HandsInv, SlotInv, InChannel
  <2>6. NoOrphanedReply'
    BY <2>u DEF JsInv, HandsInv, SlotInv, NoOrphanedReply, InChannel, Running
  <2>7. AccountsExact'
    BY <2>u, SameAccounts DEF Live
  <2>8. QED
    BY <2>1, <2>2, <2>3, <2>4, <2>5, <2>6, <2>7 DEF IInv
<1>5. ASSUME Disarm, slot[wp] = "command" PROVE IInv'
  <2> USE <1>5 DEF Disarm, FailSlot
  <2>a. /\ wp \in Permit /\ res[wp] = "command" /\ AccountsExact'
        /\ cmds' \in 0..CommandCapacity /\ qbytes' \in 0..ByteCapacity
        /\ res' \in [Permit -> {"none", "permit", "prepared", "command", "dropped"}]
        /\ bytes' \in [Permit -> 0..MaxBytes]
        /\ \A i \in Permit : res'[i] = IF i = wp THEN "dropped" ELSE res[i]
        /\ \A i \in Permit : bytes'[i] = IF i = wp THEN 0 ELSE bytes[i]
    <3>1. wp \in Permit /\ res[wp] = "command"
      BY NoPermit DEF HandsInv, SlotInv
    <3>2. Live(wp) /\ DropReservation(wp)
      BY <3>1 DEF Live
    <3>3. QED
      BY <3>1, <3>2, DropAccounts
  <2>u. /\ slot' \in [Permit -> {"empty", "cancelled", "command"}]
        /\ \A i \in Permit : slot'[i] = IF i = wp THEN "empty" ELSE slot[i]
    <3>1. /\ wp \in Permit
          /\ "empty" \in {"empty", "cancelled", "command"}
          /\ slot \in [Permit -> {"empty", "cancelled", "command"}]
      BY DEF TypeOK, HandsInv
    <3>2. slot' = [slot EXCEPT ![wp] = "empty"]
      OBVIOUS
    <3>3. QED
      BY <3>1, <3>2, Update
  <2>v. /\ reply' \in [Permit -> {"none", "pending", "ok", "failed"}]
        /\ \A i \in Permit : reply'[i] = IF i = wp THEN "failed" ELSE reply[i]
    <3>1. /\ wp \in Permit
          /\ "failed" \in {"none", "pending", "ok", "failed"}
          /\ reply \in [Permit -> {"none", "pending", "ok", "failed"}]
      BY DEF TypeOK, HandsInv
    <3>2. reply' = [reply EXCEPT ![wp] = "failed"]
      OBVIOUS
    <3>3. QED
      BY <3>1, <3>2, Update
  <2>1. TypeOK'
    BY <2>a, <2>u, <2>v, NoPermit, SMTT(30) DEF TypeOK
  <2>2. JsInv'
    BY <2>a, <2>u, <2>v, Numbers DEF JsInv, Live
  <2>3. OrderInv'
    BY Numbers DEF JsInv, OrderInv, LastSent, InReservationOrder
  <2>4. HandsInv'
    BY <2>a, <2>u, <2>v DEF JsInv, HandsInv, SlotInv, Live
  <2>5. SlotInv'
    BY <2>a, <2>u, <2>v DEF JsInv, HandsInv, SlotInv, InChannel, Live
  <2>6. NoOrphanedReply'
    BY <2>a, <2>u, <2>v DEF JsInv, HandsInv, SlotInv, NoOrphanedReply, InChannel, Running
  <2>7. AccountsExact'
    BY <2>a
  <2>8. QED
    BY <2>1, <2>2, <2>3, <2>4, <2>5, <2>6, <2>7 DEF IInv
<1>6. ASSUME Disarm, slot[wp] # "command" PROVE IInv'
  <2> USE <1>6 DEF Disarm, FailSlot
  <2>u. /\ slot' \in [Permit -> {"empty", "cancelled", "command"}]
        /\ \A i \in Permit : slot'[i] = IF i = wp THEN "cancelled" ELSE slot[i]
    <3>1. /\ wp \in Permit
          /\ "cancelled" \in {"empty", "cancelled", "command"}
          /\ slot \in [Permit -> {"empty", "cancelled", "command"}]
      BY DEF TypeOK, HandsInv
    <3>2. slot' = [slot EXCEPT ![wp] = "cancelled"]
      OBVIOUS
    <3>3. QED
      BY <3>1, <3>2, Update
  <2>1. TypeOK'
    BY <2>u, CapacityAssumption, BoundAssumption, CommandAssumption
    DEF TypeOK, JsInv, HandsInv, Permit
  <2>2. JsInv'
    BY <2>u, BoundAssumption DEF TypeOK, JsInv, Live, Permit
  <2>3. OrderInv'
    BY <2>u, Numbers DEF JsInv, OrderInv, LastSent, InReservationOrder
  <2>4. HandsInv'
    BY <2>u DEF JsInv, HandsInv, SlotInv
  <2>5. SlotInv'
    BY <2>u DEF JsInv, HandsInv, SlotInv, InChannel
  <2>6. NoOrphanedReply'
    BY <2>u DEF JsInv, HandsInv, SlotInv, NoOrphanedReply, InChannel, Running
  <2>7. AccountsExact'
    BY <2>u, SameAccounts DEF Live
  <2>8. QED
    BY <2>1, <2>2, <2>3, <2>4, <2>5, <2>6, <2>7 DEF IInv
<1>7. ASSUME CheckStopping, stopping, wp # 0 PROVE IInv'
  <2> USE <1>7 DEF CheckStopping
  <2>a. /\ wp \in Permit /\ res[wp] = "command" /\ AccountsExact'
        /\ cmds' \in 0..CommandCapacity /\ qbytes' \in 0..ByteCapacity
        /\ res' \in [Permit -> {"none", "permit", "prepared", "command", "dropped"}]
        /\ bytes' \in [Permit -> 0..MaxBytes]
        /\ \A i \in Permit : res'[i] = IF i = wp THEN "dropped" ELSE res[i]
        /\ \A i \in Permit : bytes'[i] = IF i = wp THEN 0 ELSE bytes[i]
    <3>1. wp \in Permit /\ res[wp] = "command"
      BY NoPermit DEF HandsInv
    <3>2. Live(wp) /\ DropReservation(wp)
      BY <3>1 DEF Live
    <3>3. QED
      BY <3>1, <3>2, DropAccounts
  <2>v. /\ reply' \in [Permit -> {"none", "pending", "ok", "failed"}]
        /\ \A i \in Permit : reply'[i] = IF i = wp THEN "failed" ELSE reply[i]
    <3>1. /\ wp \in Permit
          /\ "failed" \in {"none", "pending", "ok", "failed"}
          /\ reply \in [Permit -> {"none", "pending", "ok", "failed"}]
      BY DEF TypeOK, HandsInv
    <3>2. reply' = [reply EXCEPT ![wp] = "failed"]
      OBVIOUS
    <3>3. QED
      BY <3>1, <3>2, Update
  <2>1. TypeOK'
    BY <2>a, <2>v, NoPermit, SMTT(30) DEF TypeOK
  <2>2. JsInv'
    BY <2>a, <2>v, Numbers DEF JsInv, Live
  <2>3. OrderInv'
    BY Numbers DEF JsInv, OrderInv, LastSent, InReservationOrder
  <2>4. HandsInv'
    BY <2>a, <2>v DEF JsInv, HandsInv, SlotInv, Live
  <2>5. SlotInv'
    BY <2>a, <2>v DEF JsInv, HandsInv, SlotInv, InChannel, Live
  <2>6. NoOrphanedReply'
    BY <2>a, <2>v DEF JsInv, HandsInv, SlotInv, NoOrphanedReply, InChannel, Running
  <2>7. AccountsExact'
    BY <2>a
  <2>8. QED
    BY <2>1, <2>2, <2>3, <2>4, <2>5, <2>6, <2>7 DEF IInv
<1>8. ASSUME CheckStopping, ~(stopping /\ wp # 0) PROVE IInv'
  <2> USE <1>8 DEF CheckStopping
  <2>1. TypeOK'
    BY CapacityAssumption, BoundAssumption, CommandAssumption, ZenonT(60) DEF TypeOK, JsInv, HandsInv, Permit
  <2>2. JsInv'
    BY BoundAssumption DEF TypeOK, JsInv, Live, Permit
  <2>3. OrderInv'
    BY Numbers DEF JsInv, OrderInv, LastSent, InReservationOrder
  <2>4. HandsInv'
    BY DEF JsInv, HandsInv, SlotInv
  <2>5. SlotInv'
    BY NoPermit DEF HandsInv, SlotInv, InChannel
  <2>6. NoOrphanedReply'
    BY NoPermit DEF NoOrphanedReply, Running
  <2>7. AccountsExact'
    BY SameAccounts DEF Live
  <2>8. QED
    BY <2>1, <2>2, <2>3, <2>4, <2>5, <2>6, <2>7 DEF IInv
<1>9. ASSUME Start PROVE IInv'
  <2> USE <1>9 DEF Start
  <2>a. /\ wp \in Permit /\ res[wp] = "command" /\ AccountsExact'
        /\ cmds' \in 0..CommandCapacity /\ qbytes' \in 0..ByteCapacity
        /\ res' \in [Permit -> {"none", "permit", "prepared", "command", "dropped"}]
        /\ bytes' \in [Permit -> 0..MaxBytes]
        /\ \A i \in Permit : res'[i] = IF i = wp THEN "dropped" ELSE res[i]
        /\ \A i \in Permit : bytes'[i] = IF i = wp THEN 0 ELSE bytes[i]
    <3>1. wp \in Permit /\ res[wp] = "command"
      BY NoPermit DEF HandsInv
    <3>2. Live(wp) /\ DropReservation(wp)
      BY <3>1 DEF Live
    <3>3. QED
      BY <3>1, <3>2, DropAccounts
  <2>s. /\ started' \in Seq(Permit) /\ Len(started') = Len(started) + 1
        /\ \A i \in 1..Len(started) : i \in 1..Len(started') /\ started'[i] = started[i]
        /\ \A i \in 1..Len(started') : i \in 1..Len(started) \/ i = Len(started')
        /\ started'[Len(started')] = wp /\ Len(started') \in 1..Len(started')
    <3>1. started \in Seq(Permit) /\ started' = Append(started, wp)
      BY DEF TypeOK
    <3>2. QED
      BY <2>a, <3>1, Sent
  <2>1. TypeOK'
    <3>1. attempt' \in Nat /\ retries' \in Nat /\ expected' \in 0..(MaxCancels + 1)
      BY CommandAssumption DEF TypeOK
    <3>2. wpc' \in {"disconnect", "attempt", "begin"}
      OBVIOUS
    <3>3. QED
      BY <2>a, <2>s, <3>1, <3>2, SMTT(30) DEF TypeOK
  <2>2. JsInv'
    BY <2>a, <2>s, Numbers DEF JsInv, Live
  <2>3. OrderInv'
    <3> USE Numbers DEF OrderInv
    <3>1. LastSent' = LastSent
      BY DEF LastSent
    <3>2. \A i \in 1..Len(started) : started[i] < wp
      BY <2>a, NoPermit
    <3>3. \A i \in 1..Len(started') : started'[i] <= LastSent'
      BY <2>s, <3>1
    <3>4. \A i \in 1..Len(started'), j \in 1..Len(chan) : chan[j] # 0 => started'[i] < chan[j]
      BY <2>s
    <3>5. \A i, j \in 1..Len(started') : i < j => started'[i] < started'[j]
      <4> SUFFICES ASSUME NEW i \in 1..Len(started'), NEW j \in 1..Len(started'), i < j
                   PROVE  started'[i] < started'[j]
        OBVIOUS
      <4>1. i \in 1..Len(started) /\ started'[i] = started[i]
        BY <2>s
      <4>2. CASE j = Len(started')
        BY <2>s, <3>2, <4>1, <4>2
      <4>3. CASE j \in 1..Len(started)
        BY <2>s, <4>1, <4>3 DEF InReservationOrder
      <4>4. QED
        BY <2>s, <4>2, <4>3
    <3>6. QED
      BY <3>1, <3>3, <3>4, <3>5 DEF InReservationOrder
  <2>4. HandsInv'
    BY <2>a, <2>s DEF JsInv, HandsInv, SlotInv, Live
  <2>5. SlotInv'
    <3>1. UNCHANGED <<chan, slot, reply, wp, jp, jpc>> /\ wpc = "start"
      OBVIOUS
    <3>2. \A p \in Permit : InChannel(p)' <=> InChannel(p)
      BY <3>1 DEF InChannel
    <3>3. \A p \in Permit :
            /\ slot[p] = "command" => res[p] = "command"
            /\ res[p] = "command" => reply[p] = "pending"
            /\ res[p] = "command" /\ slot[p] # "command" => wp = p
            /\ slot[p] = "command" \/ (res[p] \in {"permit", "prepared"} /\ slot[p] = "empty") =>
                 InChannel(p) \/ (jp = p /\ jpc = "admitted")
      BY <3>1 DEF SlotInv
    <3>4. slot[wp] # "command"
      BY <2>a, NoPermit DEF HandsInv
    <3>5. QED
      BY <2>a, <3>1, <3>2, <3>3, <3>4 DEF SlotInv
  <2>6. NoOrphanedReply'
    BY <2>a, <2>s DEF JsInv, HandsInv, SlotInv, NoOrphanedReply, InChannel, Running
  <2>7. AccountsExact'
    BY <2>a
  <2>8. QED
    BY <2>1, <2>2, <2>3, <2>4, <2>5, <2>6, <2>7 DEF IInv
<1>10. ASSUME EnterDrain PROVE IInv'
  <2> USE <1>10 DEF EnterDrain
  <2>1. TypeOK'
    BY CapacityAssumption, BoundAssumption, CommandAssumption DEF TypeOK, JsInv, HandsInv, Permit
  <2>2. JsInv'
    BY BoundAssumption DEF TypeOK, JsInv, Live, Permit
  <2>3. OrderInv'
    BY Numbers DEF JsInv, OrderInv, LastSent, InReservationOrder
  <2>4. HandsInv'
    BY DEF JsInv, HandsInv, SlotInv
  <2>5. SlotInv'
    BY DEF JsInv, HandsInv, SlotInv, InChannel
  <2>6. NoOrphanedReply'
    BY DEF JsInv, HandsInv, SlotInv, NoOrphanedReply, InChannel, Running
  <2>7. AccountsExact'
    BY SameAccounts DEF Live
  <2>8. QED
    BY <2>1, <2>2, <2>3, <2>4, <2>5, <2>6, <2>7 DEF IInv
<1>11. ASSUME ShutdownConnector PROVE IInv'
  <2> USE <1>11 DEF ShutdownConnector
  <2>1. TypeOK'
    BY CapacityAssumption, BoundAssumption, CommandAssumption DEF TypeOK, JsInv, HandsInv, Permit
  <2>2. JsInv'
    BY BoundAssumption DEF TypeOK, JsInv, Live, Permit
  <2>3. OrderInv'
    BY Numbers DEF JsInv, OrderInv, LastSent, InReservationOrder
  <2>4. HandsInv'
    BY DEF JsInv, HandsInv, SlotInv
  <2>5. SlotInv'
    BY DEF JsInv, HandsInv, SlotInv, InChannel
  <2>6. NoOrphanedReply'
    BY DEF JsInv, HandsInv, SlotInv, NoOrphanedReply, InChannel, Running
  <2>7. AccountsExact'
    BY SameAccounts DEF Live
  <2>8. QED
    BY <2>1, <2>2, <2>3, <2>4, <2>5, <2>6, <2>7 DEF IInv
<1>12. QED
  BY <1>1, <1>2, <1>3, <1>4, <1>5, <1>6, <1>7, <1>8, <1>9, <1>10, <1>11

\* Failing the first placeholder of the channel, as fail_pending() and the
\* drop of the receiver do, preserves it: a command found in its slot is
\* settled.
LEMMA FailHeadInv ==
    ASSUME IInv, wpc \in {"failing", "closing"}, chan # <<>>, chan' = Tail(chan),
           IF Head(chan) = 0 THEN UNCHANGED <<slot, reply, admission>> ELSE FailSlot(Head(chan)),
           UNCHANGED <<worker, js, kind, receiver, stopping, gen, registered>>
    PROVE  IInv'
<1> USE DEF IInv, js, admission, slots, worker, WGoto
<1>1. ASSUME Head(chan) = 0 PROVE IInv'
  <2> USE <1>1 DEF FailSlot
  <2>t. /\ chan' \in Seq(0..MaxPermits) /\ Len(chan') = Len(chan) - 1
        /\ Head(chan) = chan[1] /\ Head(chan) \in Permit \cup {0} /\ 1 \in 1..Len(chan)
        /\ \A i \in 1..Len(chan') : i + 1 \in 1..Len(chan) /\ chan'[i] = chan[i + 1]
        /\ \A i \in 1..Len(chan) : i = 1 \/ (i - 1 \in 1..Len(chan') /\ chan'[i - 1] = chan[i])
    BY Taken
  <2>m. \A p \in Permit : InChannel(p) => p = Head(chan) \/ InChannel(p)'
    <3> SUFFICES ASSUME NEW p \in Permit, InChannel(p), p # Head(chan) PROVE InChannel(p)'
      OBVIOUS
    <3>1. PICK i \in 1..Len(chan) : chan[i] = p
      BY DEF InChannel
    <3>2. i - 1 \in 1..Len(chan') /\ chan'[i - 1] = p
      BY <2>t, <3>1
    <3>3. QED
      BY <3>2 DEF InChannel
  <2>1. TypeOK'
    <3>1. Len(chan') <= ChannelCapacity
      BY <2>t, Numbers, CapacityAssumption DEF TypeOK
    <3>2. QED
      BY <2>t, <2>m, <3>1 DEF TypeOK
  <2>2. JsInv'
    BY <2>t, <2>m, BoundAssumption DEF TypeOK, JsInv, Live, Permit
  <2>3. OrderInv'
    <3>1. UNCHANGED <<jpc, permits, wp, wpc, started>>
      OBVIOUS
    <3>2. QED
      BY <3>1, TakenOrder DEF OrderInv, InReservationOrder
  <2>4. HandsInv'
    BY <2>t DEF HandsInv
  <2>5. SlotInv'
    BY <2>t, <2>m, NoPermit DEF SlotInv
  <2>6. NoOrphanedReply'
    <3> SUFFICES ASSUME NEW p \in Permit, reply'[p] = "pending"
                 PROVE  slot'[p] = "command" /\ InChannel(p)'
      BY DEF NoOrphanedReply, InChannel
    <3>1. reply[p] = "pending" /\ slot[p] = "command" /\ InChannel(p)
      BY <2>t, <2>m, NoPermit DEF NoOrphanedReply, Running, InChannel
    <3>2. QED
      BY <2>t, <2>m, <3>1, NoPermit
  <2>7. AccountsExact'
    BY <2>t, <2>m, SameAccounts DEF Live
  <2>8. QED
    BY <2>1, <2>2, <2>3, <2>4, <2>5, <2>6, <2>7 DEF IInv
<1>2. ASSUME Head(chan) # 0, slot[Head(chan)] = "command" PROVE IInv'
  <2> USE <1>2 DEF FailSlot
  <2>t. /\ chan' \in Seq(0..MaxPermits) /\ Len(chan') = Len(chan) - 1
        /\ Head(chan) = chan[1] /\ Head(chan) \in Permit \cup {0} /\ 1 \in 1..Len(chan)
        /\ \A i \in 1..Len(chan') : i + 1 \in 1..Len(chan) /\ chan'[i] = chan[i + 1]
        /\ \A i \in 1..Len(chan) : i = 1 \/ (i - 1 \in 1..Len(chan') /\ chan'[i - 1] = chan[i])
    BY Taken
  <2>a. /\ Head(chan) \in Permit /\ res[Head(chan)] = "command" /\ AccountsExact'
        /\ cmds' \in 0..CommandCapacity /\ qbytes' \in 0..ByteCapacity
        /\ res' \in [Permit -> {"none", "permit", "prepared", "command", "dropped"}]
        /\ bytes' \in [Permit -> 0..MaxBytes]
        /\ \A i \in Permit : res'[i] = IF i = Head(chan) THEN "dropped" ELSE res[i]
        /\ \A i \in Permit : bytes'[i] = IF i = Head(chan) THEN 0 ELSE bytes[i]
    <3>1. Head(chan) \in Permit /\ res[Head(chan)] = "command"
      BY <2>t DEF SlotInv
    <3>2. Live(Head(chan)) /\ DropReservation(Head(chan))
      BY <3>1 DEF Live
    <3>3. QED
      BY <3>1, <3>2, DropAccounts
  <2>u. /\ slot' \in [Permit -> {"empty", "cancelled", "command"}]
        /\ \A i \in Permit : slot'[i] = IF i = Head(chan) THEN "empty" ELSE slot[i]
    <3>1. /\ Head(chan) \in Permit
          /\ "empty" \in {"empty", "cancelled", "command"}
          /\ slot \in [Permit -> {"empty", "cancelled", "command"}]
      BY <2>t DEF TypeOK
    <3>2. slot' = [slot EXCEPT ![Head(chan)] = "empty"]
      OBVIOUS
    <3>3. QED
      BY <3>1, <3>2, Update
  <2>v. /\ reply' \in [Permit -> {"none", "pending", "ok", "failed"}]
        /\ \A i \in Permit : reply'[i] = IF i = Head(chan) THEN "failed" ELSE reply[i]
    <3>1. /\ Head(chan) \in Permit
          /\ "failed" \in {"none", "pending", "ok", "failed"}
          /\ reply \in [Permit -> {"none", "pending", "ok", "failed"}]
      BY <2>t DEF TypeOK
    <3>2. reply' = [reply EXCEPT ![Head(chan)] = "failed"]
      OBVIOUS
    <3>3. QED
      BY <3>1, <3>2, Update
  <2>m. \A p \in Permit : InChannel(p) => p = Head(chan) \/ InChannel(p)'
    <3> SUFFICES ASSUME NEW p \in Permit, InChannel(p), p # Head(chan) PROVE InChannel(p)'
      OBVIOUS
    <3>1. PICK i \in 1..Len(chan) : chan[i] = p
      BY DEF InChannel
    <3>2. i - 1 \in 1..Len(chan') /\ chan'[i - 1] = p
      BY <2>t, <3>1
    <3>3. QED
      BY <3>2 DEF InChannel
  <2>1. TypeOK'
    <3>1. Len(chan') <= ChannelCapacity
      BY <2>t, Numbers, CapacityAssumption DEF TypeOK
    <3>2. QED
      BY <2>t, <2>a, <2>u, <2>v, <2>m, <3>1, SMTT(30) DEF TypeOK
  <2>2. JsInv'
    BY <2>a, Numbers DEF JsInv, Live
  <2>3. OrderInv'
    <3>1. UNCHANGED <<jpc, permits, wp, wpc, started>>
      OBVIOUS
    <3>2. QED
      BY <3>1, TakenOrder DEF OrderInv, InReservationOrder
  <2>4. HandsInv'
    BY <2>t, <2>a, <2>u, <2>v, <2>m, NoPermit DEF HandsInv
  <2>5. SlotInv'
    BY <2>t, <2>a, <2>u, <2>v, <2>m, NoPermit DEF SlotInv
  <2>6. NoOrphanedReply'
    <3> SUFFICES ASSUME NEW p \in Permit, reply'[p] = "pending"
                 PROVE  slot'[p] = "command" /\ InChannel(p)'
      BY DEF NoOrphanedReply, InChannel
    <3>1. reply[p] = "pending" /\ slot[p] = "command" /\ InChannel(p)
      BY <2>t, <2>a, <2>u, <2>v, <2>m, NoPermit DEF NoOrphanedReply, Running, InChannel
    <3>2. QED
      BY <2>t, <2>a, <2>u, <2>v, <2>m, <3>1, NoPermit
  <2>7. AccountsExact'
    BY <2>a
  <2>8. QED
    BY <2>1, <2>2, <2>3, <2>4, <2>5, <2>6, <2>7 DEF IInv
<1>3. ASSUME Head(chan) # 0, slot[Head(chan)] # "command" PROVE IInv'
  <2> USE <1>3 DEF FailSlot
  <2>t. /\ chan' \in Seq(0..MaxPermits) /\ Len(chan') = Len(chan) - 1
        /\ Head(chan) = chan[1] /\ Head(chan) \in Permit \cup {0} /\ 1 \in 1..Len(chan)
        /\ \A i \in 1..Len(chan') : i + 1 \in 1..Len(chan) /\ chan'[i] = chan[i + 1]
        /\ \A i \in 1..Len(chan) : i = 1 \/ (i - 1 \in 1..Len(chan') /\ chan'[i - 1] = chan[i])
    BY Taken
  <2>u. /\ slot' \in [Permit -> {"empty", "cancelled", "command"}]
        /\ \A i \in Permit : slot'[i] = IF i = Head(chan) THEN "cancelled" ELSE slot[i]
    <3>1. /\ Head(chan) \in Permit
          /\ "cancelled" \in {"empty", "cancelled", "command"}
          /\ slot \in [Permit -> {"empty", "cancelled", "command"}]
      BY <2>t DEF TypeOK
    <3>2. slot' = [slot EXCEPT ![Head(chan)] = "cancelled"]
      OBVIOUS
    <3>3. QED
      BY <3>1, <3>2, Update
  <2>m. \A p \in Permit : InChannel(p) => p = Head(chan) \/ InChannel(p)'
    <3> SUFFICES ASSUME NEW p \in Permit, InChannel(p), p # Head(chan) PROVE InChannel(p)'
      OBVIOUS
    <3>1. PICK i \in 1..Len(chan) : chan[i] = p
      BY DEF InChannel
    <3>2. i - 1 \in 1..Len(chan') /\ chan'[i - 1] = p
      BY <2>t, <3>1
    <3>3. QED
      BY <3>2 DEF InChannel
  <2>1. TypeOK'
    <3>1. Len(chan') <= ChannelCapacity
      BY <2>t, Numbers, CapacityAssumption DEF TypeOK
    <3>2. QED
      BY <2>t, <2>u, <2>m, <3>1 DEF TypeOK
  <2>2. JsInv'
    BY <2>t, <2>u, <2>m, BoundAssumption DEF TypeOK, JsInv, Live, Permit
  <2>3. OrderInv'
    <3>1. UNCHANGED <<jpc, permits, wp, wpc, started>>
      OBVIOUS
    <3>2. QED
      BY <3>1, TakenOrder DEF OrderInv, InReservationOrder
  <2>4. HandsInv'
    BY <2>t, <2>u, <2>m, NoPermit DEF HandsInv
  <2>5. SlotInv'
    BY <2>t, <2>u, <2>m, NoPermit DEF SlotInv
  <2>6. NoOrphanedReply'
    <3> SUFFICES ASSUME NEW p \in Permit, reply'[p] = "pending"
                 PROVE  slot'[p] = "command" /\ InChannel(p)'
      BY DEF NoOrphanedReply, InChannel
    <3>1. reply[p] = "pending" /\ slot[p] = "command" /\ InChannel(p)
      BY <2>t, <2>u, <2>m, NoPermit DEF NoOrphanedReply, Running, InChannel
    <3>2. QED
      BY <2>t, <2>u, <2>m, <3>1, NoPermit
  <2>7. AccountsExact'
    BY <2>t, <2>u, <2>m, SameAccounts DEF Live
  <2>8. QED
    BY <2>1, <2>2, <2>3, <2>4, <2>5, <2>6, <2>7 DEF IInv
<1>4. QED
  BY <1>1, <1>2, <1>3

\* fail_pending() and the drop of the receiver preserve it.
LEMMA DrainStepInv ==
    ASSUME IInv, FailPending \/ CloseReceiver
    PROVE  IInv'
<1> USE DEF IInv, js, admission, slots, worker, WGoto
<1>1. ASSUME FailPending PROVE IInv'
  BY <1>1, FailHeadInv DEF FailPending
<1>2. ASSUME CloseReceiver, chan # <<>> PROVE IInv'
  BY <1>2, FailHeadInv DEF CloseReceiver
<1>3. ASSUME CloseReceiver, chan = <<>> PROVE IInv'
  <2> USE <1>3 DEF CloseReceiver
  <2>1. TypeOK'
    BY CapacityAssumption, BoundAssumption, CommandAssumption, ZenonT(60) DEF TypeOK, JsInv, HandsInv, Permit
  <2>2. JsInv'
    BY BoundAssumption DEF TypeOK, JsInv, Live, Permit
  <2>3. OrderInv'
    BY Numbers DEF JsInv, OrderInv, LastSent, InReservationOrder
  <2>4. HandsInv'
    BY DEF JsInv, HandsInv, SlotInv
  <2>5. SlotInv'
    BY DEF JsInv, HandsInv, SlotInv, InChannel
  <2>6. NoOrphanedReply'
    BY DEF JsInv, HandsInv, SlotInv, NoOrphanedReply, InChannel, Running
  <2>7. AccountsExact'
    BY SameAccounts DEF Live
  <2>8. QED
    BY <2>1, <2>2, <2>3, <2>4, <2>5, <2>6, <2>7 DEF IInv
<1>4. QED
  BY <1>1, <1>2, <1>3

\* A step from one state of a running command to another preserves it.
LEMMA ContinueInv ==
    ASSUME IInv, wpc \in {"disconnect", "attempt", "begin", "operation", "connected", "executed", "backoff"},
           wpc' \in {"disconnect", "attempt", "begin", "operation", "connected", "executed", "backoff"},
           expected' \in 0..(MaxCancels + 1), attempt' \in Nat, retries' \in Nat,
           outcome' \in {"none", "ok", "retryable", "final", "aborted"},
           connected' \in BOOLEAN, registered' \in BOOLEAN,
           UNCHANGED <<js, admission, slots, chan, receiver, stopping, gen, wp, started>>
    PROVE  IInv'
<1> USE DEF IInv, js, admission, slots, worker, WGoto
<1>1. TypeOK'
  BY CapacityAssumption, BoundAssumption, CommandAssumption DEF TypeOK, JsInv, HandsInv, Permit
<1>2. JsInv'
  BY BoundAssumption DEF TypeOK, JsInv, Live, Permit
<1>3. OrderInv'
  BY Numbers DEF JsInv, OrderInv, LastSent, InReservationOrder
<1>4. HandsInv'
  BY DEF JsInv, HandsInv, SlotInv
<1>5. SlotInv'
  BY DEF JsInv, HandsInv, SlotInv, InChannel
<1>6. NoOrphanedReply'
  BY DEF JsInv, HandsInv, SlotInv, NoOrphanedReply, InChannel, Running
<1>7. AccountsExact'
  BY SameAccounts DEF Live
<1>8. QED
  BY <1>1, <1>2, <1>3, <1>4, <1>5, <1>6, <1>7 DEF IInv

\* A step that settles the promise of the running command, and leaves it or
\* the loop, preserves it.
LEMMA SettleInv ==
    ASSUME IInv,
           wpc \in {"disconnect", "attempt", "begin", "operation", "connected", "executed",
                    "backoff"},
           NEW r \in {"ok", "failed"},
           reply' = [reply EXCEPT ![wp] = r], wpc' \in {"top", "drain"}, wp' \in {0, wp},
           expected' \in 0..(MaxCancels + 1), attempt' \in Nat, retries' \in Nat,
           outcome' \in {"none", "ok", "retryable", "final", "aborted"},
           connected' \in BOOLEAN, registered' \in BOOLEAN,
           UNCHANGED <<js, admission, slot, kind, chan, receiver, stopping, gen, started>>
    PROVE  IInv'
<1> USE DEF IInv, js, admission, slots, worker, WGoto
<1>v. /\ reply' \in [Permit -> {"none", "pending", "ok", "failed"}]
      /\ \A i \in Permit : reply'[i] = IF i = wp THEN r ELSE reply[i]
  <2>1. /\ wp \in Permit
        /\ r \in {"none", "pending", "ok", "failed"}
        /\ reply \in [Permit -> {"none", "pending", "ok", "failed"}]
    BY DEF TypeOK, HandsInv
  <2>2. reply' = [reply EXCEPT ![wp] = r]
    OBVIOUS
  <2>3. QED
    BY <2>1, <2>2, Update
<1>1. TypeOK'
  BY <1>v, NoPermit DEF TypeOK
<1>2. JsInv'
  BY <1>v, BoundAssumption DEF TypeOK, JsInv, Live, Permit
<1>3. OrderInv'
  BY <1>v, Numbers DEF JsInv, OrderInv, LastSent, InReservationOrder
<1>4. HandsInv'
  BY <1>v, NoPermit DEF HandsInv
<1>5. SlotInv'
  BY <1>v, NoPermit DEF HandsInv, SlotInv, InChannel
<1>6. NoOrphanedReply'
  BY <1>v DEF HandsInv, NoOrphanedReply, Running
<1>7. AccountsExact'
  BY <1>v, SameAccounts DEF Live
<1>8. QED
  BY <1>1, <1>2, <1>3, <1>4, <1>5, <1>6, <1>7 DEF IInv

\* A step that resolves the promise of the running command preserves it.
LEMMA ResolveInv ==
    ASSUME IInv,
           wpc \in {"disconnect", "attempt", "begin", "operation", "connected", "executed",
                    "backoff"},
           NEW r \in {"ok", "failed"}, Resolve(r),
           connected' \in BOOLEAN,
           UNCHANGED <<js, admission, slot, kind, chan, receiver, stopping, gen, registered>>
    PROVE  IInv'
<1>1. /\ reply' = [reply EXCEPT ![wp] = r] /\ wpc' = "top" /\ wp' = 0
      /\ expected' = 0 /\ attempt' = 0 /\ retries' = 0 /\ outcome' = "none"
      /\ started' = started
  BY DEF Resolve
<1>2. 0 \in 0..(MaxCancels + 1)
  BY BoundAssumption
<1>3. registered' \in BOOLEAN
  BY DEF IInv, TypeOK
<1>4. wpc' \in {"top", "drain"} /\ wp' \in {0, wp} /\ expected' \in 0..(MaxCancels + 1)
  BY <1>1, <1>2
<1>5. attempt' \in Nat /\ retries' \in Nat
  BY <1>1
<1>6. outcome' \in {"none", "ok", "retryable", "final", "aborted"}
  BY <1>1
<1>7. UNCHANGED <<js, admission, slot, kind, chan, receiver, stopping, gen, started>>
  BY <1>1
<1>8. QED
  BY <1>1, <1>3, <1>4, <1>5, <1>6, <1>7, SettleInv

\* The worker's steps inside a command preserve it.
LEMMA RunStepInv ==
    ASSUME IInv, \/ Disconnect \/ AttemptConnect \/ BeginOperation \/ WithoutOperation
                 \/ OperationExpires \/ OperationAnswered \/ OperationPanics \/ Executed
                 \/ Connected \/ Backoff
    PROVE  IInv'
<1> USE DEF IInv, js, admission, slots, worker, WGoto
<1>1. ASSUME Disconnect PROVE IInv'
  <2>1. PICK r \in {"ok", "failed"} : Resolve(r)
    BY <1>1 DEF Disconnect
  <2>2. QED
    BY <1>1, <2>1, ResolveInv DEF Disconnect
<1>2. ASSUME AttemptConnect, gen # expected PROVE IInv'
  BY <1>2, SettleInv, BoundAssumption DEF AttemptConnect, Resolve, TypeOK
<1>3. ASSUME AttemptConnect, gen = expected PROVE IInv'
  BY <1>3, ContinueInv DEF AttemptConnect, TypeOK
<1>4. ASSUME BeginOperation PROVE IInv'
  BY <1>4, ContinueInv DEF BeginOperation, TypeOK
<1>5. ASSUME WithoutOperation PROVE IInv'
  BY <1>5, ContinueInv DEF WithoutOperation, TypeOK
<1>6. ASSUME NEW r \in {"ok", "retryable", "final"}, EndOperation(r) PROVE IInv'
  BY <1>6, ContinueInv DEF EndOperation, TypeOK
<1>7. ASSUME OperationPanics PROVE IInv'
  BY <1>7, SettleInv DEF OperationPanics, TypeOK
<1>8. ASSUME Executed PROVE IInv'
  <2>1. PICK r \in {"ok", "failed"} : Resolve(r)
    BY <1>8 DEF Executed
  <2>a. connected' \in BOOLEAN
    BY <1>8 DEF Executed, TypeOK
  <2>2. QED
    BY <1>8, <2>1, <2>a, ResolveInv DEF Executed
<1>9. ASSUME Connected, wpc' = "backoff" PROVE IInv'
  BY <1>9, ContinueInv DEF Connected, Resolve, TypeOK
<1>10. ASSUME Connected, wpc' # "backoff" PROVE IInv'
  <2>1. PICK r \in {"ok", "failed"} : Resolve(r)
    BY <1>10 DEF Connected
  <2>2. connected' \in BOOLEAN /\ wpc = "connected"
    BY <1>10 DEF Connected, TypeOK
  <2>3. UNCHANGED <<js, admission, slot, kind, chan, receiver, stopping, gen, registered>>
    BY <1>10 DEF Connected
  <2>4. QED
    BY <2>1, <2>2, <2>3, ResolveInv
<1>11. ASSUME Backoff, gen # expected PROVE IInv'
  BY <1>11, SettleInv, BoundAssumption DEF Backoff, Resolve, TypeOK
<1>12. ASSUME Backoff, gen = expected PROVE IInv'
  BY <1>12, ContinueInv DEF Backoff, TypeOK
<1>13. QED
  BY <1>1, <1>2, <1>3, <1>4, <1>5, <1>6, <1>7, <1>8, <1>9, <1>10, <1>11, <1>12
  DEF OperationExpires, OperationAnswered

\* The inductive invariant holds of every reachable state.
LEMMA Inductive == Spec => []IInv
<1>1. Init => IInv
  <2> SUFFICES ASSUME Init PROVE IInv
    OBVIOUS
  <2> USE NoPermit DEF Init
  <2>1. TypeOK
    <3>1. /\ res \in [Permit -> {"none", "permit", "prepared", "command", "dropped"}]
          /\ slot \in [Permit -> {"empty", "cancelled", "command"}]
          /\ kind \in [Permit -> AllKind]
          /\ reply \in [Permit -> {"none", "pending", "ok", "failed"}]
      BY DEF AllKind
    <3>2. bytes \in [Permit -> 0..MaxBytes]
      BY BoundAssumption
    <3>3. /\ jp \in 0..MaxPermits /\ permits \in 0..MaxPermits
          /\ cmds \in 0..CommandCapacity /\ qbytes \in 0..ByteCapacity
          /\ gen \in 0..(MaxCancels + 1) /\ expected \in 0..(MaxCancels + 1)
          /\ wp \in 0..MaxPermits /\ attempt \in Nat /\ retries \in Nat
      BY CapacityAssumption, BoundAssumption
    <3>4. /\ chan \in Seq(0..MaxPermits) /\ Len(chan) <= ChannelCapacity
          /\ started \in Seq(Permit)
      BY CapacityAssumption
    <3>5. /\ receiver \in BOOLEAN /\ stopping \in BOOLEAN /\ registered \in BOOLEAN
          /\ connected \in BOOLEAN
      BY Zenon
    <3>6. QED
      BY <3>1, <3>2, <3>3, <3>4, <3>5, Zenon DEF TypeOK
  <2>2. JsInv /\ OrderInv
    BY BoundAssumption DEF JsInv, OrderInv, LastSent, InReservationOrder, Live, Permit
  <2>3. HandsInv /\ SlotInv /\ NoOrphanedReply
    BY DEF HandsInv, SlotInv, NoOrphanedReply
  <2>4. AccountsExact
    <3>1. LiveSet = {}
      BY DEF LiveSet, Live
    <3>2. Charged \in [1..MaxPermits -> Int] /\ \A i \in 1..MaxPermits : Charged[i] = 0
      BY DEF Charged, Live, Permit
    <3>3. SumTo(Charged, MaxPermits) = 0
      BY <3>2, SumZero, BoundAssumption
    <3>4. QED
      BY <3>1, <3>3, FS_EmptySet DEF AccountsExact, LiveSet
  <2>5. QED
    BY <2>1, <2>2, <2>3, <2>4 DEF IInv
<1>2. IInv /\ [Next]_vars => IInv'
  <2> SUFFICES ASSUME IInv, [Next]_vars PROVE IInv'
    OBVIOUS
  <2>1. CASE UNCHANGED vars
    <3> USE <2>1 DEF IInv, vars, js, admission, slots, worker
    <3>1. TypeOK' /\ JsInv' /\ HandsInv'
      BY DEF TypeOK, JsInv, HandsInv, Live
    <3>2. OrderInv' /\ SlotInv' /\ NoOrphanedReply'
      BY DEF OrderInv, LastSent, InReservationOrder, SlotInv, InChannel, NoOrphanedReply, Running
    <3>3. AccountsExact'
      BY SameAccounts DEF Live
    <3>4. QED
      BY <3>1, <3>2, <3>3
  <2>2. CASE JsStep \/ JsCall \/ (\E p \in Permit : Release(p))
    BY <2>2, JsStepInv
  <2>3. CASE \/ LoopTop \/ Recv \/ WaitSlot \/ Disarm \/ CheckStopping \/ Start
             \/ EnterDrain \/ ShutdownConnector
    BY <2>3, QueueStepInv
  <2>4. CASE FailPending \/ CloseReceiver
    BY <2>4, DrainStepInv
  <2>5. CASE \/ Disconnect \/ AttemptConnect \/ BeginOperation \/ WithoutOperation
             \/ OperationExpires \/ OperationAnswered \/ OperationPanics \/ Executed
             \/ Connected \/ Backoff
    BY <2>5, RunStepInv
  <2>6. QED
    BY <2>1, <2>2, <2>3, <2>4, <2>5 DEF Next, WorkerStep
<1>3. QED
  BY <1>1, <1>2, PTL DEF Spec

(***************************************************************************)
(* The theorems.                                                           *)
(***************************************************************************)
\* Types: among them that AdmissionCounts stays within queueCapacity and
\* maxQueuedBytes and the channel within its own capacity.
THEOREM Types == Spec => []TypeOK
<1>1. IInv => TypeOK
  BY DEF IInv
<1>2. QED
  BY <1>1, Inductive, PTL

\* AdmissionCounts is what the reservations alive add up to, however the
\* paths on which a reservation dies interleave.
THEOREM Accounts == Spec => []AccountsExact
<1>1. IInv => AccountsExact
  BY DEF IInv
<1>2. QED
  BY <1>1, Inductive, PTL

\* The command of every unsettled promise is where the worker will find it.
THEOREM NoOrphans == Spec => []NoOrphanedReply
<1>1. IInv => NoOrphanedReply
  BY DEF IInv
<1>2. QED
  BY <1>1, Inductive, PTL

\* Commands run in the order in which their permits were reserved.
THEOREM Order == Spec => []InReservationOrder
<1>1. IInv => InReservationOrder
  BY DEF IInv, OrderInv
<1>2. QED
  BY <1>1, Inductive, PTL

\* When run_worker() has returned, no promise is open: a command committed
\* to a placeholder nobody will take is refused by CommandSlot::commit.
StoppedLeavesNothing ==
    wpc = "done" => \A p \in Permit : reply[p] # "pending"

\* A stopped worker leaves no promise unsettled, also of a commit after it.
THEOREM Stopped == Spec => []StoppedLeavesNothing
<1>1. IInv => StoppedLeavesNothing
  BY DEF IInv, HandsInv, NoOrphanedReply, Running, StoppedLeavesNothing
<1>2. QED
  BY <1>1, Inductive, PTL
=============================================================================
