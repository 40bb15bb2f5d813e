-------------------------- MODULE ReceiveBufferProofs --------------------------
(***************************************************************************)
(* For every reservation size, growth factor, retention limit and sequence *)
(* of frames, the receive buffer's raw accesses stay in initialized        *)
(* memory, an idle buffer is bounded, and growth follows delivery.         *)
(*                                                                         *)
(* RawAccessInitialized is not inductive: whether the memory a pipelined   *)
(* frame finds is initialized depends on how the frames before it ended.   *)
(* The inductive invariant adds that outside read_message_body() the whole *)
(* capacity is initialized, and that inside it the capacity either still   *)
(* is, or has been grown to no more than the body that will fill it.       *)
(***************************************************************************)
EXTENDS ReceiveBuffer, TLAPS

Filled ==
    /\ phase # "body" => init = capacity
    /\ phase = "body" => len <= init /\ (init = capacity \/ capacity <= body)

Fits ==
    /\ phase # "idle" => prefix <= body /\ 2 <= body
    /\ phase \in {"first", "pipeline"} => body <= capacity /\ len <= body
    /\ phase = "body" => len <= body

IBuffer == TypeOK /\ Filled /\ Fits

\* A growth factor of at least one never shrinks a capacity.
LEMMA GrowthGrows ==
    ASSUME NEW c \in Nat
    PROVE  Factor * c \in Nat /\ c <= Factor * c
<1>1. PICK k \in Nat : Factor = k + 1
  <2>1. Factor - 1 \in Nat /\ Factor = (Factor - 1) + 1
    BY BufferAssumption
  <2>. QED BY <2>1
<1>2. k * c \in Nat
  OBVIOUS
<1>3. Factor * c = k * c + c
  BY <1>1
<1>. QED BY <1>2, <1>3

\* A new connector's buffer is empty.
LEMMA BufferInit == Init => IBuffer
BY BufferAssumption DEF Init, IBuffer, TypeOK, Filled, Fits

\* Every step of the receipt, of a failure and of a reconfiguration keeps the
\* inductive invariant.
LEMMA BufferStep == IBuffer /\ [Next]_vars => IBuffer'
<1>. SUFFICES ASSUME IBuffer, [Next]_vars PROVE IBuffer'
  OBVIOUS
<1>. USE BufferAssumption DEF IBuffer, TypeOK, Filled, Fits
<1>1. ASSUME NEW b \in 2..MaxBody, NEW p \in Prefixes \cup {0}, FrameBegins(b, p)
      PROVE  IBuffer'
  BY <1>1 DEF FrameBegins
<1>2. CASE Reserve
  <2>1. Wanted \in Nat /\ prefix <= Wanted
    BY <1>2 DEF Reserve, Wanted, Larger, Smaller
  <2>2. capacity' \in Nat /\ prefix <= capacity' /\ init' = capacity'
    BY <1>2, <2>1 DEF Reserve, Larger
  <2>. QED BY <1>2, <2>2 DEF Reserve
<1>3. ASSUME NEW n \in 1..MaxBody, NEW t \in BOOLEAN, ReadSome(n, t) PROVE IBuffer'
  BY <1>3 DEF ReadSome
<1>4. ASSUME NEW n \in 1..MaxBody, Read(n) PROVE IBuffer'
  BY <1>4 DEF Read, Larger, Smaller
<1>5. CASE PipelineDone
  BY <1>5 DEF PipelineDone
<1>6. CASE Grow
  <2>1. Factor * capacity \in Nat /\ capacity <= Factor * capacity
    BY GrowthGrows
  <2>2. capacity' \in Nat /\ capacity <= capacity' /\ capacity' <= body
    BY <1>6, <2>1 DEF Grow, Smaller
  <2>. QED BY <1>6, <2>2 DEF Grow
<1>7. CASE BodyDone
  BY <1>7 DEF BodyDone
<1>8. CASE Decode
  BY <1>8 DEF Decode, NewBuffer, ReleaseOversized
<1>9. CASE Disconnect
  BY <1>9 DEF Disconnect, NewBuffer
<1>10. ASSUME NEW l \in BOOLEAN, Reconfigure(l) PROVE IBuffer'
  BY <1>10 DEF Reconfigure
<1>11. CASE UNCHANGED vars
  BY <1>11 DEF vars
<1>. QED BY <1>1, <1>2, <1>3, <1>4, <1>5, <1>6, <1>7, <1>8, <1>9, <1>10, <1>11 DEF Next

\* The Vec's length and initialized prefix stay within its capacity, for
\* every sequence of frames, growths and failures.
THEOREM BufferTypeCorrect == Spec => []TypeOK
<1>1. IBuffer => TypeOK
  BY DEF IBuffer
<1>. QED BY <1>1, BufferInit, BufferStep, PTL DEF Spec

\* read_some() and the pipeline only touch initialized memory.
THEOREM RawAccess == Spec => []RawAccessInitialized
<1>1. IBuffer => RawAccessInitialized
  BY DEF IBuffer, TypeOK, Filled, Fits, RawAccessInitialized
<1>. QED BY <1>1, BufferInit, BufferStep, PTL DEF Spec

\* Between two frames a connection holds at most MaxRetained bytes.
THEOREM IdleBounded == Spec => []IdleBufferBounded
<1>1. Init => IdleBufferBounded
  BY BufferAssumption DEF Init, IdleBufferBounded
<1>2. IBuffer /\ IdleBufferBounded /\ [Next]_vars => IdleBufferBounded'
  <2>. SUFFICES ASSUME IBuffer, IdleBufferBounded, [Next]_vars PROVE IdleBufferBounded'
    OBVIOUS
  <2>. USE BufferAssumption DEF IBuffer, TypeOK, IdleBufferBounded
  <2>1. CASE Decode
    BY <2>1 DEF Decode, NewBuffer, ReleaseOversized
  <2>2. CASE Disconnect
    BY <2>2 DEF Disconnect, NewBuffer
  <2>3. ASSUME NEW l \in BOOLEAN, Reconfigure(l) PROVE IdleBufferBounded'
    BY <2>3 DEF Reconfigure
  <2>4. CASE UNCHANGED vars
    BY <2>4 DEF vars
  <2>5. CASE phase' # "idle"
    BY <2>5
  <2>. QED
    BY <2>1, <2>2, <2>3, <2>4, <2>5
    DEF Next, FrameBegins, Reserve, ReadSome, Read, PipelineDone, Grow, BodyDone
<1>. QED BY <1>1, <1>2, BufferInit, BufferStep, PTL DEF Spec

\* Beyond the first reservation the buffer grows only in proportion to the
\* bytes the peer has delivered.
THEOREM GrowthFollows == Spec => GrowthFollowsDelivery
<1>. DEFINE Bounded ==
       capacity' > capacity =>
          capacity' <= Larger(Initial, prefix) \/ capacity' <= Factor * len
<1>1. IBuffer /\ [Next]_vars => [Bounded]_vars
  <2>. SUFFICES ASSUME IBuffer, Next PROVE Bounded
    OBVIOUS
  <2>. USE BufferAssumption DEF IBuffer, TypeOK
  <2>1. CASE Reserve
    BY <2>1 DEF Reserve, Wanted, Larger, Smaller
  <2>2. CASE Grow
    <3>1. Factor * capacity \in Nat
      BY GrowthGrows
    <3>. QED BY <2>2, <3>1 DEF Grow, Smaller
  <2>3. CASE ~(capacity' > capacity)
    BY <2>3
  <2>4. CASE Decode \/ Disconnect
    BY <2>4 DEF Decode, Disconnect, NewBuffer, ReleaseOversized
  <2>. QED
    BY <2>1, <2>2, <2>3, <2>4
    DEF Next, FrameBegins, ReadSome, Read, PipelineDone, BodyDone, Reconfigure
<1>. QED BY <1>1, BufferInit, BufferStep, PTL DEF Spec, GrowthFollowsDelivery
=============================================================================
