--------------------------- MODULE ConnectorProofs ---------------------------
(***************************************************************************)
(* Proofs about Connector, for any number of cancellers, operations,       *)
(* sockets and notifications, and for any modulus of the operation ids.    *)
(***************************************************************************)
EXTENDS Connector, TLAPS

(***************************************************************************)
(* The inductive invariant, in named parts.                                *)
(***************************************************************************)
\* Which handles are set where in an operation.
Handles ==
    /\ tcp = stream
    /\ pc \in {"dialed", "auth"} <=> dialed # 0
    /\ pc \in {"dialing", "dialed", "auth"} => stream = 0
    /\ pc \in {"write", "read"} => stream # 0
    /\ pc = "dropped" => stream = 0
    /\ pc = "finish" /\ result.tag = "note" => stream # 0

\* Which operations reach which step.
Steps ==
    /\ pc = "write" => kind \in {"execute", "async", "sendSync", "sendAsync"}
    /\ pc = "read" => kind \in {"execute", "receive"}
    /\ pc \in {"dialing", "dialed", "auth"} => kind \in {"connect", "execute", "async"}
    /\ InFlight /\ pc # "finish" => result.tag = "none"

\* Frames are torn only while one is being read or written.
Frames ==
    /\ torn => pc \in {"write", "read"}
    /\ torn /\ pc = "read" => wire # <<>>

\* Sockets are numbered in the order they are dialled.
Numbered ==
    /\ stream <= opened /\ dialed <= opened /\ active.sock <= opened
    /\ \A c \in Canceller : hold[c] <= opened
    /\ shut \subseteq 1..opened
    /\ raw \subseteq 1..opened
    /\ stream # 0 => stream = opened
    /\ dialed # 0 => dialed = opened

\* The active operation is the running one, whatever the ids wrap to.
Registered == active.set => InFlight /\ active.id = myId

\* A socket in use that was shut down belongs to an operation that lost its
\* registration.
ShutMeansTaken ==
    \A s \in shut : s \in {stream, dialed} => InFlight /\ ~active.set

IControl ==
    /\ TypeOK /\ Handles /\ Steps /\ Frames /\ Numbered /\ Registered
    /\ LateShutdownHarmless /\ ShutMeansTaken

NoResponse == \A i \in 1..Len(wire) : wire[i].kind # "Response"

\* Requests and answers on a connection without bare synchronous sends.
\* While execute() reads, its own request is either unanswered or has its
\* only answer on the wire; at any other time nothing is outstanding.
Answers ==
    stream # 0 /\ stream \notin raw =>
        \/ unanswered = <<>> /\ NoResponse
        \/ pc = "read" /\ kind = "execute" /\ unanswered = <<ops>> /\ NoResponse
        \/ /\ pc = "read" /\ kind = "execute" /\ unanswered = <<>>
           /\ \A i \in 1..Len(wire) : wire[i].kind = "Response" =>
                /\ wire[i].n = ops
                /\ \A j \in 1..Len(wire) : wire[j].kind = "Response" => j = i

\* Without a connection there is nothing on the wire.
Silent == stream = 0 => wire = <<>> /\ unanswered = <<>>

IAnswers == IControl /\ Answers /\ Silent /\ OwnReply

USE KindAssumption, LimitAssumption, IdModulusAssumption, TimeoutsAssumption, BoundAssumption
USE DEF NoOp, Op, Res, InFlight, owner, registry, cancel, conn, line, notif

\* What Append does to a sequence.
LEMMA AppendFacts ==
    ASSUME NEW S, NEW s \in Seq(S), NEW x \in S
    PROVE  /\ Append(s, x) \in Seq(S)
           /\ Len(Append(s, x)) = Len(s) + 1
           /\ Append(s, x) # <<>>
           /\ \A i \in 1..Len(s) : Append(s, x)[i] = s[i]
           /\ Append(s, x)[Len(s) + 1] = x
OBVIOUS

\* A new Connector (Connector::new) satisfies the control invariant.
LEMMA ControlInit == Init => IControl
<1> SUFFICES ASSUME Init PROVE IControl
    OBVIOUS
<1> USE DEF Init
<1>1. TypeOK
  <2>1. /\ wire \in Seq(Frame) /\ unanswered \in Seq(Nat)
        /\ pending \in Seq(Note) /\ delivered \in Seq(Note)
      OBVIOUS
  <2>2. /\ active \in [id : 0..(IdModulus - 1), sock : 0..MaxSockets, set : BOOLEAN]
        /\ hold \in [Canceller -> 0..MaxSockets]
        /\ myId \in 0..(IdModulus - 1) /\ nextId \in 0..(IdModulus - 1)
      OBVIOUS
  <2>3. result \in [tag : {"none", "ok", "error", "aborted", "reply", "note"}, n : Nat]
      OBVIOUS
  <2>4. shut \subseteq Socket /\ raw \subseteq Socket /\ kind \in AllKind
      BY DEF AllKind
  <2>5. /\ ops \in 0..MaxOps /\ aborts \in 0..MaxAborts /\ notes \in 0..MaxNotes
        /\ stream \in 0..MaxSockets /\ tcp \in 0..MaxSockets /\ dialed \in 0..MaxSockets
        /\ opened \in 0..MaxSockets /\ sent \in Nat /\ settings \in Settings
      OBVIOUS
  <2> QED
      BY <2>1, <2>2, <2>3, <2>4, <2>5 DEF TypeOK
<1>2. Handles /\ Steps /\ Frames /\ Numbered
    BY DEF Handles, Steps, Frames, Numbered
<1>3. Registered /\ LateShutdownHarmless /\ ShutMeansTaken
    BY DEF Registered, LateShutdownHarmless, ShutMeansTaken
<1> QED
    BY <1>1, <1>2, <1>3 DEF IControl

\* Every step of the owner thread, of a canceller and of the peer preserves
\* the control invariant: handles, registrations and socket numbers agree.
LEMMA ControlStep == IControl /\ [Next]_vars => IControl'
<1> SUFFICES ASSUME IControl, [Next]_vars PROVE IControl'
    OBVIOUS
<1> TypeOK /\ Handles /\ Steps /\ Frames /\ Numbered /\ Registered /\ LateShutdownHarmless
      /\ ShutMeansTaken
    BY DEF IControl
<1>1. ASSUME NEW k \in Kind, Begin(k) PROVE IControl'
  <2> USE <1>1 DEF Begin
  <2>1. TypeOK'
      BY DEF TypeOK, Handles, AllKind, Socket
  <2>2. Handles' /\ Steps' /\ Frames'
      BY DEF TypeOK, Handles, Steps, Frames, AllKind
  <2>3. Numbered'
      BY DEF TypeOK, Handles, Numbered
  <2>4. Registered' /\ LateShutdownHarmless' /\ ShutMeansTaken'
      BY DEF TypeOK, Handles, Numbered, Registered, LateShutdownHarmless, ShutMeansTaken
  <2> QED
      BY <2>1, <2>2, <2>3, <2>4 DEF IControl
<1>2. CASE ReceiveBuffered
  <2> USE <1>2 DEF ReceiveBuffered
  <2>1. TypeOK'
    <3>1. Head(pending) \in Note /\ Tail(pending) \in Seq(Note)
        BY DEF TypeOK
    <3>2. Head(pending).n \in Nat
        BY <3>1 DEF Note
    <3>3. pending' \in Seq(Note) /\ delivered' \in Seq(Note)
        BY <3>1, <3>2 DEF TypeOK
    <3> QED
        BY <3>1, <3>2, <3>3, SMTT(30) DEF TypeOK, Handles, AllKind, Socket
  <2>2. Handles' /\ Steps' /\ Frames'
      BY DEF TypeOK, Handles, Steps, Frames, AllKind
  <2>3. Numbered'
      BY DEF TypeOK, Handles, Numbered
  <2>4. Registered' /\ LateShutdownHarmless' /\ ShutMeansTaken'
      BY DEF TypeOK, Handles, Numbered, Registered, LateShutdownHarmless, ShutMeansTaken
  <2> QED
      BY <2>1, <2>2, <2>3, <2>4 DEF IControl
<1>3. CASE Attach
  <2> USE <1>3 DEF Attach, AfterAttach, Return, Goto, Mine
  <2>1. TypeOK'
    <3>1. shut' \subseteq Socket
        BY DEF TypeOK, Handles, Socket
    <3>2. active' \in [id : 0..(IdModulus - 1), sock : 0..MaxSockets, set : BOOLEAN]
        BY <3>1 DEF TypeOK
    <3>3. /\ pc' \in {"dialing", "read", "write", "finish"}
          /\ result' \in [tag : {"none", "ok", "error", "aborted", "reply", "note"}, n : Nat]
          /\ UNCHANGED <<kind, ops, myId>>
        BY DEF TypeOK
    <3> QED
        BY <3>1, <3>2, <3>3, SMTT(30) DEF TypeOK, Handles, AllKind, Socket
  <2>2. Handles' /\ Steps' /\ Frames'
      BY SMTT(30) DEF TypeOK, Handles, Steps, Frames, AllKind
  <2>3. Numbered'
    <3>1. shut' \subseteq 1..opened'
        BY DEF TypeOK, Handles, Numbered
    <3> QED
        BY <3>1 DEF TypeOK, Handles, Numbered
  <2>4. Registered' /\ LateShutdownHarmless' /\ ShutMeansTaken'
      BY DEF TypeOK, Handles, Numbered, Registered, LateShutdownHarmless, ShutMeansTaken
  <2> QED
      BY <2>1, <2>2, <2>3, <2>4 DEF IControl
<1>4. CASE DialFails
  <2> USE <1>4 DEF DialFails, Return, Goto
  <2>1. TypeOK'
      BY DEF TypeOK, Handles, AllKind, Socket
  <2>2. Handles' /\ Steps' /\ Frames'
      BY DEF TypeOK, Handles, Steps, Frames, AllKind
  <2>3. Numbered'
      BY DEF TypeOK, Handles, Numbered
  <2>4. Registered' /\ LateShutdownHarmless' /\ ShutMeansTaken'
      BY DEF TypeOK, Handles, Numbered, Registered, LateShutdownHarmless, ShutMeansTaken
  <2> QED
      BY <2>1, <2>2, <2>3, <2>4 DEF IControl
<1>5. CASE DialOk
  <2> USE <1>5 DEF DialOk, Return, Goto
  <2>1. TypeOK'
      BY DEF TypeOK, Handles, AllKind, Socket
  <2>2. Handles' /\ Steps' /\ Frames'
      BY DEF TypeOK, Handles, Steps, Frames, AllKind
  <2>3. Numbered'
      BY DEF TypeOK, Handles, Numbered
  <2>4. Registered' /\ LateShutdownHarmless' /\ ShutMeansTaken'
      BY DEF TypeOK, Handles, Numbered, Registered, LateShutdownHarmless, ShutMeansTaken
  <2> QED
      BY <2>1, <2>2, <2>3, <2>4 DEF IControl
<1>6. CASE AttachDialed
  <2> USE <1>6 DEF AttachDialed, Return, Goto, Mine
  <2>1. TypeOK'
    <3>1. active' \in [id : 0..(IdModulus - 1), sock : 0..MaxSockets, set : BOOLEAN]
        BY DEF TypeOK
    <3> QED
        BY <3>1 DEF TypeOK, Handles, AllKind, Socket
  <2>2. Handles' /\ Steps' /\ Frames'
      BY DEF TypeOK, Handles, Steps, Frames, AllKind
  <2>3. Numbered'
      BY DEF TypeOK, Handles, Numbered
  <2>4. Registered' /\ LateShutdownHarmless' /\ ShutMeansTaken'
      BY DEF TypeOK, Handles, Numbered, Registered, LateShutdownHarmless, ShutMeansTaken
  <2> QED
      BY <2>1, <2>2, <2>3, <2>4 DEF IControl
<1>7. CASE DialedTooLate
  <2> USE <1>7 DEF DialedTooLate, Return, Mine
  <2>1. TypeOK'
    <3>1. shut' \subseteq Socket
        BY DEF TypeOK, Handles, Socket
    <3> QED
        BY <3>1 DEF TypeOK, Handles, AllKind, Socket
  <2>2. Handles' /\ Steps' /\ Frames'
      BY DEF TypeOK, Handles, Steps, Frames, AllKind
  <2>3. Numbered'
    <3>1. shut' \subseteq 1..opened'
        BY DEF TypeOK, Handles, Numbered
    <3> QED
        BY <3>1 DEF TypeOK, Handles, Numbered
  <2>4. Registered' /\ LateShutdownHarmless' /\ ShutMeansTaken'
      BY DEF TypeOK, Handles, Numbered, Registered, LateShutdownHarmless, ShutMeansTaken
  <2> QED
      BY <2>1, <2>2, <2>3, <2>4 DEF IControl
<1>8. CASE AuthOk
  <2> USE <1>8 DEF AuthOk, Return, Goto
  <2>1. TypeOK'
    <3>1. /\ pc' \in {"write", "finish"}
          /\ result' \in [tag : {"none", "ok", "error", "aborted", "reply", "note"}, n : Nat]
          /\ UNCHANGED <<kind, ops, myId>>
        BY DEF TypeOK, Res, owner
    <3>2. /\ stream' \in 0..MaxSockets /\ tcp' \in 0..MaxSockets /\ dialed' \in 0..MaxSockets
          /\ UNCHANGED <<nextId, active, hold, aborts, opened, shut, wire, unanswered, torn,
                         peerClosed, sent, notes, pending, delivered, settings, raw>>
        BY DEF TypeOK, registry, cancel, line, notif
    <3> QED
        BY <3>1, <3>2, SMTT(30) DEF TypeOK
  <2>2. Handles' /\ Steps' /\ Frames'
      BY DEF TypeOK, Handles, Steps, Frames, AllKind
  <2>3. Numbered'
      BY DEF TypeOK, Handles, Numbered
  <2>4. Registered' /\ LateShutdownHarmless' /\ ShutMeansTaken'
      BY DEF TypeOK, Handles, Numbered, Registered, LateShutdownHarmless, ShutMeansTaken
  <2> QED
      BY <2>1, <2>2, <2>3, <2>4 DEF IControl
<1>9. CASE AuthRefused
  <2> USE <1>9 DEF AuthRefused, AuthFails, Return
  <2>1. TypeOK'
      BY DEF TypeOK, Handles, AllKind, Socket
  <2>2. Handles' /\ Steps' /\ Frames'
      BY DEF TypeOK, Handles, Steps, Frames, AllKind
  <2>3. Numbered'
      BY DEF TypeOK, Handles, Numbered
  <2>4. Registered' /\ LateShutdownHarmless' /\ ShutMeansTaken'
      BY DEF TypeOK, Handles, Numbered, Registered, LateShutdownHarmless, ShutMeansTaken
  <2> QED
      BY <2>1, <2>2, <2>3, <2>4 DEF IControl
<1>10. CASE AuthBroken
  <2> USE <1>10 DEF AuthBroken, AuthFails, Return
  <2>1. TypeOK'
      BY DEF TypeOK, Handles, AllKind, Socket
  <2>2. Handles' /\ Steps' /\ Frames'
      BY DEF TypeOK, Handles, Steps, Frames, AllKind
  <2>3. Numbered'
      BY DEF TypeOK, Handles, Numbered
  <2>4. Registered' /\ LateShutdownHarmless' /\ ShutMeansTaken'
      BY DEF TypeOK, Handles, Numbered, Registered, LateShutdownHarmless, ShutMeansTaken
  <2> QED
      BY <2>1, <2>2, <2>3, <2>4 DEF IControl
<1>11. CASE RequestRefused
  <2> USE <1>11 DEF RequestRefused, Return, Goto
  <2>1. TypeOK'
      BY DEF TypeOK, Handles, AllKind, Socket
  <2>2. Handles' /\ Steps' /\ Frames'
      BY DEF TypeOK, Handles, Steps, Frames, AllKind
  <2>3. Numbered'
      BY DEF TypeOK, Handles, Numbered
  <2>4. Registered' /\ LateShutdownHarmless' /\ ShutMeansTaken'
      BY DEF TypeOK, Handles, Numbered, Registered, LateShutdownHarmless, ShutMeansTaken
  <2> QED
      BY <2>1, <2>2, <2>3, <2>4 DEF IControl
<1>12. CASE WriteStart
  <2> USE <1>12 DEF WriteStart
  <2>1. TypeOK'
      BY DEF TypeOK, Handles, AllKind, Socket
  <2>2. Handles' /\ Steps' /\ Frames'
      BY DEF TypeOK, Handles, Steps, Frames, AllKind
  <2>3. Numbered'
      BY DEF TypeOK, Handles, Numbered
  <2>4. Registered' /\ LateShutdownHarmless' /\ ShutMeansTaken'
      BY DEF TypeOK, Handles, Numbered, Registered, LateShutdownHarmless, ShutMeansTaken
  <2> QED
      BY <2>1, <2>2, <2>3, <2>4 DEF IControl
<1>13. CASE WriteOk
  <2> USE <1>13 DEF WriteOk, Return, Goto
  <2>1. TypeOK'
    <3>1. unanswered' \in Seq(Nat)
        BY SMTT(30) DEF TypeOK
    <3>2. raw' \subseteq Socket
        BY SMTT(30) DEF TypeOK, Handles, Socket
    <3>3. pc' \in {"read", "finish"} /\ UNCHANGED <<kind, ops, myId>>
        OBVIOUS
    <3>4. result' \in [tag : {"none", "ok", "error", "aborted", "reply", "note"}, n : Nat]
        BY SMTT(30) DEF TypeOK
    <3>5. torn' \in BOOLEAN /\ UNCHANGED <<registry, cancel, conn, wire, peerClosed, sent,
                                          notes, notif>>
        OBVIOUS
    <3> HIDE <1>13 DEF WriteOk, Return, Goto
    <3> QED
        BY <3>1, <3>2, <3>3, <3>4, <3>5 DEF TypeOK
  <2>2. Handles' /\ Steps' /\ Frames'
      BY DEF TypeOK, Handles, Steps, Frames, AllKind
  <2>3. Numbered'
      BY SMTT(30) DEF TypeOK, Handles, Numbered
  <2>4. Registered' /\ LateShutdownHarmless' /\ ShutMeansTaken'
      BY DEF TypeOK, Handles, Numbered, Registered, LateShutdownHarmless, ShutMeansTaken
  <2> QED
      BY <2>1, <2>2, <2>3, <2>4 DEF IControl
<1>14. CASE WriteFails
  <2> USE <1>14 DEF WriteFails, Return, Disconnect, ClearLine
  <2>1. TypeOK'
    <3>1. shut' \subseteq Socket
        BY DEF TypeOK, Handles, Socket
    <3>2. wire' \in Seq(Frame) /\ unanswered' \in Seq(Nat)
        BY <3>1 DEF TypeOK
    <3> QED
        BY <3>1, <3>2 DEF TypeOK, Handles, AllKind, Socket
  <2>2. Handles' /\ Steps' /\ Frames'
      BY DEF TypeOK, Handles, Steps, Frames, AllKind
  <2>3. Numbered'
      BY DEF TypeOK, Handles, Numbered
  <2>4. Registered' /\ LateShutdownHarmless' /\ ShutMeansTaken'
      BY DEF TypeOK, Handles, Numbered, Registered, LateShutdownHarmless, ShutMeansTaken
  <2> QED
      BY <2>1, <2>2, <2>3, <2>4 DEF IControl
<1>15. CASE ReadFails
  <2> USE <1>15 DEF ReadFails, Return, Disconnect, ClearLine
  <2>1. TypeOK'
    <3>1. shut' \subseteq Socket
        BY DEF TypeOK, Handles, Socket
    <3>2. wire' \in Seq(Frame) /\ unanswered' \in Seq(Nat)
        BY <3>1 DEF TypeOK
    <3> QED
        BY <3>1, <3>2 DEF TypeOK, Handles, AllKind, Socket
  <2>2. Handles' /\ Steps' /\ Frames'
      BY DEF TypeOK, Handles, Steps, Frames, AllKind
  <2>3. Numbered'
      BY DEF TypeOK, Handles, Numbered
  <2>4. Registered' /\ LateShutdownHarmless' /\ ShutMeansTaken'
      BY DEF TypeOK, Handles, Numbered, Registered, LateShutdownHarmless, ShutMeansTaken
  <2> QED
      BY <2>1, <2>2, <2>3, <2>4 DEF IControl
<1>16. CASE ReadStart
  <2> USE <1>16 DEF ReadStart
  <2>1. TypeOK'
      BY DEF TypeOK, Handles, AllKind, Socket
  <2>2. Handles' /\ Steps' /\ Frames'
      BY DEF TypeOK, Handles, Steps, Frames, AllKind
  <2>3. Numbered'
      BY DEF TypeOK, Handles, Numbered
  <2>4. Registered' /\ LateShutdownHarmless' /\ ShutMeansTaken'
      BY DEF TypeOK, Handles, Numbered, Registered, LateShutdownHarmless, ShutMeansTaken
  <2> QED
      BY <2>1, <2>2, <2>3, <2>4 DEF IControl
<1>17. CASE ReadRejected
  <2> USE <1>17 DEF ReadRejected, Return, Disconnect, ClearLine
  <2>1. TypeOK'
    <3>1. shut' \subseteq Socket
        BY DEF TypeOK, Handles, Socket
    <3>2. wire' \in Seq(Frame) /\ unanswered' \in Seq(Nat)
        BY <3>1 DEF TypeOK
    <3> QED
        BY <3>1, <3>2 DEF TypeOK, Handles, AllKind, Socket
  <2>2. Handles' /\ Steps' /\ Frames'
      BY DEF TypeOK, Handles, Steps, Frames, AllKind
  <2>3. Numbered'
      BY DEF TypeOK, Handles, Numbered
  <2>4. Registered' /\ LateShutdownHarmless' /\ ShutMeansTaken'
      BY DEF TypeOK, Handles, Numbered, Registered, LateShutdownHarmless, ShutMeansTaken
  <2> QED
      BY <2>1, <2>2, <2>3, <2>4 DEF IControl
<1>18. CASE ReadResult
  <2> USE <1>18 DEF ReadResult, Return, Decoded, Readable
  <2>1. TypeOK'
    <3>1. Head(wire) \in Frame /\ wire' \in Seq(Frame)
        BY SMTT(30) DEF TypeOK, Frames
    <3>2. result' \in [tag : {"none", "ok", "error", "aborted", "reply", "note"}, n : Nat]
        BY <3>1 DEF Frame
    <3> QED
        BY <3>1, <3>2 DEF TypeOK, Handles, AllKind, Socket
  <2>2. Handles' /\ Steps' /\ Frames'
      BY DEF TypeOK, Handles, Steps, Frames, AllKind
  <2>3. Numbered'
      BY DEF TypeOK, Handles, Numbered
  <2>4. Registered' /\ LateShutdownHarmless' /\ ShutMeansTaken'
      BY DEF TypeOK, Handles, Numbered, Registered, LateShutdownHarmless, ShutMeansTaken
  <2> QED
      BY <2>1, <2>2, <2>3, <2>4 DEF IControl
<1>19. CASE BufferNotification
  <2> USE <1>19 DEF BufferNotification, Readable, AtLimit
  <2>1. TypeOK'
    <3>1. Head(wire) \in Frame /\ wire' \in Seq(Frame)
        BY DEF TypeOK, Frames
    <3>2. [sock |-> stream, n |-> Head(wire).n] \in Note
      <4>1. Head(wire).n \in Nat
          BY <3>1 DEF Frame
      <4>2. stream \in Socket
          BY DEF TypeOK, Handles, Socket
      <4> QED
          BY <4>1, <4>2 DEF Note
    <3>3. pending' \in Seq(Note)
        BY <3>2, SMTT(30) DEF TypeOK
    <3>4. torn' \in BOOLEAN
          /\ UNCHANGED <<owner, registry, cancel, conn, unanswered, peerClosed, sent, notes,
                         settings, delivered, raw>>
        OBVIOUS
    <3> HIDE <1>19 DEF BufferNotification, Readable, AtLimit
    <3> QED
        BY <3>1, <3>3, <3>4 DEF TypeOK
  <2>2. Handles' /\ Steps' /\ Frames'
      BY DEF TypeOK, Handles, Steps, Frames, AllKind
  <2>3. Numbered'
      BY DEF TypeOK, Handles, Numbered
  <2>4. Registered' /\ LateShutdownHarmless' /\ ShutMeansTaken'
      BY DEF TypeOK, Handles, Numbered, Registered, LateShutdownHarmless, ShutMeansTaken
  <2> QED
      BY <2>1, <2>2, <2>3, <2>4 DEF IControl
<1>20. CASE NotificationOverflow
  <2> USE <1>20 DEF NotificationOverflow, Return, Disconnect, ClearLine
  <2>1. TypeOK'
    <3>1. shut' \subseteq Socket
        BY DEF TypeOK, Handles, Socket
    <3>2. wire' \in Seq(Frame) /\ unanswered' \in Seq(Nat)
        BY <3>1 DEF TypeOK
    <3> QED
        BY <3>1, <3>2 DEF TypeOK, Handles, AllKind, Socket
  <2>2. Handles' /\ Steps' /\ Frames'
      BY DEF TypeOK, Handles, Steps, Frames, AllKind
  <2>3. Numbered'
      BY DEF TypeOK, Handles, Numbered
  <2>4. Registered' /\ LateShutdownHarmless' /\ ShutMeansTaken'
      BY DEF TypeOK, Handles, Numbered, Registered, LateShutdownHarmless, ShutMeansTaken
  <2> QED
      BY <2>1, <2>2, <2>3, <2>4 DEF IControl
<1>21. CASE Finish
  <2> USE <1>21 DEF Finish, Mine
  <2>1. TypeOK'
    <3>1. result.tag = "note" => [sock |-> stream, n |-> result.n] \in Note
        BY DEF TypeOK, Handles, Socket, Note
    <3>2. delivered' \in Seq(Note)
        BY <3>1 DEF TypeOK
    <3> QED
        BY <3>2 DEF TypeOK, Handles, AllKind, Socket
  <2>2. Handles' /\ Steps' /\ Frames'
      BY DEF TypeOK, Handles, Steps, Frames, AllKind
  <2>3. Numbered'
      BY DEF TypeOK, Handles, Numbered
  <2>4. Registered' /\ LateShutdownHarmless' /\ ShutMeansTaken'
      BY DEF TypeOK, Handles, Numbered, Registered, LateShutdownHarmless, ShutMeansTaken
  <2> QED
      BY <2>1, <2>2, <2>3, <2>4 DEF IControl
<1>22. CASE FinishAborted
  <2> USE <1>22 DEF FinishAborted, Disconnect, ClearLine, Mine
  <2>1. TypeOK'
    <3>1. shut' \subseteq Socket
        BY DEF TypeOK, Handles, Socket
    <3>2. wire' \in Seq(Frame) /\ unanswered' \in Seq(Nat)
        BY <3>1 DEF TypeOK
    <3> QED
        BY <3>1, <3>2 DEF TypeOK, Handles, AllKind, Socket
  <2>2. Handles' /\ Steps' /\ Frames'
      BY DEF TypeOK, Handles, Steps, Frames, AllKind
  <2>3. Numbered'
    <3>1. shut' \subseteq 1..opened'
        BY DEF TypeOK, Handles, Numbered
    <3> QED
        BY <3>1 DEF TypeOK, Handles, Numbered
  <2>4. Registered' /\ LateShutdownHarmless' /\ ShutMeansTaken'
      BY DEF TypeOK, Handles, Numbered, Registered, LateShutdownHarmless, ShutMeansTaken
  <2> QED
      BY <2>1, <2>2, <2>3, <2>4 DEF IControl
<1>23. CASE Shutdown
  <2> USE <1>23 DEF Shutdown, Disconnect, ClearLine
  <2>1. TypeOK'
    <3>1. shut' \subseteq Socket
        BY DEF TypeOK, Handles, Socket
    <3>2. wire' \in Seq(Frame) /\ unanswered' \in Seq(Nat)
        BY <3>1 DEF TypeOK
    <3> QED
        BY <3>1, <3>2 DEF TypeOK, Handles, AllKind, Socket
  <2>2. Handles' /\ Steps' /\ Frames'
      BY DEF TypeOK, Handles, Steps, Frames, AllKind
  <2>3. Numbered'
      BY DEF TypeOK, Handles, Numbered
  <2>4. Registered' /\ LateShutdownHarmless' /\ ShutMeansTaken'
      BY DEF TypeOK, Handles, Numbered, Registered, LateShutdownHarmless, ShutMeansTaken
  <2> QED
      BY <2>1, <2>2, <2>3, <2>4 DEF IControl
<1>24. ASSUME NEW s \in Settings, Configure(s) PROVE IControl'
  <2> USE <1>24 DEF Configure
  <2>1. TypeOK'
      BY DEF TypeOK, Handles, AllKind, Socket
  <2>2. Handles' /\ Steps' /\ Frames'
      BY DEF TypeOK, Handles, Steps, Frames, AllKind
  <2>3. Numbered'
      BY DEF TypeOK, Handles, Numbered
  <2>4. Registered' /\ LateShutdownHarmless' /\ ShutMeansTaken'
      BY DEF TypeOK, Handles, Numbered, Registered, LateShutdownHarmless, ShutMeansTaken
  <2> QED
      BY <2>1, <2>2, <2>3, <2>4 DEF IControl
<1>25. CASE DropConnector
  <2> USE <1>25 DEF DropConnector, Disconnect, ClearLine
  <2>1. TypeOK'
    <3>1. shut' \subseteq Socket
        BY DEF TypeOK, Handles, Socket
    <3>2. wire' \in Seq(Frame) /\ unanswered' \in Seq(Nat)
        BY <3>1 DEF TypeOK
    <3> QED
        BY <3>1, <3>2 DEF TypeOK, Handles, AllKind, Socket
  <2>2. Handles' /\ Steps' /\ Frames'
      BY DEF TypeOK, Handles, Steps, Frames, AllKind
  <2>3. Numbered'
      BY DEF TypeOK, Handles, Numbered
  <2>4. Registered' /\ LateShutdownHarmless' /\ ShutMeansTaken'
      BY DEF TypeOK, Handles, Numbered, Registered, LateShutdownHarmless, ShutMeansTaken
  <2> QED
      BY <2>1, <2>2, <2>3, <2>4 DEF IControl
<1>26. ASSUME NEW c \in Canceller, AbortTake(c) PROVE IControl'
  <2> USE <1>26 DEF AbortTake
  <2>1. TypeOK'
      BY DEF TypeOK, Handles, AllKind, Socket
  <2>2. Handles' /\ Steps' /\ Frames'
      BY DEF TypeOK, Handles, Steps, Frames, AllKind
  <2>3. Numbered'
      BY DEF TypeOK, Handles, Numbered
  <2>4. Registered' /\ LateShutdownHarmless' /\ ShutMeansTaken'
      BY DEF TypeOK, Handles, Numbered, Registered, LateShutdownHarmless, ShutMeansTaken
  <2> QED
      BY <2>1, <2>2, <2>3, <2>4 DEF IControl
<1>27. ASSUME NEW c \in Canceller, AbortShutdown(c) PROVE IControl'
  <2> USE <1>27 DEF AbortShutdown
  <2>1. TypeOK'
    <3>1. hold[c] \in Socket
        BY DEF TypeOK, Socket
    <3>2. shut' \subseteq Socket
        BY <3>1 DEF TypeOK, Socket
    <3> QED
        BY <3>1, <3>2 DEF TypeOK, Handles, AllKind, Socket
  <2>2. Handles' /\ Steps' /\ Frames'
      BY DEF TypeOK, Handles, Steps, Frames, AllKind
  <2>3. Numbered'
    <3>1. hold[c] \in 1..opened
        BY DEF TypeOK, Numbered
    <3>2. shut' \subseteq 1..opened'
        BY <3>1 DEF Numbered
    <3> QED
        BY <3>2 DEF TypeOK, Handles, Numbered
  <2>4. Registered' /\ LateShutdownHarmless' /\ ShutMeansTaken'
      BY DEF TypeOK, Handles, Numbered, Registered, LateShutdownHarmless, ShutMeansTaken
  <2> QED
      BY <2>1, <2>2, <2>3, <2>4 DEF IControl
<1>28. ASSUME NEW f \in {"none", "value", "frame"}, PeerRespond(f) PROVE IControl'
  <2> USE <1>28 DEF PeerRespond
  <2>1. TypeOK'
    <3>1. Head(unanswered) \in Nat /\ unanswered' \in Seq(Nat)
        BY SMTT(30) DEF TypeOK
    <3>2. [kind |-> "Response", n |-> Head(unanswered), flaw |-> f] \in Frame
        BY <3>1 DEF Frame
    <3>3. wire' \in Seq(Frame)
        BY <3>2, SMTT(30) DEF TypeOK
    <3>4. UNCHANGED <<owner, registry, cancel, conn, torn, peerClosed, sent, notes, notif, raw>>
        OBVIOUS
    <3> HIDE <1>28 DEF PeerRespond
    <3> QED
        BY <3>1, <3>3, <3>4 DEF TypeOK
  <2>2. Handles' /\ Steps' /\ Frames'
    <3>1. [kind |-> "Response", n |-> Head(unanswered), flaw |-> f] \in Frame
        BY SMTT(30) DEF TypeOK, Frame
    <3>2. wire \in Seq(Frame)
        BY DEF TypeOK
    <3>3. wire' # <<>>
        BY <3>1, <3>2, AppendFacts
    <3> QED
        BY <3>3 DEF TypeOK, Handles, Steps, Frames, AllKind
  <2>3. Numbered'
      BY DEF TypeOK, Handles, Numbered
  <2>4. Registered' /\ LateShutdownHarmless' /\ ShutMeansTaken'
      BY DEF TypeOK, Handles, Numbered, Registered, LateShutdownHarmless, ShutMeansTaken
  <2> QED
      BY <2>1, <2>2, <2>3, <2>4 DEF IControl
<1>29. ASSUME NEW f \in {"none", "value", "frame"}, PeerNotify(f) PROVE IControl'
  <2> USE <1>29 DEF PeerNotify
  <2>1. TypeOK'
    <3>1. [kind |-> "Async", n |-> sent + 1, flaw |-> f] \in Frame
        BY DEF TypeOK, Frame
    <3>2. wire' \in Seq(Frame)
        BY <3>1 DEF TypeOK
    <3> QED
        BY <3>1, <3>2 DEF TypeOK, Handles, AllKind, Socket
  <2>2. Handles' /\ Steps' /\ Frames'
    <3>1. [kind |-> "Async", n |-> sent + 1, flaw |-> f] \in Frame /\ wire \in Seq(Frame)
        BY DEF TypeOK, Frame
    <3>2. wire' # <<>>
        BY <3>1, AppendFacts
    <3> QED
        BY <3>2 DEF TypeOK, Handles, Steps, Frames, AllKind
  <2>3. Numbered'
      BY DEF TypeOK, Handles, Numbered
  <2>4. Registered' /\ LateShutdownHarmless' /\ ShutMeansTaken'
      BY DEF TypeOK, Handles, Numbered, Registered, LateShutdownHarmless, ShutMeansTaken
  <2> QED
      BY <2>1, <2>2, <2>3, <2>4 DEF IControl
<1>30. CASE PeerRequest
  <2> USE <1>30 DEF PeerRequest
  <2>1. TypeOK'
    <3>1. [kind |-> "Sync", n |-> 0, flaw |-> "none"] \in Frame
        BY DEF Frame
    <3>2. wire' \in Seq(Frame)
        BY <3>1 DEF TypeOK
    <3> QED
        BY <3>1, <3>2 DEF TypeOK, Handles, AllKind, Socket
  <2>2. Handles' /\ Steps' /\ Frames'
    <3>1. [kind |-> "Sync", n |-> 0, flaw |-> "none"] \in Frame
        BY DEF Frame
    <3>2. wire \in Seq(Frame)
        BY DEF TypeOK
    <3>3. wire' # <<>>
        BY <3>1, <3>2, AppendFacts
    <3> QED
        BY <3>3 DEF TypeOK, Handles, Steps, Frames, AllKind
  <2>3. Numbered'
      BY DEF TypeOK, Handles, Numbered
  <2>4. Registered' /\ LateShutdownHarmless' /\ ShutMeansTaken'
      BY DEF TypeOK, Handles, Numbered, Registered, LateShutdownHarmless, ShutMeansTaken
  <2> QED
      BY <2>1, <2>2, <2>3, <2>4 DEF IControl
<1>31. CASE PeerClose
  <2> USE <1>31 DEF PeerClose
  <2>1. TypeOK'
      BY DEF TypeOK, Handles, AllKind, Socket
  <2>2. Handles' /\ Steps' /\ Frames'
      BY DEF TypeOK, Handles, Steps, Frames, AllKind
  <2>3. Numbered'
      BY DEF TypeOK, Handles, Numbered
  <2>4. Registered' /\ LateShutdownHarmless' /\ ShutMeansTaken'
      BY DEF TypeOK, Handles, Numbered, Registered, LateShutdownHarmless, ShutMeansTaken
  <2> QED
      BY <2>1, <2>2, <2>3, <2>4 DEF IControl
<1>32. CASE UNCHANGED vars
    BY <1>32 DEF vars, IControl, TypeOK, Handles, Steps, Frames, Numbered, Registered,
           LateShutdownHarmless, ShutMeansTaken
<1> QED
    BY <1>1, <1>2, <1>3, <1>4, <1>5, <1>6, <1>7, <1>8, <1>9, <1>10, <1>11, <1>12, <1>13,
        <1>14, <1>15, <1>16, <1>17, <1>18, <1>19, <1>20, <1>21, <1>22, <1>23, <1>24,
        <1>25, <1>26, <1>27, <1>28, <1>29, <1>30, <1>31, <1>32
    DEF Next, OwnerStep, OwnerCall, OwnerIo, Peer, Abort

\* The first request appended to an empty queue is its only one.
LEMMA AppendToEmpty == ASSUME NEW x \in Nat PROVE Append(<<>>, x) = <<x>>
OBVIOUS

\* What Head and Tail do to a sequence.
LEMMA TailFacts ==
    ASSUME NEW S, NEW s \in Seq(S), s # <<>>
    PROVE  /\ Head(s) = s[1] /\ 1 \in 1..Len(s)
           /\ Len(Tail(s)) = Len(s) - 1
           /\ \A i \in 1..Len(Tail(s)) : i + 1 \in 1..Len(s) /\ Tail(s)[i] = s[i + 1]
OBVIOUS

\* A new Connector has nothing outstanding.
LEMMA AnswersInit == Init => IAnswers
    BY ControlInit DEF Init, IAnswers, Answers, NoResponse, Silent, OwnReply

\* Every step keeps requests and answers matched: a connection on which an
\* answer could still arrive is given up before the operation returns.
LEMMA AnswersStep == IAnswers /\ [Next]_vars => IAnswers'
<1> SUFFICES ASSUME IAnswers, [Next]_vars PROVE Answers' /\ Silent' /\ OwnReply'
    BY ControlStep DEF IAnswers
<1> TypeOK /\ Handles /\ Steps /\ Frames /\ Numbered /\ Answers /\ Silent /\ OwnReply
    BY DEF IAnswers, IControl
<1>1. ASSUME NEW k \in Kind, Begin(k) PROVE Answers' /\ Silent' /\ OwnReply'
    BY <1>1 DEF Begin, Answers, NoResponse, Silent, OwnReply, Handles, Steps
<1>2. CASE ReceiveBuffered
    BY <1>2 DEF ReceiveBuffered, Answers, NoResponse, Silent, OwnReply, Handles, Steps
<1>3. CASE Attach
    BY <1>3 DEF Attach, AfterAttach, Return, Goto, Answers, NoResponse, Silent, OwnReply,
          Handles, Steps
<1>4. CASE DialFails
    BY <1>4 DEF DialFails, Return, Answers, NoResponse, Silent, OwnReply, Handles, Steps
<1>5. CASE DialOk
    BY <1>5 DEF DialOk, Goto, Answers, NoResponse, Silent, OwnReply, Handles, Steps
<1>6. CASE AttachDialed
    BY <1>6 DEF AttachDialed, Goto, Answers, NoResponse, Silent, OwnReply, Handles, Steps
<1>7. CASE DialedTooLate
    BY <1>7 DEF DialedTooLate, Return, Answers, NoResponse, Silent, OwnReply, Handles, Steps
<1>8. CASE AuthOk
    BY <1>8 DEF AuthOk, Return, Goto, Answers, NoResponse, Silent, OwnReply, Handles, Steps
<1>9. CASE AuthRefused
    BY <1>9 DEF AuthRefused, AuthFails, Return, Answers, NoResponse, Silent, OwnReply,
          Handles, Steps
<1>10. CASE AuthBroken
    BY <1>10 DEF AuthBroken, AuthFails, Return, Answers, NoResponse, Silent, OwnReply,
          Handles, Steps
<1>11. CASE RequestRefused
    BY <1>11 DEF RequestRefused, Return, Answers, NoResponse, Silent, OwnReply, Handles, Steps
<1>12. CASE WriteStart
    BY <1>12 DEF WriteStart, Answers, NoResponse, Silent, OwnReply, Handles, Steps
<1>13. CASE WriteOk
  <2> USE <1>13 DEF WriteOk, Return, Goto
  <2>1. Answers'
    <3>1. (unanswered = <<>> /\ NoResponse) \/ stream \in raw
        BY DEF Answers, Handles
    <3>2. CASE kind = "execute" /\ stream \notin raw
      <4>0. unanswered' = Append(<<>>, ops) /\ pc' = "read" /\ ops' = ops /\ kind' = kind
          BY <3>1, <3>2
      <4>1. unanswered' = <<ops>>
        <5>1. ops \in Nat
            BY DEF TypeOK
        <5>2. Append(<<>>, ops) = <<ops>>
            BY <5>1, AppendToEmpty, Zenon
        <5> QED
            BY <4>0, <5>2, Zenon
      <4>2. NoResponse'
          BY <3>1, <3>2 DEF NoResponse
      <4> QED
          BY <3>2, <4>0, <4>1, <4>2 DEF Answers
    <3>3. CASE kind = "sendSync" \/ stream \in raw
        BY <3>3 DEF Answers
    <3>4. CASE kind \in {"async", "sendAsync"} /\ stream \notin raw
        BY <3>1, <3>4 DEF Answers, NoResponse
    <3> QED
        BY <3>2, <3>3, <3>4 DEF Steps
  <2>2. Silent' /\ OwnReply'
      BY DEF Silent, OwnReply, Handles, Steps
  <2> QED
      BY <2>1, <2>2
<1>14. CASE WriteFails
    BY <1>14 DEF WriteFails, Disconnect, ClearLine, Return, Answers, NoResponse, Silent,
          OwnReply, Steps
<1>15. CASE ReadFails
    BY <1>15 DEF ReadFails, Disconnect, ClearLine, Return, Answers, NoResponse, Silent,
          OwnReply, Steps
<1>16. CASE ReadStart
    BY <1>16 DEF ReadStart, Answers, NoResponse, Silent, OwnReply, Handles, Steps
<1>17. CASE ReadRejected
    BY <1>17 DEF ReadRejected, Disconnect, ClearLine, Return, Answers, NoResponse,
          Silent, OwnReply, Steps
<1>18. CASE ReadResult
  <2> USE <1>18 DEF ReadResult, Return
  <2>1. wire \in Seq(Frame) /\ wire # <<>>
      BY DEF TypeOK, Frames
  <2>2. /\ \A i \in 1..Len(wire') : i + 1 \in 1..Len(wire) /\ wire'[i] = wire[i + 1]
        /\ Head(wire) = wire[1] /\ 1 \in 1..Len(wire)
      BY <2>1, TailFacts
  <2>3. Answers'
    <3> SUFFICES ASSUME stream \notin raw PROVE unanswered = <<>> /\ NoResponse'
        BY DEF Answers
    <3>1. CASE kind = "receive"
        BY <2>2, <3>1 DEF Answers, NoResponse, Handles
    <3>2. CASE kind = "execute"
      <4>1. /\ unanswered = <<>>
            /\ \A i, j \in 1..Len(wire) :
                 wire[i].kind = "Response" /\ wire[j].kind = "Response" => j = i
          BY <2>2, <3>2 DEF Answers, NoResponse, Handles
      <4>2. wire[1].kind = "Response"
          BY <2>2, <3>2
      <4>3. \A i \in 1..Len(wire') : i + 1 # 1
          OBVIOUS
      <4> QED
          BY <2>2, <4>1, <4>2, <4>3 DEF NoResponse
    <3> QED
        BY <3>1, <3>2 DEF Steps
  <2>4. OwnReply'
    <3> SUFFICES ASSUME kind = "execute", result'.tag = "reply", stream \notin raw
                 PROVE  result'.n = ops
        BY DEF OwnReply, Handles, Numbered
    <3>1. Head(wire).kind = "Response" /\ result' = Decoded(Head(wire))
        OBVIOUS
    <3>2. result'.n = Head(wire).n
        BY <3>1 DEF Decoded
    <3>3. wire[1].n = ops
        BY <2>2, <3>1 DEF Answers, NoResponse, Handles
    <3> QED
        BY <2>2, <3>2, <3>3
  <2>5. Silent'
      BY DEF Silent, Handles
  <2> QED
      BY <2>3, <2>4, <2>5
<1>19. CASE BufferNotification
  <2> USE <1>19 DEF BufferNotification
  <2>1. wire \in Seq(Frame) /\ wire # <<>>
      BY DEF TypeOK, Frames
  <2>2. \A i \in 1..Len(wire') : i + 1 \in 1..Len(wire) /\ wire'[i] = wire[i + 1]
      BY <2>1, TailFacts
  <2>3. \A i, j \in 1..Len(wire') : j + 1 = i + 1 => j = i
      OBVIOUS
  <2>4. Answers'
    <3>1. CASE NoResponse
        BY <2>2, <3>1 DEF Answers, NoResponse
    <3>2. CASE ~NoResponse
        BY <2>2, <2>3, <3>2 DEF Answers
    <3> QED
        BY <3>1, <3>2
  <2>5. Silent' /\ OwnReply'
      BY DEF Silent, OwnReply, Handles
  <2> QED
      BY <2>4, <2>5
<1>20. CASE NotificationOverflow
    BY <1>20 DEF NotificationOverflow, Disconnect, ClearLine, Return, Answers,
          NoResponse, Silent, OwnReply, Steps
<1>21. CASE Finish
    BY <1>21 DEF Finish, Answers, NoResponse, Silent, OwnReply, Handles, Steps
<1>22. CASE FinishAborted
    BY <1>22 DEF FinishAborted, Disconnect, ClearLine, Return, Answers, NoResponse,
          Silent, OwnReply, Steps
<1>23. CASE Shutdown
    BY <1>23 DEF Shutdown, Disconnect, ClearLine, Return, Answers, NoResponse, Silent,
          OwnReply, Steps
<1>24. ASSUME NEW s \in Settings, Configure(s) PROVE Answers' /\ Silent' /\ OwnReply'
    BY <1>24 DEF Configure, Answers, NoResponse, Silent, OwnReply, Handles, Steps
<1>25. CASE DropConnector
    BY <1>25 DEF DropConnector, Disconnect, ClearLine, Return, Answers, NoResponse,
          Silent, OwnReply, Steps
<1>26. ASSUME NEW c \in Canceller, AbortTake(c) PROVE Answers' /\ Silent' /\ OwnReply'
    BY <1>26 DEF AbortTake, Answers, NoResponse, Silent, OwnReply, Handles, Steps
<1>27. ASSUME NEW c \in Canceller, AbortShutdown(c) PROVE Answers' /\ Silent' /\ OwnReply'
    BY <1>27 DEF AbortShutdown, Answers, NoResponse, Silent, OwnReply, Handles, Steps
<1>28. ASSUME NEW f \in {"none", "value", "frame"}, PeerRespond(f)
       PROVE  Answers' /\ Silent' /\ OwnReply'
  <2> USE <1>28 DEF PeerRespond
  <2> DEFINE F == [kind |-> "Response", n |-> Head(unanswered), flaw |-> f]
  <2>1. wire \in Seq(Frame) /\ unanswered \in Seq(Nat) /\ F \in Frame
      BY SMTT(30) DEF TypeOK, Frame
  <2>2. /\ Len(wire') = Len(wire) + 1 /\ Len(wire) \in Nat
        /\ \A i \in 1..Len(wire) : wire'[i] = wire[i]
        /\ wire'[Len(wire) + 1] = F
      BY <2>1, AppendFacts
  <2>3. Answers'
    <3> SUFFICES ASSUME stream \notin raw PROVE Answers'
        BY DEF Answers
    <3>1. pc = "read" /\ kind = "execute" /\ unanswered = <<ops>> /\ NoResponse
        BY DEF Answers, PeerUp
    <3>2. unanswered' = <<>> /\ F.n = ops /\ F.kind = "Response"
        BY <3>1
    <3>3. \A i \in 1..Len(wire') : wire'[i].kind = "Response" => i = Len(wire) + 1
        BY <2>2, <3>1 DEF NoResponse
    <3> QED
        BY <2>2, <3>1, <3>2, <3>3 DEF Answers
  <2>4. Silent' /\ OwnReply'
      BY DEF Silent, OwnReply, PeerUp
  <2> QED
      BY <2>3, <2>4
<1>29. ASSUME NEW f \in {"none", "value", "frame"}, PeerNotify(f)
       PROVE  Answers' /\ Silent' /\ OwnReply'
  <2> USE <1>29 DEF PeerNotify
  <2> DEFINE F == [kind |-> "Async", n |-> sent + 1, flaw |-> f]
  <2>1. wire \in Seq(Frame) /\ F \in Frame
      BY DEF TypeOK, Frame
  <2>2. /\ Len(wire') = Len(wire) + 1 /\ Len(wire) \in Nat
        /\ \A i \in 1..Len(wire) : wire'[i] = wire[i]
        /\ wire'[Len(wire) + 1] = F
      BY <2>1, AppendFacts
  <2>3. \A i \in 1..Len(wire') :
          wire'[i].kind = "Response" => i \in 1..Len(wire) /\ wire'[i] = wire[i]
      BY <2>2
  <2>4. Answers'
      BY <2>3 DEF Answers, NoResponse
  <2>5. Silent' /\ OwnReply'
      BY DEF Silent, OwnReply, PeerUp
  <2> QED
      BY <2>4, <2>5
<1>30. CASE PeerRequest
  <2> USE <1>30 DEF PeerRequest
  <2> DEFINE F == [kind |-> "Sync", n |-> 0, flaw |-> "none"]
  <2>1. wire \in Seq(Frame) /\ F \in Frame
      BY DEF TypeOK, Frame
  <2>2. /\ Len(wire') = Len(wire) + 1 /\ Len(wire) \in Nat
        /\ \A i \in 1..Len(wire) : wire'[i] = wire[i]
        /\ wire'[Len(wire) + 1] = F
      BY <2>1, AppendFacts
  <2>3. \A i \in 1..Len(wire') :
          wire'[i].kind = "Response" => i \in 1..Len(wire) /\ wire'[i] = wire[i]
      BY <2>2
  <2>4. Answers'
      BY <2>3 DEF Answers, NoResponse
  <2>5. Silent' /\ OwnReply'
      BY DEF Silent, OwnReply, PeerUp
  <2> QED
      BY <2>4, <2>5
<1>31. CASE PeerClose
    BY <1>31 DEF PeerClose, Answers, NoResponse, Silent, OwnReply, Handles, Steps
<1>32. CASE UNCHANGED vars
    BY <1>32 DEF vars, Answers, NoResponse, Silent, OwnReply
<1> QED
    BY <1>1, <1>2, <1>3, <1>4, <1>5, <1>6, <1>7, <1>8, <1>9, <1>10, <1>11, <1>12, <1>13,
        <1>14, <1>15, <1>16, <1>17, <1>18, <1>19, <1>20, <1>21, <1>22, <1>23, <1>24, <1>25,
        <1>26, <1>27, <1>28, <1>29, <1>30, <1>31, <1>32
    DEF Next, OwnerStep, OwnerCall, OwnerIo, Peer, Abort


(***************************************************************************)
(* Notifications.                                                          *)
(***************************************************************************)
\* The number of the last notification of this connection that was read.
\* receive() has read one more than it has returned when it is about to
\* return it.
Consumed == IF pc = "finish" /\ result.tag = "note" THEN result.n ELSE LastOn(stream)

\* What was returned or buffered is in order, and older than a new socket.
GotInOrder ==
    /\ \A i, j \in 1..Len(Got) : i < j => Got[i].sock <= Got[j].sock
    /\ \A i \in 1..Len(Got) :
          Got[i].n = IF i > 1 /\ Got[i - 1].sock = Got[i].sock THEN Got[i - 1].n + 1 ELSE 1
    /\ \A i \in 1..Len(Got) : Got[i].sock <= opened /\ (dialed # 0 => Got[i].sock < dialed)

\* What was sent and not read is on the wire, in order.
RestOnWire ==
    /\ stream = 0 => sent = 0
    /\ stream # 0 =>
        /\ Consumed <= sent
        /\ \A i \in 1..Len(wire) : Async(wire[i]) => wire[i].n >= Consumed + 1 /\ wire[i].n <= sent
        /\ \A i, j \in 1..Len(wire) :
              i < j /\ Async(wire[i]) /\ Async(wire[j]) => wire[i].n < wire[j].n
        /\ \A k \in (Consumed + 1)..sent : \E i \in 1..Len(wire) : Async(wire[i]) /\ wire[i].n = k

\* receive() reads the socket only when nothing is buffered, and returns the
\* next notification.
ReadsNext ==
    /\ kind = "receive" /\ InFlight => pending = <<>>
    /\ pc = "finish" /\ result.tag = "note" => kind = "receive" /\ result.n = LastOn(stream) + 1

INotes == IControl /\ Silent /\ GotInOrder /\ RestOnWire /\ ReadsNext

\* What concatenation does when its parts grow or shrink.
LEMMA ConcatFacts ==
    ASSUME NEW S, NEW s \in Seq(S), NEW t \in Seq(S), NEW x \in S
    PROVE  /\ s \o t \in Seq(S)
           /\ s \o Append(t, x) = Append(s \o t, x)
           /\ t = <<>> => s \o t = s /\ Append(s, x) \o t = Append(s, x)
           /\ t # <<>> => Append(s, Head(t)) \o Tail(t) = s \o t
<1>1. s \o t \in Seq(S)
  OBVIOUS
<1>2. s \o Append(t, x) = Append(s \o t, x)
  OBVIOUS
<1>3. t = <<>> => s \o t = s /\ Append(s, x) \o t = Append(s, x)
  OBVIOUS
<1>4. ASSUME t # <<>> PROVE Append(s, Head(t)) \o Tail(t) = s \o t
  <2>1. Head(t) \in S /\ Tail(t) \in Seq(S) /\ Len(Tail(t)) = Len(t) - 1 /\ Len(t) > 0
    BY <1>4
  <2> DEFINE a == Append(s, Head(t)) \o Tail(t)
             b == s \o t
  <2>2. a \in Seq(S) /\ b \in Seq(S) /\ Len(a) = Len(s) + Len(t) /\ Len(b) = Len(s) + Len(t)
    BY <2>1
  <2>3. ASSUME NEW i \in 1..Len(b) PROVE a[i] = b[i]
    <3>1. CASE i <= Len(s)
      BY <2>1, <3>1
    <3>2. CASE i = Len(s) + 1
      BY <1>4, <2>1, <3>2
    <3>3. CASE i > Len(s) + 1
      BY <1>4, <2>1, <2>2, <3>3
    <3>4. i \in Nat /\ Len(s) \in Nat
      BY <2>2
    <3> HIDE DEF a, b
    <3>5. QED
      BY <3>1, <3>2, <3>3, <3>4
  <2> HIDE DEF a, b
  <2>4. a = b
    BY <2>2, <2>3
  <2>5. QED
    BY <2>4 DEF a, b
<1>5. QED
  BY <1>1, <1>2, <1>3, <1>4

\* The types of what was returned or buffered, and of the count.
LEMMA GotType ==
    ASSUME TypeOK
    PROVE  /\ Got \in Seq(Note) /\ Len(Got) \in Nat
           /\ \A i \in 1..Len(Got) : Got[i].n \in Nat /\ Got[i].sock \in Nat /\ Got[i].sock # 0
           /\ LastOn(stream) \in Nat /\ Consumed \in Nat
           /\ sent \in Nat /\ stream \in Nat /\ opened \in Nat /\ dialed \in Nat
           /\ \A i \in 1..Len(wire) : wire[i].n \in Nat
<1>1. Got \in Seq(Note)
  BY ConcatFacts DEF TypeOK, Got
<1>2. \A i \in 1..Len(Got) : Got[i] \in Note
  BY <1>1
<1>3. \A i \in 1..Len(Got) : Got[i].n \in Nat /\ Got[i].sock \in Nat /\ Got[i].sock # 0
  BY <1>2 DEF Note, Socket
<1>4. LastOn(stream) \in Nat
  <2>1. CASE Got = <<>>
    BY <2>1 DEF LastOn
  <2>2. CASE Got # <<>>
    <3>1. Len(Got) \in 1..Len(Got)
      BY <1>1, <2>2
    <3>2. QED
      BY <1>3, <3>1 DEF LastOn
  <2>3. QED
    BY <2>1, <2>2
<1>5. Consumed \in Nat
  BY <1>4 DEF TypeOK, Consumed
<1>6. wire \in Seq(Frame)
  BY DEF TypeOK
<1>7. \A i \in 1..Len(wire) : wire[i].n \in Nat
  <2>1. \A i \in 1..Len(wire) : wire[i] \in Frame
    BY <1>6
  <2>2. QED
    BY <2>1 DEF Frame
<1>8. QED
  BY <1>1, <1>3, <1>4, <1>5, <1>7 DEF TypeOK

\* A step that reads, buffers, returns and sends no notification.
LEMMA QuietStep ==
    ASSUME INotes, UNCHANGED <<delivered, pending, stream, wire, sent>>, Consumed' = Consumed,
           opened' >= opened, dialed' = 0 \/ dialed' = dialed \/ dialed' > opened, IControl'
    PROVE  GotInOrder' /\ RestOnWire'
<1>1. Got' = Got
  BY DEF Got
<1>2. \A i \in 1..Len(Got) : Got[i].sock \in Nat
  BY GotType DEF INotes, IControl
<1>3. opened \in Nat /\ opened' \in Nat /\ dialed' \in Nat
  BY DEF INotes, IControl, TypeOK
<1>4. GotInOrder'
  BY <1>1, <1>2, <1>3 DEF INotes, GotInOrder
<1>5. RestOnWire'
  BY DEF INotes, RestOnWire
<1>6. QED
  BY <1>4, <1>5

\* A step that gives the connection up.
LEMMA ClosedStep ==
    ASSUME INotes, UNCHANGED <<delivered, pending>>, Disconnect
    PROVE  GotInOrder' /\ RestOnWire'
<1>1. Got' = Got /\ opened' = opened /\ dialed' = dialed /\ stream' = 0 /\ sent' = 0
  BY DEF Got, Disconnect, ClearLine
<1>2. QED
  BY <1>1 DEF INotes, GotInOrder, RestOnWire

\* The first notification on the wire is the next one; without it, the rest
\* is on the wire.
LEMMA HeadIsNext ==
    ASSUME INotes, stream # 0, pc # "finish", wire # <<>>, wire' = Tail(wire), sent' = sent
    PROVE  /\ Async(Head(wire)) =>
                /\ Head(wire).n = LastOn(stream) + 1 /\ Head(wire).n <= sent
                /\ \A i \in 1..Len(wire') :
                     Async(wire'[i]) => wire'[i].n >= Head(wire).n + 1 /\ wire'[i].n <= sent
                /\ \A k \in (Head(wire).n + 1)..sent :
                     \E i \in 1..Len(wire') : Async(wire'[i]) /\ wire'[i].n = k
           /\ ~Async(Head(wire)) =>
                /\ \A i \in 1..Len(wire') :
                     Async(wire'[i]) => wire'[i].n >= LastOn(stream) + 1 /\ wire'[i].n <= sent
                /\ \A k \in (LastOn(stream) + 1)..sent :
                     \E i \in 1..Len(wire') : Async(wire'[i]) /\ wire'[i].n = k
           /\ \A i, j \in 1..Len(wire') :
                i < j /\ Async(wire'[i]) /\ Async(wire'[j]) => wire'[i].n < wire'[j].n
           /\ LastOn(stream) <= sent
<1> DEFINE c == LastOn(stream)
<1>1. /\ wire \in Seq(Frame) /\ c \in Nat /\ sent \in Nat
      /\ \A i \in 1..Len(wire) : wire[i].n \in Nat
  BY GotType DEF INotes, IControl, TypeOK
<1>2. /\ Head(wire) = wire[1] /\ 1 \in 1..Len(wire) /\ Len(wire) \in Nat
      /\ Len(wire') = Len(wire) - 1
      /\ \A i \in 1..Len(wire') : i + 1 \in 1..Len(wire) /\ wire'[i] = wire[i + 1]
  BY <1>1, TailFacts
<1>3. /\ c <= sent
      /\ \A i \in 1..Len(wire) : Async(wire[i]) => wire[i].n >= c + 1 /\ wire[i].n <= sent
      /\ \A i, j \in 1..Len(wire) :
           i < j /\ Async(wire[i]) /\ Async(wire[j]) => wire[i].n < wire[j].n
      /\ \A k \in (c + 1)..sent : \E i \in 1..Len(wire) : Async(wire[i]) /\ wire[i].n = k
  BY DEF INotes, RestOnWire, Consumed
<1>4. \A i \in 1..Len(wire) : i # 1 => i - 1 \in 1..Len(wire') /\ wire'[i - 1] = wire[i]
  BY <1>2
<1>5. \A i, j \in 1..Len(wire') :
        i < j /\ Async(wire'[i]) /\ Async(wire'[j]) => wire'[i].n < wire'[j].n
  BY <1>2, <1>3
<1> HIDE DEF c
<1>6. ASSUME Async(wire[1])
      PROVE  /\ wire[1].n = c + 1 /\ wire[1].n <= sent
             /\ \A i \in 1..Len(wire') :
                  Async(wire'[i]) => wire'[i].n >= wire[1].n + 1 /\ wire'[i].n <= sent
             /\ \A k \in (wire[1].n + 1)..sent :
                  \E i \in 1..Len(wire') : Async(wire'[i]) /\ wire'[i].n = k
  <2>1. wire[1].n >= c + 1 /\ wire[1].n <= sent
    BY <1>2, <1>3, <1>6
  <2>2. c + 1 \in (c + 1)..sent
    BY <1>1, <1>2, <2>1
  <2>3. PICK i \in 1..Len(wire) : Async(wire[i]) /\ wire[i].n = c + 1
    BY <1>3, <2>2
  <2>4. wire[1].n = c + 1
    BY <1>1, <1>2, <1>3, <1>6, <2>1, <2>3
  <2>5. ASSUME NEW j \in 1..Len(wire'), Async(wire'[j])
        PROVE  wire'[j].n >= wire[1].n + 1 /\ wire'[j].n <= sent
    <3>1. wire'[j] = wire[j + 1] /\ j + 1 \in 1..Len(wire) /\ 1 < j + 1
      BY <1>2
    <3>2. wire[1].n < wire[j + 1].n /\ wire[j + 1].n <= sent
      BY <1>2, <1>3, <1>6, <2>5, <3>1
    <3>3. QED
      BY <1>1, <1>2, <3>1, <3>2
  <2>6. ASSUME NEW k \in (wire[1].n + 1)..sent
        PROVE  \E j \in 1..Len(wire') : Async(wire'[j]) /\ wire'[j].n = k
    <3>1. k \in (c + 1)..sent /\ k # wire[1].n
      BY <1>1, <2>4
    <3>2. PICK j \in 1..Len(wire) : Async(wire[j]) /\ wire[j].n = k
      BY <1>3, <3>1
    <3>3. QED
      BY <1>4, <3>1, <3>2
  <2>7. QED
    BY <2>1, <2>4, <2>5, <2>6
<1>7. ASSUME ~Async(wire[1])
      PROVE  /\ \A i \in 1..Len(wire') :
                  Async(wire'[i]) => wire'[i].n >= c + 1 /\ wire'[i].n <= sent
             /\ \A k \in (c + 1)..sent : \E i \in 1..Len(wire') : Async(wire'[i]) /\ wire'[i].n = k
  <2>1. \A i \in 1..Len(wire') : Async(wire'[i]) => wire'[i].n >= c + 1 /\ wire'[i].n <= sent
    BY <1>2, <1>3
  <2>2. ASSUME NEW k \in (c + 1)..sent
        PROVE  \E i \in 1..Len(wire') : Async(wire'[i]) /\ wire'[i].n = k
    <3>1. PICK i \in 1..Len(wire) : Async(wire[i]) /\ wire[i].n = k
      BY <1>3
    <3>2. QED
      BY <1>4, <1>7, <3>1
  <2>3. QED
    BY <2>1, <2>2
<1>8. QED
  BY <1>2, <1>3, <1>5, <1>6, <1>7 DEF c

\* One more notification of the connection in use, the next one, keeps the
\* order.
LEMMA OneMore ==
    ASSUME INotes, stream # 0, NEW x \in Note, x.sock = stream, x.n = LastOn(stream) + 1,
           Got' = Append(Got, x), UNCHANGED <<opened, dialed, stream>>
    PROVE  GotInOrder' /\ LastOn(stream)' = x.n
<1>1. /\ Got \in Seq(Note) /\ Len(Got) \in Nat
      /\ \A i \in 1..Len(Got) : Got[i].n \in Nat /\ Got[i].sock \in Nat
      /\ LastOn(stream) \in Nat /\ stream = opened /\ dialed = 0 /\ stream \in Nat
  BY GotType DEF INotes, IControl, TypeOK, Numbered, Handles
<1>2. /\ Got' \in Seq(Note) /\ Len(Got') = Len(Got) + 1 /\ Got' # <<>>
      /\ \A i \in 1..Len(Got) : Got'[i] = Got[i]
      /\ Got'[Len(Got) + 1] = x
  BY <1>1, AppendFacts
<1>3. LastOn(stream)' = x.n
  <2>1. Got'[Len(Got')] = x
    BY <1>2
  <2>2. QED
    BY <1>2, <2>1 DEF LastOn
<1>4. \A i \in 1..Len(Got) : Got[i].sock <= stream
  BY <1>1 DEF INotes, GotInOrder
<1>5. \A i, j \in 1..Len(Got') : i < j => Got'[i].sock <= Got'[j].sock
  <2>1. ASSUME NEW i \in 1..Len(Got'), NEW j \in 1..Len(Got'), i < j
        PROVE  Got'[i].sock <= Got'[j].sock
    <3>1. i \in 1..Len(Got) /\ (j \in 1..Len(Got) \/ j = Len(Got) + 1)
      BY <1>1, <1>2, <2>1
    <3>2. QED
      BY <1>2, <1>4, <2>1, <3>1 DEF INotes, GotInOrder
  <2>2. QED
    BY <2>1
<1>6. ASSUME NEW i \in 1..Len(Got')
      PROVE  Got'[i].n = IF i > 1 /\ Got'[i - 1].sock = Got'[i].sock THEN Got'[i - 1].n + 1 ELSE 1
  <2>1. CASE i \in 1..Len(Got)
    <3>1. Got[i].n = IF i > 1 /\ Got[i - 1].sock = Got[i].sock THEN Got[i - 1].n + 1 ELSE 1
      BY <2>1 DEF INotes, GotInOrder
    <3>2. i > 1 => i - 1 \in 1..Len(Got)
      BY <1>1, <2>1
    <3>3. Got'[i] = Got[i] /\ (i > 1 => Got'[i - 1] = Got[i - 1])
      BY <1>2, <2>1, <3>2
    <3>4. QED
      BY <3>1, <3>3
  <2>2. CASE i = Len(Got) + 1
    <3>1. CASE Len(Got) = 0
      <4>1. LastOn(stream) = 0 /\ ~(i > 1)
        BY <1>1, <2>2, <3>1 DEF LastOn
      <4>2. QED
        BY <1>2, <2>2, <4>1
    <3>2. CASE Len(Got) # 0
      <4>1. /\ i > 1 /\ i - 1 = Len(Got) /\ Got # <<>> /\ Got'[i] = x
            /\ Got'[i - 1] = Got[Len(Got)]
        BY <1>1, <1>2, <2>2, <3>2
      <4>2. LastOn(stream) = IF Got[Len(Got)].sock = stream THEN Got[Len(Got)].n ELSE 0
        BY <4>1 DEF LastOn
      <4>3. QED
        BY <4>1, <4>2
    <3>3. QED
      BY <3>1, <3>2
  <2>3. QED
    BY <1>1, <1>2, <2>1, <2>2
<1>7. \A i \in 1..Len(Got') : Got'[i].sock <= opened' /\ (dialed' # 0 => Got'[i].sock < dialed')
  <2>1. ASSUME NEW i \in 1..Len(Got') PROVE Got'[i].sock <= opened
    <3>1. i \in 1..Len(Got) \/ i = Len(Got) + 1
      BY <1>1, <1>2
    <3>2. QED
      BY <1>1, <1>2, <1>4, <3>1
  <2>2. QED
    BY <1>1, <2>1
<1>8. GotInOrder'
  BY <1>5, <1>6, <1>7 DEF GotInOrder
<1>9. QED
  BY <1>3, <1>8

\* A new Connector has seen no notification.
LEMMA NotesInit == Init => INotes
<1> SUFFICES ASSUME Init PROVE INotes
  OBVIOUS
<1>1. Got = <<>>
  BY DEF Init, Got
<1>2. GotInOrder /\ RestOnWire /\ ReadsNext /\ Silent
  BY <1>1 DEF Init, GotInOrder, RestOnWire, ReadsNext, Silent
<1>3. QED
  BY <1>2, ControlInit DEF INotes

\* Every step keeps the notifications in order: the buffer is emptied before
\* the socket is read, and what is read and not kept ends the connection.
LEMMA NotesStep == INotes /\ IAnswers /\ [Next]_vars => INotes'
<1> SUFFICES ASSUME INotes, IAnswers, [Next]_vars
             PROVE  GotInOrder' /\ RestOnWire' /\ ReadsNext'
  BY AnswersStep DEF INotes, IAnswers
<1> IControl' /\ Silent'
  BY AnswersStep DEF IAnswers
<1> /\ TypeOK /\ Handles /\ Steps /\ Frames /\ Numbered /\ Silent
    /\ GotInOrder /\ RestOnWire /\ ReadsNext
  BY DEF INotes, IControl
<1>0. /\ opened \in Nat /\ opened' \in Nat /\ dialed \in Nat /\ opened >= opened
      /\ sent \in Nat /\ LastOn(stream) \in Nat
  <2>1. opened' \in Nat
    BY DEF IControl, TypeOK
  <2>2. QED
    BY <2>1, GotType
<1>a. wire \in Seq(Frame) /\ pending \in Seq(Note) /\ delivered \in Seq(Note)
  BY DEF TypeOK
<1>1. ASSUME NEW k \in Kind, Begin(k) PROVE GotInOrder' /\ RestOnWire' /\ ReadsNext'
  <2>1. GotInOrder' /\ RestOnWire'
    BY <1>0, <1>1, QuietStep DEF Begin, Consumed, LastOn, Got
  <2>2. ReadsNext'
    BY <1>1 DEF Begin, ReadsNext
  <2>3. QED
    BY <2>1, <2>2
<1>2. CASE ReceiveBuffered
  <2>1. Got' = Got
    <3>1. /\ pending # <<>> /\ pending' = Tail(pending)
          /\ delivered' = Append(delivered, Head(pending))
      BY <1>2 DEF ReceiveBuffered
    <3>2. Head(pending) \in Note
      BY <1>a, <3>1
    <3>3. Append(delivered, Head(pending)) \o Tail(pending) = delivered \o pending
      BY <1>a, <3>1, <3>2, ConcatFacts
    <3>4. QED
      BY <3>1, <3>3 DEF Got
  <2>2. Consumed' = Consumed /\ UNCHANGED <<opened, dialed, stream, wire, sent>>
    BY <1>2, <2>1 DEF ReceiveBuffered, Consumed, LastOn
  <2>3. GotInOrder'
    BY <2>1, <2>2 DEF GotInOrder
  <2>4. RestOnWire'
    BY <2>2 DEF RestOnWire
  <2>5. ReadsNext'
    BY <1>2 DEF ReceiveBuffered, ReadsNext
  <2>6. QED
    BY <2>3, <2>4, <2>5
<1>3. CASE Attach \/ DialFails \/ DialOk \/ AttachDialed \/ DialedTooLate \/ RequestRefused
  <2> USE DEF Attach, AfterAttach, DialFails, DialOk, AttachDialed, DialedTooLate,
              RequestRefused, Return, Goto
  <2>1. UNCHANGED <<delivered, pending, stream, wire, sent, kind>>
    BY <1>3
  <2>2. /\ pc # "finish" /\ (pc' = "finish" => result'.tag # "note")
        /\ pc \notin {"idle", "dropped"}
    BY <1>3
  <2>3. opened' >= opened /\ (dialed' = 0 \/ dialed' = dialed \/ dialed' > opened)
    BY <1>0, <1>3
  <2> HIDE DEF Attach, AfterAttach, DialFails, DialOk, AttachDialed, DialedTooLate,
               RequestRefused, Return, Goto
  <2>4. Consumed' = Consumed
    BY <2>1, <2>2 DEF Consumed, LastOn, Got
  <2>5. ReadsNext'
    BY <2>1, <2>2 DEF ReadsNext
  <2>6. QED
    BY <2>1, <2>3, <2>4, <2>5, QuietStep
<1>4. CASE AuthOk
  <2>1. /\ stream = 0 /\ dialed # 0 /\ stream' = dialed /\ dialed' = 0
        /\ UNCHANGED <<delivered, pending, opened, wire, sent>> /\ wire = <<>> /\ sent = 0
        /\ pc' \in {"write", "finish"} /\ (pc' = "finish" => result'.tag = "ok")
        /\ kind' = kind /\ kind # "receive"
    BY <1>4 DEF AuthOk, Return, Goto, Handles, Silent, RestOnWire, Steps
  <2>2. Got' = Got
    BY <2>1 DEF Got
  <2>3. Consumed' = 0
    <3>1. CASE Got = <<>>
      BY <2>1, <2>2, <3>1 DEF Consumed, LastOn
    <3>2. CASE Got # <<>>
      <4>1. Len(Got) \in 1..Len(Got) /\ Got[Len(Got)].sock \in Nat
        BY <3>2, GotType
      <4>2. Got[Len(Got)].sock < dialed
        BY <2>1, <4>1 DEF GotInOrder
      <4>3. Got[Len(Got)].sock # dialed
        BY <1>0, <4>1, <4>2
      <4>4. QED
        BY <2>1, <2>2, <4>3 DEF Consumed, LastOn
    <3>3. QED
      BY <3>1, <3>2
  <2>4. GotInOrder'
    BY <2>1, <2>2 DEF GotInOrder
  <2>5. RestOnWire' /\ ReadsNext'
    BY <2>1, <2>3 DEF RestOnWire, ReadsNext
  <2>6. QED
    BY <2>4, <2>5
<1>5. CASE AuthRefused \/ AuthBroken
  <2>1. /\ UNCHANGED <<delivered, pending, wire, sent, kind, opened>> /\ stream = 0 /\ stream' = 0
        /\ dialed' = 0 /\ pc = "auth" /\ result'.tag = "error"
    BY <1>5 DEF AuthRefused, AuthBroken, AuthFails, Return, Handles
  <2>2. Consumed' = Consumed
    BY <2>1 DEF Consumed, LastOn, Got
  <2>3. ReadsNext'
    BY <2>1 DEF ReadsNext
  <2>4. QED
    BY <1>0, <2>1, <2>2, <2>3, QuietStep
<1>6. CASE WriteStart \/ WriteOk \/ ReadStart
  <2> USE DEF WriteStart, WriteOk, ReadStart, Return, Goto
  <2>1. UNCHANGED <<delivered, pending, stream, wire, sent, kind, opened, dialed>>
    BY <1>6
  <2>2. /\ pc # "finish" /\ (pc' = "finish" => result'.tag # "note")
        /\ pc \notin {"idle", "dropped"}
    BY <1>6
  <2> HIDE DEF WriteStart, WriteOk, ReadStart, Return, Goto
  <2>3. Consumed' = Consumed
    BY <2>1, <2>2 DEF Consumed, LastOn, Got
  <2>4. ReadsNext'
    BY <2>1, <2>2 DEF ReadsNext
  <2>5. QED
    BY <1>0, <2>1, <2>3, <2>4, QuietStep
<1>7. CASE WriteFails \/ ReadFails \/ ReadRejected \/ NotificationOverflow
  <2>1. /\ UNCHANGED <<delivered, pending, kind>> /\ Disconnect /\ result'.tag = "error"
        /\ pc \notin {"idle", "dropped"}
    BY <1>7 DEF WriteFails, ReadFails, ReadRejected, NotificationOverflow, Return
  <2>2. ReadsNext'
    BY <2>1 DEF ReadsNext
  <2>3. QED
    BY <2>1, <2>2, ClosedStep
<1>8. CASE FinishAborted \/ Shutdown \/ DropConnector
  <2>1. /\ UNCHANGED <<delivered, pending>> /\ Disconnect /\ pc' \in {"idle", "dropped"}
    BY <1>8 DEF FinishAborted, Shutdown, DropConnector
  <2>2. ReadsNext'
    BY <2>1 DEF ReadsNext
  <2>3. QED
    BY <2>1, <2>2, ClosedStep
<1>9. CASE ReadResult
  <2>1. /\ UNCHANGED <<delivered, pending, stream, sent, kind, opened, dialed>> /\ stream # 0
        /\ pc = "read" /\ pc' = "finish" /\ wire # <<>> /\ wire' = Tail(wire)
        /\ result' = Decoded(Head(wire)) /\ (kind = "receive" \/ Head(wire).kind = "Response")
    BY <1>9 DEF ReadResult, Return, Frames, Handles
  <2>2. Got' = Got /\ LastOn(stream)' = LastOn(stream)
    BY <2>1 DEF Got, LastOn
  <2>3. GotInOrder'
    BY <2>1, <2>2 DEF GotInOrder
  <2>4. CASE Async(Head(wire))
    <3>1. result'.tag = "note" /\ result'.n = Head(wire).n /\ kind = "receive"
      BY <2>1, <2>4 DEF Decoded, Async
    <3>2. Consumed' = Head(wire).n
      BY <2>1, <3>1 DEF Consumed
    <3>3. /\ Head(wire).n = LastOn(stream) + 1 /\ Head(wire).n <= sent
          /\ \A i \in 1..Len(wire') :
               Async(wire'[i]) => wire'[i].n >= Head(wire).n + 1 /\ wire'[i].n <= sent
          /\ \A k \in (Head(wire).n + 1)..sent :
               \E i \in 1..Len(wire') : Async(wire'[i]) /\ wire'[i].n = k
          /\ \A i, j \in 1..Len(wire') :
               i < j /\ Async(wire'[i]) /\ Async(wire'[j]) => wire'[i].n < wire'[j].n
      BY <2>1, <2>4, HeadIsNext
    <3>4. RestOnWire'
      BY <2>1, <3>2, <3>3 DEF RestOnWire, Async
    <3>5. ReadsNext'
      BY <2>1, <2>2, <3>1, <3>3 DEF ReadsNext
    <3>6. QED
      BY <2>3, <3>4, <3>5
  <2>5. CASE ~Async(Head(wire))
    <3>1. result'.tag # "note"
      BY <2>1, <2>5 DEF Decoded, Async
    <3>2. Consumed' = LastOn(stream)
      BY <2>1, <2>2, <3>1 DEF Consumed
    <3>3. /\ LastOn(stream) <= sent
          /\ \A i \in 1..Len(wire') :
               Async(wire'[i]) => wire'[i].n >= LastOn(stream) + 1 /\ wire'[i].n <= sent
          /\ \A k \in (LastOn(stream) + 1)..sent :
               \E i \in 1..Len(wire') : Async(wire'[i]) /\ wire'[i].n = k
          /\ \A i, j \in 1..Len(wire') :
               i < j /\ Async(wire'[i]) /\ Async(wire'[j]) => wire'[i].n < wire'[j].n
      BY <2>1, <2>5, HeadIsNext
    <3>4. RestOnWire'
      BY <2>1, <3>2, <3>3 DEF RestOnWire, Async
    <3>5. ReadsNext'
      BY <2>1, <3>1 DEF ReadsNext
    <3>6. QED
      BY <2>3, <3>4, <3>5
  <2>6. QED
    BY <2>4, <2>5
<1>10. CASE BufferNotification
  <2> DEFINE x == [sock |-> stream, n |-> Head(wire).n]
  <2>1. /\ UNCHANGED <<delivered, stream, sent, kind, opened, dialed, pc, result>> /\ stream # 0
        /\ pc = "read" /\ wire # <<>> /\ wire' = Tail(wire) /\ pending' = Append(pending, x)
        /\ kind = "execute" /\ Async(Head(wire))
    BY <1>10 DEF BufferNotification, Frames, Handles, Async
  <2>2. x \in Note /\ x.sock = stream /\ x.n = Head(wire).n
    <3>1. Head(wire) \in Frame
      BY <2>1 DEF TypeOK
    <3>2. QED
      BY <2>1, <3>1 DEF Frame, Note, Socket, TypeOK
  <2> HIDE DEF x
  <2>3. Got' = Append(Got, x)
    <3>1. delivered \o Append(pending, x) = Append(delivered \o pending, x)
      BY <1>a, <2>2, ConcatFacts
    <3>2. QED
      BY <2>1, <3>1 DEF Got
  <2>4. /\ Head(wire).n = LastOn(stream) + 1 /\ Head(wire).n <= sent
        /\ \A i \in 1..Len(wire') :
             Async(wire'[i]) => wire'[i].n >= Head(wire).n + 1 /\ wire'[i].n <= sent
        /\ \A k \in (Head(wire).n + 1)..sent :
             \E i \in 1..Len(wire') : Async(wire'[i]) /\ wire'[i].n = k
        /\ \A i, j \in 1..Len(wire') :
             i < j /\ Async(wire'[i]) /\ Async(wire'[j]) => wire'[i].n < wire'[j].n
    BY <2>1, HeadIsNext
  <2>5. GotInOrder' /\ LastOn(stream)' = Head(wire).n
    BY <2>1, <2>2, <2>3, <2>4, OneMore
  <2>6. Consumed' = Head(wire).n
    BY <2>1, <2>5 DEF Consumed
  <2>7. RestOnWire'
    BY <2>1, <2>4, <2>6 DEF RestOnWire, Async
  <2>8. ReadsNext'
    BY <2>1 DEF ReadsNext
  <2>9. QED
    BY <2>5, <2>7, <2>8
<1>11. CASE Finish
  <2>1. UNCHANGED <<pending, stream, sent, kind, opened, dialed, wire, result>> /\ pc = "finish"
        /\ pc' = "idle"
    BY <1>11 DEF Finish
  <2>2. ReadsNext'
    BY <2>1 DEF ReadsNext
  <2>3. CASE result.tag = "note"
    <3> DEFINE x == [sock |-> stream, n |-> result.n]
    <3>1. /\ delivered' = Append(delivered, x) /\ pending = <<>> /\ stream # 0
          /\ result.n = LastOn(stream) + 1
      BY <1>11, <2>1, <2>3 DEF Finish, ReadsNext, Handles
    <3>2. x \in Note /\ x.sock = stream /\ x.n = LastOn(stream) + 1
      BY <1>0, <3>1 DEF Note, Socket, TypeOK
    <3> HIDE DEF x
    <3>3. Got' = Append(Got, x)
      BY <2>1, <3>1, <3>2, ConcatFacts DEF Got, TypeOK
    <3>4. GotInOrder' /\ LastOn(stream)' = result.n
      BY <2>1, <3>1, <3>2, <3>3, OneMore
    <3>5. Consumed' = Consumed
      BY <2>1, <2>3, <3>4 DEF Consumed
    <3>6. RestOnWire'
      BY <2>1, <3>5 DEF RestOnWire
    <3>7. QED
      BY <2>2, <3>4, <3>6
  <2>4. CASE result.tag # "note"
    <3>1. delivered' = delivered
      BY <1>11, <2>4 DEF Finish
    <3>2. Consumed' = Consumed
      BY <2>1, <2>4, <3>1 DEF Consumed, LastOn, Got
    <3>3. QED
      BY <1>0, <2>1, <2>2, <3>1, <3>2, QuietStep
  <2>5. QED
    BY <2>3, <2>4
<1>12. ASSUME NEW s \in Settings, Configure(s) PROVE GotInOrder' /\ RestOnWire' /\ ReadsNext'
  <2>1. GotInOrder' /\ RestOnWire'
    BY <1>0, <1>12, QuietStep DEF Configure, Consumed, LastOn, Got
  <2>2. ReadsNext'
    BY <1>12 DEF Configure, ReadsNext
  <2>3. QED
    BY <2>1, <2>2
<1>13. ASSUME Abort \/ PeerClose \/ (\E f \in {"none", "value", "frame"} : PeerRespond(f))
              \/ PeerRequest \/ UNCHANGED vars
       PROVE  UNCHANGED <<owner, delivered, pending, stream, sent, opened, dialed>>
  BY <1>13 DEF Abort, AbortTake, AbortShutdown, PeerClose, PeerRespond, PeerRequest, vars
<1>14. ASSUME UNCHANGED <<owner, delivered, pending, stream, sent, opened, dialed>>
       PROVE  ReadsNext' /\ Consumed' = Consumed
  <2>1. LastOn(stream)' = LastOn(stream)
    BY <1>14 DEF LastOn, Got
  <2>2. QED
    BY <1>14, <2>1 DEF ReadsNext, Consumed
<1>15. CASE Abort \/ PeerClose \/ UNCHANGED vars
  <2>1. UNCHANGED wire
    BY <1>15 DEF Abort, AbortTake, AbortShutdown, PeerClose, vars
  <2>2. QED
    BY <1>0, <1>13, <1>14, <1>15, <2>1, QuietStep
<1>16. ASSUME NEW x \in Frame, ~Async(x), stream # 0, wire' = Append(wire, x),
              UNCHANGED <<owner, delivered, pending, stream, sent, opened, dialed>>
       PROVE  GotInOrder' /\ RestOnWire' /\ ReadsNext'
  <2>1. /\ Len(wire') = Len(wire) + 1 /\ Len(wire) \in Nat
        /\ \A i \in 1..Len(wire) : wire'[i] = wire[i]
        /\ wire'[Len(wire) + 1] = x
    BY <1>a, <1>16, AppendFacts
  <2>2. \A i \in 1..Len(wire') : Async(wire'[i]) => i \in 1..Len(wire) /\ wire'[i] = wire[i]
    BY <1>16, <2>1
  <2>3. \A i \in 1..Len(wire) : i \in 1..Len(wire')
    BY <2>1
  <2>4. Got' = Got /\ Consumed' = Consumed /\ ReadsNext'
    BY <1>14, <1>16 DEF Got
  <2>5. GotInOrder'
    BY <1>16, <2>4 DEF GotInOrder
  <2>6. RestOnWire'
    BY <1>16, <2>1, <2>2, <2>3, <2>4 DEF RestOnWire
  <2>7. QED
    BY <2>4, <2>5, <2>6
<1>17. ASSUME NEW f \in {"none", "value", "frame"}, PeerRespond(f)
       PROVE  GotInOrder' /\ RestOnWire' /\ ReadsNext'
  <2> DEFINE x == [kind |-> "Response", n |-> Head(unanswered), flaw |-> f]
  <2>1. unanswered \in Seq(Nat) /\ unanswered # <<>>
    BY <1>17 DEF PeerRespond, TypeOK
  <2>2. Head(unanswered) \in Nat
    BY <2>1
  <2>3. x \in Frame /\ ~Async(x)
    BY <2>2 DEF Frame, Async
  <2>4. wire' = Append(wire, x) /\ stream # 0
    BY <1>17 DEF PeerRespond, PeerUp
  <2> HIDE DEF x
  <2>5. UNCHANGED <<owner, delivered, pending, stream, sent, opened, dialed>>
    BY <1>13, <1>17
  <2>6. QED
    BY <1>16, <2>3, <2>4, <2>5
<1>18. CASE PeerRequest
  <2> DEFINE x == [kind |-> "Sync", n |-> 0, flaw |-> "none"]
  <2>1. x \in Frame /\ ~Async(x)
    BY DEF Frame, Async
  <2>2. wire' = Append(wire, x) /\ stream # 0
    BY <1>18 DEF PeerRequest, PeerUp
  <2> HIDE DEF x
  <2>3. QED
    BY <1>13, <1>16, <1>18, <2>1, <2>2
<1>19. ASSUME NEW f \in {"none", "value", "frame"}, PeerNotify(f)
       PROVE  GotInOrder' /\ RestOnWire' /\ ReadsNext'
  <2> DEFINE x == [kind |-> "Async", n |-> sent + 1, flaw |-> f]
  <2>1. x \in Frame /\ Async(x) /\ x.n = sent + 1
    BY <1>0 DEF Frame, Async
  <2>2. /\ wire' = Append(wire, x) /\ stream # 0 /\ sent' = sent + 1
        /\ UNCHANGED <<owner, delivered, pending, stream, opened, dialed>>
    BY <1>19 DEF PeerNotify, PeerUp
  <2> HIDE DEF x
  <2>3. /\ Len(wire') = Len(wire) + 1 /\ Len(wire) \in Nat
        /\ \A i \in 1..Len(wire) : wire'[i] = wire[i]
        /\ wire'[Len(wire) + 1] = x
    BY <2>1, <2>2, AppendFacts DEF TypeOK
  <2>4. Got' = Got /\ LastOn(stream)' = LastOn(stream)
    BY <2>2 DEF Got, LastOn
  <2>5. GotInOrder' /\ ReadsNext' /\ Consumed' = Consumed
    BY <2>2, <2>4 DEF GotInOrder, ReadsNext, Consumed
  <2>6. Consumed \in Nat /\ \A i \in 1..Len(wire) : wire[i].n \in Nat
    BY GotType
  <2>7. \A i \in 1..Len(wire') : i \in 1..Len(wire) \/ i = Len(wire) + 1
    BY <2>3
  <2>8. \A i \in 1..Len(wire) : i \in 1..Len(wire') /\ Len(wire) + 1 \in 1..Len(wire')
    BY <2>3
  <2>9. Consumed <= sent + 1
    BY <1>0, <2>2, <2>6 DEF RestOnWire
  <2>10. \A i \in 1..Len(wire') :
           Async(wire'[i]) => wire'[i].n >= Consumed + 1 /\ wire'[i].n <= sent + 1
    <3>1. ASSUME NEW i \in 1..Len(wire'), Async(wire'[i])
          PROVE  wire'[i].n >= Consumed + 1 /\ wire'[i].n <= sent + 1
      <4>1. CASE i \in 1..Len(wire)
        <5>1. /\ wire[i].n >= Consumed + 1 /\ wire[i].n <= sent /\ wire[i].n \in Nat
              /\ wire'[i] = wire[i]
          BY <2>2, <2>3, <2>6, <3>1, <4>1 DEF RestOnWire
        <5>2. QED
          BY <1>0, <5>1
      <4>2. CASE i = Len(wire) + 1
        <5>1. Consumed <= sent
          BY <2>2 DEF RestOnWire
        <5>2. QED
          BY <1>0, <2>1, <2>3, <2>6, <4>2, <5>1
      <4>3. QED
        BY <2>7, <4>1, <4>2
    <3>2. QED
      BY <3>1
  <2>11. ASSUME NEW i \in 1..Len(wire'), NEW j \in 1..Len(wire'), i < j,
                Async(wire'[i]), Async(wire'[j])
         PROVE  wire'[i].n < wire'[j].n
    <3>1. i \in 1..Len(wire) /\ wire'[i] = wire[i]
      BY <2>3, <2>11
    <3>2. CASE j \in 1..Len(wire)
      BY <2>2, <2>3, <2>11, <3>1, <3>2 DEF RestOnWire
    <3>3. CASE j = Len(wire) + 1
      <4>1. wire[i].n <= sent /\ wire[i].n \in Nat
        BY <2>2, <2>6, <2>11, <3>1 DEF RestOnWire
      <4>2. QED
        BY <1>0, <2>1, <2>3, <3>1, <3>3, <4>1
    <3>4. QED
      BY <2>7, <3>2, <3>3
  <2>12. ASSUME NEW k \in (Consumed + 1)..(sent + 1)
         PROVE  \E i \in 1..Len(wire') : Async(wire'[i]) /\ wire'[i].n = k
    <3>1. CASE k = sent + 1
      <4>1. Len(wire) + 1 \in 1..Len(wire')
        BY <2>3
      <4>2. QED
        BY <2>1, <2>3, <3>1, <4>1
    <3>2. CASE k # sent + 1
      <4>1. k \in (Consumed + 1)..sent
        BY <1>0, <2>6, <3>2
      <4>2. PICK i \in 1..Len(wire) : Async(wire[i]) /\ wire[i].n = k
        BY <2>2, <4>1 DEF RestOnWire
      <4>3. QED
        BY <2>3, <2>8, <4>2
    <3>3. QED
      BY <3>1, <3>2
  <2>13. RestOnWire'
    BY <2>2, <2>5, <2>9, <2>10, <2>11, <2>12 DEF RestOnWire, Async
  <2>14. QED
    BY <2>5, <2>13
<1>20. QED
  BY <1>1, <1>2, <1>3, <1>4, <1>5, <1>6, <1>7, <1>8, <1>9, <1>10, <1>11, <1>12, <1>15,
     <1>17, <1>18, <1>19
  DEF Next, OwnerStep, OwnerCall, OwnerIo, Peer

\* Every variable keeps its type: the operation id stays below its modulus
\* (begin_operation wraps) and the sockets, pending notifications and results
\* are well formed.
THEOREM TypeCorrect == Spec => []TypeOK
<1>1. IControl => TypeOK
    BY DEF IControl
<1> QED
    BY <1>1, ControlInit, ControlStep, PTL DEF Spec

\* The shutdown that abort() performs after it has released the lock never
\* hits a connection the connector goes on to use, for any number of
\* cancellers and operations and any wrap-around of the operation ids.
THEOREM LateShutdown == Spec => []LateShutdownHarmless
<1>1. IControl => LateShutdownHarmless
    BY DEF IControl
<1> QED
    BY <1>1, ControlInit, ControlStep, PTL DEF Spec

\* execute() returns the answer to its own request and to no other, after
\* any history of timeouts, aborts, overflows and reconnections.
THEOREM OwnReplies == Spec => []OwnReply
<1>1. IAnswers => OwnReply
    BY DEF IAnswers
<1> QED
    BY <1>1, AnswersInit, AnswersStep, PTL DEF Spec

\* A connection that survives an operation is at a frame boundary, open, and
\* owes no answer.
THEOREM Reusable == Spec => []ReusableWhenIdle
<1>1. IAnswers => ReusableWhenIdle
  <2> SUFFICES ASSUME IAnswers, pc = "idle", stream # 0 PROVE ReusableWhenIdle
      BY DEF ReusableWhenIdle
  <2>1. tcp = stream /\ ~torn
      BY DEF IAnswers, IControl, Handles, Frames
  <2>2. stream \notin shut
      BY DEF IAnswers, IControl, ShutMeansTaken
  <2>3. stream \notin raw => unanswered = <<>> /\ NoResponse
      BY DEF IAnswers, Answers
  <2> QED
      BY <2>1, <2>2, <2>3 DEF ReusableWhenIdle, NoResponse
<1> QED
    BY <1>1, AnswersInit, AnswersStep, PTL DEF Spec

\* finish_operation() of an operation whose registration was taken reports
\* the abort and leaves no connection behind.
THEOREM AbortedDisconnects == Spec => AbortedOperationDisconnects
<1>1. IControl /\ [Next]_vars =>
        [InFlight /\ ~active.set /\ ~InFlight' =>
            result'.tag = "aborted" /\ stream' = 0 /\ tcp' = 0]_vars
  <2> SUFFICES ASSUME IControl, Next, InFlight, ~active.set, ~InFlight'
               PROVE  result'.tag = "aborted" /\ stream' = 0 /\ tcp' = 0
      OBVIOUS
  <2> USE DEF Return, Goto
  <2>1. CASE OwnerStep
    <3>1. CASE Finish
        BY <3>1 DEF Finish, Mine
    <3>2. CASE FinishAborted
        BY <3>2 DEF FinishAborted, Disconnect
    <3>3. CASE ~Finish /\ ~FinishAborted
        BY <2>1, <3>3 DEF OwnerStep, Attach, AfterAttach, DialFails, DialOk, AttachDialed,
               DialedTooLate, AuthBroken, AuthFails, WriteFails, ReadFails, ReadStart,
               ReadRejected, ReadResult, BufferNotification, NotificationOverflow
    <3> QED
        BY <3>1, <3>2, <3>3
  <2>2. CASE OwnerCall
      BY <2>2 DEF OwnerCall, Begin, ReceiveBuffered, Shutdown, DropConnector, Configure
  <2>3. CASE OwnerIo
      BY <2>3 DEF OwnerIo, AuthOk, AuthRefused, AuthFails, RequestRefused, WriteStart, WriteOk
  <2>4. CASE Peer
      BY <2>4 DEF Peer, PeerRespond, PeerNotify, PeerRequest, PeerClose
  <2>5. CASE Abort
      BY <2>5 DEF Abort, AbortTake, AbortShutdown
  <2> QED
      BY <2>1, <2>2, <2>3, <2>4, <2>5 DEF Next
<1> QED
    BY <1>1, ControlInit, ControlStep, PTL DEF Spec, AbortedOperationDisconnects

\* Notifications reach receive() in the order q sent them, without a gap and
\* without a repetition, over any number of reconnections, overflows and
\* aborts: what execute() buffers and what receive() reads is one sequence.
THEOREM NotesOrdered == Spec => []NotificationsInOrder
<1>1. INotes => NotificationsInOrder
  <2> SUFFICES ASSUME INotes PROVE NotificationsInOrder
    OBVIOUS
  <2>1. /\ \A i, j \in 1..Len(Got) : i < j => Got[i].sock <= Got[j].sock
        /\ \A i \in 1..Len(Got) :
             Got[i].n = IF i > 1 /\ Got[i - 1].sock = Got[i].sock THEN Got[i - 1].n + 1 ELSE 1
    BY DEF INotes, GotInOrder
  <2>2. ASSUME pc = "idle", stream # 0
        PROVE  LET rest == {i \in 1..Len(wire) : Async(wire[i])}
               IN /\ {wire[i].n : i \in rest} = (LastOn(stream) + 1)..sent
                  /\ \A i, j \in rest : i < j => wire[i].n < wire[j].n
    <3> DEFINE rest == {i \in 1..Len(wire) : Async(wire[i])}
               c == LastOn(stream)
    <3>1. /\ \A i \in rest : wire[i].n >= c + 1 /\ wire[i].n <= sent
          /\ \A i, j \in rest : i < j => wire[i].n < wire[j].n
          /\ \A k \in (c + 1)..sent : \E i \in rest : wire[i].n = k
      BY <2>2 DEF INotes, RestOnWire, Consumed
    <3>2. c \in Nat /\ sent \in Nat /\ \A i \in rest : wire[i].n \in Nat
      BY GotType DEF INotes, IControl
    <3> HIDE DEF rest, c
    <3>3. {wire[i].n : i \in rest} = (c + 1)..sent
      BY <3>1, <3>2
    <3>4. QED
      BY <3>1, <3>3 DEF rest, c
  <2>3. QED
    BY <2>1, <2>2 DEF NotificationsInOrder
<1>2. Init => INotes /\ IAnswers
  BY NotesInit, AnswersInit
<1>3. (INotes /\ IAnswers) /\ [Next]_vars => (INotes /\ IAnswers)'
  BY NotesStep, AnswersStep
<1> QED
  BY <1>1, <1>2, <1>3, PTL DEF Spec

\* What was returned or buffered stays where it is, whatever ends operations
\* and connections: only BufferNotification and a receive() that found nothing
\* buffered add to it, behind all that is there.
THEOREM BufferKept == Spec => BufferOutlivesConnection
<1> DEFINE Kept == Len(Got) <= Len(Got') /\ \A i \in 1..Len(Got) : Got'[i] = Got[i]
<1>1. INotes /\ [Next]_vars => [Kept]_vars
  <2> SUFFICES ASSUME INotes, Next PROVE Kept
    OBVIOUS
  <2>1. /\ delivered \in Seq(Note) /\ pending \in Seq(Note) /\ wire \in Seq(Frame)
        /\ (torn /\ pc = "read" => wire # <<>>) /\ stream \in 0..MaxSockets
        /\ (pc = "read" => stream # 0) /\ result.n \in Nat
    BY DEF INotes, IControl, TypeOK, Frames, Handles
  <2>2. Got \in Seq(Note) /\ Len(Got) \in Nat
    BY GotType DEF INotes, IControl
  <2>3. ASSUME Got' = Got PROVE Kept
    BY <2>2, <2>3
  <2>4. ASSUME NEW x \in Note, Got' = Append(Got, x) PROVE Kept
    <3>1. Len(Got') = Len(Got) + 1 /\ \A i \in 1..Len(Got) : Got'[i] = Got[i]
      BY <2>2, <2>4, AppendFacts
    <3>2. QED
      BY <2>2, <3>1
  <2> HIDE DEF Kept
  <2>5. CASE BufferNotification
    <3> DEFINE x == [sock |-> stream, n |-> Head(wire).n]
    <3>1. Head(wire) \in Frame
      BY <2>1, <2>5 DEF BufferNotification
    <3>2. x \in Note
      BY <2>1, <2>5, <3>1 DEF BufferNotification, Note, Socket, Frame
    <3>3. pending' = Append(pending, x) /\ delivered' = delivered
      BY <2>5 DEF BufferNotification
    <3> HIDE DEF x
    <3>4. Got' = Append(Got, x)
      BY <2>1, <3>2, <3>3, ConcatFacts DEF Got
    <3>5. QED
      BY <2>4, <3>2, <3>4
  <2>6. CASE ReceiveBuffered
    <3>1. /\ pending # <<>> /\ pending' = Tail(pending)
          /\ delivered' = Append(delivered, Head(pending))
      BY <2>6 DEF ReceiveBuffered
    <3>2. Head(pending) \in Note
      BY <2>1, <3>1
    <3>3. delivered \in Seq(Note) /\ pending \in Seq(Note)
      BY <2>1
    <3>4. Append(delivered, Head(pending)) \o Tail(pending) = delivered \o pending
      BY <3>1, <3>2, <3>3, ConcatFacts
    <3>5. Got' = Got
      BY <3>1, <3>4 DEF Got
    <3>6. QED
      BY <2>3, <3>5
  <2>7. CASE Finish
    <3>1. CASE result.tag = "note"
      <4> DEFINE x == [sock |-> stream, n |-> result.n]
      <4>1. pending = <<>> /\ pending' = <<>> /\ delivered' = Append(delivered, x)
        BY <2>7, <3>1 DEF Finish, INotes, ReadsNext, InFlight
      <4>2. x \in Note
        <5>1. stream # 0
          BY <2>7, <3>1 DEF Finish, INotes, IControl, Handles
        <5>2. QED
          BY <2>1, <5>1 DEF Note, Socket
      <4> HIDE DEF x
      <4>3. Got' = Append(Got, x)
        BY <2>1, <4>1, <4>2, ConcatFacts DEF Got
      <4>4. QED
        BY <2>4, <4>2, <4>3
    <3>2. CASE result.tag # "note"
      BY <2>3, <2>7, <3>2 DEF Finish, Got
    <3>3. QED
      BY <3>1, <3>2
  <2>8. CASE ~BufferNotification /\ ~ReceiveBuffered /\ ~Finish
    <3>1. pending' = pending /\ delivered' = delivered
      <4>1. CASE OwnerStep
        BY <2>8, <4>1 DEF OwnerStep, Attach, DialFails, DialOk, AttachDialed, DialedTooLate,
             AuthBroken, AuthFails, WriteFails, ReadFails, ReadStart, ReadRejected, ReadResult,
             NotificationOverflow, FinishAborted, notif
      <4>2. CASE OwnerCall
        BY <2>8, <4>2 DEF OwnerCall, Begin, Shutdown, DropConnector, Configure, notif
      <4>3. CASE OwnerIo
        BY <4>3 DEF OwnerIo, AuthOk, AuthRefused, AuthFails, RequestRefused, WriteStart, WriteOk,
             notif
      <4>4. CASE Peer
        BY <4>4 DEF Peer, PeerRespond, PeerNotify, PeerRequest, PeerClose, notif
      <4>5. CASE Abort
        BY <4>5 DEF Abort, AbortTake, AbortShutdown, notif
      <4>6. QED
        BY <4>1, <4>2, <4>3, <4>4, <4>5 DEF Next
    <3>2. QED
      BY <2>3, <3>1 DEF Got
  <2>9. QED
    BY <2>5, <2>6, <2>7, <2>8
<1>2. Init => INotes /\ IAnswers
  BY NotesInit, AnswersInit
<1>3. (INotes /\ IAnswers) /\ [Next]_vars => (INotes /\ IAnswers)'
  BY NotesStep, AnswersStep
<1> QED
  BY <1>1, <1>2, <1>3, PTL DEF Spec, BufferOutlivesConnection
=============================================================================
