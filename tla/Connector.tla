------------------------------ MODULE Connector ------------------------------
(***************************************************************************)
(* The q IPC client of crates/xqdb/src/connector.rs: one Connector, used   *)
(* by one owner thread at a time (every operation takes &mut self), and    *)
(* any number of clones of its ConnectorAbortHandle, used by other threads *)
(* at any moment.                                                          *)
(*                                                                         *)
(* A socket is a number: 1 is the first one dialled, and 0 stands for      *)
(* None.  The Arc<TcpStream> a canceller took keeps its socket alive, so a *)
(* number is never reused, which is what the numbering says.  The client   *)
(* holds at most one open socket, the last one dialled, so the variables   *)
(* of the connection (wire, unanswered, torn, peerClosed, sent) describe   *)
(* that socket and are reset when it is given up.                          *)
(*                                                                         *)
(* The q process is external: it answers the requests of a connection in   *)
(* the order they were written, may send notifications and (unsupported)   *)
(* requests of its own, may damage a frame, fall silent or close.          *)
(***************************************************************************)
EXTENDS Naturals, Sequences, FiniteSets

CONSTANTS
    Canceller,    \* threads that hold a clone of the abort handle
    Kind,         \* the operations the caller uses, a subset of AllKind
    Limit,        \* the max_pending_notifications values configure may get
    IdModulus,    \* operation ids wrap: 2^64 in the code
    Timeouts,     \* whether it may get read and write timeouts, and may get none
    MaxOps, MaxSockets, MaxNotes, MaxAborts   \* bounds

AllKind == {"connect", "execute", "async", "receive", "sendSync", "sendAsync"}

ASSUME KindAssumption == Kind \subseteq AllKind
ASSUME LimitAssumption == Limit \subseteq Nat \ {0} /\ Limit # {}
ASSUME IdModulusAssumption == IdModulus \in Nat \ {0}
ASSUME TimeoutsAssumption == Timeouts \subseteq BOOLEAN /\ Timeouts # {}
ASSUME BoundAssumption == /\ MaxOps \in Nat /\ MaxSockets \in Nat
                          /\ MaxNotes \in Nat /\ MaxAborts \in Nat

VARIABLES
    pc,          \* where the owner thread is in its operation
    kind,        \* the operation it runs (or ran last)
    ops,         \* operations begun; the running one's number is its request's name
    myId,        \* ActiveIoGuard.id of the running operation
    nextId,      \* AbortState.next_operation_id
    active,      \* AbortState.active_operation
    hold,        \* per canceller: the socket it took and has not shut down yet, or 0
    aborts,      \* abort calls that took an operation
    stream,      \* Connector.stream: the socket inside it, or 0
    tcp,         \* Connector.tcp_stream, or 0
    dialed,      \* the local tcp_stream of connect_inner, or 0
    opened,      \* sockets dialled so far
    shut,        \* sockets on which shutdown(Both) was called locally
    wire,        \* frames the peer has sent and the client has not read
    unanswered,  \* synchronous requests written and not answered yet
    torn,        \* the byte stream is inside a frame, read or written in part
    peerClosed,  \* the peer closed the connection
    sent,        \* notifications the peer sent on this connection
    notes,       \* notifications sent on all connections
    pending,     \* Connector.pending_notifications
    settings,    \* Connector.settings
    result,      \* what the running operation returns
    delivered,   \* history: the notifications receive() has returned
    raw          \* history: sockets that carried a bare send(Sync)

owner == <<pc, kind, ops, myId, result>>
registry == <<nextId, active>>
cancel == <<hold, aborts>>
conn == <<stream, tcp, dialed, opened, shut>>
line == <<wire, unanswered, torn, peerClosed, sent>>
notif == <<pending, settings, delivered>>
vars == <<owner, registry, cancel, conn, line, notes, notif, raw>>

Settings == [limit : Limit, timeouts : Timeouts]

NoOp == [id |-> 0, sock |-> 0, set |-> FALSE]
Op(id, s) == [id |-> id, sock |-> s, set |-> TRUE]
Res(t, n) == [tag |-> t, n |-> n]

Socket == 1..MaxSockets
Frame == [kind : {"Response", "Async", "Sync"}, n : Nat, flaw : {"none", "value", "frame"}]
Note == [sock : Socket, n : Nat]

InFlight == pc \notin {"idle", "dropped"}
\* The guard's registration is still the active operation.
Mine == active.set /\ active.id = myId

Init ==
    /\ pc = "idle" /\ kind = "connect" /\ ops = 0 /\ myId = 0
    /\ result = Res("none", 0)
    /\ nextId = 0 /\ active = NoOp
    /\ hold = [c \in Canceller |-> 0] /\ aborts = 0
    /\ stream = 0 /\ tcp = 0 /\ dialed = 0 /\ opened = 0 /\ shut = {}
    /\ wire = <<>> /\ unanswered = <<>> /\ torn = FALSE /\ peerClosed = FALSE
    /\ sent = 0 /\ notes = 0
    /\ pending = <<>> /\ settings \in Settings /\ delivered = <<>>
    /\ raw = {}

(***************************************************************************)
(* Building blocks of the owner's steps.                                   *)
(***************************************************************************)
\* The peer's frames on a socket that was given up can no longer be read.
ClearLine ==
    /\ wire' = <<>> /\ unanswered' = <<>> /\ torn' = FALSE
    /\ peerClosed' = FALSE /\ sent' = 0

\* disconnect_after_protocol_error(); pending_notifications survive it.
Disconnect ==
    /\ shut' = shut \cup ({tcp} \ {0})
    /\ tcp' = 0
    /\ stream' = 0
    /\ UNCHANGED <<dialed, opened>>
    /\ ClearLine

\* Leave the operation's body with `r`; finish_operation comes next.
Return(r) ==
    /\ result' = r
    /\ pc' = "finish"
    /\ UNCHANGED <<kind, ops, myId>>

Goto(l) ==
    /\ pc' = l
    /\ UNCHANGED <<kind, ops, myId, result>>

\* A read or a write on socket s cannot go on: it was shut down on this
\* side, the peer is gone, or the socket's timeout expires.
Broken(s) == s \in shut \/ peerClosed \/ settings.timeouts

(***************************************************************************)
(* Operations of the owner thread.                                         *)
(***************************************************************************)
\* Mutant: receive() reads the socket although notifications are buffered.
BeginIgnoringBuffer(k) ==
    /\ pc = "idle" /\ ops < MaxOps
    /\ pc' = "begun" /\ kind' = k /\ ops' = ops + 1 /\ result' = Res("none", 0)
    /\ myId' = nextId /\ nextId' = (nextId + 1) % IdModulus /\ active' = Op(nextId, 0)
    /\ UNCHANGED <<cancel, conn, line, notes, notif, raw>>

\* begin_operation(), at the head of connect, execute, execute_async,
\* send, and of receive when nothing is buffered.
Begin(k) ==
    /\ pc = "idle"
    /\ ops < MaxOps
    /\ k = "receive" => pending = <<>>
    /\ pc' = "begun"
    /\ kind' = k
    /\ ops' = ops + 1
    /\ myId' = nextId
    /\ nextId' = (nextId + 1) % IdModulus
    /\ active' = Op(nextId, 0)
    /\ result' = Res("none", 0)
    /\ UNCHANGED <<cancel, conn, line, notes, notif, raw>>

\* receive() with a buffered notification: no operation is registered.
ReceiveBuffered ==
    /\ pc = "idle"
    /\ ops < MaxOps
    /\ "receive" \in Kind
    /\ pending # <<>>
    /\ ops' = ops + 1
    /\ kind' = "receive"
    /\ result' = Res("note", Head(pending).n)
    /\ pending' = Tail(pending)
    /\ delivered' = Append(delivered, Head(pending))
    /\ UNCHANGED <<pc, myId, settings, registry, cancel, conn, line, notes, raw>>

\* Where an operation goes once its connection, if any, is attached.
AfterAttach ==
    \/ kind = "connect" /\ stream # 0 /\ Return(Res("ok", 0))
    \/ kind \in {"connect", "execute", "async"} /\ stream = 0 /\ Goto("dialing")
    \/ kind \in {"receive", "sendSync", "sendAsync"} /\ stream = 0 /\ Return(Res("error", 0))
    \/ kind = "receive" /\ stream # 0 /\ Goto("read")
    \/ kind \in {"execute", "async", "sendSync", "sendAsync"} /\ stream # 0 /\ Goto("write")

\* Mutant: a failed attach leaves the connection open.
AttachQuietly ==
    /\ pc = "begun"
    /\ active' = IF tcp # 0 /\ Mine THEN Op(myId, tcp) ELSE active
    /\ AfterAttach
    /\ UNCHANGED <<nextId, cancel, conn, line, notes, notif, raw>>

\* attach_stream() of the installed connection.  An operation whose
\* registration was taken in the meantime shuts the connection down itself;
\* the result is ignored and the operation goes on.
Attach ==
    /\ pc = "begun"
    /\ active' = IF tcp # 0 /\ Mine THEN Op(myId, tcp) ELSE active
    /\ shut' = IF tcp # 0 /\ ~Mine THEN shut \cup {tcp} ELSE shut
    /\ AfterAttach
    /\ UNCHANGED <<nextId, cancel, stream, tcp, dialed, opened, line, notes, notif, raw>>

\* connect_inner() up to the new TCP connection: TLS settings, name
\* resolution and connect_to_addresses may each fail.
DialFails ==
    /\ pc = "dialing"
    /\ Return(Res("error", 0))
    /\ UNCHANGED <<registry, cancel, conn, line, notes, notif, raw>>

DialOk ==
    /\ pc = "dialing"
    /\ opened < MaxSockets
    /\ Goto("dialed")
    /\ opened' = opened + 1
    /\ dialed' = opened + 1
    /\ UNCHANGED <<registry, cancel, stream, tcp, shut, line, notes, notif, raw>>

\* attach_stream() of the new socket, ...
AttachDialed ==
    /\ pc = "dialed"
    /\ Mine
    /\ active' = Op(myId, dialed)
    /\ Goto("auth")
    /\ UNCHANGED <<nextId, cancel, conn, line, notes, notif, raw>>

\* ... and its failure, which shuts the socket down and ends connect_inner.
DialedTooLate ==
    /\ pc = "dialed"
    /\ ~Mine
    /\ Return(Res("aborted", 0))
    /\ shut' = shut \cup {dialed}
    /\ dialed' = 0
    /\ UNCHANGED <<registry, cancel, stream, tcp, opened, line, notes, notif, raw>>

\* auth() succeeds: install_authenticated_stream, then tcp_stream.  The
\* answer may have been buffered before a local shutdown.
AuthOk ==
    /\ pc = "auth"
    /\ stream' = dialed
    /\ tcp' = dialed
    /\ dialed' = 0
    /\ IF kind = "connect" THEN Return(Res("ok", 0)) ELSE Goto("write")
    /\ UNCHANGED <<registry, cancel, opened, shut, line, notes, notif, raw>>

\* connect_inner's error path: the socket is shut down and dropped.
AuthFails ==
    /\ Return(Res("error", 0))
    /\ shut' = shut \cup {dialed}
    /\ dialed' = 0
    /\ stream' = 0
    /\ UNCHANGED <<registry, cancel, tcp, opened, line, notes, notif, raw>>

\* The peer refuses the credentials or the version, or hangs up.
AuthRefused == pc = "auth" /\ AuthFails

\* Mutant: the timeouts are set only after authentication.
AuthBrokenUntimed == pc = "auth" /\ dialed \in shut /\ AuthFails


AuthBroken == pc = "auth" /\ (dialed \in shut \/ settings.timeouts) /\ AuthFails

\* send_inner() fails before the write: too many arguments, a value that
\* cannot be serialized or compressed.  The connection is kept.
RequestRefused ==
    /\ pc = "write"
    /\ ~torn
    /\ Return(Res("error", 0))
    /\ UNCHANGED <<registry, cancel, conn, line, notes, notif, raw>>

\* write_all() has put the first bytes of the frame on the socket; a shut
\* down socket refuses them.
WriteStart ==
    /\ pc = "write"
    /\ ~torn
    /\ stream \notin shut
    /\ torn' = TRUE
    /\ UNCHANGED <<owner, registry, cancel, conn, wire, unanswered, peerClosed, sent, notes,
                   notif, raw>>

\* write_all() has written the whole frame.
WriteOk ==
    /\ pc = "write"
    /\ torn
    /\ stream \notin shut
    /\ torn' = FALSE
    /\ unanswered' = IF kind \in {"execute", "sendSync"}
                     THEN Append(unanswered, ops) ELSE unanswered
    /\ raw' = IF kind = "sendSync" THEN raw \cup {stream} ELSE raw
    /\ IF kind = "execute" THEN Goto("read") ELSE Return(Res("ok", 0))
    /\ UNCHANGED <<registry, cancel, conn, wire, peerClosed, sent, notes, notif>>

WriteFails ==
    /\ pc = "write"
    /\ Broken(stream)
    /\ Return(Res("error", 0))
    /\ Disconnect
    /\ UNCHANGED <<registry, cancel, notes, notif, raw>>

\* Mutant: a read error or timeout keeps the connection for the next call.
ReadFailsKeeping ==
    /\ pc = "read"
    /\ Broken(stream)
    /\ Return(Res("error", 0))
    /\ UNCHANGED <<registry, cancel, conn, line, notes, notif, raw>>

\* read_next_frame() fails before the whole frame is there.
ReadFails ==
    /\ pc = "read"
    /\ Broken(stream)
    /\ Return(Res("error", 0))
    /\ Disconnect
    /\ UNCHANGED <<registry, cancel, notes, notif, raw>>

\* read_ipc_body() has read the first bytes of a frame.
ReadStart ==
    /\ pc = "read"
    /\ ~torn
    /\ wire # <<>>
    /\ torn' = TRUE
    /\ UNCHANGED <<owner, registry, cancel, conn, wire, unanswered, peerClosed, sent, notes,
                   notif, raw>>

\* read_next_frame() rejects the frame: the header or the compressed body
\* is malformed or over a bound, or it is a request of the peer's.
ReadRejected ==
    /\ pc = "read"
    /\ torn
    /\ Head(wire).flaw = "frame" \/ Head(wire).kind = "Sync"
    /\ Return(Res("error", 0))
    /\ Disconnect
    /\ UNCHANGED <<registry, cancel, notes, notif, raw>>

Readable(f) == f.flaw # "frame" /\ f.kind # "Sync"

\* What decode_frame_body() makes of a frame; a value that does not decode
\* is an error in the value's place and leaves the connection alone.
Decoded(f) ==
    IF f.kind = "Async" THEN Res("note", f.n)
    ELSE IF f.flaw = "value" THEN Res("error", 0) ELSE Res("reply", f.n)

\* receive_inner(), or execute_inner() at its response.
ReadResult ==
    /\ pc = "read"
    /\ torn
    /\ Readable(Head(wire))
    /\ kind = "receive" \/ Head(wire).kind = "Response"
    /\ Return(Decoded(Head(wire)))
    /\ wire' = Tail(wire)
    /\ torn' = FALSE
    /\ UNCHANGED <<registry, cancel, conn, unanswered, peerClosed, sent, notes, notif, raw>>

AtLimit == Len(pending) >= settings.limit

\* execute_inner() buffers a notification that precedes its response.
BufferNotification ==
    /\ pc = "read" /\ kind = "execute"
    /\ torn
    /\ Readable(Head(wire)) /\ Head(wire).kind = "Async"
    /\ ~AtLimit
    /\ pending' = Append(pending, [sock |-> stream, n |-> Head(wire).n])
    /\ wire' = Tail(wire)
    /\ torn' = FALSE
    /\ UNCHANGED <<owner, registry, cancel, conn, unanswered, peerClosed, sent, notes,
                   settings, delivered, raw>>

\* Mutant: the overflow is reported without giving the connection up.
OverflowKeeping ==
    /\ pc = "read" /\ kind = "execute"
    /\ torn
    /\ Readable(Head(wire)) /\ Head(wire).kind = "Async"
    /\ AtLimit
    /\ Return(Res("error", 0))
    /\ wire' = Tail(wire) /\ torn' = FALSE
    /\ UNCHANGED <<registry, cancel, conn, unanswered, peerClosed, sent, notes, notif, raw>>

\* Mutant: the buffer goes with the connection.
OverflowDiscarding ==
    /\ pc = "read" /\ kind = "execute"
    /\ torn
    /\ Readable(Head(wire)) /\ Head(wire).kind = "Async"
    /\ AtLimit
    /\ Return(Res("error", 0))
    /\ Disconnect
    /\ pending' = <<>>
    /\ UNCHANGED <<registry, cancel, notes, settings, delivered, raw>>

\* execute_inner(): one notification too many ends the request and the
\* connection; the buffer stays.
NotificationOverflow ==
    /\ pc = "read" /\ kind = "execute"
    /\ torn
    /\ Readable(Head(wire)) /\ Head(wire).kind = "Async"
    /\ AtLimit
    /\ Return(Res("error", 0))
    /\ Disconnect
    /\ UNCHANGED <<registry, cancel, notes, notif, raw>>

\* finish_operation(): the registration is still there, and is removed; the
\* result is the caller's.
Finish ==
    /\ pc = "finish"
    /\ Mine
    /\ pc' = "idle"
    /\ active' = NoOp
    /\ delivered' = IF result.tag = "note"
                    THEN Append(delivered, [sock |-> stream, n |-> result.n]) ELSE delivered
    /\ UNCHANGED <<kind, ops, myId, result, nextId, cancel, conn, line, notes, pending,
                   settings, raw>>

\* Mutant: the operation returns its result and keeps its connection even
\* though its registration was taken.
FinishAbortedKeeping ==
    /\ pc = "finish"
    /\ ~Mine
    /\ pc' = "idle"
    /\ UNCHANGED <<kind, ops, myId, result, registry, cancel, conn, line, notes, notif, raw>>

\* finish_operation(): an operation whose registration was taken drops its
\* connection and its result, whatever they are.
FinishAborted ==
    /\ pc = "finish"
    /\ ~Mine
    /\ pc' = "idle"
    /\ result' = Res("aborted", 0)
    /\ Disconnect
    /\ UNCHANGED <<kind, ops, myId, registry, cancel, notes, notif, raw>>

\* shutdown(): not an abortable operation; NotConnected changes nothing.
Shutdown ==
    /\ pc = "idle"
    /\ stream # 0
    /\ Disconnect
    /\ UNCHANGED <<owner, registry, cancel, notes, notif, raw>>

\* configure(): refused while connected.
Configure(s) ==
    /\ pc = "idle"
    /\ stream = 0
    /\ settings' = s
    /\ UNCHANGED <<owner, registry, cancel, conn, line, notes, pending, delivered, raw>>

\* Drop for Connector.
DropConnector ==
    /\ pc = "idle"
    /\ pc' = "dropped"
    /\ Disconnect
    /\ UNCHANGED <<kind, ops, myId, result, registry, cancel, notes, notif, raw>>

(***************************************************************************)
(* ConnectorAbortHandle::abort(), called by another thread: it takes the   *)
(* active operation under the lock, and shuts its socket down after the    *)
(* lock is released.                                                       *)
(***************************************************************************)
AbortTake(c) ==
    /\ hold[c] = 0
    /\ aborts < MaxAborts
    /\ active.set
    /\ aborts' = aborts + 1
    /\ active' = NoOp
    /\ hold' = [hold EXCEPT ![c] = active.sock]
    /\ UNCHANGED <<owner, nextId, conn, line, notes, notif, raw>>

AbortShutdown(c) ==
    /\ hold[c] # 0
    /\ shut' = shut \cup {hold[c]}
    /\ hold' = [hold EXCEPT ![c] = 0]
    /\ UNCHANGED <<owner, registry, aborts, stream, tcp, dialed, opened, line, notes, notif, raw>>

(***************************************************************************)
(* The q process (external).                                               *)
(***************************************************************************)
PeerUp == stream # 0 /\ ~peerClosed

PeerRespond(flaw) ==
    /\ PeerUp
    /\ unanswered # <<>>
    /\ wire' = Append(wire, [kind |-> "Response", n |-> Head(unanswered), flaw |-> flaw])
    /\ unanswered' = Tail(unanswered)
    /\ UNCHANGED <<owner, registry, cancel, conn, torn, peerClosed, sent, notes, notif, raw>>

PeerNotify(flaw) ==
    /\ PeerUp
    /\ notes < MaxNotes
    /\ notes' = notes + 1
    /\ sent' = sent + 1
    /\ wire' = Append(wire, [kind |-> "Async", n |-> sent + 1, flaw |-> flaw])
    /\ UNCHANGED <<owner, registry, cancel, conn, unanswered, torn, peerClosed, notif, raw>>

PeerRequest ==
    /\ PeerUp
    /\ notes < MaxNotes
    /\ notes' = notes + 1
    /\ wire' = Append(wire, [kind |-> "Sync", n |-> 0, flaw |-> "none"])
    /\ UNCHANGED <<owner, registry, cancel, conn, unanswered, torn, peerClosed, sent, notif, raw>>

PeerClose ==
    /\ PeerUp
    /\ peerClosed' = TRUE
    /\ UNCHANGED <<owner, registry, cancel, conn, wire, unanswered, torn, sent, notes, notif, raw>>

(***************************************************************************)
(* The specification.                                                      *)
(***************************************************************************)
\* Steps the owner thread takes by itself, without waiting for the peer.
OwnerStep ==
    \/ Attach \/ DialFails \/ DialOk \/ AttachDialed \/ DialedTooLate \/ AuthBroken
    \/ WriteFails \/ ReadFails \/ ReadStart \/ ReadRejected \/ ReadResult
    \/ BufferNotification \/ NotificationOverflow \/ Finish \/ FinishAborted

OwnerCall ==
    \/ \E k \in Kind : Begin(k)
    \/ ReceiveBuffered \/ Shutdown \/ DropConnector
    \/ \E s \in Settings : Configure(s)

\* Owner steps that need the peer to take or to send bytes, or that depend
\* on the request's content.
OwnerIo == AuthOk \/ AuthRefused \/ RequestRefused \/ WriteStart \/ WriteOk

Peer ==
    \/ \E f \in {"none", "value", "frame"} : PeerRespond(f) \/ PeerNotify(f)
    \/ PeerRequest \/ PeerClose

Abort == \E c \in Canceller : AbortTake(c) \/ AbortShutdown(c)

Next == OwnerStep \/ OwnerCall \/ OwnerIo \/ Peer \/ Abort

Spec == Init /\ [][Next]_vars

\* The owner thread runs on as long as it is not blocked on the peer, and
\* a canceller that took an operation goes on to shut its socket down.
Fairness ==
    /\ WF_vars(OwnerStep)
    /\ \A c \in Canceller : WF_vars(AbortShutdown(c))

FairSpec == Spec /\ Fairness

(***************************************************************************)
(* Properties.                                                             *)
(***************************************************************************)
TypeOK ==
    /\ pc \in {"idle", "begun", "dialing", "dialed", "auth", "write", "read", "finish",
               "dropped"}
    /\ kind \in AllKind
    /\ ops \in 0..MaxOps /\ aborts \in 0..MaxAborts /\ notes \in 0..MaxNotes
    /\ myId \in 0..(IdModulus - 1) /\ nextId \in 0..(IdModulus - 1)
    /\ active \in [id : 0..(IdModulus - 1), sock : 0..MaxSockets, set : BOOLEAN]
    /\ hold \in [Canceller -> 0..MaxSockets]
    /\ stream \in 0..MaxSockets /\ tcp \in 0..MaxSockets /\ dialed \in 0..MaxSockets
    /\ opened \in 0..MaxSockets
    /\ shut \subseteq Socket
    /\ wire \in Seq(Frame) /\ unanswered \in Seq(Nat)
    /\ torn \in BOOLEAN /\ peerClosed \in BOOLEAN /\ sent \in Nat
    /\ pending \in Seq(Note) /\ delivered \in Seq(Note)
    /\ settings \in Settings
    /\ result \in [tag : {"none", "ok", "error", "aborted", "reply", "note"}, n : Nat]
    /\ raw \subseteq Socket

\* execute() returns the value q computed for this very call, never the late
\* answer to an earlier one that timed out, was aborted, overflowed the
\* notification buffer or failed half-way.  (On a connection that
\* carried a bare send(Sync) answers are taken in the order of the requests.)
OwnReply ==
    kind = "execute" /\ result.tag = "reply" => result.n = ops \/ opened \in raw

\* A connection that is kept between operations is fit for the next one: the
\* two handles name one socket that nobody shut down, the byte stream is at a
\* frame boundary, and no answer to a returned execute() is still to come.
ReusableWhenIdle ==
    pc = "idle" /\ stream # 0 =>
        /\ tcp = stream
        /\ stream \notin shut
        /\ ~torn
        /\ stream \notin raw =>
              /\ unanswered = <<>>
              /\ \A i \in 1..Len(wire) : wire[i].kind # "Response"

\* abort() shuts the socket down after it released the lock, when the
\* operation it took may be over and another one running.  The socket it
\* still holds is never one the connector goes on to use: it is either given
\* up already, or belongs to the running operation, whose registration is
\* gone and which will therefore drop it.  Between operations a cancellation
\* finds nothing to take.
LateShutdownHarmless ==
    /\ \A c \in Canceller :
          hold[c] # 0 /\ hold[c] \in {stream, tcp, dialed} => InFlight /\ ~active.set
    /\ ~InFlight => ~active.set

\* The notifications that receive() has returned or will find buffered.
Got == delivered \o pending

\* The number of the last one among them, if it came on connection s.
LastOn(s) ==
    IF Got # <<>> /\ Got[Len(Got)].sock = s THEN Got[Len(Got)].n ELSE 0

Async(f) == f.kind = "Async"

\* Notifications reach receive() in the order q sent them, none skipped and
\* none twice, whether execute() buffered them or receive() read them: older
\* connections come first, each one's are numbered from 1 without a gap, and
\* on a connection that is kept the rest is still on the wire, in order.
NotificationsInOrder ==
    /\ \A i, j \in 1..Len(Got) : i < j => Got[i].sock <= Got[j].sock
    /\ \A i \in 1..Len(Got) :
          Got[i].n = IF i > 1 /\ Got[i - 1].sock = Got[i].sock THEN Got[i - 1].n + 1 ELSE 1
    /\ pc = "idle" /\ stream # 0 =>
          LET rest == {i \in 1..Len(wire) : Async(wire[i])}
          IN /\ {wire[i].n : i \in rest} = (LastOn(stream) + 1)..sent
             /\ \A i, j \in rest : i < j => wire[i].n < wire[j].n

\* "overflow fails and closes the connection rather than dropping a
\* notification" (js-xqdb/README.md:64): whatever ends an operation or the
\* connection (an overflow, an error, an abort, shutdown(), a configure() that
\* lowers the limit), what execute() has buffered stays in place until
\* receive() returns it, ahead of everything that is read later.
BufferOutlivesConnection ==
    [][Len(Got) <= Len(Got') /\ \A i \in 1..Len(Got) : Got'[i] = Got[i]]_vars

\* An operation whose registration a canceller took reports the abort, gives
\* no value and leaves the connector disconnected.
AbortedOperationDisconnects ==
    [][InFlight /\ ~active.set /\ ~InFlight' =>
          result'.tag = "aborted" /\ stream' = 0 /\ tcp' = 0]_vars

\* A cancellation ends the running operation even when q is silent and no
\* timeout is configured, wherever in the operation it strikes.
CancelUnblocks == (InFlight /\ ~active.set) ~> ~InFlight

\* With timeouts configured every operation returns, whatever q does and
\* although nobody cancels it.
OperationsReturn == (InFlight /\ settings.timeouts) ~> ~InFlight
=============================================================================
