-------------------------------- MODULE Worker --------------------------------
(***************************************************************************)
(* The Node binding's command queue: bindings/napi-xqdb/src/worker.rs and  *)
(* admission.rs.  The JavaScript thread reserves ordered placeholders in a *)
(* bounded channel, fills or cancels them, cancels the running operation   *)
(* and finally drops the NativeConnector; one worker thread takes the      *)
(* placeholders in order, waits for their commands, runs them on the       *)
(* Connector and resolves their promises.                                  *)
(*                                                                         *)
(* A permit is the number of its reservation.  The command committed under *)
(* permit p, its CommandSlot, its QueueReservation and its promise carry   *)
(* the same number.  In the channel 0 stands for Command::Stop.            *)
(*                                                                         *)
(* The Connector is reduced to what the worker sees of it (module          *)
(* Connector has the rest): an operation registers itself with the abort   *)
(* handle some time after the worker decided to run it, can be aborted     *)
(* from then on, and ends with success, a retryable or a final error, or a *)
(* panic.  Sync, Asyn and Receive commands are handled alike: kind "exec". *)
(***************************************************************************)
EXTENDS Integers, Sequences, FiniteSets

CONSTANTS
    CommandCapacity,   \* queueCapacity
    ChannelCapacity,   \* MAX_QUEUE_CAPACITY, 1024 in the code
    ByteCapacity,      \* maxQueuedBytes
    Size,              \* sizes of the charges of one command's snapshots
    Kind,              \* command kinds the caller uses
    Retries,           \* the values of connect's `retries`
    Timeouts,          \* whether the socket timeouts are configured
    MaxPermits, MaxCancels, MaxBytes   \* bounds

AllKind == {"connect", "disconnect", "exec"}

ASSUME CapacityAssumption ==
    /\ CommandCapacity \in Nat \ {0} /\ ChannelCapacity \in Nat \ {0}
    /\ CommandCapacity <= ChannelCapacity
    /\ ByteCapacity \in Nat /\ Size \subseteq Nat
ASSUME CommandAssumption ==
    Kind \subseteq AllKind /\ Retries \subseteq Nat /\ Timeouts \in BOOLEAN
ASSUME BoundAssumption == MaxPermits \in Nat /\ MaxCancels \in Nat /\ MaxBytes \in Nat

Permit == 1..MaxPermits

VARIABLES
    jpc, jp,      \* the JavaScript thread: where it is, and in which permit
    permits,      \* permits reserved so far
    res,          \* per permit: who owns its QueueReservation
    bytes,        \* per permit: QueueReservation.reserved_bytes
    slot,         \* per permit: CommandSlot.state
    kind,         \* per permit: the command committed
    reply,        \* per permit: the promise
    cmds, qbytes, \* AdmissionCounts
    chan,         \* the channel of placeholders
    receiver,     \* the worker still has the channel's receiver
    stopping,     \* the shared AtomicBool
    gen,          \* cancel_generation
    registered,   \* the abort handle has an active operation
    wpc, wp,      \* the worker thread: where it is, and with which permit
    expected,     \* expected_cancel_generation of the running connect
    attempt, retries,  \* its attempts so far and its retries
    outcome,      \* how the connector's operation ended
    connected,    \* the connector has a connection
    started       \* history: commands run, in order

js == <<jpc, jp, permits>>
admission == <<res, bytes, cmds, qbytes>>
slots == <<slot, kind, reply>>
worker == <<wpc, wp, expected, attempt, retries, outcome, connected, started>>
vars == <<js, admission, slots, chan, receiver, stopping, gen, registered, worker>>

Init ==
    /\ jpc = "run" /\ jp = 0 /\ permits = 0
    /\ res = [p \in Permit |-> "none"] /\ bytes = [p \in Permit |-> 0]
    /\ slot = [p \in Permit |-> "empty"] /\ kind = [p \in Permit |-> "exec"]
    /\ reply = [p \in Permit |-> "none"]
    /\ cmds = 0 /\ qbytes = 0
    /\ chan = <<>> /\ receiver = TRUE /\ stopping = FALSE
    /\ gen = 0 /\ registered = FALSE
    /\ wpc = "top" /\ wp = 0 /\ expected = 0 /\ attempt = 0 /\ retries = 0
    /\ outcome = "none" /\ connected = FALSE /\ started = <<>>

(***************************************************************************)
(* QueueReservation and CommandSlot.                                       *)
(***************************************************************************)
Live(p) == res[p] \in {"permit", "prepared", "command"}

SaturatingSub(a, b) == IF a >= b THEN a - b ELSE 0

\* Mutant: the bytes are not given back.
DropReservationKeepingBytes(p) ==
    /\ res' = [res EXCEPT ![p] = "dropped"]
    /\ cmds' = SaturatingSub(cmds, 1)
    /\ bytes' = [bytes EXCEPT ![p] = 0]
    /\ UNCHANGED qbytes

\* Drop for QueueReservation.
DropReservation(p) ==
    /\ res' = [res EXCEPT ![p] = "dropped"]
    /\ cmds' = SaturatingSub(cmds, 1)
    /\ qbytes' = SaturatingSub(qbytes, bytes[p])
    /\ bytes' = [bytes EXCEPT ![p] = 0]

\* Mutant: releasing a permit leaves its reservation alive.
DropFromPermitNever(p) == UNCHANGED admission

\* release_for(), or the drop of an AdmissionPermit: the reservation goes,
\* unless a command has taken it.
DropFromPermit(p) ==
    IF res[p] = "permit" THEN DropReservation(p) ELSE UNCHANGED admission

\* CommandSlot::cancel.
Cancelled(p) == IF slot[p] = "empty" THEN "cancelled" ELSE slot[p]

\* CommandSlot::fail, and the Command::fail of the command it finds.
FailSlot(p) ==
    IF slot[p] = "command"
    THEN /\ slot' = [slot EXCEPT ![p] = "empty"]
         /\ reply' = [reply EXCEPT ![p] = "failed"]
         /\ DropReservation(p)
    ELSE /\ slot' = [slot EXCEPT ![p] = "cancelled"]
         /\ UNCHANGED <<reply, admission>>

(***************************************************************************)
(* The JavaScript thread.                                                  *)
(***************************************************************************)
\* Mutant: one command too many is admitted.
ReserveAdmitOver ==
    /\ jpc = "run" /\ permits < MaxPermits /\ ~stopping
    /\ cmds <= CommandCapacity
    /\ jpc' = "admitted" /\ jp' = permits + 1 /\ permits' = permits + 1
    /\ cmds' = cmds + 1 /\ res' = [res EXCEPT ![permits + 1] = "permit"]
    /\ UNCHANGED <<bytes, qbytes, slots, chan, receiver, stopping, gen, registered, worker>>

\* reserve(): AdmissionState::reserve succeeds (a refusal changes nothing).
ReserveAdmit ==
    /\ jpc = "run"
    /\ permits < MaxPermits
    /\ ~stopping
    /\ cmds < CommandCapacity
    /\ jpc' = "admitted"
    /\ jp' = permits + 1
    /\ permits' = permits + 1
    /\ cmds' = cmds + 1
    /\ res' = [res EXCEPT ![permits + 1] = "permit"]
    /\ UNCHANGED <<bytes, qbytes, slots, chan, receiver, stopping, gen, registered, worker>>

\* reserve(): try_send of the placeholder.  On failure the placeholder's
\* drop fails the slot, and the permit's drop gives the reservation back.
ReserveSend ==
    /\ jpc = "admitted"
    /\ IF receiver /\ Len(chan) < ChannelCapacity
       THEN /\ chan' = Append(chan, jp)
            /\ jpc' = "sent"
            /\ UNCHANGED <<jp, permits, admission, slots>>
       ELSE /\ slot' = [slot EXCEPT ![jp] = "cancelled"]
            /\ DropReservation(jp)
            /\ jpc' = "run" /\ jp' = 0
            /\ UNCHANGED <<permits, chan, kind, reply>>
    /\ UNCHANGED <<receiver, stopping, gen, registered, worker>>

\* reserve(): the worker may have stopped in the meantime.  Then the slot is
\* cancelled and the permit dropped instead of handed out.
ReserveRecheck ==
    /\ jpc = "sent"
    /\ jpc' = "run" /\ jp' = 0
    /\ IF stopping
       THEN /\ slot' = [slot EXCEPT ![jp] = Cancelled(jp)]
            /\ DropReservation(jp)
            /\ UNCHANGED <<kind, reply>>
       ELSE UNCHANGED <<admission, slots>>
    /\ UNCHANGED <<permits, chan, receiver, stopping, gen, registered, worker>>

\* release(), or the garbage collection of the permit: at any time, before
\* or after the permit was used.
Release(p) ==
    /\ jpc \in {"run", "gone"}
    /\ res[p] # "none"
    /\ DropFromPermit(p)
    /\ slot' = [slot EXCEPT ![p] = Cancelled(p)]
    /\ UNCHANGED <<js, kind, reply, chan, receiver, stopping, gen, registered, worker>>

\* take_uncommitted_for() at the head of connect, disconnect, sync, asyn and
\* receive; a used permit is refused.
Take(p) ==
    /\ jpc = "run"
    /\ res[p] = "permit"
    /\ res' = [res EXCEPT ![p] = "prepared"]
    /\ jpc' = "prepared" /\ jp' = p
    /\ UNCHANGED <<permits, bytes, cmds, qbytes, slots, chan, receiver, stopping, gen,
                   registered, worker>>

\* charge_bytes() for the expression and for each piece of the arguments.
Charge(b) ==
    /\ jpc = "prepared"
    /\ bytes[jp] + b <= MaxBytes
    /\ qbytes + b <= ByteCapacity
    /\ qbytes' = qbytes + b
    /\ bytes' = [bytes EXCEPT ![jp] = @ + b]
    /\ UNCHANGED <<js, res, cmds, slots, chan, receiver, stopping, gen, registered, worker>>

\* An over-long expression, a charge over capacity, a conversion error or a
\* failed create_deferred: the PreparedPermit is dropped.
PrepareFails ==
    /\ jpc = "prepared"
    /\ slot' = [slot EXCEPT ![jp] = Cancelled(jp)]
    /\ DropReservation(jp)
    /\ jpc' = "run" /\ jp' = 0
    /\ UNCHANGED <<permits, kind, reply, chan, receiver, stopping, gen, registered, worker>>

\* enqueue_reserved(): CommandSlot::commit; a slot that is no longer free
\* fails the command at once.
Commit(k) ==
    /\ jpc = "prepared"
    /\ kind' = [kind EXCEPT ![jp] = k]
    /\ IF slot[jp] = "empty"
       THEN /\ slot' = [slot EXCEPT ![jp] = "command"]
            /\ reply' = [reply EXCEPT ![jp] = "pending"]
            /\ res' = [res EXCEPT ![jp] = "command"]
            /\ UNCHANGED <<bytes, cmds, qbytes>>
       ELSE /\ reply' = [reply EXCEPT ![jp] = "failed"]
            /\ DropReservation(jp)
            /\ UNCHANGED slot
    /\ jpc' = "run" /\ jp' = 0
    /\ UNCHANGED <<permits, chan, receiver, stopping, gen, registered, worker>>

\* cancel(): the generation first, the abort handle second.
CancelGeneration ==
    /\ jpc = "run"
    /\ gen < MaxCancels
    /\ gen' = gen + 1
    /\ jpc' = "cancelling"
    /\ UNCHANGED <<jp, permits, admission, slots, chan, receiver, stopping, registered, worker>>

CancelAbort ==
    /\ jpc = "cancelling"
    /\ registered' = FALSE
    /\ jpc' = "run"
    /\ UNCHANGED <<jp, permits, admission, slots, chan, receiver, stopping, gen, worker>>

\* Drop for NativeConnector: stop flag, generation, abort, Stop command; the
\* channel's sender goes with it.
DropStop ==
    /\ jpc = "run"
    /\ stopping' = TRUE
    /\ gen' = gen + 1
    /\ jpc' = "dropping"
    /\ UNCHANGED <<jp, permits, admission, slots, chan, receiver, registered, worker>>

DropAbort ==
    /\ jpc = "dropping"
    /\ registered' = FALSE
    /\ jpc' = "aborted"
    /\ UNCHANGED <<jp, permits, admission, slots, chan, receiver, stopping, gen, worker>>

DropSend ==
    /\ jpc = "aborted"
    /\ chan' = IF receiver /\ Len(chan) < ChannelCapacity THEN Append(chan, 0) ELSE chan
    /\ jpc' = "gone"
    /\ UNCHANGED <<jp, permits, admission, slots, receiver, stopping, gen, registered, worker>>

(***************************************************************************)
(* The worker thread.                                                      *)
(***************************************************************************)
WGoto(l) ==
    /\ wpc' = l
    /\ UNCHANGED <<expected, attempt, retries, outcome, connected, started>>

\* while !stopping: leave the loop, or go on to recv().
LoopTop ==
    /\ wpc = "top"
    /\ WGoto(IF stopping THEN "drain" ELSE "recv")
    /\ UNCHANGED <<wp, js, admission, slots, chan, receiver, stopping, gen, registered>>

\* recv() blocks until there is a command, or fails once the sender is gone.
Recv ==
    /\ wpc = "recv"
    /\ IF chan # <<>>
       THEN /\ wp' = Head(chan)
            /\ chan' = Tail(chan)
            /\ WGoto(IF Head(chan) = 0 THEN "check" ELSE "wait")
       ELSE /\ jpc = "gone"
            /\ WGoto("drain")
            /\ UNCHANGED <<wp, chan>>
    /\ UNCHANGED <<js, admission, slots, receiver, stopping, gen, registered>>

\* Mutant: a placeholder that is not filled yet goes back to the queue's end.
WaitRequeueing ==
    /\ wpc = "wait"
    /\ IF slot[wp] = "empty" /\ ~stopping
       THEN chan' = Append(chan, wp) /\ wp' = 0 /\ WGoto("top") /\ UNCHANGED slot
       ELSE /\ slot' = [slot EXCEPT ![wp] = "empty"]
            /\ WGoto(IF slot[wp] = "command" THEN "check" ELSE "disarm")
            /\ UNCHANGED <<wp, chan>>
    /\ UNCHANGED <<js, admission, kind, reply, receiver, stopping, gen, registered>>

\* CommandSlot::wait takes whatever the slot holds; it polls the stop flag,
\* so a missed notification is no matter.
WaitSlot ==
    /\ wpc = "wait"
    /\ slot[wp] # "empty" \/ stopping
    /\ slot' = [slot EXCEPT ![wp] = "empty"]
    /\ WGoto(IF slot[wp] = "command" THEN "check" ELSE "disarm")
    /\ UNCHANGED <<wp, js, admission, kind, reply, chan, receiver, stopping, gen, registered>>

\* wait() returned no command: the PendingSlot is still armed, and its drop
\* fails the slot, with the command that came in between if there is one.
Disarm ==
    /\ wpc = "disarm"
    /\ FailSlot(wp)
    /\ WGoto("top")
    /\ wp' = 0
    /\ UNCHANGED <<js, kind, chan, receiver, stopping, gen, registered>>

\* Mutant: a stopping worker forgets the command it holds.
CheckStoppingForgetful ==
    /\ wpc = "check"
    /\ WGoto(IF stopping \/ wp = 0 THEN "drain" ELSE "start")
    /\ UNCHANGED <<wp, js, admission, slots, chan, receiver, stopping, gen, registered>>

\* The second look at the stop flag, before the command runs.
CheckStopping ==
    /\ wpc = "check"
    /\ UNCHANGED wp
    /\ IF stopping
       THEN /\ WGoto("drain")
            /\ IF wp = 0 THEN UNCHANGED <<reply, admission>>
               ELSE /\ reply' = [reply EXCEPT ![wp] = "failed"]
                    /\ DropReservation(wp)
       ELSE /\ WGoto(IF wp = 0 THEN "drain" ELSE "start")
            /\ UNCHANGED <<reply, admission>>
    /\ UNCHANGED <<js, slot, kind, chan, receiver, stopping, gen, registered>>

\* drop(reservation), then the operation; a connect notes the generation.
Start ==
    /\ wpc = "start"
    /\ DropReservation(wp)
    /\ started' = Append(started, wp)
    /\ expected' = gen
    /\ attempt' = 0
    /\ retries' \in (IF kind[wp] = "connect" THEN Retries ELSE {0})
    /\ wpc' = CASE kind[wp] = "connect" -> "attempt"
                [] kind[wp] = "disconnect" -> "disconnect"
                [] OTHER -> "begin"
    /\ UNCHANGED <<wp, outcome, connected, js, slots, chan, receiver, stopping, gen, registered>>

\* complete_operation() resolves the promise; the command's locals end here.
Resolve(r) ==
    /\ reply' = [reply EXCEPT ![wp] = r]
    /\ wpc' = "top"
    /\ wp' = 0 /\ expected' = 0 /\ attempt' = 0 /\ retries' = 0 /\ outcome' = "none"
    /\ UNCHANGED started

\* Disconnect: shutdown(), Ok also when not connected; the connection is
\* gone even when the socket's shutdown reports an error.
Disconnect ==
    /\ wpc = "disconnect"
    /\ Resolve("ok") \/ (connected /\ Resolve("failed"))
    /\ connected' = FALSE
    /\ UNCHANGED <<js, admission, slot, kind, chan, receiver, stopping, gen, registered>>

\* The head of connect's retry loop.
AttemptConnect ==
    /\ wpc = "attempt"
    /\ IF gen # expected
       THEN Resolve("failed") /\ UNCHANGED connected
       ELSE WGoto("begin") /\ UNCHANGED <<wp, reply>>
    /\ UNCHANGED <<js, admission, slot, kind, chan, receiver, stopping, gen, registered>>

\* begin_operation() inside the connector: from here on abort() finds it.
BeginOperation ==
    /\ wpc = "begin"
    /\ registered' = TRUE
    /\ WGoto("operation")
    /\ UNCHANGED <<wp, js, admission, slots, chan, receiver, stopping, gen>>

\* A command that never becomes an abortable operation: its arguments do not
\* convert, or receive() finds a buffered notification.
WithoutOperation ==
    /\ wpc = "begin"
    /\ kind[wp] = "exec"
    /\ outcome' \in {"ok", "final"}
    /\ wpc' = "executed"
    /\ UNCHANGED <<wp, expected, attempt, retries, connected, started, js, admission, slots,
                   chan, receiver, stopping, gen, registered>>

\* The connector's operation returns.  One that lost its registration was
\* aborted: it is disconnected and its error is not retryable.
EndOperation(r) ==
    /\ wpc = "operation"
    /\ outcome' = IF registered THEN r ELSE "aborted"
    /\ connected' \in (CASE ~registered -> {FALSE} [] r = "ok" -> {TRUE} [] OTHER -> BOOLEAN)
    /\ registered' = FALSE
    /\ wpc' = IF kind[wp] = "connect" THEN "connected" ELSE "executed"
    /\ UNCHANGED <<wp, expected, attempt, retries, started, js, admission, slots, chan,
                   receiver, stopping, gen>>

\* Mutant: the socket timeouts are not applied.
OperationExpiresIfAborted ==
    ~registered /\ \E r \in {"retryable", "final"} : EndOperation(r)

\* The operation ends by itself: it was aborted, or a timeout expired.
OperationExpires ==
    (~registered \/ Timeouts) /\ \E r \in {"retryable", "final"} : EndOperation(r)

\* The operation ends because the peer answers, refuses or hangs up.
OperationAnswered == \E r \in {"ok", "retryable", "final"} : EndOperation(r)

\* The operation panics: complete_operation() fails the promise and stops
\* the worker; the dropped guard clears the registration.
OperationPanics ==
    /\ wpc = "operation" \/ (wpc = "begin" /\ kind[wp] = "exec")
    /\ registered' = FALSE
    /\ reply' = [reply EXCEPT ![wp] = "failed"]
    /\ WGoto("drain")
    /\ UNCHANGED <<wp, js, admission, slot, kind, chan, receiver, stopping, gen>>

\* Sync, Asyn and Receive resolve with the operation's result.
Executed ==
    /\ wpc = "executed"
    /\ Resolve(IF outcome = "ok" THEN "ok" ELSE "failed")
    /\ UNCHANGED <<connected, js, admission, slot, kind, chan, receiver, stopping, gen, registered>>

\* Connect looks at the generation again: a cancelled connect is undone.
\* Otherwise it resolves, or backs off before the next attempt.
Connected ==
    /\ wpc = "connected"
    /\ \/ /\ gen # expected
          /\ connected' = FALSE
          /\ Resolve("failed")
       \/ /\ gen = expected
          /\ outcome = "retryable" /\ attempt < retries
          /\ WGoto("backoff")
          /\ UNCHANGED <<wp, reply>>
       \/ /\ gen = expected
          /\ ~(outcome = "retryable" /\ attempt < retries)
          /\ Resolve(IF outcome = "ok" THEN "ok" ELSE "failed")
          /\ UNCHANGED connected
    /\ UNCHANGED <<js, admission, slot, kind, chan, receiver, stopping, gen, registered>>

\* wait_for_connect_retry(): cancelled, or the deadline is reached.
Backoff ==
    /\ wpc = "backoff"
    /\ \/ /\ gen # expected
          /\ Resolve("failed")
       \/ /\ gen = expected
          /\ wpc' = "attempt"
          /\ attempt' = attempt + 1
          /\ UNCHANGED <<wp, expected, retries, outcome, started, reply>>
    /\ UNCHANGED <<connected, js, admission, slot, kind, chan, receiver, stopping, gen, registered>>

\* The end of run_worker_loop(): the stop flag, then fail_pending(), ...
EnterDrain ==
    /\ wpc = "drain"
    /\ stopping' = TRUE
    /\ WGoto("failing")
    /\ wp' = 0
    /\ UNCHANGED <<js, admission, slots, chan, receiver, gen, registered>>

\* Mutant: placeholders are thrown away without failing their slots.
FailPendingQuietly ==
    /\ wpc = "failing"
    /\ chan # <<>>
    /\ chan' = Tail(chan)
    /\ UNCHANGED <<worker, js, admission, slots, receiver, stopping, gen, registered>>

\* ... which fails one command of the channel after the other, ...
FailPending ==
    /\ wpc = "failing"
    /\ chan # <<>>
    /\ chan' = Tail(chan)
    /\ IF Head(chan) = 0 THEN UNCHANGED <<slot, reply, admission>> ELSE FailSlot(Head(chan))
    /\ UNCHANGED <<worker, js, kind, receiver, stopping, gen, registered>>

\* ... and shuts the connector down.  The receiver goes when run_worker()
\* has called fail_pending() again; what the channel then holds is dropped,
\* which fails every slot.
ShutdownConnector ==
    /\ wpc = "failing"
    /\ chan = <<>>
    /\ connected' = FALSE
    /\ wpc' = "closing"
    /\ UNCHANGED <<wp, expected, attempt, retries, outcome, started, js, admission, slots, chan,
                   receiver, stopping, gen, registered>>

CloseReceiver ==
    /\ wpc = "closing"
    /\ IF chan # <<>>
       THEN /\ chan' = Tail(chan)
            /\ IF Head(chan) = 0 THEN UNCHANGED <<slot, reply, admission>>
               ELSE FailSlot(Head(chan))
            /\ UNCHANGED <<wpc, receiver>>
       ELSE /\ receiver' = FALSE
            /\ wpc' = "done"
            /\ UNCHANGED <<chan, slot, reply, admission>>
    /\ UNCHANGED <<wp, expected, attempt, retries, outcome, connected, started, js, kind,
                   stopping, gen, registered>>

(***************************************************************************)
(* The specification.                                                      *)
(***************************************************************************)
\* Steps of a call the JavaScript thread is in the middle of.
JsStep ==
    \/ ReserveSend \/ ReserveRecheck \/ PrepareFails \/ (\E k \in Kind : Commit(k))
    \/ CancelAbort \/ DropAbort \/ DropSend

JsCall ==
    \/ ReserveAdmit \/ CancelGeneration \/ DropStop
    \/ \E p \in Permit : Take(p)
    \/ \E b \in Size : Charge(b)

WorkerStep ==
    \/ LoopTop \/ Recv \/ WaitSlot \/ Disarm \/ CheckStopping \/ Start \/ Disconnect
    \/ AttemptConnect \/ BeginOperation \/ OperationExpires \/ Executed \/ Connected \/ Backoff
    \/ EnterDrain \/ FailPending \/ ShutdownConnector \/ CloseReceiver

Next ==
    \/ JsStep \/ JsCall \/ (\E p \in Permit : Release(p))
    \/ WorkerStep \/ WithoutOperation \/ OperationAnswered \/ OperationPanics

Spec == Init /\ [][Next]_vars

\* The worker thread runs unless it is blocked; the JavaScript thread runs a
\* call to its end, and q.ts releases every permit in a finally block.
Fairness ==
    /\ WF_vars(WorkerStep)
    /\ WF_vars(JsStep)
    /\ \A p \in Permit : WF_vars(res[p] = "permit" /\ Release(p))

FairSpec == Spec /\ Fairness

(***************************************************************************)
(* Properties.                                                             *)
(***************************************************************************)
TypeOK ==
    /\ jpc \in {"run", "admitted", "sent", "prepared", "cancelling", "dropping", "aborted",
                "gone"}
    /\ jp \in 0..MaxPermits /\ permits \in 0..MaxPermits
    /\ res \in [Permit -> {"none", "permit", "prepared", "command", "dropped"}]
    /\ bytes \in [Permit -> 0..MaxBytes]
    /\ slot \in [Permit -> {"empty", "cancelled", "command"}]
    /\ kind \in [Permit -> AllKind]
    /\ reply \in [Permit -> {"none", "pending", "ok", "failed"}]
    /\ cmds \in 0..CommandCapacity /\ qbytes \in 0..ByteCapacity
    /\ chan \in Seq(0..MaxPermits) /\ Len(chan) <= ChannelCapacity
    /\ receiver \in BOOLEAN /\ stopping \in BOOLEAN /\ registered \in BOOLEAN
    /\ gen \in 0..(MaxCancels + 1) /\ expected \in 0..(MaxCancels + 1)
    /\ wpc \in {"top", "recv", "wait", "disarm", "check", "start", "disconnect", "attempt",
                "begin", "operation", "connected", "executed", "backoff", "drain", "failing",
                "closing", "done"}
    /\ wp \in 0..MaxPermits
    /\ attempt \in Nat /\ retries \in Nat
    /\ outcome \in {"none", "ok", "retryable", "final", "aborted"}
    /\ connected \in BOOLEAN
    /\ started \in Seq(Permit)

\* The sum of a function over 1..n.
SumTo(c, n) ==
    LET sum[i \in 0..n] == IF i = 0 THEN 0 ELSE sum[i - 1] + c[i] IN sum[n]

\* What each reservation alive has charged.
Charged == [p \in Permit |-> IF Live(p) THEN bytes[p] ELSE 0]

\* The shared counters are exactly what the reservations alive add up to,
\* through every path on which one dies: release, failed conversion, failed
\* send, refused commit, the worker's start, the drain of a stopping worker.
AccountsExact ==
    /\ cmds = Cardinality({p \in Permit : Live(p)})
    /\ qbytes = SumTo(Charged, MaxPermits)

Running ==
    wpc \in {"check", "start", "disconnect", "attempt", "begin", "operation", "connected",
             "executed", "backoff"}

\* A promise that is not settled yet belongs to a command the worker will
\* still come to: its slot's placeholder is in the channel or in the
\* worker's hands, or the worker runs it.  No interleaving of a commit with
\* a stopping worker leaves a command behind in a slot nobody looks at.
NoOrphanedReply ==
    \A p \in Permit : reply[p] = "pending" =>
        \/ /\ slot[p] = "command"
           /\ \/ \E i \in 1..Len(chan) : chan[i] = p
              \/ wp = p /\ wpc \in {"wait", "disarm"}
        \/ wp = p /\ Running

\* Commands run in the order of their reservations, not of their commits.
InReservationOrder ==
    \A i, j \in 1..Len(started) : i < j => started[i] < started[j]

\* Every promise is settled, also when the worker panics, when commands
\* are cancelled and when the connector is dropped.
RepliesSettle == \A p \in Permit : reply[p] = "pending" ~> reply[p] \in {"ok", "failed"}

\* Every reservation is given back.
CapacityReturns == \A p \in Permit : Live(p) ~> ~Live(p)

\* Dropping the NativeConnector ends its worker thread.
WorkerStops == jpc = "dropping" ~> wpc = "done"

\* "The cancellation is still remembered, no connection retry follows it"
\* (js-xqdb/README.md): when cancel() was called during a connect command
\* and has returned, that command starts no further attempt.
NoRetryAfterCancel ==
    [][wpc = "begin" /\ wpc' = "operation" /\ kind[wp] = "connect" /\ attempt > 0
          /\ jpc = "run" => gen = expected]_vars
=============================================================================
