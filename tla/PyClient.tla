------------------------------- MODULE PyClient -------------------------------
(***************************************************************************)
(* The Python client: class Q of py-xqdb/xqdb/q.py on XqdbConnector of     *)
(* py-xqdb/src/connector.rs, shared by several Python threads.             *)
(*                                                                         *)
(* Python code runs under the interpreter lock, which may change hands     *)
(* between any two steps; native code gives it up (py.detach) and then     *)
(* waits for the Mutex around the Connector.  A step of Python code needs  *)
(* the interpreter lock to be free; `gil` names a thread that keeps it     *)
(* while it waits for something else.  The sections under                  *)
(* _cancel_condition's lock wait for nothing and are steps of their own;   *)
(* `waiters` is the condition's list of sleeping threads.                  *)
(*                                                                         *)
(* The Connector is reduced to what this layer sees (module Connector has  *)
(* the rest): an operation runs under the Mutex, registers itself with the *)
(* abort handle, and ends well, with an I/O error, with another error, or  *)
(* aborted once its registration was taken; execute() dials by itself.     *)
(* sync() and asyn() are alike here; "property" is symbol_encoding.        *)
(***************************************************************************)
EXTENDS Naturals, FiniteSets

CONSTANTS
    Thread,
    NoThread,
    Clients,       \* programs: the calls their threads make, and whether time
                   \* ends a wait: socket timeouts are configured, and the
                   \* delays between attempts are waited out
    Retries,       \* Q.retries
    MaxCalls       \* bound on the calls made

AllCall == {"connect", "sync", "receive", "property", "cancel", "disconnect"}

ASSUME ClientAssumption == Clients \subseteq [calls : SUBSET AllCall, timeouts : BOOLEAN]
ASSUME ThreadAssumption == NoThread \notin Thread
ASSUME PyBoundAssumption ==
    Retries \in Nat /\ MaxCalls \in Nat

VARIABLES
    client,     \* the program that runs, an element of Clients
    gil,        \* thread that waits without having given the interpreter lock up
    lock,       \* holder of the Mutex around the Connector
    open,       \* the Connector has a connection
    active,     \* thread whose operation is registered with the abort handle
    taken,      \* threads whose operation's registration was taken
    generation, \* _cancel_generation
    waiters,    \* threads asleep on _cancel_condition, not notified yet
    pc, call,   \* where each thread stands in which call
    task,       \* what it wants the Connector for
    mine,       \* the generation _connect_with_retry() began with
    attempt,
    result,     \* what its last native method gave
    late,       \* it was called after the last cancel() and disconnect() returned
    calls

python == <<client, generation, waiters, mine, calls, call>>
native == <<lock, open, active, taken>>
vars == <<gil, python, native, pc, task, result, attempt, late>>

Init ==
    /\ client \in Clients
    /\ gil = NoThread /\ lock = NoThread
    /\ open = FALSE /\ active = NoThread /\ taken = {}
    /\ generation = 0 /\ waiters = {} /\ calls = 0
    /\ pc = [t \in Thread |-> "out"]
    /\ call = [t \in Thread |-> "connect"]
    /\ task = [t \in Thread |-> "none"]
    /\ mine = [t \in Thread |-> 0]
    /\ attempt = [t \in Thread |-> 0]
    /\ result = [t \in Thread |-> "none"]
    /\ late = [t \in Thread |-> FALSE]

\* Thread t runs Python code up to the next point where another may run.
Python(t, at) == pc[t] = at /\ gil = NoThread

Goto(t, at) == pc' = [pc EXCEPT ![t] = at]

\* The call returns or raises.
Leave(t) ==
    /\ Goto(t, "out")
    /\ task' = [task EXCEPT ![t] = "none"]
    /\ result' = [result EXCEPT ![t] = "none"]
    /\ attempt' = [attempt EXCEPT ![t] = 0]
    /\ late' = [late EXCEPT ![t] = FALSE]

\* A native method: detach, and wait for the Mutex.
Native(t, what) ==
    /\ Goto(t, "want")
    /\ task' = [task EXCEPT ![t] = what]
    /\ UNCHANGED <<result, attempt, late>>

Cancelled(t) == generation # mine[t]
Interrupting == {t \in Thread : pc[t] # "out" /\ call[t] \in {"cancel", "disconnect"}}

(***************************************************************************)
(* Q: the calls.                                                           *)
(***************************************************************************)
\* connect() and sync(): _connect_with_retry() notes the generation.
CallConnecting(t, c) ==
    /\ c \in {"connect", "sync"}
    /\ mine' = [mine EXCEPT ![t] = generation]
    /\ Goto(t, "check")
    /\ UNCHANGED <<generation, waiters, task, gil>>

\* receive() goes straight to the Connector.
CallReceive(t, c) ==
    /\ c = "receive"
    /\ Goto(t, "want")
    /\ task' = [task EXCEPT ![t] = c]
    /\ UNCHANGED <<generation, waiters, mine, gil>>

\* Mutant: the Mutex is waited for under the interpreter lock.
CallPropertyAttached(t, c) ==
    /\ c = "property"
    /\ Goto(t, "want")
    /\ task' = [task EXCEPT ![t] = c]
    /\ gil' = t
    /\ UNCHANGED <<generation, waiters, mine>>

\* symbol_encoding: under the Mutex as well, and detached as well.
CallProperty(t, c) ==
    /\ c = "property"
    /\ Goto(t, "want")
    /\ task' = [task EXCEPT ![t] = c]
    /\ UNCHANGED <<generation, waiters, mine, gil>>

\* cancel() and disconnect(): _signal_cancel() first, which counts and
\* notifies under one lock.
CallInterrupt(t, c) ==
    /\ c \in {"cancel", "disconnect"}
    /\ generation' = generation + 1
    /\ waiters' = {}
    /\ Goto(t, "abort")
    /\ UNCHANGED <<mine, task, gil>>

Enter(t, c) ==
    /\ Python(t, "out")
    /\ calls < MaxCalls
    /\ calls' = calls + 1
    /\ call' = [call EXCEPT ![t] = c]
    /\ late' = [s \in Thread |-> IF c \in {"cancel", "disconnect"} THEN FALSE
                                 ELSE IF s = t THEN Interrupting = {} ELSE late[s]]
    /\ \/ CallConnecting(t, c) \/ CallReceive(t, c) \/ CallProperty(t, c)
       \/ CallInterrupt(t, c)
    /\ UNCHANGED <<client, native, result, attempt>>

\* abort(): of XqdbAbortHandle for cancel(), at the head of shutdown() for
\* disconnect() and for the clean-up of a cancelled connection attempt.
Abort(t) ==
    /\ Python(t, "abort")
    /\ active' = NoThread
    /\ taken' = (taken \cup {active}) \ {NoThread}
    /\ IF call[t] = "cancel" THEN Leave(t) ELSE Native(t, "shutdown")
    /\ UNCHANGED <<gil, python, lock, open>>

\* _raise_if_cancelled() before an attempt.
Check(t) ==
    /\ Python(t, "check")
    /\ IF Cancelled(t) THEN Leave(t) ELSE Native(t, "connect")
    /\ UNCHANGED <<gil, python, native>>

\* Mutant: wait() for wait_for(), which sleeps whatever the generation is.
BackoffUnchecked(t) ==
    /\ Python(t, "backoff")
    /\ waiters' = waiters \cup {t} /\ Goto(t, "asleep")
    /\ UNCHANGED <<gil, client, generation, mine, calls, call, native, task, result, attempt, late>>

\* wait_for(): the predicate is looked at under the lock that the sleeper
\* gives up only once it is among the waiters.
Backoff(t) ==
    /\ Python(t, "backoff")
    /\ IF Cancelled(t) THEN Goto(t, "check") /\ UNCHANGED waiters
       ELSE waiters' = waiters \cup {t} /\ Goto(t, "asleep")
    /\ UNCHANGED <<gil, client, generation, mine, calls, call, native, task, result, attempt, late>>

\* notify_all() has struck the sleeper off the list; wait_for() looks again.
Woken(t) ==
    /\ Python(t, "asleep") /\ t \notin waiters
    /\ Goto(t, "backoff")
    /\ UNCHANGED <<gil, python, native, task, result, attempt, late>>

\* Mutant: the delay begins anew when it is over.
DelayRestarts(t) ==
    /\ Python(t, "asleep") /\ t \in waiters
    /\ waiters' = waiters \ {t}
    /\ Goto(t, "backoff")
    /\ UNCHANGED <<gil, client, generation, mine, calls, call, native, task, result, attempt, late>>

\* The delay is over, and so is wait_for(), whatever the predicate says.
DelayOver(t) ==
    /\ Python(t, "asleep") /\ t \in waiters
    /\ waiters' = waiters \ {t}
    /\ Goto(t, "check")
    /\ UNCHANGED <<gil, client, generation, mine, calls, call, native, task, result, attempt, late>>

\* Mutant: a connection made by a cancelled call is kept.
ConnectedKeeping(t) ==
    /\ Python(t, "back") /\ task[t] = "connect" /\ result[t] = "ok"
    /\ IF call[t] = "sync" /\ ~Cancelled(t) THEN Native(t, "sync") ELSE Leave(t)
    /\ UNCHANGED <<gil, python, native>>

\* connect() succeeded.  A cancelled call gives the connection up again and
\* raises; sync() goes on to its request.
Connected(t) ==
    /\ Python(t, "back") /\ task[t] = "connect" /\ result[t] = "ok"
    /\ \/ Cancelled(t) /\ Goto(t, "abort") /\ UNCHANGED <<task, result, attempt, late>>
       \/ ~Cancelled(t) /\ call[t] = "sync" /\ Native(t, "sync")
       \/ ~Cancelled(t) /\ call[t] = "connect" /\ Leave(t)
    /\ UNCHANGED <<gil, python, native>>

\* connect() failed with XqdbIOError: the call was cancelled, this was the
\* last attempt, or there is another one after a delay.
ConnectFailed(t) ==
    /\ Python(t, "back") /\ task[t] = "connect" /\ result[t] \in {"io", "aborted"}
    /\ IF Cancelled(t) \/ attempt[t] = Retries
       THEN Leave(t)
       ELSE /\ Goto(t, "backoff")
            /\ attempt' = [attempt EXCEPT ![t] = @ + 1]
            /\ UNCHANGED <<task, result, late>>
    /\ UNCHANGED <<gil, python, native>>

\* Any other error of connect(), and whatever the other methods give.
Finish(t) ==
    /\ Python(t, "back")
    /\ task[t] = "connect" => result[t] = "error"
    /\ Leave(t)
    /\ UNCHANGED <<gil, python, native>>

(***************************************************************************)
(* XqdbConnector: the native side, without the interpreter lock.           *)
(***************************************************************************)
Lock(t) ==
    /\ pc[t] = "want"
    /\ lock = NoThread
    /\ lock' = t
    /\ Goto(t, "held")
    /\ UNCHANGED <<gil, python, open, active, taken, task, result, attempt, late>>

\* The Mutex is released when the method ends.
Release(t, r) ==
    /\ lock' = NoThread
    /\ Goto(t, "back")
    /\ result' = [result EXCEPT ![t] = r]
    /\ UNCHANGED <<task, attempt, late>>

\* The symbol_encoding getter and setter.
Property(t) ==
    /\ pc[t] = "held" /\ task[t] = "property"
    /\ Release(t, "ok")
    /\ gil' = NoThread
    /\ UNCHANGED <<python, open, active, taken>>

\* Connector::shutdown(); not being connected is no error.
Shutdown(t) ==
    /\ pc[t] = "held" /\ task[t] = "shutdown"
    /\ Release(t, "ok")
    /\ open' = FALSE
    /\ UNCHANGED <<gil, python, active, taken>>

\* Connector::begin_operation().
Begin(t) ==
    /\ pc[t] = "held" /\ task[t] \in {"connect", "sync", "receive"}
    /\ active' = t
    /\ taken' = taken \ {t}
    /\ Goto(t, "io")
    /\ UNCHANGED <<gil, python, lock, open, task, result, attempt, late>>

\* receive() hands out a notification that execute() has buffered.
ReceiveBuffered(t) ==
    /\ pc[t] = "held" /\ task[t] = "receive"
    /\ Release(t, "ok")
    /\ UNCHANGED <<gil, python, open, active, taken>>

\* How an operation may end by itself, and whether a connection is left:
\* connect() keeps one it finds, sync() dials when there is none, receive()
\* needs one.  An error other than an I/O error may leave the connection.
Outcomes(t) ==
    CASE task[t] = "connect" /\ open -> {<<"ok", TRUE>>}
      [] task[t] = "connect" /\ ~open -> {<<"ok", TRUE>>, <<"io", FALSE>>, <<"error", FALSE>>}
      [] task[t] = "receive" /\ ~open -> {<<"error", FALSE>>}
      [] OTHER -> {<<"ok", TRUE>>, <<"io", FALSE>>, <<"error", TRUE>>, <<"error", FALSE>>}

\* finish_operation().
OperationEnds(t) ==
    /\ pc[t] = "io"
    /\ t \notin taken
    /\ \E o \in Outcomes(t) : Release(t, o[1]) /\ open' = o[2]
    /\ active' = NoThread
    /\ UNCHANGED <<gil, python, taken>>

\* finish_operation() after its registration was taken.
OperationAborted(t) ==
    /\ pc[t] = "io"
    /\ t \in taken
    /\ Release(t, "aborted")
    /\ open' = FALSE
    /\ taken' = taken \ {t}
    /\ UNCHANGED <<gil, python, active>>

\* The operation does not depend on the peer, or not for ever.
Unblocked(t) ==
    client.timeouts \/ (task[t] = "connect" /\ open) \/ (task[t] = "receive" /\ ~open)

Step(t) ==
    \/ Abort(t) \/ Check(t) \/ Backoff(t) \/ Woken(t) \/ Connected(t) \/ ConnectFailed(t)
    \/ Finish(t) \/ Lock(t) \/ Property(t) \/ Shutdown(t) \/ Begin(t) \/ OperationAborted(t)
    \/ Unblocked(t) /\ OperationEnds(t)
    \/ client.timeouts /\ DelayOver(t)

Next ==
    \E t \in Thread : \/ Step(t) \/ OperationEnds(t) \/ ReceiveBuffered(t) \/ DelayOver(t)
                      \/ \E c \in client.calls : Enter(t, c)

Spec == Init /\ [][Next]_vars

\* Threads run, and a call of the operating system that no socket belongs to
\* yet (name lookup, TCP connect) ends by itself.  Neither the peer nor the
\* order in which waiting threads get the Mutex is fair beyond that.  Delays
\* and timeouts run out only for clients with client.timeouts, so that what
\* holds of the others is owed to a wake-up and not to the time.
Fairness == \A t \in Thread : WF_vars(Step(t))

FairSpec == Spec /\ Fairness

(***************************************************************************)
(* Properties.                                                             *)
(***************************************************************************)
\* Types of all variables; among them, that no call of connect() makes more
\* than retries additional attempts.
TypeOK ==
    /\ client \in Clients
    /\ gil \in Thread \cup {NoThread} /\ lock \in Thread \cup {NoThread}
    /\ open \in BOOLEAN /\ active \in Thread \cup {NoThread} /\ taken \subseteq Thread
    /\ generation \in 0..MaxCalls /\ calls \in 0..MaxCalls /\ waiters \subseteq Thread
    /\ pc \in [Thread -> {"out", "check", "abort", "backoff", "asleep", "want", "held", "io", "back"}]
    /\ call \in [Thread -> AllCall]
    /\ task \in [Thread -> {"none", "connect", "sync", "receive", "property", "shutdown"}]
    /\ mine \in [Thread -> 0..MaxCalls] /\ attempt \in [Thread -> 0..Retries]
    /\ result \in [Thread -> {"none", "ok", "io", "error", "aborted"}]
    /\ late \in [Thread -> BOOLEAN]

CancelPending == \E s \in Thread : pc[s] = "abort" /\ call[s] = "cancel"

\* cancel() remains callable whatever the other threads wait for, and ends
\* the operation that is running when it aborts, although the peer is silent
\* and no timeout is set.
CancelUnblocks == \A t \in Thread : (pc[t] = "io" /\ CancelPending) ~> pc[t] # "io"

\* py-xqdb/README.md: cancel() "wakes backoff immediately and prevents another
\* attempt for that operation": wherever the thread is between two attempts,
\* about to look at the generation, about to fall asleep or asleep, the
\* wake-up reaches it and its call ends, without the delay running out.
CancelEndsBackoff ==
    \A t \in Thread : (pc[t] \in {"backoff", "asleep"} /\ Cancelled(t)) ~> pc[t] = "out"

\* With timeouts every call returns, disconnect() included, which waits for
\* the Mutex behind threads that may still start operations.
CallsReturn ==
    \A t \in Thread : (pc[t] # "out" /\ client.timeouts) ~> pc[t] = "out"

\* A connection does not survive a disconnect() that overlapped with the
\* connect() that made it, whichever of the two came first to the Mutex.
\* (For clients that do not call sync(), which dials once more if it has to,
\* nor cancel(), which leaves an idle connection alone.)
NothingOutlivesDisconnect ==
    client.calls \cap {"sync", "cancel"} = {} =>
        ((\A t \in Thread : pc[t] = "out" /\ Cancelled(t)) => ~open)

\* py-xqdb/README.md: after cancel() "a later independent call remains
\* usable": nobody aborts a call that was made after the last cancel() and
\* disconnect() had returned.
LaterCallUsable == [][\A t \in Thread : t \in taken' \ taken => ~late[t]]_vars
=============================================================================
