---------------------------- MODULE PyClientProofs ----------------------------
(***************************************************************************)
(* Proofs about PyClient, for every set of threads, every program and      *)
(* every number of calls and retries: types, and that no connection        *)
(* outlives a disconnect() that overlapped with the connect() that made it.*)
(***************************************************************************)
EXTENDS PyClient, TLAPS

(***************************************************************************)
(* The inductive invariant.                                                *)
(***************************************************************************)
\* The generation counts cancel() and disconnect(), which are calls.
CountInv == generation <= calls

\* A thread is in a call its program makes, and asks the Connector for sync()
\* only in a call of sync(); operations are of these three kinds.
CallInv ==
    \A t \in Thread :
        /\ pc[t] # "out" => call[t] \in client.calls
        /\ pc[t] = "out" => task[t] = "none"
        /\ task[t] = "sync" => call[t] = "sync"
        /\ pc[t] = "io" => task[t] \in {"connect", "sync", "receive"}

\* Thread t will close the connection.
Closing(t) ==
    \/ pc[t] = "abort"
    \/ pc[t] \in {"want", "held"} /\ task[t] = "shutdown"

\* Thread t made the connection, and has yet to look at the generation.
Undecided(t) == pc[t] = "back" /\ task[t] = "connect" /\ result[t] = "ok"

\* Whenever there is a connection, there is a thread that has not been
\* cancelled since it connected, or one that will close the connection, or
\* one that will do so if it finds itself cancelled.
OpenInv ==
    client.calls \cap {"sync", "cancel"} = {} /\ open =>
        \E t \in Thread : ~Cancelled(t) \/ Closing(t) \/ Undecided(t)

IInv == TypeOK /\ CountInv /\ CallInv /\ OpenInv

(***************************************************************************)
(* Types.                                                                  *)
(***************************************************************************)
PcSet == {"out", "check", "abort", "backoff", "asleep", "want", "held", "io", "back"}
TaskSet == {"none", "connect", "sync", "receive", "property", "shutdown"}
ResultSet == {"none", "ok", "io", "error", "aborted"}

\* The parts of TypeOK about the calls that threads are in.
ThreadTypes ==
    /\ pc \in [Thread -> PcSet] /\ task \in [Thread -> TaskSet]
    /\ result \in [Thread -> ResultSet] /\ attempt \in [Thread -> 0..Retries]
    /\ late \in [Thread -> BOOLEAN]

\* A call that returns or raises keeps them.
LEMMA LeaveTypes ==
    ASSUME ThreadTypes, NEW t \in Thread, Leave(t)
    PROVE  ThreadTypes'
<1>1. /\ pc' \in [Thread -> PcSet]
      /\ task' \in [Thread -> TaskSet]
      /\ result' \in [Thread -> ResultSet]
  BY DEF ThreadTypes, Leave, Goto, PcSet, TaskSet, ResultSet
<1>2. attempt' \in [Thread -> 0..Retries]
  BY PyBoundAssumption DEF ThreadTypes, Leave
<1>3. late' \in [Thread -> BOOLEAN]
  <2>1. late \in [Thread -> BOOLEAN] /\ FALSE \in BOOLEAN
    BY DEF ThreadTypes
  <2>2. QED
    BY <2>1 DEF Leave
<1>4. QED
  BY <1>1, <1>2, <1>3 DEF ThreadTypes

\* So does a native method that goes to wait for the Mutex,
LEMMA NativeTypes ==
    ASSUME ThreadTypes, NEW t \in Thread, NEW what \in TaskSet, Native(t, what)
    PROVE  ThreadTypes'
<1>1. pc' \in [Thread -> PcSet] /\ task' \in [Thread -> TaskSet]
  BY DEF ThreadTypes, Native, Goto, PcSet, TaskSet
<1>2. QED
  BY <1>1 DEF ThreadTypes, Native

\* one that releases it with a result,
LEMMA ReleaseTypes ==
    ASSUME ThreadTypes, NEW t \in Thread, NEW r \in ResultSet, Release(t, r)
    PROVE  ThreadTypes'
<1>1. pc' \in [Thread -> PcSet] /\ result' \in [Thread -> ResultSet]
  BY DEF ThreadTypes, Release, Goto, PcSet, ResultSet
<1>2. QED
  BY <1>1 DEF ThreadTypes, Release

\* and a step that only moves on.
LEMMA GotoTypes ==
    ASSUME ThreadTypes, NEW t \in Thread, NEW at \in PcSet, Goto(t, at),
           UNCHANGED <<task, result, attempt, late>>
    PROVE  ThreadTypes'
<1>1. pc' \in [Thread -> PcSet]
  BY DEF ThreadTypes, Goto
<1>2. QED
  BY <1>1 DEF ThreadTypes

\* What connect(), sync() and receive() can end with.
LEMMA OutcomeTypes ==
    ASSUME NEW t \in Thread, NEW o \in Outcomes(t)
    PROVE  /\ o[1] \in ResultSet /\ o[2] \in BOOLEAN
           /\ o[2] /\ task[t] = "connect" => o[1] = "ok"
           /\ o[2] /\ task[t] = "receive" => open
<1>1. o \in {<<"ok", TRUE>>, <<"io", FALSE>>, <<"error", TRUE>>, <<"error", FALSE>>}
  BY DEF Outcomes
<1>2. /\ <<"ok", TRUE>>[1] = "ok" /\ <<"io", FALSE>>[1] = "io"
      /\ <<"error", TRUE>>[1] = "error" /\ <<"error", FALSE>>[1] = "error"
  OBVIOUS
<1>3. /\ <<"ok", TRUE>>[2] = TRUE /\ <<"io", FALSE>>[2] = FALSE
      /\ <<"error", TRUE>>[2] = TRUE /\ <<"error", FALSE>>[2] = FALSE
  OBVIOUS
<1>4. o[1] \in ResultSet
  BY <1>1, <1>2, Zenon DEF ResultSet
<1>5. o[2] \in BOOLEAN
  BY <1>1, <1>3, Zenon
<1>6. ASSUME o[2], task[t] = "connect" PROVE o[1] = "ok"
  <2>1. o \in {<<"ok", TRUE>>, <<"io", FALSE>>, <<"error", FALSE>>}
    BY <1>6 DEF Outcomes
  <2>2. QED
    BY <1>2, <1>3, <1>6, <2>1, Zenon
<1>7. ASSUME o[2], task[t] = "receive" PROVE open
  <2>1. ~open => o = <<"error", FALSE>>
    BY <1>7 DEF Outcomes
  <2>2. QED
    BY <1>3, <1>7, <2>1, Zenon
<1>8. QED
  BY <1>4, <1>5, <1>6, <1>7

\* The parts about the interpreter, the Mutex and the Connector.
GlobalTypes ==
    /\ client \in Clients
    /\ gil \in Thread \cup {NoThread} /\ lock \in Thread \cup {NoThread}
    /\ open \in BOOLEAN /\ active \in Thread \cup {NoThread} /\ taken \subseteq Thread
    /\ generation \in 0..MaxCalls /\ calls \in 0..MaxCalls /\ waiters \subseteq Thread
    /\ call \in [Thread -> AllCall] /\ mine \in [Thread -> 0..MaxCalls]

\* The two together are TypeOK.
LEMMA TypeParts ==
    (TypeOK <=> GlobalTypes /\ ThreadTypes) /\ (TypeOK' <=> GlobalTypes' /\ ThreadTypes')
  BY DEF TypeOK, GlobalTypes, ThreadTypes, PcSet, TaskSet, ResultSet

\* A call made by the program keeps the types; its number bounds the
\* generation.
LEMMA EnterTypes ==
    ASSUME TypeOK, CountInv, NEW t \in Thread, NEW k \in client.calls, Enter(t, k)
    PROVE  TypeOK' /\ CountInv'
<1> USE TypeParts
<1>1. k \in AllCall
  BY ClientAssumption DEF GlobalTypes
<1>2. generation \in Nat /\ calls \in Nat /\ calls < MaxCalls /\ calls' = calls + 1
      /\ generation' \in {generation, generation + 1}
  BY PyBoundAssumption
  DEF GlobalTypes, Enter, CallConnecting, CallReceive, CallProperty, CallInterrupt
<1>3. generation' \in 0..MaxCalls /\ calls' \in 0..MaxCalls /\ generation' <= calls'
  BY <1>2, PyBoundAssumption DEF CountInv
<1>4. call' \in [Thread -> AllCall]
  BY <1>1 DEF GlobalTypes, Enter
<1>5. mine' \in [Thread -> 0..MaxCalls]
  BY DEF GlobalTypes, Enter, CallConnecting, CallReceive, CallProperty, CallInterrupt
<1>6. UNCHANGED <<client, gil, lock, open, active, taken>> /\ waiters' \in {{}, waiters}
  BY DEF Enter, CallConnecting, CallReceive, CallProperty, CallInterrupt, native
<1>7. GlobalTypes'
  BY <1>3, <1>4, <1>5, <1>6 DEF GlobalTypes
<1>8. pc' \in [Thread -> PcSet] /\ task' \in [Thread -> TaskSet]
  BY DEF ThreadTypes, Enter, CallConnecting, CallReceive, CallProperty, CallInterrupt,
         Goto, PcSet, TaskSet
<1>9. late' \in [Thread -> BOOLEAN]
  <2> DEFINE v(s) == IF k \in {"cancel", "disconnect"} THEN FALSE
                     ELSE IF s = t THEN Interrupting = {} ELSE late[s]
  <2>1. late' = [s \in Thread |-> v(s)]
    BY DEF Enter
  <2>2. \A s \in Thread : v(s) \in BOOLEAN
    BY Zenon DEF ThreadTypes
  <2> HIDE DEF v
  <2>3. QED
    BY <2>1, <2>2, Zenon
<1>10. ThreadTypes'
  BY <1>8, <1>9 DEF ThreadTypes, Enter
<1>11. QED
  BY <1>3, <1>7, <1>10 DEF CountInv

\* The steps inside a call keep the types.
LEMMA StepTypes ==
    ASSUME TypeOK, CountInv, NEW t \in Thread,
           Step(t) \/ OperationEnds(t) \/ ReceiveBuffered(t) \/ DelayOver(t)
    PROVE  TypeOK' /\ CountInv'
<1> USE TypeParts DEF python, native
<1>1. CASE Abort(t)
  <2>1. GlobalTypes'
    BY <1>1, ThreadAssumption DEF Abort, GlobalTypes
  <2>2. ThreadTypes'
    BY <1>1, LeaveTypes, NativeTypes DEF Abort, TaskSet
  <2>3. QED
    BY <1>1, <2>1, <2>2 DEF Abort, CountInv
<1>2. CASE Check(t)
  <2>1. ThreadTypes'
    BY <1>2, LeaveTypes, NativeTypes DEF Check, TaskSet
  <2>2. QED
    BY <1>2, <2>1 DEF Check, CountInv, GlobalTypes
<1>3. CASE Backoff(t) \/ Woken(t) \/ DelayOver(t)
  <2>1. ThreadTypes'
    BY <1>3, GotoTypes DEF Backoff, Woken, DelayOver, PcSet
  <2>2. waiters' \subseteq Thread
    BY <1>3 DEF Backoff, Woken, DelayOver, GlobalTypes
  <2>3. QED
    BY <1>3, <2>1, <2>2 DEF Backoff, Woken, DelayOver, CountInv, GlobalTypes
<1>4. CASE Connected(t)
  <2>1. ThreadTypes'
    BY <1>4, GotoTypes, LeaveTypes, NativeTypes DEF Connected, TaskSet, PcSet
  <2>2. QED
    BY <1>4, <2>1 DEF Connected, CountInv, GlobalTypes
<1>5. CASE ConnectFailed(t)
  <2>1. ThreadTypes'
    <3>1. CASE Cancelled(t) \/ attempt[t] = Retries
      BY <1>5, <3>1, LeaveTypes DEF ConnectFailed
    <3>2. CASE ~(Cancelled(t) \/ attempt[t] = Retries)
      <4>1. attempt' \in [Thread -> 0..Retries]
        BY <1>5, <3>2, PyBoundAssumption DEF ConnectFailed, ThreadTypes
      <4>2. pc' \in [Thread -> PcSet]
        BY <1>5, <3>2 DEF ConnectFailed, ThreadTypes, Goto, PcSet
      <4>3. UNCHANGED <<task, result, late>>
        BY <1>5, <3>2 DEF ConnectFailed
      <4>4. QED
        BY <4>1, <4>2, <4>3 DEF ThreadTypes
    <3>3. QED
      BY <3>1, <3>2
  <2>2. QED
    BY <1>5, <2>1 DEF ConnectFailed, CountInv, GlobalTypes
<1>6. CASE Finish(t)
  <2>1. ThreadTypes'
    BY <1>6, LeaveTypes DEF Finish
  <2>2. QED
    BY <1>6, <2>1 DEF Finish, CountInv, GlobalTypes
<1>7. CASE Lock(t)
  <2>1. ThreadTypes'
    BY <1>7, GotoTypes DEF Lock, PcSet
  <2>2. QED
    BY <1>7, <2>1 DEF Lock, CountInv, GlobalTypes
<1>8. CASE Property(t) \/ ReceiveBuffered(t)
  <2>1. ThreadTypes'
    BY <1>8, ReleaseTypes DEF Property, ReceiveBuffered, ResultSet
  <2>2. QED
    BY <1>8, <2>1 DEF Property, ReceiveBuffered, Release, CountInv, GlobalTypes
<1>9. CASE Shutdown(t)
  <2>1. ThreadTypes'
    BY <1>9, ReleaseTypes DEF Shutdown, ResultSet
  <2>2. open' \in BOOLEAN /\ lock' \in Thread \cup {NoThread}
    BY <1>9, Zenon DEF Shutdown, Release
  <2>3. QED
    BY <1>9, <2>1, <2>2 DEF Shutdown, CountInv, GlobalTypes
<1>10. CASE Begin(t)
  <2>1. ThreadTypes'
    BY <1>10, GotoTypes DEF Begin, PcSet
  <2>2. QED
    BY <1>10, <2>1 DEF Begin, CountInv, GlobalTypes
<1>11. CASE OperationEnds(t)
  <2>1. PICK o \in Outcomes(t) : Release(t, o[1]) /\ open' = o[2]
    BY <1>11 DEF OperationEnds
  <2>2. o[1] \in ResultSet /\ o[2] \in BOOLEAN
    BY OutcomeTypes
  <2>3. ThreadTypes'
    BY <2>1, <2>2, ReleaseTypes
  <2>4. open' \in BOOLEAN /\ lock' \in Thread \cup {NoThread} /\ active' \in Thread \cup {NoThread}
    BY <1>11, <2>1, <2>2, Zenon DEF Release, OperationEnds
  <2>5. QED
    BY <1>11, <2>3, <2>4 DEF OperationEnds, CountInv, GlobalTypes
<1>12. CASE OperationAborted(t)
  <2>1. ThreadTypes'
    BY <1>12, ReleaseTypes DEF OperationAborted, ResultSet
  <2>2. open' \in BOOLEAN /\ lock' \in Thread \cup {NoThread}
    BY <1>12, Zenon DEF OperationAborted, Release
  <2>3. QED
    BY <1>12, <2>1, <2>2 DEF OperationAborted, CountInv, GlobalTypes
<1>13. QED
  BY <1>1, <1>2, <1>3, <1>4, <1>5, <1>6, <1>7, <1>8, <1>9, <1>10, <1>11, <1>12 DEF Step

(***************************************************************************)
(* The connection.                                                         *)
(***************************************************************************)
\* The variables of the threads are functions on them, before and after.
LEMMA Functions ==
    ASSUME TypeOK, TypeOK'
    PROVE  /\ pc \in [Thread -> PcSet] /\ task \in [Thread -> TaskSet]
           /\ pc' \in [Thread -> PcSet] /\ task' \in [Thread -> TaskSet]
           /\ call \in [Thread -> AllCall] /\ call' \in [Thread -> AllCall]
  BY DEF TypeOK, PcSet, TaskSet

\* A call begins with what it is.
LEMMA EnterCall ==
    ASSUME TypeOK, TypeOK', CallInv, NEW t \in Thread, NEW k \in client.calls, Enter(t, k)
    PROVE  CallInv'
<1>1. /\ call' = [call EXCEPT ![t] = k] /\ pc[t] = "out" /\ client' = client
      /\ \E at \in {"check", "want", "abort"} : pc' = [pc EXCEPT ![t] = at]
      /\ task' = task \/ (k \in {"receive", "property"} /\ task' = [task EXCEPT ![t] = k])
  BY DEF Enter, Python, Goto, CallConnecting, CallReceive, CallProperty, CallInterrupt
<1>2. QED
  BY <1>1, Functions DEF CallInv

\* Inside a call the thread keeps to it.
LEMMA StepCall ==
    ASSUME TypeOK, TypeOK', CallInv, NEW t \in Thread,
           Step(t) \/ OperationEnds(t) \/ ReceiveBuffered(t) \/ DelayOver(t)
    PROVE  CallInv'
<1> USE Functions DEF CallInv, python, native, Python, Goto
<1>1. UNCHANGED <<client, call>>
  BY DEF Step, Abort, Check, Backoff, Woken, DelayOver, Connected, ConnectFailed, Finish, Lock, Property, Shutdown,
         Begin, OperationEnds, OperationAborted, ReceiveBuffered
<1>2. CASE Leave(t)
  BY <1>1, <1>2 DEF Leave
<1>3. CASE pc[t] # "out" /\ UNCHANGED task /\ \E at \in PcSet \ {"out", "io"} : Goto(t, at)
  BY <1>1, <1>3
<1>4. CASE pc[t] # "out" /\ \E what \in TaskSet \ {"sync"} : Native(t, what)
  BY <1>1, <1>4 DEF Native
<1>5. CASE pc[t] # "out" /\ call[t] = "sync" /\ Native(t, "sync")
  BY <1>1, <1>5 DEF Native
<1>6. CASE Abort(t) \/ Check(t) \/ Connected(t) \/ ConnectFailed(t) \/ Finish(t)
  BY <1>2, <1>3, <1>4, <1>5, <1>6
     DEF Abort, Check, Connected, ConnectFailed, Finish, TaskSet, PcSet
<1>7. CASE \/ Backoff(t) \/ Woken(t) \/ DelayOver(t) \/ Lock(t) \/ Property(t) \/ Shutdown(t)
           \/ OperationEnds(t) \/ OperationAborted(t) \/ ReceiveBuffered(t)
  BY <1>3, <1>7 DEF Backoff, Woken, DelayOver, Lock, Property, Shutdown, OperationEnds, OperationAborted,
     ReceiveBuffered, Release, PcSet
<1>8. CASE Begin(t)
  BY <1>1, <1>8 DEF Begin
<1>9. QED
  BY <1>6, <1>7, <1>8 DEF Step

\* A connect() that begins is not cancelled yet, and a disconnect() that
\* begins will close the connection.
LEMMA EnterOpen ==
    ASSUME TypeOK, TypeOK', OpenInv, NEW t \in Thread, NEW k \in client.calls, Enter(t, k)
    PROVE  OpenInv'
<1> SUFFICES ASSUME client.calls \cap {"sync", "cancel"} = {}, open
             PROVE  \E s \in Thread : ~Cancelled(s)' \/ Closing(s)' \/ Undecided(s)'
  BY DEF OpenInv, Enter, native
<1>1. PICK w \in Thread : ~Cancelled(w) \/ Closing(w) \/ Undecided(w)
  BY DEF OpenInv
<1>2. CASE CallInterrupt(t, k)
  <2>1. Closing(t)'
    BY <1>2, Functions DEF CallInterrupt, Goto, Closing
  <2>2. QED
    BY <2>1
<1>3. CASE ~CallInterrupt(t, k)
  <2>1. generation' = generation /\ mine' \in {mine, [mine EXCEPT ![t] = generation]}
    BY <1>3 DEF Enter, CallConnecting, CallReceive, CallProperty
  <2>2. mine \in [Thread -> 0..MaxCalls]
    BY DEF TypeOK
  <2>3. CASE ~Cancelled(w)
    BY <2>1, <2>2, <2>3 DEF Cancelled
  <2>4. CASE Closing(w) \/ Undecided(w)
    <3>1. w # t /\ pc'[w] = pc[w] /\ task'[w] = task[w] /\ result' = result
      BY <2>4, Functions DEF Enter, Python, Goto, CallConnecting, CallReceive, CallProperty,
         CallInterrupt, Closing, Undecided
    <3>2. QED
      BY <2>4, <3>1 DEF Closing, Undecided
  <2>5. QED
    BY <1>1, <2>3, <2>4
<1>4. QED
  BY <1>2, <1>3

\* A connection is kept only while a thread answers for it.
LEMMA StepOpen ==
    ASSUME TypeOK, TypeOK', CallInv, OpenInv, NEW t \in Thread,
           Step(t) \/ OperationEnds(t) \/ ReceiveBuffered(t) \/ DelayOver(t)
    PROVE  OpenInv'
<1> USE DEF python, native
<1>1. UNCHANGED <<client, generation, mine>>
  BY DEF Step, Abort, Check, Backoff, Woken, DelayOver, Connected, ConnectFailed, Finish, Lock, Property, Shutdown,
         Begin, OperationEnds, OperationAborted, ReceiveBuffered
<1> SUFFICES ASSUME client.calls \cap {"sync", "cancel"} = {}, open'
             PROVE  \E s \in Thread : ~Cancelled(s)' \/ Closing(s)' \/ Undecided(s)'
  BY <1>1 DEF OpenInv
<1>2. \A s \in Thread : Cancelled(s)' <=> Cancelled(s)
  BY <1>1 DEF Cancelled
<1>3. \A s \in Thread \ {t} : pc'[s] = pc[s] /\ task'[s] = task[s] /\ result'[s] = result[s]
  <2>1. CASE Leave(t)
    BY <2>1, Functions DEF TypeOK, Leave, Goto
  <2>2. CASE \E what : Native(t, what)
    BY <2>2, Functions DEF TypeOK, Native, Goto
  <2>3. CASE \E r : Release(t, r)
    BY <2>3, Functions DEF TypeOK, Release, Goto
  <2>4. CASE UNCHANGED <<task, result>> /\ \E at : Goto(t, at)
    BY <2>4, Functions DEF TypeOK, Goto
  <2>5. CASE \/ Abort(t) \/ Check(t) \/ Backoff(t) \/ Woken(t) \/ DelayOver(t)
             \/ Connected(t) \/ ConnectFailed(t) \/ Finish(t)
    BY <2>1, <2>2, <2>4, <2>5 DEF Abort, Check, Backoff, Woken, DelayOver, Connected, ConnectFailed, Finish
  <2>6. CASE \/ Lock(t) \/ Property(t) \/ Shutdown(t) \/ Begin(t)
             \/ OperationEnds(t) \/ OperationAborted(t) \/ ReceiveBuffered(t)
    BY <2>3, <2>4, <2>6 DEF Lock, Property, Shutdown, Begin, OperationEnds, OperationAborted,
       ReceiveBuffered
  <2>7. QED
    BY <2>5, <2>6 DEF Step
<1>4. CASE ~open
  <2>1. OperationEnds(t)
    BY <1>4 DEF Step, Abort, Check, Backoff, Woken, DelayOver, Connected, ConnectFailed, Finish, Lock, Property,
       Shutdown, Begin, OperationAborted, ReceiveBuffered
  <2>2. PICK o \in Outcomes(t) : Release(t, o[1]) /\ open' = o[2]
    BY <2>1 DEF OperationEnds
  <2>3. task[t] \in {"connect", "receive"}
    BY <2>1 DEF OperationEnds, CallInv
  <2>4. o[2]
    BY <2>2
  <2>5. task[t] = "connect" /\ o[1] = "ok"
    BY <1>4, <2>3, <2>4, OutcomeTypes
  <2>6. Undecided(t)'
    BY <2>2, <2>5, Functions DEF TypeOK, Release, Goto, Undecided
  <2>7. QED
    BY <2>6
<1>5. CASE open
  <2>1. PICK w \in Thread : ~Cancelled(w) \/ Closing(w) \/ Undecided(w)
    BY <1>1, <1>5 DEF OpenInv
  <2>2. CASE w # t \/ ~Cancelled(w)
    BY <1>2, <1>3, <2>1, <2>2 DEF Closing, Undecided
  <2>3. CASE w = t /\ Cancelled(t)
    <3>1. CASE pc[t] = "abort"
      <4>1. call[t] # "cancel"
        BY <3>1 DEF CallInv
      <4>2. Native(t, "shutdown")
        BY <3>1, <4>1 DEF Step, Abort, Check, Backoff, Woken, DelayOver, Connected, ConnectFailed, Finish, Lock,
           Property, Shutdown, Begin, OperationEnds, OperationAborted, ReceiveBuffered, Python
      <4>3. Closing(t)'
        BY <4>2, Functions DEF Native, Goto, Closing
      <4>4. QED
        BY <4>3
    <3>2. CASE pc[t] = "want" /\ task[t] = "shutdown"
      <4>1. Lock(t)
        BY <3>2 DEF Step, Abort, Check, Backoff, Woken, DelayOver, Connected, ConnectFailed, Finish,
           Property, Shutdown, Begin, OperationEnds, OperationAborted, ReceiveBuffered, Python
      <4>2. Closing(t)'
        BY <3>2, <4>1, Functions DEF Lock, Goto, Closing
      <4>3. QED
        BY <4>2
    <3>3. ~(pc[t] = "held" /\ task[t] = "shutdown")
      BY DEF Step, Abort, Check, Backoff, Woken, DelayOver, Connected, ConnectFailed, Finish, Lock,
         Property, Shutdown, Begin, OperationEnds, OperationAborted, ReceiveBuffered, Python
    <3>4. CASE Undecided(t)
      <4>1. Connected(t)
        BY <3>4 DEF Step, Abort, Check, Backoff, Woken, DelayOver, ConnectFailed, Finish, Lock, Undecided,
           Property, Shutdown, Begin, OperationEnds, OperationAborted, ReceiveBuffered, Python
      <4>2. Closing(t)'
        BY <2>3, <4>1, Functions DEF Connected, Goto, Closing
      <4>3. QED
        BY <4>2
    <3>5. QED
      BY <2>1, <2>3, <3>1, <3>2, <3>3, <3>4 DEF Closing
  <2>4. QED
    BY <2>2, <2>3
<1>6. QED
  BY <1>4, <1>5

\* The inductive invariant holds of every reachable state.
LEMMA Inductive == Spec => []IInv
<1>1. Init => IInv
  <2> SUFFICES ASSUME Init PROVE IInv
    OBVIOUS
  <2>1. GlobalTypes
    <3>1. gil \in Thread \cup {NoThread} /\ lock \in Thread \cup {NoThread}
          /\ open \in BOOLEAN /\ active \in Thread \cup {NoThread} /\ taken \subseteq Thread
          /\ client \in Clients /\ waiters \subseteq Thread
      BY Zenon DEF Init
    <3>2. generation \in 0..MaxCalls /\ calls \in 0..MaxCalls /\ mine \in [Thread -> 0..MaxCalls]
      BY PyBoundAssumption DEF Init
    <3>3. call \in [Thread -> AllCall]
      BY DEF Init, AllCall
    <3>4. QED
      BY <3>1, <3>2, <3>3 DEF GlobalTypes
  <2>2. ThreadTypes
    <3>1. /\ pc \in [Thread -> PcSet]
          /\ task \in [Thread -> TaskSet]
          /\ result \in [Thread -> ResultSet]
      BY DEF Init, PcSet, TaskSet, ResultSet
    <3>2. attempt \in [Thread -> 0..Retries]
      BY PyBoundAssumption DEF Init
    <3>3. late \in [Thread -> BOOLEAN]
      BY Zenon DEF Init
    <3>4. QED
      BY <3>1, <3>2, <3>3 DEF ThreadTypes
  <2>3. CountInv /\ CallInv
    BY DEF Init, CountInv, CallInv
  <2>4. OpenInv
    BY Zenon DEF Init, OpenInv
  <2>5. QED
    BY <2>1, <2>2, <2>3, <2>4, TypeParts DEF IInv
<1>2. IInv /\ [Next]_vars => IInv'
  <2> SUFFICES ASSUME IInv, [Next]_vars PROVE IInv'
    OBVIOUS
  <2>1. CASE UNCHANGED vars
    <3>1. GlobalTypes' /\ ThreadTypes'
      BY <2>1, TypeParts DEF IInv, vars, python, native, GlobalTypes, ThreadTypes
    <3>2. CountInv' /\ CallInv' /\ OpenInv'
      BY <2>1
      DEF IInv, vars, python, native, CountInv, CallInv, OpenInv, Cancelled, Closing, Undecided
    <3>3. QED
      BY <3>1, <3>2, TypeParts DEF IInv
  <2>2. CASE \E t \in Thread : Step(t) \/ OperationEnds(t) \/ ReceiveBuffered(t) \/ DelayOver(t)
    BY <2>2, StepTypes, StepCall, StepOpen DEF IInv
  <2>3. CASE \E t \in Thread : \E k \in client.calls : Enter(t, k)
    BY <2>3, EnterTypes, EnterCall, EnterOpen DEF IInv
  <2>4. QED
    BY <2>1, <2>2, <2>3 DEF Next
<1>3. QED
  BY <1>1, <1>2, PTL DEF Spec

(***************************************************************************)
(* The theorems.                                                           *)
(***************************************************************************)
\* Types: among them that a call of connect() makes at most `retries`
\* additional attempts, however cancel() and other calls interfere.
THEOREM Types == Spec => []TypeOK
<1>1. IInv => TypeOK
  BY DEF IInv
<1>2. QED
  BY <1>1, Inductive, PTL

\* Once all calls have returned and a disconnect() was called after every
\* connect(), there is no connection, whichever of them came first to the
\* Mutex and wherever each of them was interrupted.
THEOREM DisconnectWins == Spec => []NothingOutlivesDisconnect
<1>1. IInv => NothingOutlivesDisconnect
  BY DEF IInv, OpenInv, NothingOutlivesDisconnect, Closing, Undecided
<1>2. QED
  BY <1>1, Inductive, PTL
=============================================================================
