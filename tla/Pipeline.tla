------------------------------- MODULE Pipeline -------------------------------
(***************************************************************************)
(* crates/xqdb/src/pipeline.rs: a table frame is decoded while it is still *)
(* being received.  The reader (read_remaining) writes the socket's bytes  *)
(* into a buffer and publishes how many are in place; the scanner          *)
(* (scan_columns) walks the columns as far as the published bytes allow    *)
(* and spawns one decode task per complete column.  All three are tasks of *)
(* a rayon scope on a pool of a few threads; the reader is the scope's     *)
(* own closure, so it holds a thread from the start.                       *)
(*                                                                         *)
(* A body is described by its layout: the sections are the name list and   *)
(* then the columns.  Section k starts at byte `start`, its end can be     *)
(* computed once `known` bytes of the body are there (a fixed-width list   *)
(* is known from its count, a symbol list only at its last terminator),    *)
(* and it occupies the bytes up to `end`.  `flaw` says what its decoding   *)
(* does.                                                                   *)
(***************************************************************************)
EXTENDS Naturals, Sequences, FiniteSets

CONSTANTS
    Total,      \* body_length
    Prefix,     \* bytes received before receive_table() was entered
    Layout,     \* the layouts a body may have
    PoolSize    \* the sizes the rayon pool may have

Section == [start : Nat, known : Nat, end : Nat, flaw : {"none", "error", "panic"}]

ASSUME SizeAssumption == Total \in Nat /\ Prefix \in 1..(Total - 1)
ASSUME PoolAssumption == PoolSize \subseteq Nat \ {0}
ASSUME LayoutAssumption ==
    \A l \in Layout :
        /\ l \in Seq(Section) /\ l # <<>>
        /\ \A i \in 1..Len(l) : l[i].start < l[i].known /\ l[i].known <= l[i].end
        /\ \A i, j \in 1..Len(l) : i < j => l[i].end <= l[j].start

VARIABLES
    layout,      \* the body that arrives
    threads,     \* threads of the pool
    received,    \* Progress.received
    failed,      \* Progress.failed
    filled,      \* the reader's local count: it writes only beyond it
    rpc,         \* the reader: "read", "publish", "fail", "notify", "done"
    io,          \* io_result
    spc,         \* the scanner
    k,           \* the section it is in
    count,       \* the bytes it last saw published
    need,        \* the bytes it waits for
    asleep,      \* it waits on the condition variable
    names,       \* what scan_columns returned
    task,        \* the decode task of each column section
    result       \* what receive_table returned

fixed == <<layout, threads>>
reader == <<filled, rpc, io>>
scanner == <<spc, k, count, need, names>>
vars == <<fixed, received, failed, reader, scanner, asleep, task, result>>

\* Tasks that hold a thread of the pool.
Busy ==
    (IF rpc # "done" THEN 1 ELSE 0)
      + (IF spc \notin {"spawned", "done"} THEN 1 ELSE 0)
      + Cardinality({i \in DOMAIN task : task[i] = "running"})

Init ==
    /\ layout \in Layout /\ threads \in PoolSize
    /\ received = Prefix /\ failed = FALSE
    /\ filled = Prefix /\ rpc = "read" /\ io = "none"
    /\ spc = "spawned" /\ k = 1 /\ count = 0 /\ need = 0
    /\ asleep = FALSE /\ names = "none"
    /\ task = [i \in 2..Len(layout) |-> "none"]
    /\ result = "none"

(***************************************************************************)
(* The reader.                                                             *)
(***************************************************************************)
\* stream.read() returned bytes; they are in the buffer, not published yet.
ReadSome(n) ==
    /\ rpc = "read"
    /\ filled < Total
    /\ filled + n <= Total
    /\ filled' = filled + n
    /\ rpc' = "publish"
    /\ UNCHANGED <<fixed, received, failed, io, scanner, asleep, task, result>>

\* publish(): the count under the lock, the notification after it.
Publish ==
    /\ rpc = "publish"
    /\ received' = filled
    /\ rpc' = "notify"
    /\ UNCHANGED <<fixed, failed, filled, io, scanner, asleep, task, result>>

\* stream.read() returned 0 or an error.
ReadFails ==
    /\ rpc = "read"
    /\ filled < Total
    /\ rpc' = "fail"
    /\ UNCHANGED <<fixed, received, failed, filled, io, scanner, asleep, task, result>>

\* Mutant: fail() does not notify.
FailQuietly ==
    /\ rpc = "fail"
    /\ failed' = TRUE
    /\ io' = "error"
    /\ rpc' = "done"
    /\ UNCHANGED <<fixed, received, filled, scanner, asleep, task, result>>

\* fail(), under the lock.
Fail ==
    /\ rpc = "fail"
    /\ failed' = TRUE
    /\ io' = "error"
    /\ rpc' = "notify"
    /\ UNCHANGED <<fixed, received, filled, scanner, asleep, task, result>>

\* notify_all(), at the end of publish() and of fail().
Notify ==
    /\ rpc = "notify"
    /\ asleep' = FALSE
    /\ rpc' = IF io = "error" THEN "done" ELSE "read"
    /\ UNCHANGED <<fixed, received, failed, filled, io, scanner, task, result>>

\* read_remaining() has the whole body.
ReadDone ==
    /\ rpc = "read"
    /\ filled = Total
    /\ io' = "ok"
    /\ rpc' = "done"
    /\ UNCHANGED <<fixed, received, failed, filled, scanner, asleep, task, result>>

(***************************************************************************)
(* The scanner.                                                            *)
(***************************************************************************)
WaitFor(n, l) == spc' = l /\ need' = n

ScanError ==
    /\ names' = "error"
    /\ spc' = "done"

\* A thread of the pool takes the scanner task.
StartScanner ==
    /\ spc = "spawned"
    /\ Busy < threads
    /\ spc' = "snapshot"
    /\ UNCHANGED <<fixed, received, failed, reader, k, count, need, names, asleep, task, result>>

\* scan_to_end() begins with what is there.
Snapshot ==
    /\ spc = "snapshot"
    /\ IF failed THEN ScanError /\ UNCHANGED count
       ELSE spc' = "scan" /\ count' = received /\ UNCHANGED names
    /\ UNCHANGED <<fixed, received, failed, reader, k, need, asleep, task, result>>

\* ListScan::advance() over `count` bytes: incomplete, overrun or the end.
Advance ==
    /\ spc = "scan"
    /\ \/ /\ count < layout[k].known
          /\ WaitFor(count + 1, "more")
          /\ UNCHANGED names
       \/ /\ count >= layout[k].known
          /\ layout[k].end > Total
          /\ ScanError
          /\ UNCHANGED need
       \/ /\ count >= layout[k].known
          /\ layout[k].end <= Total
          /\ WaitFor(layout[k].end, "end")
          /\ UNCHANGED names
    /\ UNCHANGED <<fixed, received, failed, reader, k, count, asleep, task, result>>

Waiting == spc \in {"more", "end", "type", "last"} /\ ~asleep

\* wait_for(): more than the frame holds.
WaitTooFar ==
    /\ Waiting
    /\ need > Total
    /\ ScanError
    /\ UNCHANGED <<fixed, received, failed, reader, k, count, need, asleep, task, result>>

\* wait_for(): not there yet; the check and the sleep are one step under the
\* lock.
Sleep ==
    /\ Waiting
    /\ need <= Total
    /\ received < need /\ ~failed
    /\ asleep' = TRUE
    /\ UNCHANGED <<fixed, received, failed, reader, scanner, task, result>>

\* wait_for(): the receipt failed, whatever has arrived.
WaitFailed ==
    /\ Waiting
    /\ need <= Total
    /\ failed
    /\ ScanError
    /\ UNCHANGED <<fixed, received, failed, reader, k, count, need, asleep, task, result>>

\* Mutant: the slice is taken before its bytes are in place.
ReadyEarly(l) ==
    /\ spc = l /\ ~asleep
    /\ need <= Total
    /\ ~failed
    /\ count' = received
    /\ UNCHANGED <<fixed, received, failed, reader, asleep, result>>

\* The bytes wait_for() waited for are there.
Ready(l) ==
    /\ spc = l /\ ~asleep
    /\ need <= Total
    /\ ~failed
    /\ received >= need
    /\ count' = received
    /\ UNCHANGED <<fixed, received, failed, reader, asleep, result>>

MoreArrived ==
    /\ Ready("more")
    /\ spc' = "scan"
    /\ UNCHANGED <<k, need, names, task>>

\* To the next column's type byte, or to the end of the body.
NextSection ==
    /\ k' = k + 1
    /\ IF k < Len(layout) THEN WaitFor(layout[k + 1].start + 1, "type")
       ELSE WaitFor(Total, "last")

\* A whole section is there.  The name list is decoded on the spot; a column
\* is handed to a new task.
SectionArrived ==
    /\ Ready("end")
    /\ IF k = 1 /\ layout[1].flaw # "none"
       THEN /\ names' = layout[1].flaw
            /\ spc' = "done"
            /\ UNCHANGED <<k, need, task>>
       ELSE /\ task' = IF k = 1 THEN task ELSE [task EXCEPT ![k] = "spawned"]
            /\ NextSection
            /\ UNCHANGED names

TypeArrived ==
    /\ Ready("type")
    /\ spc' = "snapshot"
    /\ UNCHANGED <<k, need, names, task>>

\* The whole body is there: it must end where the last column does.
ScanDone ==
    /\ Ready("last")
    /\ names' = IF layout[Len(layout)].end = Total THEN "ok" ELSE "error"
    /\ spc' = "done"
    /\ UNCHANGED <<k, need, task>>

(***************************************************************************)
(* Decode tasks and the end of the scope.                                  *)
(***************************************************************************)
StartDecode(i) ==
    /\ task[i] = "spawned"
    /\ Busy < threads
    /\ task' = [task EXCEPT ![i] = "running"]
    /\ UNCHANGED <<fixed, received, failed, reader, scanner, asleep, result>>

EndDecode(i) ==
    /\ task[i] = "running"
    /\ task' = [task EXCEPT ![i] = IF layout[i].flaw = "none" THEN "ok" ELSE layout[i].flaw]
    /\ UNCHANGED <<fixed, received, failed, reader, scanner, asleep, result>>

\* Mutant: an error of the scanner is returned before the I/O outcome.
JoinDecodeFirst ==
    /\ result = "none"
    /\ rpc = "done" /\ spc = "done"
    /\ \A i \in DOMAIN task : task[i] \notin {"spawned", "running"}
    /\ result' = IF names # "ok" \/ \E i \in DOMAIN task : task[i] # "ok" THEN "malformed"
                 ELSE IF io = "error" THEN "io" ELSE "table"
    /\ UNCHANGED <<fixed, received, failed, reader, scanner, asleep, task>>

\* The scope joins every task; then the I/O outcome decides first, a panic
\* or an error of the scanner or of a column next.  A panic of the scanner
\* leaves `names` unset.
Join ==
    /\ result = "none"
    /\ rpc = "done" /\ spc = "done"
    /\ \A i \in DOMAIN task : task[i] \notin {"spawned", "running"}
    /\ result' = IF io = "error" THEN "io"
                 ELSE IF names = "ok" /\ \A i \in DOMAIN task : task[i] = "ok"
                      THEN "table" ELSE "malformed"
    /\ UNCHANGED <<fixed, received, failed, reader, scanner, asleep, task>>

(***************************************************************************)
(* The specification.                                                      *)
(***************************************************************************)
ReaderStep == Publish \/ Fail \/ Notify \/ ReadDone

ScannerStep ==
    \/ StartScanner \/ Snapshot \/ Advance \/ WaitTooFar \/ Sleep \/ WaitFailed
    \/ MoreArrived \/ SectionArrived \/ TypeArrived \/ ScanDone

Next ==
    \/ \E n \in 1..Total : ReadSome(n)
    \/ ReadFails \/ ReaderStep
    \/ ScannerStep
    \/ \E i \in DOMAIN task : StartDecode(i) \/ EndDecode(i)
    \/ Join

Spec == Init /\ [][Next]_vars

\* Every read returns in the end (bytes, end of stream, a timeout or an
\* abort), and the threads of the pool keep running their tasks.
Fairness ==
    /\ WF_vars((\E n \in 1..Total : ReadSome(n)) \/ ReadFails)
    /\ WF_vars(ReaderStep)
    /\ WF_vars(ScannerStep)
    /\ WF_vars(\E i \in DOMAIN task : StartDecode(i) \/ EndDecode(i))
    /\ WF_vars(Join)

FairSpec == Spec /\ Fairness

(***************************************************************************)
(* Properties.                                                             *)
(***************************************************************************)
TypeOK ==
    /\ layout \in Layout /\ threads \in PoolSize
    /\ received \in 0..Total /\ filled \in 0..Total
    /\ failed \in BOOLEAN /\ asleep \in BOOLEAN
    /\ rpc \in {"read", "publish", "fail", "notify", "done"}
    /\ io \in {"none", "ok", "error"}
    /\ spc \in {"spawned", "snapshot", "scan", "more", "end", "type", "last", "done"}
    /\ k \in 1..(Len(layout) + 1)
    /\ count \in 0..Total /\ need \in Nat
    /\ names \in {"none", "ok", "error", "panic"}
    /\ task \in [2..Len(layout) -> {"none", "spawned", "running", "ok", "error", "panic"}]
    /\ result \in {"none", "io", "table", "malformed"}

\* The reader writes only beyond `filled`; the scanner and the decode tasks
\* read only below it: the slice the scanner looks at, and every column a
\* task was given, are bytes the reader published and will not touch again.
ReadersBelowWriter ==
    /\ received <= filled
    /\ count <= received
    /\ \A i \in DOMAIN task : task[i] # "none" => layout[i].end <= received

Good(l) ==
    /\ l[Len(l)].end = Total
    /\ \A i \in 1..Len(l) : l[i].flaw = "none"

\* Overlapping the decoding with the receipt changes nothing: the pipeline
\* implements receiving the whole body and decoding it then.
WholeFrame == INSTANCE FrameReceipt WITH good <- Good(layout)
ReceivesLikeWholeFrame == WholeFrame!Spec

\* No wake-up is lost and no thread of the pool waits for another for good:
\* receive_table() returns, also on a pool of one thread.
Returns == <>(result # "none")
=============================================================================
