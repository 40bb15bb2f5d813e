# xqdb: a TLA+ development

xqdb is a client for q (kdb+): a Rust crate (`crates/xqdb`) that speaks the q
IPC protocol, a Node binding (`bindings/napi-xqdb`, `js-xqdb`) and a Python
binding (`py-xqdb`). This directory holds TLA+ models of its concurrent and
stateful parts and of its value codec, TLC configurations that check them on
small instances, and TLAPS proofs for every value of the constants. `PROJECT.json` maps each
definition to the lines it models.

## The system and its parts

| Part | State | Operations | What makes it correct |
|---|---|---|---|
| Connector (`connector.rs`) | socket handles, abort registry, buffered notifications, settings | connect, execute, execute_async, send, receive, shutdown, configure, drop; `abort()` from any thread | an answer goes to the call that asked; a kept connection is reusable; cancellation unblocks and never hits a later connection |
| Receive buffer (`connector.rs`) | a `Vec<u8>` kept between frames | reserve, grow, raw reads, hand over, release, drop | raw reads stay in initialized memory; memory follows delivery |
| Pipelined receipt (`pipeline.rs`) | shared body, published byte count, decode tasks | read and publish, scan, decode, join | same result as decoding the whole frame; readers below the writer; it returns |
| Compression (`serde6.rs`) | the two sides' dictionaries | compress, decompress | round trip; no write beyond the scratch buffer; no read of undecoded bytes |
| List scan (`serde6.rs`) | place, rows and symbols left, the rows' type | new, advance, resumed as bytes arrive | the end it finds does not depend on how the bytes arrived |
| Value codec (`serde6.rs`, `types.rs`) | none | j6_len, serialize, deserialize | sizes agree with what is written; what is sent is read back; nothing is read in part; text is UTF-8 |
| Lossless values (`qvalue.rs`) | the wire bytes, their type, count, depth | parse, atom, list, dictionary | accepts exactly the values within the nesting limit |
| Framing (`connector.rs`, `io.rs`) | none | make a request or a message, check a header | a header's length is the body's |
| Node command queue (`worker.rs`, `admission.rs`) | slots, channel, admission counters, cancel generation, worker thread | reserve, release, commit, cancel, drop; the worker loop with connect retries | counters exact; every promise settles; commands run in order of reservation; the worker stops |
| Node facade (`js-xqdb/src`) | promises and permits | connect, sync, asyn, receive, disconnect | permits are released on every path |
| Python client (`py-xqdb`) | a connector behind a Mutex, a cancel generation | connect with retries, sync, asyn, receive, cancel, disconnect, from several threads | cancellation always gets through; a disconnect is final; calls return |
| Conversions (`dto.rs`, `py-xqdb/src/connector.rs`, `arrow.rs`, `*.ts`, `*.py`) | the snapshot's budget and ancestors | values to and from K | copies are paid for and finite; a returned object stands for the value |
| kdb+ files (`io.rs`) | none | read a file, decompress its blocks | lengths and offsets are checked |

How they interact. The Node worker thread owns a Connector and calls it; the
JavaScript thread only sends it commands and calls the abort handle. The
Connector writes and reads frames; a frame body goes into the receive buffer,
or, when it is a large table in native mode, through the pipeline, whose reader
runs on the calling thread while scanner and decode tasks run on the rayon
pool. Cancellation is the one operation that reaches into a running call from
another thread: it takes the registration of the active operation under a
lock, releases the lock and then shuts the operation's socket down. The Python
client may be used by several threads at once; they queue for a Mutex around
the Connector after they have given the interpreter lock up. Arguments come to
the Connector as values K: Node's binding copies the caller's objects under a
budget that the queue's reservation pays, Python's walks them, and both bound
depth and refuse cycles. `send_inner()` sizes the values, writes a header with
that size and serializes; on the way back a frame's body is decoded to K, or
kept as its bytes when the connection is lossless, and converted to the host's
objects. `io.rs` offers the same steps for messages without a connection.

Hard behaviours: the order of cancellation, registration, socket creation and
completion; late answers after time-outs; notifications that arrive between a
request and its answer; the stop of the worker while commands are being
committed; the sleeping scanner; a buffer with uninitialized capacity;
dictionaries that two programs must keep in step; a scan that stops anywhere
and goes on later; two passes over a value that must agree to the byte; five
counts of depth; numbers of the wire that stand for no number; objects that
change while they are copied. They are listed line by line
under `hazards` in `PROJECT.json`.

## Modules

| Module | Models | Run by |
|---|---|---|
| `Connector` | `connector.rs`: operations, abort handle, peer | `MCConnector` |
| `ConnectorProofs` | theorems about `Connector` | `tlapm` |
| `ReceiveBuffer` | `connector.rs`: the retained buffer | `MCReceiveBuffer` |
| `ReceiveBufferProofs` | theorems about `ReceiveBuffer` | `tlapm` |
| `FrameReceipt` | abstract: receive a whole frame, then decode | as a property of `MCPipeline` |
| `Pipeline` | `pipeline.rs`: reader, scanner, decode tasks, pool | `MCPipeline` |
| `PipelineProofs` | theorems about `Pipeline` and `FrameReceipt` | `tlapm` |
| `Compression` | `serde6.rs`: compress and decompress, and the bounds of `connector.rs` | `MCCompression` |
| `CompressionProofs` | theorems about `Compression` | `tlapm` |
| `Worker` | `worker.rs`, `admission.rs` | `MCWorker` |
| `WorkerProofs` | theorems about `Worker` | `tlapm` |
| `PyClient` | `q.py` and the locking of `py-xqdb/src/connector.rs` | `MCPyClient` |
| `PyClientProofs` | theorems about `PyClient` | `tlapm` |
| `Wire` | `serde6.rs`: counts, terminators and the layout of a list | `MCListScan`, `MCValues` |
| `ListScan` | `serde6.rs`: the resumable scan, `pipeline.rs`: its driver | `MCListScan` |
| `ListScanProofs` | theorems about `ListScan` and `Wire`'s list layout | `tlapm` |
| `InductionLemmas` | induction and recursion over the naturals, stated with sets and functions | `tlapm` |
| `QValue` | `qvalue.rs` | `MCValues` |
| `KValue` | `types.rs`: the values K, their sizes and type codes | `MCValues` |
| `Serde6` | `serde6.rs`: serialize and deserialize | `MCValues` |
| `Bindings` | `dto.rs` and `py-xqdb/src/connector.rs`: conversions | `MCValues` |
| `ValuePath` | the snapshot, framing and decoding, which compose the five above | `MCValues` |

Definitions whose comment begins with "Mutant" are deliberately wrong variants
of the definition that follows them. No specification uses them; each shows
that some property would notice that mistake.

### Connector

One owner thread runs one operation at a time (`pc` is where it stands, `kind`
which operation it is). Sockets are numbered in the order they are dialled.
The abort registry is `active` and `nextId`, with ids that wrap at `IdModulus`
(`u64` in the code, 2 in the instance, so that wrapping happens). A canceller
has two steps, as `abort()` has: `AbortTake` under the lock, `AbortShutdown`
after it, and anything may happen in between. `stream` and `tcp` are the two
handles the code keeps to the same socket. The line is `wire` (frames on their way to us),
`unanswered` (requests q has not answered), `torn` (a frame has been read or
written in part). q is external: it answers in order, notifies, sends
unsupported requests, damages frames or values, hangs up, or is silent.
`execute()` and `execute_async()` dial by themselves when there is no
connection. An answer carries the number of the call it belongs to, so
`OwnReply` can tell answers apart; a payload is otherwise abstracted away.
The bare `send(Sync)` is part of the interface and leaves its answer to the
next reader; connections that carried one are recorded in `raw` and exempted.
`NotificationsInOrder` is stated with what the caller was handed followed by
what is buffered (`Got`) and the last number among these on one connection
(`LastOn`): on every connection the numbers are consecutive from one, an older
connection's come before a newer one's, and what is still on the wire goes on
where `Got` stops. `BufferOutlivesConnection` says of the same sequence that no
step ever shortens or changes it: an overflow, a timeout, an abort, a shutdown
or a lower limit ends the connection, and nothing that was read from it is lost.

### ReceiveBuffer

Bytes are counted, not stored. `init` is the initialized prefix of the
capacity. The constants are the code's constants; an instance makes them small
enough for growth to take several steps and for a frame to exceed the
retention limit.

### Pipeline and FrameReceipt

A body is a layout of sections; a section says where it starts, when its end
becomes known and what decoding it does (succeed, fail, panic);
`LayoutAssumption` says that sections follow one another and that an end is
known only from bytes between the section's start and that end. The pool has
`threads` threads and the reader holds one; with one thread the scanner starts
only after the reader has finished. Locking is modelled where it
matters: the check and the sleep of `wait_for()` are one step, `publish()` and
its notification are two. `ReceivesLikeWholeFrame` is the refinement: with
`received` mapped to the reader's bytes and `result` to what `receive_table()`
returned, `Pipeline` implements `FrameReceipt`.

### Compression

Written for a byte of `Bits` bits, since everything else (units per group,
longest run, dictionary size) follows from the width; `TwoTo` has the powers of
two. `RatioAssumption` is what `MAX_COMPRESSION_RATIO` was chosen by: 8 runs of
257 bytes come from 17 bytes, and 8 * 257 <= 121 * 17. One action per unit. The
exclusive or is a constant operator, given by the model-checking module.
`Hashed` states what the loop over `hash_position..hash_end` leaves in the
dictionary (the last position of each pair), `Copied` what the overlapping
copy leaves in the destination.

### Worker

`res` is the owner of each reservation, `slot` the state of its placeholder,
`chan` the channel (0 is Stop). The JavaScript thread's steps are `Reserve*`,
`Release`, `Commit`, `PrepareFails`, `Cancel*`, `Drop*`; each multi-step call
is broken where another thread can intervene. The Connector is reduced to what
the worker sees: an operation becomes abortable some time after the worker
decided to run it and ends with success, a retryable or final error, or a
panic. `Charged` is what a set of reservations holds of a counter, a sum over
their numbers (`SumTo`, a recursive function). Garbage collection of an unused
permit is the same step as its release.

### PyClient

A thread is in Python code, where a step needs the interpreter lock to be
free, or in native code, where it has given that lock up and waits for, or
holds, the Mutex around the Connector. `generation` and `mine` are the
cancellation generation and the value `_connect_with_retry()` remembered.
`waiters` is the list of threads asleep on the condition variable: `Backoff`
is `wait_for()`, which looks at the generation and goes to sleep under one lock,
`cancel()` and `disconnect()` count and empty the list under the same lock
(`CallInterrupt`), `Woken` is a sleeper that was struck off the list and looks
again, `DelayOver` one whose delay ran out.
Between any two steps other threads run: after the comparison of the
generation and before the Mutex is taken, after the Mutex is taken and before
the operation is registered, after it ended and before its result is looked
at. The Connector is reduced to how an operation can end and whether it leaves
a connection. `late` is not in the code: it marks calls made after the last
`cancel()` and `disconnect()` had returned, for `LaterCallUsable`.

### Wire and ListScan

`Wire` has the helpers that every reader of bytes uses, and `ListEnd`, which
says where a list ends if all of its bytes are there: the reference for the
scan; its rows are walked by `RowsFrom`, a recursive function, as is every
repetition here. In `ListScan` a step is one iteration of the loops of `advance()`;
`Arrive` may come between any two, but a call sees only the bytes that had
arrived when it began (`seen`). The scan's four fields keep the code's names.
A slice at a place beyond the received bytes would be a panic in the code and
is the outcome "panic" here.

### QValue, KValue, Serde6, Bindings and ValuePath

The codec is written as operators over bytes and trees, one per function or
branch of the code, and `ValuePath` gives them their order: the copy of Node's
arguments item by item (`StartSnapshot`, `SnapshotItem`, `SnapshotDone`) with
`Getter` in between, because reading a property may run JavaScript that
changes the objects; the conversion in the worker (`NativeValuesIntoK`) or
under Python's lock (`CastToKVec`); a request (`SendInner`) or a message
(`Generate`); the frame as it was made, cut anywhere or with a byte too many
(`Deliver`, `Damage`); its decoding in the strict, lossy or lossless mode
(`DeserializeIpcFrame`); lossless values made of lossless values (`Build`,
`BuildAtom`); and the host's object (`ReturnToNode`, `ReturnToPython`). A
refusal records which check refused.

A value is a tree of nodes `[k, dt, b, c]`: kind, data type of a column,
numbers or bytes, children. Numbers have their width on the wire but fewer
values (8 of two bytes, 16 of four, 128 of eight), so that the null, the
infinities, the shift between the epochs of Unix and q and the ends of every
range are all met by small samples; units of time are scaled with them (2
nanoseconds to a microsecond, 2 microseconds to a millisecond, 32 nanoseconds to
a day). The order of comparisons and shifts is the code's. Text is bytes, and
UTF-8 is modelled by what validation and lossy transcoding do to characters of
up to three bytes. Columns have the data types that xqdb sends or reads;
dictionary encodings, bitmaps and chunks of Arrow are not distinguished, and
the categories of a column are its texts.

What is sent is compared with `Read`, which says on values, without bytes, what
a native value is read as: q has no null byte or boolean, an empty list of
bytes is read as an empty column of text, a list of lists of one type is read
as a nested column, a dictionary costs two levels. It is long because this is
what the code promises; none of it restates the decoder, which works on bytes.
The two passes over a value are kept apart, as in the code: `Representable` and
`AtomSized` are the arithmetic of the sizes, `WireNumber` and `AtomNumber` that of
the writer, and only `Validated` (times of day, guids, symbols), which both
passes call in the code as well, is shared.
Arrow objects pass the boundary of the bindings as they are (external).

## Runs

| Run | Checks | Bounds |
|---|---|---|
| `connector` | `OwnReply`, `ReusableWhenIdle`, `LateShutdownHarmless`, `NotificationsInOrder`, `BufferOutlivesConnection`, `AbortedOperationDisconnects` | 4 operations, 3 sockets, 2 cancellers (symmetric), 2 aborts, 2 notifications, limits 1 and 2 |
| `connector_live` | `CancelUnblocks`, with a silent peer and no timeouts; `OperationsReturn`, with timeouts and nobody to cancel | 2 operations, 2 sockets, 1 canceller, 3 notifications |
| `worker` | `AccountsExact`, `NoOrphanedReply`, `InReservationOrder` | 3 permits, capacity 2, 1 cancel |
| `worker_live` | `RepliesSettle`, `CapacityReturns`, `WorkerStops` | 2 permits |
| `worker_cancel` | `NoRetryAfterCancel`: violated, see below | 1 permit |
| `pipeline` | `ReadersBelowWriter`, `ReceivesLikeWholeFrame`, `Returns` | 7 bytes, three sections, pools of 1 and 2 threads |
| `compression` | `ScratchSuffices`, `RoundTrip`, `DictionaryPointsBack`, `BoundsAreNecessary` | bytes of 3 bits, 9220 bodies of up to 80 bytes, 10920 inputs of flags and up to 5 bytes below 4 |
| `py_client` | `CancelUnblocks`, `CancelEndsBackoff`, without timeouts and with delays that never run out; `NothingOutlivesDisconnect`, `CallsReturn`, with them | 3 threads, 3 calls, 1 retry; a client that calls sync, symbol_encoding and cancel, and one that calls connect, receive, symbol_encoding and disconnect |
| `py_later_call` | `LaterCallUsable`: violated, see below | 3 threads, 3 calls |
| `receive_buffer` | `RawAccessInitialized`, `IdleBufferBounded`, `GrowthFollowsDelivery` | bodies of up to 20 bytes, first reservation 4, factor 2 |
| `list_scan` | `SameAsOneShot`, `ScanStaysInside` | 337 lists of up to 2 rows, complete, cut, overlong or malformed, in every division into pieces |
| `values` | `SnapshotPaid`, `SizedExactly`, `RoundTrip`, `ColumnsAsDocumented`, `NoPartialValue`, `TextsAreUtf8`, `LosslessKeeps`, `ReturnedIsKept` | about 490 values, objects and bodies of a peer, depth 4, 2 arguments, 2 values built |

`worker` and `receive_buffer` check their module's `TypeOK` as well; that of the
other modules is proved only (below), for all constants.

Why the bounds are enough. The connector's races need at most two operations,
the connection the first one leaves and the connection the second one dials,
and a canceller that is late by one operation; a third connection and a fourth
operation leave room for a wrong reuse to show. Two cancellers are needed for
one to take an operation while the other is still to shut down its
predecessor. Three permits against a capacity of two reach a full queue, a
refused reservation and a slot that is waited for behind another. A group of
the 3-bit compression has three units and runs end at nine bytes, so bodies of
50 bytes cross group ends, saturate runs and overlap their source. Three Python
threads are one that holds the Mutex, one that waits for it and one that
cancels or disconnects; a fourth would wait like the second. Two rows are enough
for the scan, whose fields are the same at the head of the third as at the head
of the second; a body is cut at every place. The samples of
`values` hold every kind of atom, every data type of a column, empty and with
the ends of its range, null and infinities, all pairs of list items that decide
between a column and a mixed list, and nested values up to and beyond the
limit; with them every branch of the codec is evaluated, apart from those that
`SizedExactly` and `LosslessKeeps` show to be unreachable. A depth of 4 lets
tables (3 levels), dictionaries (2) and lambdas (1) meet the limit from above
and below. Deadlock is
not checked where the environment may simply stop calling (Connector, Worker, PyClient),
and where the computation ends (Pipeline, Compression, ListScan).

Fairness. The owner thread of the Connector is weakly fair except where it
blocks on the peer: with time-outs in `settings` a blocked step is enabled because the
socket's read and write time-outs end it, without them only data, a closed or
a shut-down socket do. A canceller that took an operation goes on to shut the
socket down. The worker thread runs unless blocked. The JavaScript thread runs
a call to its end, and every permit is released or used because `q.ts` does so
in a `finally` block. In the pipeline each read returns in the end (bytes, end
of stream, a time-out or an abort), and a pool thread keeps taking tasks. A
Python thread that can run does; nothing is assumed of the order in which
waiting threads get the Mutex, and name lookup and TCP connect, which nothing
can interrupt, end by themselves. The delay between two attempts runs out only
in clients with `client.timeouts`, so that in the others it is the wake-up and
not the clock that ends the backoff: `CancelEndsBackoff` fails if a wake-up can be
lost. The
peer is never assumed to be fair, and nothing is assumed of callers beyond
that.

### Disagreements with the documentation

`js-xqdb/README.md:82` says that no connection retry follows a cancellation.
`worker_cancel` shows one that does: `cancel()` falls between the comparison of
the generation in the worker loop and `begin_operation()` inside `connect()`.
The generation is already compared, there is no operation to abort yet, and
`cancel()` returns; the attempt that follows runs to its own end, and only
then is the cancellation noticed and the command rejected.

`py-xqdb/README.md:235` says that after a cancellation "a later independent
call remains usable". `py_later_call` shows one that is aborted: thread A's
`connect()` succeeds, `cancel()` of thread B comes too late to abort it and
returns, thread C calls `sync()` and gets the Mutex, and A, which now sees the
changed generation, calls `q.shutdown()`, whose first step aborts the
operation that happens to be registered, C's. (The gap of `worker_cancel` exists
in the Python client as well, between `_raise_if_cancelled()` and the
registration, against the words "prevents another attempt for that operation"
of `py-xqdb/README.md:234`; it has no run of its own.)

The table of Arrow types in `py-xqdb/README.md` and the decoder differ in three
places:

- Line 447 gives `uint8` for a byte list. With elements it is; an empty one gets
  the type of text, because `new_empty_series()` (`serde6.rs:1713`) treats type 4
  like type 10.
- Line 459 gives `timestamp[ms]` for a datetime list. The decoder builds
  nanoseconds (`serde6.rs:1644`), with elements or without, which
  `py-xqdb/test/test_ipc.py:617` expects too.
- Line 471 says that null and infinities of short, int and long are mapped to
  null. In flat lists they are; in the rows of a nested list only the null is
  (`serde6.rs:1986`), and an infinity arrives as the least number but one or the
  greatest.

`Read`, and with it `RoundTrip`, follow the code in all three.
`ColumnsAsDocumented` checks the document's table against every decoded message
of `values`, those that only a q process sends included, and names these three
exceptions: the first two hold if and only if the list is of that kind, and the
samples of nested lists contain infinities. No other column differs.

## Proofs

Every theorem below is of the form `Spec => []Inv` or `Spec => [][A]_vars` and
rests on the named `ASSUME`s of the module it is about and on nothing else;
TLC evaluates the same assumptions in every run. None bounds a constant from
above: the numbers of operations, sockets, threads, permits, bytes and the
widths are arbitrary.

| Module | Theorems | Property |
|---|---|---|
| `ConnectorProofs` | `TypeCorrect`, `LateShutdown`, `Reusable`, `AbortedDisconnects`, `OwnReplies`, `NotesOrdered`, `BufferKept` | `TypeOK`, `LateShutdownHarmless`, `ReusableWhenIdle`, `AbortedOperationDisconnects`, `OwnReply`, `NotificationsInOrder`, `BufferOutlivesConnection` |
| `ReceiveBufferProofs` | `BufferTypeCorrect`, `RawAccess`, `IdleBounded`, `GrowthFollows` | `TypeOK`, `RawAccessInitialized`, `IdleBufferBounded`, `GrowthFollowsDelivery` |
| `PipelineProofs` | `Types`, `Separation`, `Refinement` | `TypeOK`, `ReadersBelowWriter`, `ReceivesLikeWholeFrame` |
| `WorkerProofs` | `Types`, `Accounts`, `NoOrphans`, `Order`, `Stopped` | `TypeOK`, `AccountsExact`, `NoOrphanedReply`, `InReservationOrder`, `StoppedLeavesNothing` |
| `PyClientProofs` | `Types`, `DisconnectWins` | `TypeOK`, `NothingOutlivesDisconnect` |
| `CompressionProofs` | `ScratchIsEnough`, `ReadsWhatItWrote`, `BoundsRefuseNothing`, `DecompressesToItself` | `ScratchSuffices`, `DictionaryPointsBack`, `BoundsAreNecessary`, `RoundTrip` |
| `ListScanProofs` | `Types`, `Inside`, `OneShot` | `TypeOK`, `ScanStaysInside`, `SameAsOneShot` |

**Connector.** The argument has three layers. `IControl` is the inductive
invariant about handles and registrations. `LateShutdownHarmless` is not
inductive alone: that a late shutdown hits nothing in use depends on who can
still hold which socket. The strengthening says that the two handles agree and
at which steps a socket exists (`Handles`), that sockets are numbered by age so
a new one differs from any held one (`Numbered`), that the active registration
is the running operation's whatever its id wraps to (`Registered`), and that a
socket in use which was shut down belongs to an operation that has lost its
registration (`ShutMeansTaken`). `IAnswers` adds the account of requests and
answers: on a connection without bare synchronous sends nothing is outstanding
except during `execute()`'s read, and then its own request is unanswered or has
its only answer on the wire (`Answers`), and without a connection the line is
silent (`Silent`). `INotes` is about notifications: those returned
or buffered are in order and none belongs to a socket that is still being
dialled (`GotInOrder`), and the line goes on after the last one read
(`RestOnWire`), which may be the one `receive()` holds and has not returned yet
(`Consumed`). The part that is easy to get wrong in the code is `ReadsNext`:
`receive()` reads the socket only when the buffer is empty, for otherwise a
newer notification would overtake a buffered one. Each layer has one proof step
per action. `BufferKept` follows from `INotes`: two steps append to `Got`, the
hand-over of a buffered notification leaves it as it is, and no other step
touches either part.

**Receive buffer.** The inductive invariant adds that outside
`read_message_body()` the whole capacity is initialized, and that inside it the
capacity either still is, or has been grown to no more than the body that is
going to fill it: this is why a completed frame leaves an initialized buffer
behind and a failed one must drop it.

**Pipeline.** `ReadersBelowWriter` compares a reader's place with the bytes
published, and is inductive only with an account of who knows what: the reader
publishes what it has filled before it reads again, and its outcome and
`failed` agree (`ReaderInv`); what the scanner waits for in each state, in which
section (`ScannerInv`); a task is there for exactly the columns the scanner has
passed, whose ends lie below the published count, and it ends as its column's
flaw says (`TaskInv`); and the scan's verdict is the truth about the body unless
the receipt failed (`VerdictInv`).
`Refinement` is the step simulation of `FrameReceipt`: a read is a `Receive`,
the join of all tasks is the `Decode`, and everything else stutters. The work
is in `Join`: a table is returned exactly when the layout is good, in both
directions. (`FrameReceipt` has no fairness; that the receipt ends is `Returns`,
which TLC checks.)

**Worker.** `AccountsExact` needs sums to be followed through every step: the
lemmas on `SumTo` say what a sum does when one number changes (`SumChange`) and
that part of a sum is no more than the whole. `IInv` further has what permit the
JavaScript thread owns inside a call (`JsInv`), the order of commands run, in
hand and in the channel, with Stop behind them all (`OrderInv`), what the worker
holds in each of its states (`HandsInv`), and that a slot which has a command, or
can still be given one, has its placeholder in the channel, in the worker's
hands or about to be sent (`SlotInv`). `NoOrphanedReply` is inductive with these.
`StoppedLeavesNothing`, which no run checks by itself, follows for the end of
`run_worker()`: no promise is open then, a commit that comes after it included.

**Python client.** `NothingOutlivesDisconnect` is about a connection that exists
now and a call that began long ago. Every step of one thread can
decide what another's compare will find, so the invariant is about all threads
at once: whenever there is a connection, some thread has not been cancelled
since it connected, or is on its way to close the connection (`Closing`), or
made it and has yet to compare the generation (`Undecided`); `OpenInv` is that
disjunction. `CallInv` says which task a thread can be at in which call, and
`CountInv` bounds the generation by the calls made.

**Compression.** For the encoder (`EncoderInv`): while a group has `k` units, the
scratch buffer has room for the flag byte and for two bytes of each unit to
come, because the check at the start of a group is made with the worst case,
and the flag byte is below `TwoTo[k]`, so that adding the next flag never
carries. For the decoder (`DecoderInv`): what is used, written and hashed stays
in bounds. An accepted reference starts below the output, hence the overlapping
copy reads bytes already there. `BoundsAreNecessary` needs an account of how
much output the input read so far can have given (`ProgressInv`): within a group
each run may give `Excess` over the ratio of its own two bytes, and
`RatioAssumption` says that the flag byte pays for that of a whole group.

`RoundTrip` (`DecompressesToItself`) compares two loops, one of which has ended
when the other begins, so the invariant (`TripInv`) lets the second run along
with the first. A *moment* is the state of `decompress()` between two units: the
bytes taken and given, the dictionary, `hash_position`, the place of the flag
byte and the unit that is next. While `compress()` runs (`Written`), there is a
set of moments that leads from the first one to a last one by steps that
`decompress()` would take on the bytes written so far (`Replays`), and the
encoder is in step with the last moment (`InStep`). When `compress()` is done
the same moments are those of the real `decompress()`, which is at one of them
(`Reading`): it can go on, and never to an error, until both the output and the
input are complete. What makes this inductive is what a reader of the code
would argue about:

* the two dictionaries agree although they are built in different ways.
  `compress()` enters a literal's pair with the next unit and a reference's pair
  at once, `decompress()` enters all pairs up to a position, and only when their
  second byte is there (`PairInv`, `LastPair`). Behind `AtTail` the encoder
  makes no more references and hashes nothing; the dictionaries may differ
  there, and `InStep` says no more than is true;
* an entry stands under its own hash, so that an equal first byte and an equal
  hash are an equal pair (`EntryInv`, `KnownRun`, from `HashAssumption`);
* the flag byte is completed after the units before have been written, and the
  flag of a unit does not change those of the earlier ones (`FlagsKept`,
  `Behind`, `UnitMoment`);
* a run may overlap its source; copying byte by byte then repeats the bytes in
  between, and those are what the encoder compared (`Repeats`).

`PairInv` and `EntryInv` can be evaluated by TLC, and hold on the instance of
the run `compression`; `Written` and `Reading` quantify over sets of moments,
which only the prover can do.

**List scan.** `SameAsOneShot` compares a loop that stops and resumes with a
recursive search of the whole body. The invariant (`CountInv`) says that what
has been counted off is what the one-shot search has passed: from the place
where the scan stands, with the rows and symbols it still expects, the search
reaches the same end. Its lemmas say that a search in a prefix of the body
finds what the search in the whole finds, or runs into the prefix's end
(`SymbolsCut`, `RowsCut`), and that one iteration of the scan is one unfolding
of the search (`SymbolsNext`, `RowsNext`).

**Induction.** The library's induction rules take a predicate as a parameter,
which the provers installed here cannot instantiate. `InductionLemmas` therefore
proves what is needed from the well-foundedness of the naturals, with sets in
the place of predicates and functions in the place of definitions: `SetInduction`,
`Maximum`, `Minimum`, `PrimitiveRecursion` (a function defined by recursion
exists), and orbits, the iterates of a step function, which agree as long as the
steps agree (`OrbitAgree`) and stay where they arrive (`OrbitFixed`). The
recursive functions `TwoTo`, `SumTo` and `RowsFrom` are unfolded with these.

Only model-checked:

* every liveness property (`CancelUnblocks`, `OperationsReturn`,
  `RepliesSettle`, `CapacityReturns`, `WorkerStops`, `Returns`,
  `CancelEndsBackoff`, `CallsReturn`), since fairness and `ENABLED` are out of
  the prover's reach;
* the properties of `ValuePath`. `QValue`, `Serde6` and the modules on top of
  them recurse over values of any depth with `RECURSIVE` operators, about which
  the prover cannot reason; what the properties say (the bytes of a copy, the
  size of a value, its levels, its texts) is itself defined by recursion over
  the value.

## Not modelled, and why

The kdb+ file reader (`io.rs` from `read_j6_binary_table()` on) is sequential
input from disk through LZ4 and zlib, and its lists are decoded by what `Serde6`
models. The Arrow side of the conversions (`arrow.rs` of both bindings) moves
buffers between libraries; the TypeScript and Python classes around native
objects, and the conversions to pandas and polars, build objects without state.
Frames longer than 24 bits, counts beyond `i32::MAX` and failing allocations are
out of the scale of the models; big-endian frames are refused by the code. The
Node facade (`q.ts`) turns results into promises and releases permits in
`finally` blocks; `Worker` has the release as a step of the JavaScript thread.
TLS set-up appears as a dial that may fail. Option parsing is validation only.
Errors keep the distinction the code acts on (retryable, aborted, malformed)
and lose their text. Several connections that share the rayon pool would need
a model of rayon's work stealing, which is not part of this repository.
`iter_batches()` of the Python client calls `sync()` in a loop and counts rows;
each of the calls is one of `PyClient`'s.
Benchmarks, test servers and release workflows are not part of the program.

## Plan

1. Connector, its proofs, receive buffer (done).
2. Node command queue (done); pipelined receipt and its refinement (done);
   compression (done).
3. The resumable list scan (done), the framing (done within 24 bits).
4. The value codec, lossless values and the bindings' conversions (done).
5. The Python client (done but for `iter_batches()`).
6. Theorems about the safety properties of every state machine below
   `ValuePath` (done).
