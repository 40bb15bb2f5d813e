------------------------------ MODULE ValuePath -------------------------------
(***************************************************************************)
(* The way of a value from the host language to the wire and back: Node's  *)
(* snapshot of its arguments (dto.rs) or Python's cast_to_k(), the request *)
(* (Connector::send_inner) or the message (io.rs, generate_j6_ipc_msg)     *)
(* made of it, a frame that arrives whole or not, its decoding as native   *)
(* or lossless value, the lossless values made of it, and the object that  *)
(* the host gets.  Messages are not compressed here: see Compression.      *)
(***************************************************************************)
EXTENDS Bindings

CONSTANTS
    Calls,       \* calls: [host, args, heap, getters, limit]
    Bodies,      \* bodies of a q process's messages
    MaxArgs,     \* 8 in the code
    MaxBuilt     \* bound: lossless values made one of the other

ASSUME CallAssumption == MaxArgs \in Nat /\ MaxBuilt \in Nat

VARIABLES
    call,        \* the call, as chosen at the start
    heap,        \* the host's objects, by their identity
    stack,       \* snapshot: the containers being copied, outermost first
    remaining,   \* SnapshotBudget::remaining
    given,       \* the arguments as copied from Node
    value,       \* the arguments as native values
    whole,       \* the message as it was made
    frame,       \* the message as it arrives
    mode,        \* how it is decoded
    got,         \* the decoded value
    back,        \* the host's object for it
    built,       \* number of values made by QValue's constructors
    stage,
    failure      \* which check refused

vars == <<call, heap, stack, remaining, given, value, whole, frame, mode, got, back, built,
          stage, failure>>

Go(next) == stage' = next /\ UNCHANGED failure
Refuse(why) == stage' = "failed" /\ failure' = why

(***************************************************************************)
(* Node's snapshot.  Reading a property may run JavaScript (a getter, a    *)
(* proxy), which changes the objects that have not been copied yet.  Sizes *)
(* are scaled: a tag, a slot of a list, of a dictionary, an Arrow payload. *)
(***************************************************************************)
TagBytes == 1
ItemBytes == 2
EntryBytes == 3
ArrowBytes == 2

SlotBytes(tag) == CASE tag = "list" -> ItemBytes [] tag = "dictionary" -> EntryBytes [] OTHER -> 0

\* What copying an object is charged, without its children.
PayloadBytes(o) ==
    CASE o.k \in {"guid", "symbol", "string", "operator", "bytes", "qvalue"} -> Len(o.b)
      [] o.k = "lambda" -> Len(o.b) + Len(o.c[1].b)
      [] o.k \in {"series", "table"} -> ArrowBytes
      [] o.k \in {"list", "dictionary"} -> Len(o.c) * SlotBytes(o.k)
      [] OTHER -> 0

\* Mutant: a dictionary's keys are free.
ChargeNoKey(o, key) == TagBytes + PayloadBytes(o)

\* SnapshotBudget::charge() for an object: its tag, payload and the entry's key.
Charge(o, key) == TagBytes + PayloadBytes(o) + Len(key)

\* A container being copied: the object, the copy so far, the number of items
\* that the array had, and the key under which the container is put.
Copying(obj, node, key) ==
    [obj |-> obj, node |-> [node EXCEPT !.c = <<>>], n |-> Len(node.c), key |-> key]

Top == stack[Len(stack)]
Depth == Len(stack) - 1
IsDict == Top.node.k = "dictionary"

\* The item to be copied next, None if the array has lost it.
Items == IF Depth = 0 THEN call.args ELSE Deref(heap, Top.obj).c
Index == Len(Top.node.c) + 1
Item == IF IsDict THEN Items[Index].c[1] ELSE Items[Index]
Key == IF IsDict THEN Items[Index].b ELSE <<>>

\* The copy of a child, put into the container around it.
Put(frames, copy, key) ==
    LET child == IF frames[Len(frames)].node.k = "dictionary" THEN Entry(key, copy) ELSE copy
    IN [frames EXCEPT ![Len(frames)].node.c = Append(@, child)]

\* ensure_not_ancestor()
IsAncestor(o) == o.k = "Ref" /\ \E i \in DOMAIN stack : stack[i].obj = o

\* snapshot_native_value_array()
StartSnapshot ==
    /\ stage = "called" /\ call.host = "node"
    /\ IF Len(call.args) > MaxArgs \/ Len(call.args) * ItemBytes > call.limit
       THEN Refuse("snapshot") /\ UNCHANGED <<stack, remaining>>
       ELSE /\ remaining' = call.limit - Len(call.args) * ItemBytes
            /\ stack' = <<Copying(Null, List("list", call.args), <<>>)>>
            /\ Go("snapshot")
    /\ UNCHANGED <<call, heap, given, value, whole, frame, mode, got, back, built>>

\* Why an item is not copied: the array has lost it, it is no entry of a
\* dictionary, it is too deep, inside itself, no native value (its fields are
\* not those of its tag), or too large.
ItemRefused ==
    \/ Index > Len(Items) \/ (IsDict /\ Items[Index].k # "Entry")
    \/ Depth > MAX_VALUE_DEPTH \/ IsAncestor(Item)
    \/ Deref(heap, Item).k \notin Tags
    \/ Charge(Deref(heap, Item), Key) > remaining

\* snapshot_unknown_value(), snapshot_unknown_object(), snapshot_unknown_entry()
\* A field is charged as it is read, for what is copied of it.  What a getter
\* makes of an object between two of its fields is an object that another
\* getter could have made before the first.
SnapshotItem ==
    /\ stage = "snapshot" /\ Index <= Top.n
    /\ IF ItemRefused THEN Refuse("snapshot") /\ UNCHANGED <<stack, remaining>>
       ELSE LET o == Deref(heap, Item)
            IN /\ remaining' = remaining - Charge(o, Key)
               /\ stack' = IF o.k \in {"list", "dictionary"}
                           THEN Append(stack, Copying(Item, o, Key))
                           ELSE Put(stack, o, Key)
               /\ Go("snapshot")
    /\ UNCHANGED <<call, heap, given, value, whole, frame, mode, got, back, built>>

\* The container's last item has been copied.
SnapshotDone ==
    /\ stage = "snapshot" /\ Index > Top.n
    /\ IF Depth = 0
       THEN given' = Top.node.c /\ stack' = <<>> /\ Go("copied")
       ELSE /\ stack' = Put(SubSeq(stack, 1, Len(stack) - 1), Top.node, Top.key)
            /\ Go("snapshot") /\ UNCHANGED given
    /\ UNCHANGED <<call, heap, remaining, value, whole, frame, mode, got, back, built>>

\* A getter changes an object (external).
Getter ==
    /\ stage = "snapshot"
    /\ \E g \in call.getters : heap' = [heap EXCEPT ![g.id] = g.o]
    /\ UNCHANGED <<call, stack, remaining, given, value, whole, frame, mode, got, back, built,
                   stage, failure>>

(***************************************************************************)
(* Native values.                                                          *)
(***************************************************************************)
Converted(results) ==
    /\ IF \A i \in DOMAIN results : results[i].ok
       THEN value' = [i \in DOMAIN results |-> results[i].v] /\ Go("native")
       ELSE Refuse("conversion") /\ UNCHANGED value
    /\ UNCHANGED <<call, heap, stack, remaining, given, whole, frame, mode, got, back, built>>

\* native_values_into_k(), in the worker.
NativeValuesIntoK == stage = "copied" /\ Converted(Map(into_k, given))

\* cast_to_k_vec()
CastToKVec ==
    /\ stage = "called" /\ call.host = "python" /\ Len(call.args) <= MaxArgs
    /\ LET cast(arg) == cast_to_k(heap, arg, 0, {}) IN Converted(Map(cast, call.args))

TooManyArguments ==
    /\ stage = "called" /\ call.host = "python" /\ Len(call.args) > MaxArgs
    /\ Refuse("conversion")
    /\ UNCHANGED <<call, heap, stack, remaining, given, value, whole, frame, mode, got, back, built>>

(***************************************************************************)
(* Messages.  The header: byte order, message type, compression, length.   *)
(***************************************************************************)
IPC_HEADER_LENGTH == 8
MIN_SERIALIZED_VALUE_LENGTH == 2

Message(msg_type, body) ==
    <<1, msg_type, 0, 0>> \o q_list_length(IPC_HEADER_LENGTH + Len(body)) \o body

Body(message) == Slice(message, IPC_HEADER_LENGTH, Len(message))

\* The body is serialized once its size is known, and must have that size.
Framed(length, body, msg_type, next) ==
    /\ IF length = None THEN Refuse("size") /\ UNCHANGED whole
       ELSE IF None \in Range(body) THEN Refuse("serialize") /\ UNCHANGED whole
       ELSE IF Len(body) # length THEN Refuse("length") /\ UNCHANGED whole
       ELSE whole' = Message(msg_type, body) /\ Go(next)
    /\ UNCHANGED <<call, heap, stack, remaining, given, value, frame, mode, got, back, built>>

\* generate_j6_ipc_msg() of a single value.
Generate ==
    /\ stage = "native" /\ Len(value) = 1
    /\ Framed(j6_len(value[1]), serialize_into(value[1]), 2, "framed")

\* send_inner(): the expression and the arguments; an expression in braces is
\* sent as a lambda.
Braced(expr) == expr[1] = 123 /\ expr[Len(expr)] = 125

\* Mutant: the type and context of a lambda are not counted.
RequestLengthUnbraced(expr, args) ==
    IF args = <<>> THEN 6 + Len(expr) ELSE Plus(12 + Len(expr), Total(Map(j6_len, args)))

RequestLength(expr, args) ==
    IF args = <<>> THEN 6 + Len(expr)
    ELSE Plus((IF Braced(expr) THEN 14 ELSE 12) + Len(expr), Total(Map(j6_len, args)))

RequestBody(expr, args) ==
    IF args = <<>> THEN SerializeText(expr)
    ELSE ListHeader(0, Len(args) + 1)
           \o (IF Braced(expr) THEN <<100, 0>> ELSE <<>>) \o SerializeText(expr)
           \o Concat(Map(serialize_into, args))

Exprs == {<<102>>, <<123, 125>>}

SendInner ==
    /\ stage = "native"
    /\ \E expr \in Exprs :
          Framed(RequestLength(expr, value), RequestBody(expr, value), 1, "requested")

\* The header is a peer's, and the body's end is lost or more follows it.
Damage ==
    /\ stage = "framed"
    /\ \/ \E n \in 0..(Len(Body(whole)) - 1) : frame' = Message(2, Slice(Body(whole), 0, n))
       \/ frame' = Message(2, Append(Body(whole), 0))
    /\ Go("arrived")
    /\ UNCHANGED <<call, heap, stack, remaining, given, value, whole, mode, got, back, built>>

Deliver ==
    /\ stage = "framed"
    /\ frame' = whole
    /\ Go("arrived")
    /\ UNCHANGED <<call, heap, stack, remaining, given, value, whole, mode, got, back, built>>

\* parse_ipc_header(), prepare_ipc_body() without compression.
HeaderAccepted(message) ==
    /\ Len(message) >= IPC_HEADER_LENGTH
    /\ message[1] = 1 /\ message[2] \in 0..2 /\ message[3] \in 0..2
    /\ Count(message, 4) = Len(message)
    /\ Len(message) - IPC_HEADER_LENGTH >= MIN_SERIALIZED_VALUE_LENGTH

\* decode_value_body(), deserialize_j6()
decode_value_body(body, m) ==
    IF m # "lossless" THEN deserialize(body, m)
    ELSE IF validate(body).pos = None THEN Fail
    ELSE Done(Text("QValue", body), Len(body))

\* deserialize_ipc_frame()
DeserializeIpcFrame ==
    /\ stage = "arrived"
    /\ mode' \in {"strict", "lossy", "lossless"}
    /\ \E decoded \in {IF HeaderAccepted(frame) THEN decode_value_body(Body(frame), mode') ELSE Fail} :
          IF decoded.ok THEN got' = decoded.v /\ Go("decoded")
          ELSE Refuse("decode") /\ UNCHANGED got
    /\ UNCHANGED <<call, heap, stack, remaining, given, value, whole, frame, back, built>>

(***************************************************************************)
(* QValue::list() and QValue::dictionary() of lossless values that the     *)
(* host already holds, and QValue::atom() of the payload of one.           *)
(***************************************************************************)
Build ==
    /\ stage = "decoded" /\ mode = "lossless" /\ frame = whole /\ built < MaxBuilt
    /\ \E bytes \in {qvalue_list([i \in 1..n |-> got.b]) : n \in 1..2}
                    \cup {qvalue_dictionary(got.b, got.b)} :
          IF bytes = <<>> THEN Refuse("build") /\ UNCHANGED <<got, built>>
          ELSE got' = Text("QValue", bytes) /\ built' = built + 1 /\ Go("decoded")
    /\ UNCHANGED <<call, heap, stack, remaining, given, value, whole, frame, mode, back>>

BuildAtom ==
    /\ stage = "decoded" /\ mode = "lossless" /\ frame = whole /\ built < MaxBuilt
    /\ got.b[1] \in 237..255
    /\ LET bytes == qvalue_atom(256 - got.b[1], Tail(got.b))
       IN IF bytes = <<>> THEN Refuse("atom") /\ UNCHANGED <<got, built>>
          ELSE got' = Text("QValue", bytes) /\ built' = built + 1 /\ Go("decoded")
    /\ UNCHANGED <<call, heap, stack, remaining, given, value, whole, frame, mode, back>>

Return(host, object) ==
    /\ stage = "decoded"
    /\ IF object.ok THEN back' = [host |-> host, o |-> object.v] /\ Go("returned")
       ELSE Refuse("return") /\ UNCHANGED back
    /\ UNCHANGED <<call, heap, stack, remaining, given, value, whole, frame, mode, got, built>>

ReturnToNode == Return("node", k_into_native(got, 0))
ReturnToPython == Return("python", cast_k_to_py(got, 0))

NoCall == [host |-> "peer", args |-> <<>>, heap |-> <<>>, getters |-> {}, limit |-> 0]

Init ==
    /\ \/ call \in Calls /\ whole = <<>> /\ stage = "called"
       \/ call = NoCall /\ stage = "framed" /\ \E body \in Bodies : whole = Message(2, body)
    /\ frame = <<>>
    /\ heap = call.heap
    /\ stack = <<>> /\ remaining = call.limit
    /\ given = <<>> /\ value = <<>>
    /\ mode = "" /\ got = Null /\ back = [host |-> "", o |-> Null]
    /\ built = 0 /\ failure = ""

Finished == stage \in {"failed", "requested", "returned"} /\ UNCHANGED vars

Next ==
    \/ StartSnapshot \/ SnapshotItem \/ SnapshotDone \/ Getter
    \/ NativeValuesIntoK \/ CastToKVec \/ TooManyArguments
    \/ Generate \/ SendInner
    \/ Damage \/ Deliver
    \/ DeserializeIpcFrame
    \/ Build \/ BuildAtom
    \/ ReturnToNode \/ ReturnToPython
    \/ Finished

Spec == Init /\ [][Next]_vars

(***************************************************************************)
(* What a value that is sent comes back as: a definition on values, which  *)
(* says nothing of bytes.  It follows the code; where py-xqdb/README.md    *)
(* says otherwise, ColumnsAsDocumented below names the exception.          *)
(***************************************************************************)
\* A column of milliseconds becomes a q datetime list, which is read in
\* nanoseconds (see ColumnsAsDocumented).
ReadType(dt) ==
    CASE dt \in {"Datetime(ms)", "Datetime(us)"} -> "Datetime(ns)"
      [] dt \in {"Duration(ms)", "Duration(us)"} -> "Duration(ns)"
      [] OTHER -> dt

ListOf(dt) == CHOOSE list \in DOMAIN Inner \ Arrays : Inner[list] = ReadType(dt)

\* q has no null of some types, and takes the greatest and the least numbers of
\* others for null and infinities, but a nested list's infinities are kept (see
\* ColumnsAsDocumented).  Units of time become nanoseconds.
ReadCell(dt, cell, nested) ==
    LET v == cell.b[1]
        width == Width(dt)
        unset == CASE dt \in {"Boolean", "UInt8"} -> Cell(0)
                   [] dt = "Binary" -> TextCell(Zeros(16))
                   [] dt \in {"Categorical", "String"} -> TextCell(<<>>)
                   [] OTHER -> Nil
    IN IF cell = Nil THEN unset
       ELSE
       CASE dt \in {"Int16", "Int32", "Int64"} ->
              IF v = MIN(width) \/ (~nested /\ v \in {MIN(width) + 1, MAX(width)}) THEN Nil ELSE cell
         [] dt \in {"Float32", "Float64"} -> IF v = NaN THEN Nil ELSE cell
         [] dt = "Date" -> IF v - DaysDiff = MIN(4) THEN Nil ELSE cell
         [] dt \in DOMAIN Unit ->
              LET ns == v * NsPer[Unit[dt]]
              IN IF dt = "Datetime(ms)" /\ ~Fits(8, ns) THEN Err
                 ELSE IF ReadType(dt) = "Duration(ns)" /\ ns = MIN(8) THEN Nil ELSE Cell(ns)
         [] OTHER -> cell

ReadCells(dt, cells, nested) ==
    LET read(cell) == ReadCell(dt, cell, nested) IN Map(read, cells)

\* An empty list of bytes comes back as a column of texts (see
\* ColumnsAsDocumented).
ReadSeries(dt, cells) ==
    LET row(r) == Row(ReadCells(Inner[dt], r.c, TRUE))
    IN IF cells = <<>> /\ WireType[dt] = 0 THEN Done(Series("Null", <<>>), 0)
       ELSE IF cells = <<>> /\ dt = "UInt8" THEN Done(Series("String", <<>>), 0)
       ELSE IF Nested(dt) THEN Done(Series(ListOf(Inner[dt]), Map(row, cells)), 0)
       ELSE SeriesOf(ReadType(dt), ReadCells(dt, cells, FALSE))

\* A list whose items all are lists of one type is read as a column, in which
\* an empty list of any values may be a row, except the first.
ItemType(v) ==
    CASE v.k \in {"CharVector", "String"} -> 10
      [] v.k = "Series" -> WireType[v.dt]
      [] v.k = "MixedList" -> 0
      [] OTHER -> None

IsColumn(items) ==
    /\ items # <<>> /\ ItemType(items[1]) \in NestedTypes
    /\ \A i \in DOMAIN items :
          \/ ItemType(items[i]) = ItemType(items[1])
          \/ ItemType(items[i]) = 0 /\ items[i].c = <<>>

ReadColumn(items, encoding) ==
    LET texts == Names(items)
        row(item) == Row(ReadCells(item.dt, item.c, TRUE))
        rows == Map(row, items)
    IN IF ItemType(items[1]) = 10
       THEN IF encoding = "strict" /\ \E i \in DOMAIN texts : ~IsUtf8(texts[i]) THEN Fail
            ELSE Done(Series("String", Map(TextCell, Map(transcode_utf8_lossy, texts))), 0)
       ELSE Done(Series(ListOf(items[1].dt), rows), 0)

RECURSIVE Read(_, _, _)

ReadItems(items, depth, encoding) ==
    LET read(item) == Read(item, depth + 1, encoding)
    IN IF items = <<>> THEN Done(Series("Null", <<>>), 0)
       ELSE IF IsColumn(items) THEN ReadColumn(items, encoding)
       ELSE WithChildren(List("MixedList", <<>>), Map(read, items))

\* A dictionary takes two levels, since its values are a list.
Read(v, depth, encoding) ==
    LET column(col) ==
            LET series == ReadSeries(col.dt, col.c)
            IN [ok |-> series.ok, v |-> Column(col.b, series.v.dt, series.v.c)]
        values == ReadItems([i \in DOMAIN v.c |-> v.c[i].c[1]], depth + 1, encoding)
    IN IF depth > MAX_VALUE_DEPTH \/ (v.k = "Dict" /\ depth = MAX_VALUE_DEPTH) THEN Fail
       ELSE
       CASE v.k = "String" -> Ok(Text("CharVector", v.b))
         [] v.k = "Series" -> ReadSeries(v.dt, v.c)
         [] v.k = "MixedList" -> ReadItems(v.c, depth, encoding)
         [] v.k = "Dict" -> IF values.ok THEN DictOf(v.c, values.v, 0) ELSE Fail
         [] v.k = "DataFrame" ->
              IF v.c = <<>> THEN Fail ELSE WithChildren(List("DataFrame", <<>>), Map(column, v.c))
         [] OTHER -> Ok(v)

\* Levels of the lossless form: a table takes three, a nested column one more.
RECURSIVE Levels(_)
Levels(v) ==
    LET greatest(s) == LET ls == Range(Map(Levels, s))
                       IN CHOOSE n \in ls \cup {0} : \A m \in ls : n >= m
    IN CASE v.k \in {"MixedList", "Entry"} -> IF v.c = <<>> THEN 0 ELSE 1 + greatest(v.c)
         [] v.k \in {"Series", "Column"} -> IF WireType[v.dt] = 0 /\ v.c # <<>> THEN 1 ELSE 0
         [] v.k = "DataFrame" -> IF v.c = <<>> THEN 2 ELSE 3 + greatest(v.c)
         [] v.k = "Dict" -> 1 + greatest(v.c)
         [] v.k = "Lambda" -> 1
         [] v.k = "QValue" -> validate(v.b).depth
         [] OTHER -> 0

RECURSIVE Contains(_, _)
Contains(v, kinds) == v.k \in kinds \/ \E i \in DOMAIN v.c : Contains(v.c[i], kinds)

(***************************************************************************)
(* Properties.                                                             *)
(***************************************************************************)
\* A copy's size, counted on the copy.
RECURSIVE CopyBytes(_)
CopyBytes(o) ==
    IF o.k = "Entry" THEN EntryBytes + Len(o.b) + CopyBytes(o.c[1])
    ELSE IF o.k = "list" THEN TagBytes + Total([i \in DOMAIN o.c |-> ItemBytes + CopyBytes(o.c[i])])
    ELSE IF o.k = "dictionary" THEN TagBytes + Total(Map(CopyBytes, o.c))
    ELSE TagBytes + PayloadBytes(o)

RECURSIVE CopyDepth(_)
CopyDepth(o) ==
    IF o.k \notin {"list", "dictionary", "Entry"} THEN 0
    ELSE LET ds == {CopyDepth(o.c[i]) : i \in DOMAIN o.c}
             below == CHOOSE n \in ds \cup {0} : \A m \in ds : n >= m
         IN IF o.k = "Entry" THEN below ELSE IF o.c = <<>> THEN 0 ELSE below + 1

\* SnapshotPaid: whatever getters do to the objects while Node's arguments are
\* copied, the budget (and with it the queue's reservation, dto.rs
\* SnapshotBudget) is never overdrawn, every byte of the copy is paid for, and
\* the copy is no deeper than a value may be.
SnapshotPaid ==
    /\ remaining >= 0
    /\ stage = "copied" =>
          /\ call.limit - remaining = Total([i \in DOMAIN given |-> ItemBytes + CopyBytes(given[i])])
          /\ \A i \in DOMAIN given : CopyDepth(given[i]) <= MAX_VALUE_DEPTH

\* SizedExactly: a value whose size K::j6_len() gives can be serialized, in
\* exactly that size.  send_inner() and generate_j6_ipc_msg() write the size
\* into the header before they serialize; their check of it never fails.
SizedExactly == failure \notin {"serialize", "length"}

\* RoundTrip: a native value that was sent and arrives whole is decoded as
\* Read() says, or refused where Read() says so.
RoundTrip ==
    (/\ stage \in {"decoded", "failed"} /\ failure \in {"", "decode"}
     /\ mode \in {"strict", "lossy"} /\ frame = whole /\ Len(value) = 1
     /\ ~Contains(value[1], {"QValue"}))
    => LET read == Read(value[1], 0, mode)
       IN IF read.ok THEN stage = "decoded" /\ got = read.v ELSE failure = "decode"

\* The columns in a value: series, a table's columns, and those inside lists
\* and dictionaries.
RECURSIVE ColumnsOf(_)
ColumnsOf(v) ==
    IF v.k \in {"Series", "Column"} THEN {v}
    ELSE UNION {ColumnsOf(v.c[i]) : i \in DOMAIN v.c}

\* The table of column types in py-xqdb/README.md:446-462, by q's type.
DocumentedType ==
    1 :> "Boolean" @@ 4 :> "UInt8" @@ 5 :> "Int16" @@ 6 :> "Int32" @@ 7 :> "Int64"
      @@ 8 :> "Float32" @@ 9 :> "Float64" @@ 11 :> "Categorical" @@ 2 :> "Binary"
      @@ 12 :> "Datetime(ns)" @@ 14 :> "Date" @@ 15 :> "Datetime(ms)" @@ 16 :> "Duration(ns)"
      @@ 17 :> "Time" @@ 18 :> "Time" @@ 19 :> "Time"

\* q's nulls and infinities, which README.md:469-471 says are mapped to null.
Nulls(dt) ==
    CASE dt \in {"Int16", "Int32", "Int64"} -> {MIN(Width(dt))}
      [] dt \in {"Float32", "Float64"} -> {NaN}
      [] OTHER -> {}
Infinities(dt) ==
    IF dt \in {"Int16", "Int32", "Int64"} THEN {MIN(Width(dt)) + 1, MAX(Width(dt))} ELSE {}

\* ColumnsAsDocumented: whatever list, table or dictionary a peer sends, its
\* columns have the types of the documented table and none of the numbers that
\* the document maps to null, with three exceptions, where the code does
\* otherwise: a list of datetimes counts nanoseconds (serde6.rs:1644), a list
\* of no bytes is a column of texts (serde6.rs:1713), and the rows of a nested
\* list keep infinities (serde6.rs:1986).
ColumnsAsDocumented ==
    (stage = "decoded" /\ mode # "lossless") =>
        /\ LET type == At(Body(frame), 0)
           IN (got.k = "Series" /\ type \in DOMAIN DocumentedType) =>
                  (got.dt # DocumentedType[type] <=> type = 15 \/ (type = 4 /\ got.c = <<>>))
        /\ \A col \in ColumnsOf(got) :
              LET unwanted ==
                      IF Nested(col.dt) THEN Nulls(Inner[col.dt])
                      ELSE Nulls(col.dt) \cup Infinities(col.dt)
                  cells ==
                      IF Nested(col.dt) THEN UNION {Range(row.c) : row \in Range(col.c)}
                      ELSE Range(col.c)
              IN \A v \in unwanted : Cell(v) \notin cells

\* NoPartialValue: if a decoder accepts a message, it accepts none whose end is
\* missing, and not the message with another byte behind it: values delimit
\* themselves, whatever the header says.
NoPartialValue ==
    (stage = "decoded" /\ frame # whole) => ~decode_value_body(Body(whole), mode).ok

\* TextsAreUtf8: text in a decoded value is UTF-8, whatever bytes the peer
\* sent.  The decoder builds columns with unchecked constructors once the
\* columns have been validated as a whole (serde6.rs validate_nested_char).
RECURSIVE TextsValid(_)
TextsValid(v) ==
    /\ v.k \in {"Symbol", "String", "Column", "Entry", "Lambda", "Context"} => IsUtf8(v.b)
    /\ v.k \in {"Series", "Column"} /\ v.dt \in {"String", "Categorical"} =>
          \A i \in DOMAIN v.c : IsUtf8(v.c[i].b)
    /\ v.k \in {"Series", "Column"} /\ v.dt = "List(Categorical)" =>
          \A i \in DOMAIN v.c : \A j \in DOMAIN v.c[i].c : IsUtf8(v.c[i].c[j].b)
    /\ \A i \in DOMAIN v.c : TextsValid(v.c[i])

TextsAreUtf8 == stage = "decoded" => TextsValid(got)

\* LosslessKeeps: a client's own message is a lossless value exactly if it has
\* no more levels than one may have, and a value that QValue's constructors
\* refuse is too deep, or no dictionary; an atom can be made of its payload.
LosslessKeeps ==
    /\ (mode = "lossless" /\ frame = whole /\ Len(value) = 1 /\ built = 0) =>
          IF failure = "decode" THEN Levels(value[1]) > MAX_VALUE_DEPTH
          ELSE Levels(value[1]) <= MAX_VALUE_DEPTH /\ got.b = Body(frame)
    /\ failure # "atom"
    /\ failure = "build" =>
          LET held == validate(got.b)
          IN held.depth = MAX_VALUE_DEPTH \/ held.shape \notin {"list", "table"}
    /\ (stage = "decoded" /\ mode = "lossless") => validate(got.b).depth <= MAX_VALUE_DEPTH

\* What Python makes of a value it was given: it has one type of integers, of
\* floats and of text.
RECURSIVE Widened(_)
Widened(v) ==
    CASE v.k \in {"U8", "I16", "I32"} -> [v EXCEPT !.k = "I64"]
      [] v.k = "F32" -> [v EXCEPT !.k = "F64"]
      [] v.k = "Char" -> Text("Symbol", Latin1(v.b[1]))
      [] v.k \in {"Guid", "String"} \/ (v.k = "CharVector" /\ IsUtf8(v.b)) -> [v EXCEPT !.k = "Symbol"]
      [] v.k \in {"MixedList", "Dict", "Entry"} -> [v EXCEPT !.c = Map(Widened, @)]
      [] OTHER -> v

\* ReturnedIsKept: the object that the host gets stands for the decoded value:
\* passed back as an argument it is the same value, in Python up to the types
\* that Python does not tell apart.  No fraction of a time is lost on the way.
ReturnedIsKept ==
    /\ back.host = "node" => into_k(back.o) = Ok(got)
    /\ back.host = "python" => cast_to_k(<<>>, back.o, 0, {}) = Ok(Widened(got))
=============================================================================
