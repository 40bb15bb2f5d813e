------------------------------- MODULE Bindings -------------------------------
(***************************************************************************)
(* The conversions of the bindings between the values of module KValue and *)
(* the host language's objects: bindings/napi-xqdb/src/dto.rs for Node and *)
(* py-xqdb/src/connector.rs for Python.                                    *)
(*                                                                         *)
(* An object is a node, too: its kind is the tag of Node's object or the   *)
(* Python type, its children are its items, or Ref(id) for an object of    *)
(* the heap.  Arrow columns pass the boundary unchanged (external).        *)
(***************************************************************************)
EXTENDS Serde6

Ref(id) == Node("Ref", id, <<>>, <<>>)
Deref(heap, o) == IF o.k = "Ref" THEN heap[o.dt] ELSE o

Ok(v) == [ok |-> TRUE, v |-> v]
Error == [ok |-> FALSE, v |-> Null]

\* The node with converted children, or the error of one of them.
WithChildren(node, results) ==
    IF \E i \in DOMAIN results : ~results[i].ok THEN Error
    ELSE Ok([node EXCEPT !.c = [i \in DOMAIN results |-> results[i].v]])

\* The result for an entry's value, as an entry of the same key.
AsEntry(key, result) == [result EXCEPT !.v = Entry(key, @)]

(***************************************************************************)
(* Node.                                                                   *)
(***************************************************************************)
Tag ==
    [Null |-> "null", Boolean |-> "boolean", Guid |-> "guid", U8 |-> "u8", I16 |-> "i16",
     I32 |-> "i32", I64 |-> "i64", F32 |-> "f32", F64 |-> "f64", Char |-> "char",
     Symbol |-> "symbol", String |-> "string", Operator |-> "operator", Lambda |-> "lambda",
     CharVector |-> "bytes", DateTime |-> "timestamp", Date |-> "date", Time |-> "time",
     Duration |-> "timespan", MixedList |-> "list", Dict |-> "dictionary", Series |-> "series",
     QValue |-> "qvalue", DataFrame |-> "table"]

Tags == {Tag[k] : k \in DOMAIN Tag}
KindOf(tag) == CHOOSE k \in DOMAIN Tag : Tag[k] = tag

\* The greatest finite number that an f32 holds, in this scale.
F32_MAX == 50

\* What a lossless value says of itself beside its bytes.
Facts(bytes) ==
    LET of(parsed) ==
            <<parsed.type, parsed.len, IF parsed.shape \in {"table", "keyed"} THEN 1 ELSE 0>>
    IN Text("Facts", of(validate(bytes)))

\* Whether into_k() takes the payload of an object that is no container.
Accepted(o) ==
    CASE o.k = "boolean" -> o.b[1] \in {0, 1}
      [] o.k \in {"u8", "char"} -> o.b[1] \in Byte
      [] o.k = "i16" -> Fits(2, o.b[1])
      [] o.k = "i32" -> Fits(4, o.b[1])
      [] o.k \in {"i64", "timespan"} -> Fits(8, o.b[1])
      [] o.k = "f32" -> o.b[1] \in {NaN, PosInf, NegInf} \cup (-F32_MAX..F32_MAX)
      [] o.k = "timestamp" -> Fits(8, o.b[1]) /\ o.b[1] >= MIN(8) + NANOS_DIFF + 2
      [] o.k = "date" -> o.b[1] \in ChronoDays
      [] o.k = "time" -> o.b[1] \in 0..(NANOS_PER_DAY - 1) /\ o.b[1] % NsPer.ms = 0
      [] o.k = "guid" -> Len(o.b) = 16
      [] o.k = "symbol" -> IsSymbol(o.b)
      [] o.k = "operator" -> IsOperator(o.b[1], o.b[2])
      [] o.k = "lambda" -> IsLambda(o.b, o.c[1].b)
      [] o.k = "qvalue" -> validate(o.b).pos # None /\ o.c[1] = Facts(o.b)
      [] OTHER -> o.k \in Tags

\* OwnedNativeValue::into_k()
RECURSIVE into_k(_)
into_k(o) ==
    LET k == [o EXCEPT !.k = KindOf(o.k)]
        item(i) == IF i.k # "Entry" THEN into_k(i) ELSE AsEntry(i.b, into_k(i.c[1]))
        keys == Names(o.c)
    IN IF \/ ~Accepted(o)
          \/ o.k = "dictionary" /\ ~(Distinct(keys) /\ \A i \in DOMAIN keys : IsSymbol(keys[i]))
       THEN Error
       ELSE
       CASE o.k = "qvalue" -> Ok([k EXCEPT !.c = <<>>])
         [] o.k \in {"list", "dictionary"} -> WithChildren(k, [i \in DOMAIN o.c |-> item(o.c[i])])
         [] OTHER -> Ok(k)

\* k_into_native_with_depth()
RECURSIVE k_into_native(_, _)
k_into_native(v, depth) ==
    LET o == [v EXCEPT !.k = Tag[v.k]]
        item(i) == IF i.k # "Entry" THEN k_into_native(i, depth + 1)
                   ELSE AsEntry(i.b, k_into_native(i.c[1], depth + 1))
    IN IF \/ depth > MAX_VALUE_DEPTH
          \/ v.k = "Dict" /\ \E i \in DOMAIN v.c : ~IsSymbol(v.c[i].b)
       THEN Error
       ELSE
       CASE v.k \in {"MixedList", "Dict"} -> WithChildren(o, [i \in DOMAIN v.c |-> item(v.c[i])])
         [] v.k = "QValue" -> Ok([o EXCEPT !.c = <<Facts(v.b)>>])
         [] v.k = "Symbol" -> IF IsSymbol(v.b) THEN Ok(o) ELSE Error
         [] v.k \in {"DateTime", "Duration"} -> IF Fits(8, v.b[1]) THEN Ok(o) ELSE Error
         [] v.k = "Time" -> IF v.b[1] % NsPer.ms = 0 THEN Ok(o) ELSE Error
         [] OTHER -> Ok(o)

(***************************************************************************)
(* Python.  A datetime is its wall clock in nanoseconds, which is a number *)
(* of microseconds, its `nanosecond` attribute, and its offset from UTC,   *)
(* None if it is naive.                                                    *)
(***************************************************************************)
\* Days of the Common Era that Python's dates have.
PyDays == -3..3

\* Nanoseconds since the epoch of Unix as a datetime's day.
DayOf(ns) == ns \div NANOS_PER_DAY + 1

PyDateTime(ns, nanosecond, offset) == Node("datetime", "", <<ns, nanosecond, offset>>, <<>>)

\* The instant of a datetime.
Instant(o) == o.b[1] - (IF o.b[3] = None THEN 0 ELSE o.b[3]) + o.b[2]

\* The kind of the value of an object that is no container.
PyKind ==
    "QValue" :> "QValue" @@ "QOperator" :> "Operator" @@ "QLambda" :> "Lambda"
      @@ "bool" :> "Boolean" @@ "int" :> "I64" @@ "float" :> "F64" @@ "str" :> "Symbol"
      @@ "bytes" :> "CharVector" @@ "ArrowSeries" :> "Series" @@ "ArrowTable" :> "DataFrame"
      @@ "None" :> "Null" @@ "datetime" :> "DateTime" @@ "date" :> "Date" @@ "time" :> "Time"
      @@ "timedelta" :> "Duration"

PyAtom(o) ==
    LET k == [o EXCEPT !.k = PyKind[@]]
        if(ok) == IF ok THEN Ok(k) ELSE Error
    IN CASE o.k = "int" -> if(Fits(8, o.b[1]))
         [] o.k = "datetime" ->
              IF /\ o.b[2] \in 0..(NsPer.us - 1) /\ Fits(8, Instant(o))
                 /\ Instant(o) >= MIN(8) + NANOS_DIFF + 2
              THEN Ok(Atom("DateTime", Instant(o))) ELSE Error
         [] o.k = "time" -> if(o.b[1] % NsPer.ms = 0)
         [] o.k = "timedelta" -> if(Fits(8, o.b[1]))
         [] OTHER -> if(TRUE)

\* cast_to_k_inner(): `active` are the containers around the object.
RECURSIVE cast_to_k(_, _, _, _)
cast_to_k(heap, any, depth, active) ==
    LET o == Deref(heap, any)
        inside == IF any.k = "Ref" THEN active \cup {any.dt} ELSE active
        cast(item) == cast_to_k(heap, item, depth + 1, inside)
        entry(e) == IF e.k = "Entry" THEN AsEntry(e.b, cast(e.c[1])) ELSE Error
    IN IF depth > MAX_VALUE_DEPTH THEN Error
       ELSE IF o.k \in DOMAIN PyKind THEN PyAtom(o)
       ELSE IF o.k \notin {"list", "tuple", "dict"} \/ (any.k = "Ref" /\ any.dt \in active) THEN Error
       ELSE IF o.k = "dict" THEN WithChildren(List("Dict", <<>>), [i \in DOMAIN o.c |-> entry(o.c[i])])
       ELSE WithChildren(List("MixedList", <<>>), [i \in DOMAIN o.c |-> cast(o.c[i])])

\* A byte as a character, and its UTF-8.
Latin1(byte) == IF byte < 128 THEN <<byte>> ELSE <<194 + (byte - 128) \div 64, 128 + (byte % 64)>>

\* Mutant: what a microsecond does not count is cut off.
python_microseconds_floor(ns) == ns - (ns % NsPer.us)

\* python_microseconds(), and the same test for a timespan: the whole
\* microseconds, in nanoseconds.
python_microseconds(ns) == IF ns % NsPer.us = 0 THEN ns ELSE OutOfRange

PyAtomOf(v) ==
    LET o(type) == Ok([v EXCEPT !.k = type])
        us == python_microseconds(v.b[1])
        timed(type) == IF us = OutOfRange THEN Error ELSE Ok(Atom(type, us))
    IN CASE v.k = "Boolean" -> o("bool")
         [] v.k \in {"U8", "I16", "I32", "I64"} -> o("int")
         [] v.k \in {"F32", "F64"} -> o("float")
         [] v.k = "Char" -> Ok(Text("str", Latin1(v.b[1])))
         [] v.k \in {"Guid", "Symbol", "String"} -> o("str")
         [] v.k = "CharVector" -> IF IsUtf8(v.b) THEN o("str") ELSE o("bytes")
         [] v.k = "DateTime" ->
              IF DayOf(v.b[1]) \in PyDays /\ us # OutOfRange THEN Ok(PyDateTime(us, 0, None)) ELSE Error
         [] v.k = "Date" -> IF v.b[1] \in PyDays THEN o("date") ELSE Error
         [] v.k = "Time" -> timed("time")
         [] v.k = "Duration" -> IF Fits(8, v.b[1]) THEN timed("timedelta") ELSE Error
         [] v.k = "Series" -> o("ArrowSeries")
         [] v.k = "DataFrame" -> o("ArrowTable")
         [] v.k = "Operator" -> o("QOperator")
         [] v.k = "Lambda" -> o("QLambda")
         [] v.k = "QValue" -> o("QValue")
         [] v.k = "Null" -> o("None")

\* cast_k_to_py_inner()
RECURSIVE cast_k_to_py(_, _)
cast_k_to_py(v, depth) ==
    LET cast(item) == cast_k_to_py(item, depth + 1)
        entry(e) == AsEntry(e.b, cast(e.c[1]))
    IN IF depth > MAX_VALUE_DEPTH THEN Error
       ELSE
       CASE v.k = "MixedList" -> WithChildren(List("tuple", <<>>), [i \in DOMAIN v.c |-> cast(v.c[i])])
         [] v.k = "Dict" -> WithChildren(List("dict", <<>>), [i \in DOMAIN v.c |-> entry(v.c[i])])
         [] OTHER -> PyAtomOf(v)
=============================================================================
