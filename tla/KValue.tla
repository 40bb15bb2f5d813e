-------------------------------- MODULE KValue --------------------------------
(***************************************************************************)
(* The native values K of crates/xqdb/src/types.rs, their sizes on the     *)
(* wire (K::j6_len) and the conversion of a column's elements.             *)
(*                                                                         *)
(* A value is a tree of nodes [k, dt, b, c]: the kind, a column's data     *)
(* type, numbers or bytes, and children.  A column's children are its      *)
(* cells; a table's are columns and a dictionary's entries, with their     *)
(* names in b.                                                             *)
(*                                                                         *)
(* Numbers keep their width on the wire, and their range is scaled down:   *)
(* 8 values of 2 bytes, 16 of 4 bytes, 128 of 8 bytes.  Units of time are  *)
(* scaled alike; a float is a number of milliseconds where it counts days. *)
(* A character of text is one, two or three bytes of UTF-8.  Counts beyond *)
(* i32::MAX, which checked_q_count() refuses, are out of scale.            *)
(***************************************************************************)
EXTENDS QValue, TLC

Node(kind, dt, b, c) == [k |-> kind, dt |-> dt, b |-> b, c |-> c]

Atom(kind, v) == Node(kind, "", <<v>>, <<>>)
Text(kind, bytes) == Node(kind, "", bytes, <<>>)
List(kind, c) == Node(kind, "", <<>>, c)
Series(dt, cells) == Node("Series", dt, <<>>, cells)
Column(name, dt, cells) == Node("Column", dt, name, cells)
Entry(key, value) == Node("Entry", "", key, <<value>>)
Lambda(source, context) == Node("Lambda", "", source, <<Text("Context", context)>>)
Operator(k_type, opcode) == Node("Operator", "", <<k_type, opcode>>, <<>>)
Null == Node("Null", "", <<>>, <<>>)

\* Cells: a number or a text, a row of a nested column, or no value.
Cell(v) == Node("Cell", "", <<v>>, <<>>)
TextCell(bytes) == Node("Cell", "", bytes, <<>>)
Row(cells) == Node("Row", "", <<>>, cells)
Nil == Node("Nil", "", <<>>, <<>>)

Range(s) == {s[i] : i \in DOMAIN s}
Map(f(_), s) == [i \in DOMAIN s |-> f(s[i])]
Names(nodes) == [i \in DOMAIN nodes |-> nodes[i].b]
Distinct(s) == \A i, j \in DOMAIN s : s[i] = s[j] => i = j

(***************************************************************************)
(* Scaled numbers.                                                         *)
(***************************************************************************)
Values(width) == CASE width = 1 -> 256 [] width = 2 -> 8 [] width = 4 -> 16 [] width = 8 -> 128
MIN(width) == -(Values(width) \div 2)
MAX(width) == Values(width) \div 2 - 1
Fits(width, v) == MIN(width) <= v /\ v <= MAX(width)

\* A float's codes for no number and for the infinities, and the mark of a
\* result that a checked operation refuses.
NaN == 101
PosInf == 102
NegInf == 103
OutOfRange == 1000

\* Nanoseconds of the units, and of the time between the epochs of Unix and q.
NsPer == [ns |-> 1, us |-> 2, ms |-> 4, s |-> 8, min |-> 16]
NANOS_PER_DAY == 32
NANOS_DIFF == 32
MsDiff == NANOS_DIFF \div NsPer.ms
\* The same in days; the Common Era's first day is one more before it.
DaysDiff == NANOS_DIFF \div NANOS_PER_DAY
DAY_DIFF == DaysDiff + 1
\* Days of the Common Era that chrono's NaiveDate has.
ChronoDays == -5..5

(***************************************************************************)
(* Columns: the wire type of each data type (try_get_j_type_code), the     *)
(* unit of a time, the elements of a nested column.  The width of an Array *)
(* is part of its type; it is told apart from zero.                        *)
(***************************************************************************)
Inner ==
    "List(Boolean)" :> "Boolean" @@ "List(UInt8)" :> "UInt8" @@ "List(Int16)" :> "Int16"
      @@ "List(Int32)" :> "Int32" @@ "List(Int64)" :> "Int64" @@ "List(Float32)" :> "Float32"
      @@ "List(Float64)" :> "Float64" @@ "List(Categorical)" :> "Categorical"
      @@ "List(Datetime(ns))" :> "Datetime(ns)"
      @@ "Array(Boolean)" :> "Boolean" @@ "Array(Boolean,0)" :> "Boolean"

Arrays == {"Array(Boolean)", "Array(Boolean,0)"}
Nested(dt) == dt \in DOMAIN Inner

Unit ==
    "Datetime(ms)" :> "ms" @@ "Datetime(us)" :> "us" @@ "Datetime(ns)" :> "ns"
      @@ "Duration(ms)" :> "ms" @@ "Duration(us)" :> "us" @@ "Duration(ns)" :> "ns"

WireType ==
    "Null" :> 0 @@ "String" :> 0 @@ "Boolean" :> 1 @@ "Binary" :> 2 @@ "UInt8" :> 4
      @@ "Int16" :> 5 @@ "Int32" :> 6 @@ "Int64" :> 7 @@ "Float32" :> 8 @@ "Float64" :> 9
      @@ "Categorical" :> 11 @@ "Datetime(ns)" :> 12 @@ "Datetime(us)" :> 12 @@ "Date" :> 14
      @@ "Datetime(ms)" :> 15 @@ "Duration(ns)" :> 16 @@ "Duration(us)" :> 16
      @@ "Duration(ms)" :> 16 @@ "Time" :> 19
      @@ [dt \in DOMAIN Inner |-> 0]

Width(dt) == K_TYPE_SIZE[WireType[dt]]

AtomType ==
    [Boolean |-> 255, Guid |-> 254, U8 |-> 252, I16 |-> 251, I32 |-> 250, I64 |-> 249,
     F32 |-> 248, F64 |-> 247, Char |-> 246, Symbol |-> 245, DateTime |-> 244, Date |-> 242,
     Duration |-> 240, Time |-> 237]

\* The type byte that the value starts with (try_get_j_type_code, its
\* negative numbers as bytes).  That of a lossless value is in its bytes.
TypeCode(v) ==
    CASE v.k \in DOMAIN AtomType -> AtomType[v.k]
      [] v.k = "Series" -> WireType[v.dt]
      [] v.k \in {"CharVector", "String"} -> 10
      [] v.k = "MixedList" -> 0
      [] v.k = "DataFrame" -> 98
      [] v.k = "Dict" -> 99
      [] v.k = "Lambda" -> 100
      [] v.k = "Null" -> 101
      [] v.k \in {"Operator", "QValue"} -> v.b[1]

\* validate_q_symbol(), SymbolLookup::resolve()
IsSymbol(bytes) == 0 \notin Range(bytes)

\* QLambda::with_context().  Braces are 123 and 125; the "k)" that may come
\* first and the blanks around are left out.
IsLambda(source, context) ==
    /\ IsSymbol(source) /\ IsSymbol(context)
    /\ context # <<>> => context[1] # 46
    /\ source # <<>> /\ source[1] = 123 /\ source[Len(source)] = 125

(***************************************************************************)
(* Sizes.                                                                  *)
(***************************************************************************)
Plus(a, b) == IF a = None \/ b = None THEN None ELSE a + b

Total(lengths) ==
    LET upto[i \in 0..Len(lengths)] == IF i = 0 THEN 0 ELSE Plus(upto[i - 1], lengths[i])
    IN upto[Len(lengths)]

\* validate_q_time_series(), validate_guid_series() and SymbolLookup::resolve(),
\* by which both the sizes and serialize() check a cell.
Validated(dt, cell) ==
    \/ cell = Nil
    \/ CASE dt = "Time" -> cell.b[1] \in 0..(NANOS_PER_DAY - 1) /\ cell.b[1] % NsPer.ms = 0
         [] dt = "Binary" -> Len(cell.b) = 16
         [] dt = "Categorical" -> IsSymbol(cell.b)
         [] OTHER -> TRUE

\* Mutant: the shift between the epochs may end at q's infinity.
RepresentableInfinite(dt, v) ==
    LET ns == v * NsPer[Unit[dt]]
    IN CASE dt \in {"Datetime(us)", "Datetime(ns)"} -> Fits(8, ns) /\ Fits(8, ns - NANOS_DIFF)
         [] dt = "Date" -> Fits(4, v - DaysDiff)
         [] dt \in {"Duration(ms)", "Duration(us)", "Duration(ns)"} -> Fits(8, ns)
         [] OTHER -> TRUE

\* The arithmetic that get_series_len() does for nothing but its overflows; q's
\* null and infinities are no timestamps.
Representable(dt, v) ==
    LET ns == v * NsPer[Unit[dt]]
    IN CASE dt \in {"Datetime(us)", "Datetime(ns)"} ->
              Fits(8, ns) /\ ns - NANOS_DIFF > MIN(8) + 1 /\ ns - NANOS_DIFF < MAX(8)
         [] dt = "Date" -> Fits(4, v - DaysDiff)
         [] dt \in {"Duration(ms)", "Duration(us)", "Duration(ns)"} -> Fits(8, ns)
         [] OTHER -> TRUE

\* checked_nested_series_size(), list_values_length()
NestedLen(dt, cells) ==
    IF \/ Nil \in Range(cells) \/ WireType[Inner[dt]] \notin {1, 4, 5, 6, 7, 8, 9}
       \/ dt = "Array(Boolean,0)"
    THEN None
    ELSE Total([i \in DOMAIN cells |-> 6 + Len(cells[i].c) * Width(Inner[dt])])

get_series_len(dt, cells) ==
    CASE dt = "Null" -> IF cells = <<>> THEN 6 ELSE None
      [] dt = "String" -> Plus(6, Total([i \in DOMAIN cells |-> 6 + Len(cells[i].b)]))
      [] Nested(dt) -> Plus(6, NestedLen(dt, cells))
      [] OTHER ->
           IF \E i \in DOMAIN cells : \/ ~Validated(dt, cells[i])
                                      \/ cells[i] # Nil /\ ~Representable(dt, cells[i].b[1])
           THEN None
           ELSE IF dt = "Categorical" THEN Plus(6, Total([i \in DOMAIN cells |-> Len(cells[i].b) + 1]))
           ELSE 6 + Len(cells) * Width(dt)

SymbolsLen(nodes) ==
    Total([i \in DOMAIN nodes |-> IF IsSymbol(nodes[i].b) THEN Len(nodes[i].b) + 1 ELSE None])

\* The atoms that have a size; not every value of these kinds has one.
AtomSized(v) ==
    CASE v.k = "Symbol" -> IsSymbol(v.b)
      [] v.k = "DateTime" ->
           /\ Fits(8, v.b[1])
           /\ v.b[1] - NANOS_DIFF > MIN(8) + 1 /\ v.b[1] - NANOS_DIFF < MAX(8)
      [] v.k = "Time" -> v.b[1] % NsPer.ms = 0
      [] v.k = "Duration" -> Fits(8, v.b[1])
      [] OTHER -> TRUE

AtomLen(v) ==
    IF ~AtomSized(v) THEN None
    ELSE IF v.k = "Symbol" THEN Len(v.b) + 2 ELSE 1 + K_TYPE_SIZE[256 - AtomType[v.k]]

\* j6_len_with_depth()
RECURSIVE j6_len_with_depth(_, _)
j6_len_with_depth(v, depth) ==
    IF depth > MAX_VALUE_DEPTH THEN None
    ELSE
    CASE v.k \in DOMAIN AtomType -> AtomLen(v)
      [] v.k \in {"CharVector", "String"} -> Len(v.b) + 6
      [] v.k = "MixedList" ->
           Plus(6, Total([i \in DOMAIN v.c |-> j6_len_with_depth(v.c[i], depth + 1)]))
      [] v.k = "Series" -> get_series_len(v.dt, v.c)
      [] v.k = "DataFrame" ->
           Plus(15, Plus(SymbolsLen(v.c),
                         Total([i \in DOMAIN v.c |-> get_series_len(v.c[i].dt, v.c[i].c)])))
      [] v.k = "Dict" ->
           Plus(13, Plus(SymbolsLen(v.c),
                         Total([i \in DOMAIN v.c |-> j6_len_with_depth(v.c[i].c[1], depth + 1)])))
      [] v.k = "Lambda" -> Len(v.b) + Len(v.c[1].b) + 8
      [] v.k = "QValue" ->
           IF validate(v.b).depth > MAX_VALUE_DEPTH - depth THEN None ELSE Len(v.b)
      [] v.k \in {"Operator", "Null"} -> 2

j6_len(v) == j6_len_with_depth(v, 0)

\* try_from_any_value(): an element of a column by itself, which may be out of
\* the range of the value's type.
Element(kind, ok, v) == IF ok THEN [ok |-> TRUE, v |-> Atom(kind, v)] ELSE [ok |-> FALSE, v |-> Null]

try_from_any_value(dt, cell) ==
    LET v == cell.b[1]
        text(kind) == [ok |-> TRUE, v |-> Text(kind, cell.b)]
        plain == [Boolean |-> "Boolean", UInt8 |-> "U8", Int16 |-> "I16", Int32 |-> "I32",
                  Int64 |-> "I64", Float32 |-> "F32", Float64 |-> "F64"]
    IN IF cell = Nil THEN [ok |-> TRUE, v |-> Null]
       ELSE
       CASE dt \in Arrays -> Element("Series", FALSE, 0)
         [] Nested(dt) /\ dt \notin Arrays -> [ok |-> TRUE, v |-> Series(Inner[dt], cell.c)]
         [] dt \in DOMAIN plain -> Element(plain[dt], TRUE, v)
         [] dt = "String" -> text("String")
         [] dt = "Binary" -> IF Len(cell.b) = 16 THEN text("Guid") ELSE Element("Guid", FALSE, 0)
         [] dt = "Categorical" ->
              IF IsSymbol(cell.b) THEN text("Symbol") ELSE Element("Symbol", FALSE, 0)
         [] dt = "Date" ->
              Element("Date", Fits(4, v + 1) /\ v + 1 \in ChronoDays, v + 1)
         [] dt = "Time" -> Element("Time", v \in 0..(NANOS_PER_DAY - 1), v)
         [] dt \in {"Datetime(ms)", "Datetime(us)", "Datetime(ns)"} ->
              Element("DateTime", Fits(8, v * NsPer[Unit[dt]]), v * NsPer[Unit[dt]])
         [] dt \in {"Duration(ms)", "Duration(us)", "Duration(ns)"} ->
              Element("Duration", Fits(8, v * NsPer[Unit[dt]]), v * NsPer[Unit[dt]])
=============================================================================
