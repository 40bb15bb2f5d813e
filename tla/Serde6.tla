-------------------------------- MODULE Serde6 --------------------------------
(***************************************************************************)
(* The native codec of crates/xqdb/src/serde6.rs: serialize() and          *)
(* deserialize() of the values of module KValue.                           *)
(***************************************************************************)
EXTENDS KValue, FiniteSets

(***************************************************************************)
(* Text: std::str::from_utf8() and the lossy transcoding, for characters   *)
(* of up to three bytes.                                                   *)
(***************************************************************************)
REPLACEMENT_CHARACTER == <<239, 191, 189>>

Continuation(bytes, p) == p < Len(bytes) /\ At(bytes, p) \in 128..191

\* The length of the character, or of the maximal invalid sequence, at p.
Chunk(bytes, p) ==
    LET lead == At(bytes, p)
        chunk(n, valid) == [n |-> n, valid |-> valid]
    IN CASE lead < 128 -> chunk(1, TRUE)
         [] lead \in 194..223 /\ Continuation(bytes, p + 1) -> chunk(2, TRUE)
         [] lead \in 224..239 /\ Continuation(bytes, p + 1) ->
              IF Continuation(bytes, p + 2) THEN chunk(3, TRUE) ELSE chunk(2, FALSE)
         [] OTHER -> chunk(1, FALSE)

\* from_utf8_lossy(): equal to the bytes exactly when they are valid.
transcode_utf8_lossy(bytes) ==
    LET from[p \in 0..Len(bytes)] ==
            IF p = Len(bytes) THEN <<>>
            ELSE LET chunk == Chunk(bytes, p)
                     text == IF chunk.valid THEN Slice(bytes, p, p + chunk.n)
                             ELSE REPLACEMENT_CHARACTER
                 IN text \o from[p + chunk.n]
    IN from[0]

IsUtf8(bytes) == transcode_utf8_lossy(bytes) = bytes

\* decode_utf8()
decode_utf8(bytes, encoding) ==
    IF encoding = "lossy" THEN [ok |-> TRUE, text |-> transcode_utf8_lossy(bytes)]
    ELSE [ok |-> IsUtf8(bytes), text |-> bytes]

(***************************************************************************)
(* serialize().  None among the bytes stands for an error.                 *)
(***************************************************************************)
Refused == <<None>>

Zeros(n) == [i \in 1..n |-> 0]

\* write_wire_number(): the low byte tells the scaled values apart.
Number(width, v) == <<v % 256>> \o Zeros(width - 1)

ListHeader(type, n) == <<type, 0>> \o q_list_length(n)

\* What is written for a cell without a value.
NullNumber(dt) ==
    CASE dt \in {"Boolean", "UInt8"} -> 0
      [] dt \in {"Float32", "Float64", "Datetime(ms)"} -> NaN
      [] OTHER -> MIN(Width(dt))

\* checked_mul(), checked_sub(), try_from(): a result of the given width.
InRange(width, v) == IF Fits(width, v) THEN v ELSE OutOfRange

\* q's null and infinities are no timestamps.
q_timestamp_nanoseconds(unix_nanoseconds) ==
    LET q == unix_nanoseconds - NANOS_DIFF
    IN IF unix_nanoseconds # OutOfRange /\ q > MIN(8) + 1 /\ q < MAX(8) THEN q ELSE OutOfRange

\* The number on the wire of a cell's value.
WireNumber(dt, v) ==
    CASE dt = "Date" -> InRange(4, v - DaysDiff)
      [] dt = "Datetime(ms)" -> v - MsDiff
      [] dt \in {"Datetime(us)", "Datetime(ns)"} ->
           q_timestamp_nanoseconds(InRange(8, v * NsPer[Unit[dt]]))
      [] dt \in {"Duration(ms)", "Duration(us)", "Duration(ns)"} ->
           InRange(8, v * NsPer[Unit[dt]])
      [] dt = "Time" -> InRange(4, v \div NsPer.ms)
      [] OTHER -> v

\* try_write_wire_numbers_from_iter(): the first number out of range is an error.
TryNumber(width, v) == IF v = OutOfRange THEN Refused ELSE Number(width, v)

SerializeCell(dt, cell) ==
    IF ~Validated(dt, cell) THEN Refused
    ELSE
    CASE dt = "Categorical" -> cell.b \o <<0>>
      [] dt = "Binary" -> IF cell = Nil THEN Zeros(16) ELSE cell.b
      [] OTHER ->
           TryNumber(Width(dt), IF cell = Nil THEN NullNumber(dt) ELSE WireNumber(dt, cell.b[1]))

SerializeCells(dt, cells) == Concat([i \in DOMAIN cells |-> SerializeCell(dt, cells[i])])

SerializeText(bytes) == ListHeader(10, Len(bytes)) \o bytes

\* write_nested_wire_lists(), and the loops for the one-byte types.
SerializeRow(dt, row) ==
    IF row = Nil \/ WireType[dt] \notin {1, 4, 5, 6, 7, 8, 9} THEN Refused
    ELSE ListHeader(WireType[dt], Len(row.c)) \o SerializeCells(dt, row.c)

serialize_series_into(dt, cells) ==
    ListHeader(WireType[dt], Len(cells)) \o
        CASE dt = "Null" -> IF cells = <<>> THEN <<>> ELSE Refused
          [] dt = "String" -> Concat([i \in DOMAIN cells |-> SerializeText(cells[i].b)])
          [] Nested(dt) -> Concat([i \in DOMAIN cells |-> SerializeRow(Inner[dt], cells[i])])
          [] OTHER -> SerializeCells(dt, cells)

SerializeSymbol(bytes) == (IF IsSymbol(bytes) THEN bytes ELSE Refused) \o <<0>>

SerializeSymbols(names) ==
    ListHeader(11, Len(names)) \o Concat([i \in DOMAIN names |-> SerializeSymbol(names[i])])

\* The number on the wire of an atom's value.  The precision of a time is not
\* looked at again.
AtomNumber(v) ==
    CASE v.k = "DateTime" -> q_timestamp_nanoseconds(InRange(8, v.b[1]))
      [] v.k = "Date" -> InRange(4, v.b[1] - DAY_DIFF)
      [] v.k = "Time" -> v.b[1] \div NsPer.ms
      [] v.k = "Duration" -> InRange(8, v.b[1])
      [] OTHER -> v.b[1]

SerializeAtom(v) ==
    CASE v.k = "Symbol" -> SerializeSymbol(v.b)
      [] v.k = "Guid" -> v.b
      [] OTHER -> TryNumber(K_TYPE_SIZE[256 - AtomType[v.k]], AtomNumber(v))

RECURSIVE serialize_into(_)
serialize_into(v) ==
    CASE v.k \in DOMAIN AtomType -> <<AtomType[v.k]>> \o SerializeAtom(v)
      [] v.k \in {"CharVector", "String"} -> SerializeText(v.b)
      [] v.k = "MixedList" ->
           ListHeader(0, Len(v.c)) \o Concat([i \in DOMAIN v.c |-> serialize_into(v.c[i])])
      [] v.k = "Series" -> serialize_series_into(v.dt, v.c)
      [] v.k = "DataFrame" ->
           <<98, 0, 99>> \o SerializeSymbols(Names(v.c)) \o ListHeader(0, Len(v.c))
             \o Concat([i \in DOMAIN v.c |-> serialize_series_into(v.c[i].dt, v.c[i].c)])
      [] v.k = "Dict" ->
           <<99>> \o SerializeSymbols(Names(v.c)) \o ListHeader(0, Len(v.c))
             \o Concat([i \in DOMAIN v.c |-> serialize_into(v.c[i].c[1])])
      [] v.k = "QValue" -> v.b
      [] v.k = "Operator" -> v.b
      [] v.k = "Lambda" -> <<100>> \o v.c[1].b \o <<0>> \o SerializeText(v.b)
      [] v.k = "Null" -> <<101, 0>>

(***************************************************************************)
(* deserialize(): lists.  `Err` among the cells stands for an error.       *)
(***************************************************************************)
Err == Node("Err", "", <<>>, <<>>)
Done(v, pos) == [ok |-> TRUE, v |-> v, pos |-> pos]
Fail == [ok |-> FALSE, v |-> Null, pos |-> None]

\* from_le_bytes(), decode_wire_numbers(): the first of the bytes decides.
Signed(width, byte) ==
    LET v == byte % Values(width) IN IF v > MAX(width) THEN v - Values(width) ELSE v
Float(byte) == IF byte >= 128 THEN byte - 256 ELSE byte

Infinite == {PosInf, NegInf}

unix_timestamp_nanoseconds(q) ==
    IF q \in {MIN(8) + 1, MAX(8)} \/ ~Fits(8, q + NANOS_DIFF) THEN OutOfRange
    ELSE q + NANOS_DIFF

\* q_datetime_nanoseconds()
q_datetime_nanoseconds(ms) ==
    LET ns == ms * NsPer.ms + NANOS_DIFF
    IN IF ms \in Infinite \/ ~Fits(8, ns) THEN OutOfRange ELSE ns

\* Nanoseconds since midnight of a minute, second or time.
TimeUnit(type) == CASE type = 17 -> NsPer.min [] type = 18 -> NsPer.s [] type = 19 -> NsPer.ms

TimeOfDay(v, type) ==
    IF v * TimeUnit(type) \in 0..(NANOS_PER_DAY - 1) THEN v * TimeUnit(type) ELSE OutOfRange

CellOf(v, null) == IF v = null THEN Nil ELSE IF v = OutOfRange THEN Err ELSE Cell(v)

\* Mutant: q's null is a time like any other.
TimestampCellAny(v) == CellOf(unix_timestamp_nanoseconds(v), MIN(8))

\* A timestamp, in a list or in a nested list.
TimestampCell(v) ==
    IF v = MIN(8) THEN Nil ELSE CellOf(unix_timestamp_nanoseconds(v), MIN(8))

\* An element of a list of times.
TemporalCell(type, bytes) ==
    LET v == Signed(K_TYPE_SIZE[type], bytes[1])
    IN CASE type = 12 -> TimestampCell(v)
         [] type = 14 ->
              IF v = MIN(4) THEN Nil ELSE IF Fits(4, v + DaysDiff) THEN Cell(v + DaysDiff) ELSE Err
         [] type = 15 ->
              IF Float(bytes[1]) = NaN THEN Nil
              ELSE CellOf(q_datetime_nanoseconds(Float(bytes[1])), MIN(8))
         [] type = 16 -> CellOf(v, MIN(8))
         [] type \in 17..19 -> IF v = MIN(4) THEN Nil ELSE CellOf(TimeOfDay(v, type), None)

\* Mutant: an infinity of q is a number like any other.
ElementCellInfinite(type, bytes) ==
    LET v == Signed(K_TYPE_SIZE[type], bytes[1])
    IN CASE type = 1 -> IF bytes[1] \in {0, 1} THEN Cell(bytes[1]) ELSE Err
         [] type = 2 -> TextCell(bytes)
         [] type = 4 -> Cell(bytes[1])
         [] type \in {5, 6, 7} -> CellOf(v, MIN(K_TYPE_SIZE[type]))
         [] type \in {8, 9} -> CellOf(Float(bytes[1]), NaN)
         [] type \in 12..19 -> TemporalCell(type, bytes)

\* An element of a list of fixed-size elements.  The least and the greatest
\* two short, int and long numbers are q's null and infinities.
ElementCell(type, bytes) ==
    LET width == K_TYPE_SIZE[type]
        v == Signed(width, bytes[1])
    IN CASE type = 1 -> IF bytes[1] \in {0, 1} THEN Cell(bytes[1]) ELSE Err
         [] type = 2 -> TextCell(bytes)
         [] type = 4 -> Cell(bytes[1])
         [] type \in {5, 6, 7} ->
              IF v > MIN(width) + 1 /\ v < MAX(width) THEN Cell(v) ELSE Nil
         [] type \in {8, 9} -> CellOf(Float(bytes[1]), NaN)
         [] type \in 12..19 -> TemporalCell(type, bytes)

\* An element of a nested list: only the null is told apart.
NestedCell(type, bytes) ==
    IF type \in {5, 6, 7}
    THEN LET width == K_TYPE_SIZE[type] IN CellOf(Signed(width, bytes[1]), MIN(width))
    ELSE ElementCell(type, bytes)

\* The payload in pieces of the elements' size.
Pieces(type, payload) ==
    LET width == K_TYPE_SIZE[type]
    IN [i \in 1..(Len(payload) \div width) |-> Slice(payload, (i - 1) * width, i * width)]

\* The symbols of a payload, each of which ends with a NUL.
Split(payload, n) ==
    [i \in 1..n |->
        LET start == AfterSymbols(payload, 0, i - 1)
        IN Slice(payload, start, NulAt(payload, start))]

\* The data type of a list, and of an empty one (new_empty_series()).
DataType ==
    1 :> "Boolean" @@ 2 :> "Binary" @@ 4 :> "UInt8" @@ 5 :> "Int16" @@ 6 :> "Int32"
      @@ 7 :> "Int64" @@ 8 :> "Float32" @@ 9 :> "Float64" @@ 10 :> "String"
      @@ 11 :> "Categorical" @@ 12 :> "Datetime(ns)" @@ 14 :> "Date" @@ 15 :> "Datetime(ns)"
      @@ 16 :> "Duration(ns)" @@ 17 :> "Time" @@ 18 :> "Time" @@ 19 :> "Time"

new_empty_series(type) ==
    CASE type = 0 -> Series("Null", <<>>)
      [] type = 4 -> Series("String", <<>>)
      [] OTHER -> Series(DataType[type], <<>>)

\* A series, unless a cell is an error.
SeriesOf(dt, cells) ==
    IF Err \in Range(cells) THEN Fail ELSE Done(Series(dt, cells), 0)

CharCell(byte, encoding) ==
    IF byte < 128 THEN TextCell(<<byte>>)
    ELSE IF encoding = "lossy" THEN TextCell(REPLACEMENT_CHARACTER) ELSE Err

\* All symbols are decoded in one go, and then split.
SymbolSeries(payload, n, encoding) ==
    LET series(decoded) ==
            IF ~decoded.ok \/ AfterSymbols(decoded.text, 0, n) # Len(decoded.text) THEN Fail
            ELSE Done(Series("Categorical", Map(TextCell, Split(decoded.text, n))), 0)
    IN series(decode_utf8(payload, encoding))

(***************************************************************************)
(* Nested lists.                                                           *)
(***************************************************************************)
\* The rows' payloads; the list's layout has been checked.
RowPayloads(bytes, n) ==
    LET after[k \in 0..n] ==
            IF k = 0 THEN [at |-> 5, child |-> None] ELSE AfterRow(bytes, after[k - 1])
    IN [k \in 1..n |-> Slice(bytes, after[k - 1].at + 6, after[k].at)]

\* Mutant: a row that begins within a character is not looked for.
validate_nested_char_whole(rows) == IsUtf8(Concat(rows))

\* validate_nested_char(): the rows are valid together, and none of them
\* begins within a character.
validate_nested_char(rows) ==
    LET values == Concat(rows)
        start[k \in 0..Len(rows)] == IF k = 0 THEN 0 ELSE start[k - 1] + Len(rows[k])
    IN /\ IsUtf8(values)
       /\ \A k \in 1..Len(rows) : ~Continuation(values, start[k - 1])

\* decode_char_rows() when every row is valid; otherwise the strict error, or
\* transcode_nested_char_lossy().
CharRows(rows, encoding) ==
    IF (\A k \in DOMAIN rows : IsUtf8(rows[k])) \/ validate_nested_char(rows)
    THEN Done(Series("String", Map(TextCell, rows)), 0)
    ELSE IF encoding = "strict" THEN Fail
    ELSE Done(Series("String", Map(TextCell, Map(transcode_utf8_lossy, rows))), 0)

SymbolRow(payload, encoding) ==
    LET cell(decoded) == IF decoded.ok THEN TextCell(decoded.text) ELSE Err
        row(symbols) == Row([i \in DOMAIN symbols |-> cell(decode_utf8(symbols[i], encoding))])
    IN row(Split(payload, Cardinality({i \in DOMAIN payload : payload[i] = 0})))

NestedRow(child, payload, encoding) ==
    IF child = 11 THEN SymbolRow(payload, encoding)
    ELSE LET row(pieces) == Row([i \in DOMAIN pieces |-> NestedCell(child, pieces[i])])
         IN row(Pieces(child, payload))

deserialize_nested_array(bytes, encoding) ==
    LET child == At(bytes, 5)
        column(rows) ==
            IF \E k \in DOMAIN rows : Err \in Range(rows[k].c) THEN Fail
            ELSE Done(Series(CHOOSE dt \in DOMAIN Inner \ Arrays :
                                 Inner[dt] = DataType[child], rows), 0)
        decoded(payloads) ==
            IF child = 10 THEN CharRows(payloads, encoding)
            ELSE column([i \in DOMAIN payloads |-> NestedRow(child, payloads[i], encoding)])
    IN decoded(RowPayloads(bytes, take_list_length(bytes, 0)))

\* deserialize_series(): the bytes of one list from its attribute byte on.
deserialize_series(bytes, type, as_column, encoding) ==
    LET n == take_list_length(bytes, 0)
        payload == Slice(bytes, 5, Len(bytes))
        elements(pieces) == [i \in DOMAIN pieces |-> ElementCell(type, pieces[i])]
    IN IF type = 10 /\ ~as_column THEN Done(Text("CharVector", payload), 0)
       ELSE IF type \notin DOMAIN DataType \cup {0} THEN Fail
       ELSE IF n = 0 THEN Done(new_empty_series(type), 0)
       ELSE
       CASE type = 0 -> deserialize_nested_array(bytes, encoding)
         [] type = 10 -> SeriesOf("String", [i \in DOMAIN payload |-> CharCell(payload[i], encoding)])
         [] type = 11 -> SymbolSeries(payload, n, encoding)
         [] OTHER -> SeriesOf(DataType[type], elements(Pieces(type, payload)))

(***************************************************************************)
(* deserialize(): values.  p is the offset behind the type byte.           *)
(***************************************************************************)
\* Days of the Common Era, if chrono has the date.
DateAtom(days, p) ==
    IF Fits(4, days) /\ days \in ChronoDays THEN Done(Atom("Date", days), p) ELSE Fail

TimestampAtom(ns, p) == IF ns = OutOfRange THEN Fail ELSE Done(Atom("DateTime", ns), p)

PlainAtom == 252 :> "U8" @@ 251 :> "I16" @@ 250 :> "I32" @@ 249 :> "I64" @@ 248 :> "F32"
               @@ 247 :> "F64" @@ 246 :> "Char" @@ 240 :> "Duration"

\* A month has two days in this scale.
deserialize_atom(bytes, p, type, encoding) ==
    LET width == K_TYPE_SIZE[256 - type]
        end == p + width
        byte == At(bytes, p)
        v == IF width = 1 THEN byte ELSE IF type \in {247, 248} THEN Float(byte)
             ELSE Signed(width, byte)
        symbol == decode_utf8(Slice(bytes, p, NulAt(bytes, p)), encoding)
    IN IF type = 245
       THEN IF NulAt(bytes, p) # None /\ symbol.ok
            THEN Done(Text("Symbol", symbol.text), AfterNul(bytes, p)) ELSE Fail
       ELSE IF type = 253 \/ end > Len(bytes) THEN Fail
       ELSE
       CASE type = 255 -> IF byte \in {0, 1} THEN Done(Atom("Boolean", byte), end) ELSE Fail
         [] type = 254 -> Done(Text("Guid", Slice(bytes, p, end)), end)
         [] type = 244 ->
              IF v = MIN(8) THEN Done(Null, end)
              ELSE TimestampAtom(unix_timestamp_nanoseconds(v), end)
         [] type = 243 -> DateAtom(2 * v + DAY_DIFF, end)
         [] type = 242 -> DateAtom(v + DAY_DIFF, end)
         [] type = 241 ->
              IF Float(byte) = NaN THEN Done(Null, end)
              ELSE TimestampAtom(q_datetime_nanoseconds(Float(byte)), end)
         [] type \in 237..239 ->
              IF TimeOfDay(v, 256 - type) = OutOfRange THEN Fail
              ELSE Done(Atom("Time", TimeOfDay(v, 256 - type)), end)
         [] OTHER -> Done(Atom(PlainAtom[type], v), end)

deserialize_lambda(bytes, p, encoding) ==
    LET source == AfterNul(bytes, p)
        n == take_list_length(bytes, source + 1)
        end == source + 6 + n
        lambda(context, text) ==
            IF context.ok /\ text.ok /\ IsLambda(text.text, context.text)
            THEN Done(Lambda(text.text, context.text), end) ELSE Fail
    IN IF \/ source = None \/ source + 6 > Len(bytes)
          \/ At(bytes, source) # 10 \/ At(bytes, source + 1) # 0
          \/ n = None \/ end > Len(bytes)
       THEN Fail
       ELSE lambda(decode_utf8(Slice(bytes, p, source - 1), encoding),
                   decode_utf8(Slice(bytes, source + 6, end), encoding))

\* A table's columns, one list behind the other, for the names that are left.
RECURSIVE DeserializeColumns(_, _, _, _)
DeserializeColumns(bytes, p, names, encoding) ==
    LET type == take_byte(bytes, p)
        end == IF type = None THEN None ELSE ListEnd(bytes, type, p + 1)
        join(first, rest) ==
            IF ~first.ok \/ ~rest.ok THEN Fail
            ELSE Done(List("DataFrame", <<Column(names[1].b, first.v.dt, first.v.c)>> \o rest.v.c),
                      rest.pos)
    IN IF names = <<>> THEN Done(List("DataFrame", <<>>), p)
       ELSE IF end = None THEN Fail
       ELSE join(deserialize_series(Slice(bytes, p + 1, end), type, TRUE, encoding),
                 DeserializeColumns(bytes, end, Tail(names), encoding))

\* The names are a list of symbols.  An empty one is no string column, which
\* the code takes for granted: the panic is caught.
deserialize_table(bytes, p, encoding) ==
    LET names_end == ListEnd(bytes, 11, p + 3)
        columns(names) ==
            IF ~names.ok \/ names.v.c = <<>> THEN Fail
            ELSE DeserializeColumns(bytes, names_end + 6, names.v.c, encoding)
        checked(table) ==
            IF \/ ~table.ok \/ ~Distinct(Names(table.v.c))
               \/ \E i \in DOMAIN table.v.c : Len(table.v.c[i].c) # Len(table.v.c[1].c)
            THEN Fail ELSE table
    IN IF names_end = None THEN Fail
       ELSE checked(columns(deserialize_series(Slice(bytes, p + 3, names_end), 11, FALSE, encoding)))

\* hstack()
JoinTables(key, value, pos) ==
    LET columns == key.c \o value.c
    IN IF Distinct(Names(columns)) /\ Len(key.c[1].c) = Len(value.c[1].c)
       THEN Done(List("DataFrame", columns), pos)
       ELSE Fail

\* A dictionary's values one by one.
DictValues(v) ==
    CASE v.k = "MixedList" -> [i \in DOMAIN v.c |-> [ok |-> TRUE, v |-> v.c[i]]]
      [] v.k = "CharVector" -> [i \in DOMAIN v.b |-> [ok |-> TRUE, v |-> Atom("Char", v.b[i])]]
      [] v.k = "Series" -> [i \in DOMAIN v.c |-> try_from_any_value(v.dt, v.c[i])]

DictOf(keys, values, pos) ==
    LET elements == DictValues(values)
    IN IF \/ Len(keys) # Len(elements) \/ ~Distinct(Names(keys))
          \/ \E i \in DOMAIN elements : ~elements[i].ok
       THEN Fail
       ELSE Done(List("Dict", [i \in DOMAIN keys |-> Entry(keys[i].b, elements[i].v)]), pos)

RECURSIVE deserialize_unchecked(_, _, _, _)

RECURSIVE DeserializeItems(_, _, _, _, _)
DeserializeItems(bytes, p, depth, n, encoding) ==
    LET join(first, rest) ==
            IF rest.ok THEN Done(List("MixedList", <<first.v>> \o rest.v.c), rest.pos) ELSE Fail
        continue(first) ==
            IF first.ok THEN join(first, DeserializeItems(bytes, first.pos, depth, n - 1, encoding))
            ELSE Fail
    IN IF n = 0 THEN Done(List("MixedList", <<>>), p)
       ELSE continue(deserialize_unchecked(bytes, p, depth, encoding))

\* A list of any type.  A general list that is no nested column is mixed.
deserialize_list(bytes, p, type, depth, encoding) ==
    LET end == ListEnd(bytes, type, p)
        n == take_list_length(bytes, p)
    IN CASE end # None ->
              [deserialize_series(Slice(bytes, p, end), type, type # 10, encoding) EXCEPT !.pos = end]
         [] end = None /\ type = 0 /\ n # None /\ n <= (Len(bytes) - p - 5) \div 2 ->
              DeserializeItems(bytes, p + 5, depth + 1, n, encoding)
         [] OTHER -> Fail

\* A dictionary's keys are a table, symbols, or an empty list; keys and values
\* are one level deeper.
deserialize_dictionary(bytes, p, depth, encoding) ==
    LET key_type == take_byte(bytes, p)
        symbols == key_type = 11 \/ (key_type = 0 /\ take_list_length(bytes, p + 1) = 0)
        dictionary(parts) ==
            LET keys == parts.v.c[1]
                values == parts.v.c[2]
            IN CASE ~parts.ok -> Fail
                 [] parts.ok /\ key_type = 98 /\ values.k = "DataFrame" ->
                      JoinTables(keys, values, parts.pos)
                 [] parts.ok /\ symbols /\ values.k \in {"Series", "MixedList", "CharVector"} ->
                      DictOf(keys.c, values, parts.pos)
                 [] OTHER -> Fail
    IN IF key_type = 98 \/ symbols
       THEN dictionary(DeserializeItems(bytes, p, depth + 1, 2, encoding)) ELSE Fail

deserialize_unchecked(bytes, p, depth, encoding) ==
    LET type == take_byte(bytes, p)
        opcode == take_byte(bytes, p + 1)
    IN IF depth > MAX_VALUE_DEPTH THEN Fail
       ELSE
       CASE type \in 237..255 -> deserialize_atom(bytes, p + 1, type, encoding)
         [] type \in 0..19 -> deserialize_list(bytes, p + 1, type, depth, encoding)
         [] type = 99 -> deserialize_dictionary(bytes, p + 1, depth, encoding)
         [] type = 98 -> deserialize_table(bytes, p + 1, encoding)
         [] type = 100 -> deserialize_lambda(bytes, p + 1, encoding)
         [] type \in 101..103 ->
              IF type = 101 /\ opcode = 0 THEN Done(Null, p + 2)
              ELSE IF IsOperator(type, opcode) THEN Done(Operator(type, opcode), p + 2) ELSE Fail
         [] OTHER -> Fail

\* Mutant: what follows the value is ignored.
deserialize_first(bytes, encoding) == deserialize_unchecked(bytes, 0, 0, encoding)

\* deserialize(): nothing may be behind the value.
deserialize(bytes, encoding) ==
    LET whole(value) == IF value.pos = Len(bytes) THEN value ELSE Fail
    IN whole(deserialize_unchecked(bytes, 0, 0, encoding))
=============================================================================
