-------------------------------- MODULE QValue --------------------------------
(***************************************************************************)
(* Lossless values, crates/xqdb/src/qvalue.rs: a value is kept as the      *)
(* bytes of its wire form, which the Parser validates.  An operator that   *)
(* parses gives the offset behind the value, its type byte, its logical    *)
(* count, its shape and the deepest level met.                             *)
(***************************************************************************)
EXTENDS Wire

CONSTANTS MAX_VALUE_DEPTH   \* 64 in the code

ASSUME DepthAssumption == MAX_VALUE_DEPTH \in Nat

Max2(a, b) == IF a >= b THEN a ELSE b

Parsed(pos, type, len, shape, depth) ==
    [pos |-> pos, type |-> type, len |-> len, shape |-> shape, depth |-> depth]

Bad == Parsed(None, 0, 0, "bad", 0)

\* Gives `value` unless its position is an error.
Checked(value) == IF value.pos = None THEN Bad ELSE value

(***************************************************************************)
(* The Parser's primitives.                                                *)
(***************************************************************************)
take_byte(bytes, p) == IF p = None \/ p >= Len(bytes) THEN None ELSE At(bytes, p)

\* Behind the attribute byte at p.
take_attribute(bytes, p) == IF take_byte(bytes, p) \in 0..4 THEN p + 1 ELSE None

take_count(bytes, p) == IF p = None \/ p + 4 > Len(bytes) THEN None ELSE Count(bytes, p)

\* A count of 8 bytes.
ExtendedCount(bytes, p) ==
    IF p + 8 > Len(bytes) \/ At(bytes, p + 7) >= 128 THEN None
    ELSE IF \E i \in 3..7 : At(bytes, p + i) > 0 THEN HugeCount
    ELSE Count(bytes, p)

\* take_typed_list_count(): the bit 128 of the attribute announces a long
\* count.  The offset behind it, and the count.
take_typed_list_count(bytes, p) ==
    LET raw == take_byte(bytes, p)
        long == raw >= 128
        count == IF long THEN ExtendedCount(bytes, p + 1) ELSE take_count(bytes, p + 1)
    IN IF raw = None \/ raw % 128 > 4 \/ count = None
       THEN [pos |-> None, count |-> 0]
       ELSE [pos |-> p + (IF long THEN 9 ELSE 5), count |-> count]

\* validate_boolean_bytes()
Booleans(bytes, from, to) == \A p \in from..(to - 1) : At(bytes, p) \in {0, 1}

\* A payload of elements of one type at p.
AfterElements(bytes, p, type, n) ==
    IF type = 11 THEN AfterSymbols(bytes, p, n)
    ELSE LET end == Within(bytes, p + n * K_TYPE_SIZE[type])
         IN IF end # None /\ type = 1 /\ ~Booleans(bytes, p, end) THEN None ELSE end

(***************************************************************************)
(* The Parser's values.  p is the offset behind the type byte.             *)
(***************************************************************************)
parse_atom(bytes, p, type, depth) ==
    LET kind == 256 - type
    IN IF kind = 3 THEN Bad
       ELSE Checked(Parsed(AfterElements(bytes, p, kind, 1), type, 1, "atom", depth))

parse_typed_list(bytes, p, type, depth) ==
    LET header == take_typed_list_count(bytes, p)
    IN IF type = 3 \/ header.pos = None THEN Bad
       ELSE Checked(Parsed(AfterElements(bytes, header.pos, type, header.count),
                           type, header.count, "list", depth))

\* QOperator::from_wire(): the sizes of the tables of names; the first unary
\* name is empty.
IsOperator(type, opcode) ==
    \/ type = 101 /\ opcode \in 1..41
    \/ type = 102 /\ opcode \in 0..33
    \/ type = 103 /\ opcode \in 0..2

\* The null value and the magic value are unary, too.
parse_primitive(bytes, p, type, depth) ==
    IF \/ IsOperator(type, take_byte(bytes, p))
       \/ type = 101 /\ take_byte(bytes, p) \in {0, 255}
    THEN Parsed(p + 1, type, 1, "function", depth)
    ELSE Bad

\* Mutant: the source does not count as a level of its own.
parse_lambda_flat(bytes, p, depth) ==
    LET source == AfterNul(bytes, p)
        n == take_count(bytes, source + 2)
    IN IF \/ source = None
          \/ take_byte(bytes, source) # 10 \/ take_byte(bytes, source + 1) # 0 \/ n = None
       THEN Bad
       ELSE Checked(Parsed(Within(bytes, source + 6 + n), 100, 1, "function", depth))

parse_lambda(bytes, p, depth) ==
    LET source == AfterNul(bytes, p)
        n == take_count(bytes, source + 2)
    IN IF \/ source = None \/ depth + 1 > MAX_VALUE_DEPTH
          \/ take_byte(bytes, source) # 10 \/ take_byte(bytes, source + 1) # 0 \/ n = None
       THEN Bad
       ELSE Checked(Parsed(Within(bytes, source + 6 + n), 100, 1, "function", depth + 1))

RECURSIVE parse_value(_, _, _)

\* n values one behind the other: the offset behind them, the deepest level,
\* and the values.
RECURSIVE parse_values(_, _, _, _)
parse_values(bytes, p, depth, n) ==
    IF n = 0 THEN [pos |-> p, depth |-> 0, all |-> <<>>]
    ELSE LET first == parse_value(bytes, p, depth)
             rest == parse_values(bytes, first.pos, depth, n - 1)
         IN IF first.pos = None \/ rest.pos = None THEN [pos |-> None, depth |-> 0, all |-> <<>>]
            ELSE [pos |-> rest.pos, depth |-> Max2(first.depth, rest.depth),
                  all |-> <<first>> \o rest.all]

\* The values behind a count at p, which the remaining bytes must allow, given
\* the least size of a value.
parse_counted(bytes, p, depth, least) ==
    LET n == take_count(bytes, p)
    IN IF n = None \/ n > (Len(bytes) - p - 4) \div least
       THEN [pos |-> None, depth |-> 0, all |-> <<>>]
       ELSE parse_values(bytes, p + 4, depth, n)

parse_general_list(bytes, p, depth) ==
    LET values == parse_counted(bytes, take_attribute(bytes, p), depth + 1, 2)
    IN Checked(Parsed(values.pos, 0, Len(values.all), "list", Max2(depth, values.depth)))

parse_counted_function(bytes, p, type, depth) ==
    LET values == parse_counted(bytes, p, depth + 1, 2)
    IN Checked(Parsed(values.pos, type, 1, "function", Max2(depth, values.depth)))

parse_derived_function(bytes, p, type, depth) ==
    LET value == parse_value(bytes, p, depth + 1)
    IN Checked(Parsed(value.pos, type, 1, "function", value.depth))

\* Keys and values are lists of equal counts, or tables of equal counts.
parse_dictionary(bytes, p, type, depth) ==
    LET sides == parse_values(bytes, p, depth + 1, 2)
        shapes == {sides.all[i].shape : i \in 1..2}
        len == sides.all[1].len
    IN IF \/ sides.pos = None
          \/ shapes \notin {{"list"}, {"table"}}
          \/ sides.all[2].len # len
       THEN Bad
       ELSE Parsed(sides.pos, type, len,
                   IF shapes = {"table"} THEN "keyed" ELSE "dictionary", sides.depth)

\* A table is a dictionary of symbols and lists of equal counts, at the next
\* level, and the columns lie two levels below it.
parse_table(bytes, p, depth) ==
    LET inner == take_attribute(bytes, p)
        names == parse_value(bytes, inner + 1, depth + 2)
        columns == parse_counted(bytes, take_attribute(bytes, names.pos + 1), depth + 3, 6)
        lens == {columns.all[i].len : i \in DOMAIN columns.all}
    IN IF \/ inner = None \/ take_byte(bytes, inner) # 99
          \/ names.pos = None \/ names.shape # "list" \/ names.type # 11
          \/ take_byte(bytes, names.pos) # 0
          \/ columns.pos = None \/ Len(columns.all) # names.len
          \/ \E i \in DOMAIN columns.all : columns.all[i].shape # "list"
          \/ \E m, n \in lens : m # n
       THEN Bad
       ELSE Parsed(columns.pos, 98, IF lens = {} THEN 0 ELSE CHOOSE n \in lens : TRUE,
                   "table", Max2(depth + 2, columns.depth))

parse_value(bytes, p, depth) ==
    LET type == take_byte(bytes, p)
    IN IF depth > MAX_VALUE_DEPTH THEN Bad
       ELSE CASE type \in 237..255 -> parse_atom(bytes, p + 1, type, depth)
              [] type = 0 -> parse_general_list(bytes, p + 1, depth)
              [] type \in 1..19 -> parse_typed_list(bytes, p + 1, type, depth)
              [] type = 98 -> parse_table(bytes, p + 1, depth)
              [] type \in {99, 127} -> parse_dictionary(bytes, p + 1, type, depth)
              [] type = 100 -> parse_lambda(bytes, p + 1, depth)
              [] type \in 101..103 -> parse_primitive(bytes, p + 1, type, depth)
              [] type \in {104, 105} -> parse_counted_function(bytes, p + 1, type, depth)
              [] type \in 106..111 -> parse_derived_function(bytes, p + 1, type, depth)
              [] OTHER -> Bad

\* validate(): one value and nothing behind it.
validate(bytes) ==
    LET value == parse_value(bytes, 0, 0)
    IN IF value.pos = Len(bytes) THEN value ELSE Bad

(***************************************************************************)
(* Values made of others: QValue::atom(), list() and dictionary().  The    *)
(* bytes, or <<>> for an error.                                            *)
(***************************************************************************)
Valid(bytes) == IF validate(bytes).pos = None THEN <<>> ELSE bytes

qvalue_atom(kind, payload) ==
    IF kind \notin (1..19) \ {3} \/ (kind # 11 /\ Len(payload) # K_TYPE_SIZE[kind]) THEN <<>>
    ELSE Valid(<<256 - kind>> \o payload)

RECURSIVE Concat(_)
Concat(s) == IF s = <<>> THEN <<>> ELSE Head(s) \o Concat(Tail(s))

qvalue_list(values) ==
    IF \E i \in DOMAIN values : validate(values[i]).depth >= MAX_VALUE_DEPTH THEN <<>>
    ELSE Valid(<<0, 0>> \o q_list_length(Len(values)) \o Concat(values))

\* is_sequence_type()
IsSequence(value) == value.type \in (0..19) \ {3}

qvalue_dictionary(keys, values) ==
    LET fit(k, v) ==
            /\ \/ k.type = 98 /\ v.type = 98
               \/ IsSequence(k) /\ IsSequence(v)
            /\ k.len = v.len
            /\ k.depth < MAX_VALUE_DEPTH /\ v.depth < MAX_VALUE_DEPTH
    IN IF fit(validate(keys), validate(values)) THEN Valid(<<99>> \o keys \o values) ELSE <<>>
=============================================================================
