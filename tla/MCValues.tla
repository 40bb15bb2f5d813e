------------------------------- MODULE MCValues -------------------------------
(* Values of every kind, with the numbers at which a type's range ends, for *)
(* module ValuePath.                                                        *)
EXTENDS ValuePath

\* The range of 8 bytes is scaled below that of one byte: a byte that may be
\* read as a number of 8 bytes is at most MAX(8).
Guid16 == [i \in 1..16 |-> i]
Eacute == <<195, 169>>
A == <<97>>
B == <<98>>

Atoms ==
    {Atom("Boolean", 1), Text("Guid", Guid16), Atom("U8", 60), Atom("Char", 200),
     Atom("F32", 2), Atom("F64", NaN), Text("Symbol", Eacute), Text("Symbol", <<>>),
     Text("String", Eacute), Text("CharVector", <<>>), Text("CharVector", <<195>>),
     Operator(102, 1), Operator(103, 2), Lambda(<<123, 125>>, A), Null}
    \cup {Atom("I16", v) : v \in {MIN(2), MAX(2)}}
    \cup {Atom("I32", v) : v \in {MIN(4), MAX(4)}}
    \cup {Atom("I64", v) : v \in {MIN(8), MAX(8)}}
    \cup {Atom("DateTime", v) : v \in {MIN(8) + NANOS_DIFF + 2, -1, 0, 33, MAX(8)}}
    \cup {Atom("Duration", v) : v \in {MIN(8), 3, MAX(8)}}
    \cup {Atom("Date", v) : v \in {-5, 0, 4}}
    \cup {Atom("Time", v) : v \in {0, 28}}

Cells(values) == [i \in DOMAIN values |-> Cell(values[i])]
Rows == <<Row(Cells(<<1, 0>>)), Row(<<>>)>>

\* Series of every type, with and without cells.
SeriesSamples ==
    {Series(dt, <<>>) : dt \in DOMAIN WireType}
    \cup {Series(dt, <<Cell(MIN(Width(dt))), Cell(MIN(Width(dt)) + 1), Cell(3), Cell(MAX(Width(dt))), Nil>>) :
             dt \in {"Int16", "Int32", "Int64"}}
    \cup {Series(dt, <<Cell(-2), Cell(NaN), Cell(PosInf), Nil>>) : dt \in {"Float32", "Float64"}}
    \cup {Series(dt, <<Cell(1), Nil, Cell(0)>>) : dt \in {"Boolean", "UInt8"}}
    \cup {Series(dt, <<Cell(v), Nil>>) :
             dt \in DOMAIN Unit, v \in {MIN(8), MIN(8) + NANOS_DIFF + 1, MIN(8) + NANOS_DIFF + 2, -20, 0, 5, 15, 31, MAX(8)}}
    \cup {Series("Date", <<Cell(v), Nil>>) : v \in {MIN(4), MIN(4) + 1, MIN(4) + 2, 0, MAX(4)}}
    \cup {Series("Time", <<Cell(v), Nil>>) : v \in {-4, 0, 5, 28, 32}}
    \cup {Series("Binary", <<TextCell(Guid16), Nil>>), Series("Binary", <<TextCell(A)>>),
          Series("String", <<TextCell(Eacute), Nil, TextCell(<<>>)>>),
          Series("Categorical", <<TextCell(A), TextCell(<<>>), Nil, TextCell(Eacute)>>),
          Series("Categorical", <<TextCell(<<97, 0>>)>>), Series("Null", <<Nil>>)}
    \cup {Series(dt, Rows) : dt \in {"List(Boolean)", "List(UInt8)"}}
    \cup {Series("Array(Boolean)", <<Row(Cells(<<1, 0>>)), Row(<<Nil, Cell(1)>>)>>),
          Series("Array(Boolean,0)", <<Row(<<>>), Row(<<>>)>>)}
    \cup {Series(dt, <<Row(<<Cell(MIN(Width(Inner[dt]))), Cell(MAX(Width(Inner[dt]))), Nil>>), Row(<<>>)>>) :
             dt \in {"List(Int16)", "List(Int32)", "List(Int64)"}}
    \cup {Series(dt, <<Row(<<Cell(NaN), Cell(4)>>)>>) : dt \in {"List(Float32)", "List(Float64)"}}
    \cup {Series("List(Int16)", <<Nil>>), Series("List(Categorical)", <<Row(<<TextCell(A)>>)>>)}

Ints == Series("Int16", Cells(<<1, MIN(2)>>))

\* Lists of one type are read as columns.
Lists ==
    LET item == {Ints, Text("CharVector", Eacute), Text("CharVector", <<195>>),
                 List("MixedList", <<>>), Series("Datetime(us)", Cells(<<1>>)),
                 Series("Categorical", <<TextCell(A)>>), Series("UInt8", <<>>), Atom("I16", 1)}
    IN {List("MixedList", <<i, j>>) : i, j \in item}
       \cup {List("Dict", <<Entry(A, i), Entry(B, j)>>) : i, j \in item}
       \cup {List("Dict", <<>>), List("Dict", <<Entry(<<0>>, Null)>>),
             List("Dict", <<Entry(A, Text("Symbol", A)), Entry(A, Null)>>)}

Tables ==
    {List("DataFrame", <<>>),
     List("DataFrame", <<Column(A, "Int16", Cells(<<1>>))>>),
     List("DataFrame", <<Column(A, "Categorical", <<TextCell(Eacute)>>),
                         Column(B, "String", <<TextCell(Eacute)>>)>>),
     List("DataFrame", <<Column(Eacute, "List(Int16)", <<Row(<<Cell(1)>>)>>),
                         Column(B, "Datetime(ms)", <<Nil>>)>>)}

RECURSIVE Deep(_, _, _)
Deep(kind, n, v) ==
    IF n = 0 THEN v
    ELSE List(kind, <<IF kind = "Dict" THEN Entry(A, Deep(kind, n - 1, v)) ELSE Deep(kind, n - 1, v)>>)

DeepValues ==
    {Deep(kind, n, v) : kind \in {"MixedList", "Dict"}, n \in 1..5,
                        v \in {Null, Series("String", <<TextCell(A)>>),
                               List("DataFrame", <<Column(A, "Int16", Cells(<<1>>))>>),
                               Lambda(<<123, 125>>, <<>>),
                               Text("QValue", <<0, 0, 1, 0, 0, 0, 101, 0>>)}}

\* As objects of Node, and of Python.
NodeObject(v) == k_into_native(v, 0).v

NodeCall(args, objects, getters, limit) ==
    [host |-> "node", args |-> args, heap |-> objects, getters |-> getters, limit |-> limit]
PythonCall(args, objects) ==
    [host |-> "python", args |-> args, heap |-> objects, getters |-> {}, limit |-> 0]

One == Atom("i16", 1)

Graphs ==
    LET shared == [x |-> List("list", <<Ref("y"), Ref("y")>>), y |-> List("list", <<One>>)]
        cycle == [x |-> List("list", <<Ref("y")>>), y |-> List("dictionary", <<Entry(A, Ref("x"))>>)]
        changing == [x |-> List("dictionary", <<Entry(A, Ref("y")), Entry(B, One)>>),
                     y |-> List("list", <<One, Text("string", B)>>)]
        getters == {[id |-> "x", o |-> List("dictionary", <<Entry(A, Ref("y"))>>)],
                    [id |-> "x", o |-> List("dictionary", <<Entry(A, Ref("y")), Entry(B, Ref("x"))>>)],
                    [id |-> "y", o |-> List("list", <<One, Ref("x")>>)],
                    [id |-> "y", o |-> Text("bytes", <<1, 2, 3>>)],
                    [id |-> "y", o |-> List("list", <<One, One, One>>)]}
    IN {NodeCall(<<Ref("x")>>, shared, {}, limit) : limit \in {1, 5, 10, 17, 18, 30}}
       \cup {NodeCall(<<Ref("x"), Ref("x")>>, cycle, {}, 60)}
       \cup {NodeCall(<<Ref("x")>>, changing, getters, limit) : limit \in {12, 20, 40}}
       \cup {NodeCall(<<Deep("list", n, One)>>, <<>>, {}, 60) : n \in {4, 5}}

Malformed ==
    {Node("malformed", "", <<>>, <<>>), Atom("u8", 256), Atom("i16", MAX(2) + 1), Atom("i32", MIN(4) - 1),
     Atom("i64", MAX(8) + 1), Atom("f32", F32_MAX + 1), Atom("timestamp", MIN(8) + NANOS_DIFF + 1),
     Atom("time", 5), Atom("time", NANOS_PER_DAY), Text("symbol", <<97, 0>>), Text("guid", A),
     Node("qvalue", "", <<250, 1, 0, 0, 0>>, <<Text("Facts", <<250, 2, 0>>)>>),
     Node("lambda", "", <<123>>, <<Text("Context", <<>>)>>),
     List("dictionary", <<Atom("u8", 1)>>)}

PythonObjects ==
    {Atom("int", MAX(8)), Atom("int", MAX(8) + 1), Atom("float", PosInf), Atom("bool", 1),
     Text("str", Eacute), Text("str", <<97, 0>>), Text("bytes", <<195>>), Node("None", "", <<>>, <<>>),
     PyDateTime(20, 1, None), PyDateTime(20, 0, 8), PyDateTime(20, 2, None),
     PyDateTime(MIN(8) + NANOS_DIFF, 0, None), PyDateTime(MAX(8) + 1, 0, 2),
     Atom("date", 2), Atom("time", 4), Atom("time", 2), Atom("timedelta", 4),
     Atom("timedelta", 2 * MAX(8)), Node("object", "", <<>>, <<>>),
     Node("ArrowSeries", "Int16", <<>>, Cells(<<1>>)), Text("QValue", <<250, 1, 0, 0, 0>>),
     List("tuple", <<Atom("int", 1), List("list", <<Text("str", A)>>)>>),
     List("dict", <<Entry(A, Atom("bool", 0))>>), List("dict", <<Atom("int", 1)>>)}

MCCalls ==
    {NodeCall(<<NodeObject(v)>>, <<>>, {}, 60) :
        v \in Atoms \cup SeriesSamples \cup Lists \cup Tables
              \cup {d \in DeepValues : k_into_native(d, 0).ok}}
    \cup {NodeCall(<<o>>, <<>>, {}, 60) : o \in Malformed}
    \cup {NodeCall(<<One, One, One>>, <<>>, {}, 60), NodeCall(<<One, NodeObject(Ints)>>, <<>>, {}, 60),
          NodeCall(<<>>, <<>>, {}, 60)}
    \cup Graphs
    \cup {PythonCall(<<o>>, <<>>) : o \in PythonObjects}
    \cup {PythonCall(<<Ref("x")>>, [x |-> List("list", <<Ref("y"), Ref("y")>>),
                                    y |-> List("tuple", <<Atom("int", 1)>>)]),
          PythonCall(<<Ref("x")>>, [x |-> List("dict", <<Entry(A, Ref("x"))>>)]),
          PythonCall([i \in 1..3 |-> Atom("int", i)], <<>>)}

(* What a q process sends and this client does not: months, minutes, seconds *)
(* and datetimes, attributes, long counts, keyed tables, functions, text     *)
(* that is not UTF-8 or is cut between rows, and values that are malformed.  *)
List1(type, payload) == ListHeader(type, 1) \o payload
TableBody(name, column) == <<98, 0, 99>> \o List1(11, name \o <<0>>) \o List1(0, column)

MCBodies ==
    {<<256 - type>> \o Number(4, v) : type \in {13, 14, 17, 18, 19}, v \in {MIN(4), 0, 1, 7}}
    \cup {<<256 - type>> \o Number(8, v) : type \in {12, 15}, v \in {MIN(8), MIN(8) + 1, 0, NaN, PosInf}}
    \cup {List1(type, Number(4, v)) : type \in {13, 14, 17, 18, 19}, v \in {MIN(4), 0, 1, 7}}
    \cup {List1(type, Number(8, v)) : type \in {12, 15, 16}, v \in {MIN(8), MIN(8) + 1, 0, NaN, PosInf}}
    \cup {List1(1, <<2>>), <<255, 2>>, <<1, 128>> \o Number(8, 1) \o <<1>>, <<5, 2>> \o q_list_length(1) \o <<1, 0>>,
          <<6, 5>> \o q_list_length(0), <<6, 0, 0, 0, 0, 200>>}
    \cup {ListHeader(0, 2) \o List1(10, <<195>>) \o List1(10, <<169>>),
          ListHeader(0, 3) \o List1(10, <<195>>) \o ListHeader(0, 0) \o List1(10, <<169>>),
          ListHeader(0, 2) \o List1(11, <<195, 0>>) \o List1(11, <<97, 0>>),
          ListHeader(0, 2) \o List1(12, Number(8, MAX(8))) \o List1(12, Number(8, 1)),
          ListHeader(11, 2) \o <<195, 0, 169, 0>>, <<245, 195, 0>>, List1(10, <<200>>)}
    \cup {TableBody(A, List1(10, <<200>>)), TableBody(<<195>>, List1(5, <<1, 0>>)),
          TableBody(A, ListHeader(0, 2) \o List1(10, <<195>>) \o List1(10, <<169>>)),
          <<99>> \o TableBody(A, List1(5, <<1, 0>>)) \o TableBody(B, List1(5, <<2, 0>>)),
          <<99>> \o TableBody(A, List1(5, <<1, 0>>)) \o TableBody(A, List1(5, <<2, 0>>)),
          <<99>> \o TableBody(A, List1(5, <<1, 0>>)) \o TableBody(B, ListHeader(5, 2) \o <<2, 0, 2, 0>>),
          <<98, 0, 99>> \o ListHeader(11, 2) \o <<97, 0, 97, 0>> \o ListHeader(0, 2)
            \o List1(4, <<1>>) \o List1(4, <<2>>)}
    \cup {<<99>> \o ListHeader(0, 0) \o ListHeader(0, 0),
          <<127>> \o List1(6, Number(4, 1)) \o List1(6, Number(4, 2)),
          <<99>> \o List1(11, <<97, 0>>) \o List1(14, Number(4, 7)),
          <<99>> \o List1(11, <<97, 0>>) \o List1(10, <<200>>),
          <<99>> \o List1(11, <<97, 0>>) \o List1(2, Guid16),
          <<99>> \o ListHeader(11, 2) \o <<97, 0, 98, 0>> \o List1(5, <<1, 0>>)}
    \cup {<<100, 0>> \o SerializeText(<<123, 195, 125>>), <<100, 46, 0>> \o SerializeText(<<123, 125>>),
          <<101, 255>>, <<101, 42>>, <<102, 34>>, <<103, 2>>, <<104>> \o q_list_length(2) \o <<102, 1, 250, 1, 0, 0, 0>>,
          <<106, 102, 1>>, <<128, 97, 0>>, <<20, 0>>, <<3, 0, 0, 0, 0, 0>>}
=============================================================================
