------------------------------ MODULE MCListScan ------------------------------
(* Model-checking instance of ListScan. *)
EXTENDS ListScan

Header4(n) == IF n = None THEN <<1, 0, 0, 128>> ELSE IF n = HugeCount THEN <<0, 0, 0, 1>> ELSE q_list_length(n)

Row(t, n, payload) == <<t, 0>> \o Header4(n) \o payload
Body(n, payload) == <<0>> \o Header4(n) \o payload

\* Lists of shorts, of symbols, and of a type that has no lists, with too few
\* bytes, enough, or more than the list has.
SimpleLists ==
    [k_type : {3, 5, 11},
     body : {Body(n, payload) : n \in {None, HugeCount, 0, 1, 2},
                payload \in {<<>>, <<0>>, <<97, 0>>, <<97, 0, 0>>, <<1, 2, 3, 4, 0, 6>>}}
              \cup {<<>>, <<0, 1>>}]

\* Nested lists of one and of two rows, and what is behind them.
OneRow == {Row(t, n, payload) : t \in {0, 5, 11, 13}, n \in {0, 1, 2, None},
                payload \in {<<>>, <<0>>, <<97, 0>>, <<0, 97, 0>>}}
FirstRow == {Row(5, 0, <<>>), Row(5, 1, <<7, 0>>), Row(11, 0, <<>>), Row(11, 1, <<97, 0>>),
             Row(11, 2, <<0, 0>>)}
SecondRow == {Row(t, n, payload) : t \in {0, 5, 11}, n \in {0, 1},
                payload \in {<<>>, <<97, 0>>}}

NestedLists ==
    [k_type : {0},
     body : {Body(n, rows) : n \in {HugeCount, 1, 2}, rows \in {<<>>} \cup OneRow}
              \cup {Body(2, a \o b) : a \in FirstRow, b \in SecondRow}
              \cup {Body(2, Row(5, 0, <<>>) \o Row(5, 0, <<>>) \o Row(0, 1, <<>>))}]

MCLists == SimpleLists \cup NestedLists
=============================================================================
