----------------------------- MODULE MCPipeline -----------------------------
(* Model-checking instance of Pipeline: a body of seven bytes whose name    *)
(* list and two columns may overrun it, leave a trailing byte, be known     *)
(* early (fixed width) or late (symbols), and fail to decode.               *)
EXTENDS Pipeline

Sec(s, n, e, f) == [start |-> s, known |-> n, end |-> e, flaw |-> f]

MCLayout ==
    {<<Sec(1, kn, 2, f0), Sec(3, k1, 5, f1), Sec(5, k2, e2, f2)>> :
        kn \in {2}, k1 \in {4, 5}, k2 \in {6}, e2 \in {6, 7, 8},
        f0 \in {"none", "error"}, f1 \in {"none", "error", "panic"}, f2 \in {"none", "error"}}
      \cup {<<Sec(1, 2, 2, "none"), Sec(3, 8, 8, "none")>>,
            <<Sec(1, 2, 2, "panic"), Sec(3, 7, 7, "none")>>,
            <<Sec(1, 2, 7, "none"), Sec(7, 8, 9, "none")>>,
            <<Sec(1, 2, 7, "none")>>}
=============================================================================
