------------------------------- MODULE ListScan -------------------------------
(***************************************************************************)
(* The resumable scan for the end of one list, ListScan of                 *)
(* crates/xqdb/src/serde6.rs, driven by scan_to_end() of pipeline.rs while *)
(* the reader still receives the frame.                                    *)
(*                                                                         *)
(* The scan keeps its place between two calls of advance(); each call sees *)
(* the prefix that had arrived when it began.  A step is one iteration of  *)
(* the loops of advance(), during which more bytes may arrive.             *)
(***************************************************************************)
EXTENDS Wire

CONSTANTS
    Lists   \* [k_type, body]: a list from its attribute byte on, and the
            \* rest of the frame behind it

ASSUME ListsAssumption == Lists \subseteq [k_type : 0..255, body : Seq(Byte)]

VARIABLES
    list,
    received,           \* bytes the reader has published
    seen,               \* bytes the current call of advance() sees
    pos, rows_left, child_type, child_symbols_left,   \* ListScan
    pc,                 \* "new", then where advance() is: "start", "header", "rows"
                        \* and "end", "wait" between two calls, "done"
    outcome             \* "none", "complete", "error", "panic"

scan == <<pos, rows_left, child_type, child_symbols_left>>
vars == <<list, received, seen, scan, pc, outcome>>

total == Len(list.body)
Seen == SubSeq(list.body, 1, seen)

Init ==
    /\ list \in Lists
    /\ received \in 0..Len(list.body)
    /\ seen = 0
    /\ pos = 0 /\ rows_left = None /\ child_type = None /\ child_symbols_left = 0
    /\ pc = "new"
    /\ outcome = "none"

\* read_remaining() publishes some more bytes.
Arrive ==
    /\ received < total
    /\ received' \in (received + 1)..total
    /\ UNCHANGED <<list, seen, scan, pc, outcome>>

Goto(where) == pc' = where /\ UNCHANGED <<list, received, seen, outcome>>

Stop(what) ==
    /\ pc' = "done"
    /\ outcome' = what
    /\ UNCHANGED <<list, received, seen, scan>>

\* ListScan::new()
New ==
    /\ pc = "new"
    /\ IF list.k_type \in ListTypes
       THEN Goto("start") /\ UNCHANGED scan
       ELSE Stop("error")

\* scan_to_end() calls advance() with a snapshot of what has arrived: at
\* once, and after that when there is more.  (wait_for() fails when nothing
\* more can come, which ScanStaysInside excludes, and when the receipt fails,
\* which is module Pipeline's concern.)
Advance ==
    /\ \/ pc = "start"
       \/ pc = "wait" /\ received > seen
    /\ seen' = received
    /\ pc' = IF rows_left = None THEN "header" ELSE "rows"
    /\ UNCHANGED <<list, received, scan, outcome>>

\* Mutant: a header that is cut off by the end of the frame is waited for.
IncompleteAlways(needed) == Goto("wait") /\ UNCHANGED scan

\* incomplete_or_overrun()
Incomplete(needed) ==
    IF needed > total THEN Stop("error") ELSE Goto("wait") /\ UNCHANGED scan

\* The list's own header.  A list of fixed-size elements is skipped at once.
Header ==
    /\ pc = "header"
    /\ LET rows == take_list_length(Seen, pos)
           end == pos + 5 + rows * K_TYPE_SIZE[list.k_type]
       IN IF pos + 5 > seen THEN Incomplete(pos + 5)
          ELSE IF rows = None THEN Stop("error")
          ELSE IF list.k_type \in {0, 11}
          THEN /\ pos' = pos + 5 /\ rows_left' = rows
               /\ Goto("rows")
               /\ UNCHANGED <<child_type, child_symbols_left>>
          ELSE IF end > total THEN Stop("error")
          ELSE /\ pos' = end /\ rows_left' = 0
               /\ Goto("end")
               /\ UNCHANGED <<child_type, child_symbols_left>>

\* Counts off what the symbols at hand are: the list's elements, or those of
\* the nested row, which ends with the last of them.
CountOff ==
    IF list.k_type = 11
    THEN rows_left' = rows_left - 1 /\ UNCHANGED child_symbols_left
    ELSE /\ child_symbols_left' = child_symbols_left - 1
         /\ rows_left' = IF child_symbols_left = 1 THEN rows_left - 1 ELSE rows_left

\* scan_symbols(): one symbol.
Symbol ==
    /\ pc = "rows"
    /\ rows_left > 0
    /\ list.k_type = 11 \/ child_symbols_left > 0
    /\ LET nul == NulAt(Seen, pos)
       IN IF pos > seen THEN Stop("panic")
          ELSE IF nul # None
          THEN pos' = nul + 1 /\ CountOff /\ Goto("rows") /\ UNCHANGED child_type
          ELSE IF seen < total THEN Goto("wait") /\ UNCHANGED scan
          ELSE Stop("error")

\* Mutant: the row is counted off only once all of its bytes have arrived,
\* but its place is remembered already.
SkippedLate(type, n) ==
    LET end == pos + 6 + n * K_TYPE_SIZE[type]
    IN IF end > total THEN Stop("error")
       ELSE /\ pos' = end /\ child_type' = type
            /\ rows_left' = IF end > seen THEN rows_left ELSE rows_left - 1
            /\ UNCHANGED child_symbols_left
            /\ Goto(IF end > seen THEN "wait" ELSE "rows")

\* A row of fixed-size elements is skipped, whether it has arrived or not.
Skipped(type, n) ==
    LET end == pos + 6 + n * K_TYPE_SIZE[type]
    IN IF end > total THEN Stop("error")
       ELSE /\ pos' = end /\ child_type' = type /\ rows_left' = rows_left - 1
            /\ UNCHANGED child_symbols_left
            /\ Goto(IF end > seen THEN "wait" ELSE "rows")

\* advance_nested(): the header of a row.
NestedRow ==
    /\ pc = "rows"
    /\ list.k_type = 0 /\ rows_left > 0 /\ child_symbols_left = 0
    /\ LET type == At(Seen, pos)
           n == take_list_length(Seen, pos + 1)
           child == IF child_type = None THEN type ELSE child_type
       IN IF pos + 6 > seen THEN Incomplete(pos + 6)
          ELSE IF \/ child \notin NestedTypes
                  \/ type \notin {0, child}
                  \/ n = None
                  \/ type = 0 /\ n # 0
          THEN Stop("error")
          ELSE IF type \in {0, 11}
          THEN /\ pos' = pos + 6 /\ child_type' = child
               /\ child_symbols_left' = n
               /\ rows_left' = IF n = 0 THEN rows_left - 1 ELSE rows_left
               /\ Goto("rows")
          ELSE Skipped(type, n)

RowsDone ==
    /\ pc = "rows"
    /\ rows_left = 0
    /\ Goto("end") /\ UNCHANGED scan

\* All rows are counted off; the last one's bytes may still be missing.
End ==
    /\ pc = "end"
    /\ IF pos <= seen THEN Stop("complete") ELSE Goto("wait") /\ UNCHANGED scan

Scan == New \/ Advance \/ Header \/ Symbol \/ NestedRow \/ RowsDone \/ End

Next == Arrive \/ Scan

Spec == Init /\ [][Next]_vars

(***************************************************************************)
(* Properties.                                                             *)
(***************************************************************************)
TypeOK ==
    /\ list \in Lists
    /\ received \in 0..total /\ seen \in 0..received
    /\ pos \in Nat /\ rows_left \in Nat \cup {None}
    /\ child_type \in NestedTypes \cup {None} /\ child_symbols_left \in Nat
    /\ pc \in {"new", "start", "header", "rows", "end", "wait", "done"}
    /\ outcome \in {"none", "complete", "error", "panic"}

\* Wherever the frame was cut, the scan reports the end, or the error, that
\* calculate_array_end_index() finds in the whole body.
SameAsOneShot ==
    LET end == ListEnd(list.body, list.k_type, 0)
    IN /\ outcome = "complete" => pos = end /\ pos <= received
       /\ outcome = "error" => end = None

\* scan_symbols() slices the received bytes at its place, which must never lie
\* beyond them; no place lies beyond the frame; and the scan waits for more
\* only while more can come, where scan_to_end() would otherwise refuse a
\* frame that is complete.
ScanStaysInside ==
    /\ outcome # "panic"
    /\ pos <= total
    /\ pc = "wait" => seen < total
=============================================================================
