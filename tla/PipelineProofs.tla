---------------------------- MODULE PipelineProofs ----------------------------
(***************************************************************************)
(* Proofs about Pipeline, for every body length, layout and pool size:     *)
(* types, the separation of the reader's bytes from everybody else's, and  *)
(* that decoding during the receipt implements decoding after it.          *)
(***************************************************************************)
EXTENDS Pipeline, TLAPS

USE SizeAssumption

(***************************************************************************)
(* The inductive invariant.                                                *)
(***************************************************************************)
\* The reader publishes what it has filled before it reads again, and its
\* outcome is decided exactly when it says so in `failed` or stops.
ReaderInv ==
    /\ received <= filled
    /\ rpc # "publish" => received = filled
    /\ rpc = "publish" => received < filled
    /\ rpc = "fail" => filled < Total
    /\ failed <=> io = "error"
    /\ io = "error" => rpc \in {"notify", "done"} /\ filled < Total
    /\ io = "ok" => rpc = "done" /\ filled = Total
    /\ rpc = "done" => io # "none"
    /\ result # "none" => rpc = "done"

\* What the scanner waits for in each of its states, and that it is in a
\* section of the layout.
ScannerInv ==
    /\ count <= received
    /\ spc \notin {"last", "done"} => k <= Len(layout)
    /\ spc = "more" => need = count + 1 /\ count < layout[k].known
    /\ spc = "end" => need = layout[k].end /\ need <= Total
    /\ spc = "type" => need = layout[k].start + 1
    /\ spc = "last" => k = Len(layout) + 1 /\ need = Total
    /\ k > 1 => layout[1].flaw = "none"

\* The columns the scanner has passed have a task, whose column is complete,
\* and whose outcome is the column's.
TaskInv ==
    \A i \in 2..Len(layout) :
        /\ task[i] = "none" <=> i >= k
        /\ task[i] # "none" => layout[i].end <= received
        /\ task[i] = "ok" => layout[i].flaw = "none"
        /\ task[i] \in {"error", "panic"} => layout[i].flaw # "none"

\* What scan_columns returned says the truth about the body, unless the
\* receipt failed.
VerdictInv ==
    /\ names = "none" <=> spc # "done"
    /\ names = "ok" => k = Len(layout) + 1 /\ layout[Len(layout)].end = Total
    /\ names \in {"error", "panic"} => failed \/ ~Good(layout)

IInv == TypeOK /\ ReaderInv /\ ScannerInv /\ TaskInv /\ VerdictInv

(***************************************************************************)
(* Facts about layouts.                                                    *)
(***************************************************************************)
\* A layout of the constant Layout has the shape LayoutAssumption gives it.
LEMMA LayoutShape ==
    ASSUME layout \in Layout
    PROVE  /\ Len(layout) \in Nat \ {0}
           /\ \A i \in 1..Len(layout) :
                /\ layout[i] \in Section
                /\ layout[i].start \in Nat /\ layout[i].known \in Nat /\ layout[i].end \in Nat
                /\ layout[i].flaw \in {"none", "error", "panic"}
                /\ layout[i].start < layout[i].known /\ layout[i].known <= layout[i].end
           /\ \A i, j \in 1..Len(layout) : i < j => layout[i].end <= layout[j].start
<1>1. layout \in Seq(Section) /\ layout # <<>>
  BY LayoutAssumption
<1>2. Len(layout) \in Nat \ {0}
  BY <1>1
<1>3. \A i \in 1..Len(layout) : layout[i] \in Section
  BY <1>1
<1>4. QED
  BY <1>2, <1>3, LayoutAssumption DEF Section

\* A section that ends beyond the frame puts the last one's end beyond it
\* too: the overrun scan_columns reports is an overrun of the whole table.
LEMMA OverrunIsBad ==
    ASSUME layout \in Layout, NEW i \in 1..Len(layout), layout[i].end > Total
    PROVE  ~Good(layout)
<1>1. Len(layout) \in 1..Len(layout)
  BY LayoutShape
<1>2. layout[Len(layout)].end > Total
  <2>1. CASE i = Len(layout)
    BY <2>1
  <2>2. CASE i < Len(layout)
    BY <1>1, <2>2, LayoutShape
  <2>3. QED
    BY <2>1, <2>2, LayoutShape
<1>3. QED
  BY <1>1, <1>2, LayoutShape DEF Good

\* Every step of read_remaining(), publish() and fail() preserves it.
LEMMA ReaderStepInv ==
    ASSUME IInv, (\E n \in 1..Total : ReadSome(n)) \/ ReadFails \/ ReaderStep
    PROVE  IInv'
<1> USE LayoutShape DEF IInv, fixed, reader, scanner
<1>1. ASSUME NEW n \in 1..Total, ReadSome(n) PROVE IInv'
  <2> USE <1>1 DEF ReadSome
  <2>1. TypeOK'
    BY DEF TypeOK
  <2>2. ReaderInv'
    BY DEF TypeOK, ReaderInv
  <2>3. ScannerInv'
    BY DEF TypeOK, ReaderInv, ScannerInv
  <2>4. TaskInv'
    BY DEF TypeOK, ReaderInv, ScannerInv, TaskInv
  <2>5. VerdictInv'
    BY DEF TypeOK, ScannerInv, VerdictInv
  <2>6. QED
    BY <2>1, <2>2, <2>3, <2>4, <2>5 DEF IInv
<1>2. ASSUME ReadFails PROVE IInv'
  <2> USE <1>2 DEF ReadFails
  <2>1. TypeOK'
    BY DEF TypeOK
  <2>2. ReaderInv'
    BY DEF TypeOK, ReaderInv
  <2>3. ScannerInv'
    BY DEF TypeOK, ReaderInv, ScannerInv
  <2>4. TaskInv'
    BY DEF TypeOK, ReaderInv, ScannerInv, TaskInv
  <2>5. VerdictInv'
    BY DEF TypeOK, ScannerInv, VerdictInv
  <2>6. QED
    BY <2>1, <2>2, <2>3, <2>4, <2>5 DEF IInv
<1>3. ASSUME Publish PROVE IInv'
  <2> USE <1>3 DEF Publish
  <2>1. TypeOK'
    BY DEF TypeOK
  <2>2. ReaderInv'
    BY DEF TypeOK, ReaderInv
  <2>3. ScannerInv'
    BY DEF TypeOK, ReaderInv, ScannerInv
  <2>4. TaskInv'
    BY DEF TypeOK, ReaderInv, ScannerInv, TaskInv
  <2>5. VerdictInv'
    BY DEF TypeOK, ScannerInv, VerdictInv
  <2>6. QED
    BY <2>1, <2>2, <2>3, <2>4, <2>5 DEF IInv
<1>4. ASSUME Fail PROVE IInv'
  <2> USE <1>4 DEF Fail
  <2>1. TypeOK'
    BY DEF TypeOK
  <2>2. ReaderInv'
    BY DEF TypeOK, ReaderInv
  <2>3. ScannerInv'
    BY DEF TypeOK, ReaderInv, ScannerInv
  <2>4. TaskInv'
    BY DEF TypeOK, ReaderInv, ScannerInv, TaskInv
  <2>5. VerdictInv'
    BY DEF TypeOK, ScannerInv, VerdictInv
  <2>6. QED
    BY <2>1, <2>2, <2>3, <2>4, <2>5 DEF IInv
<1>5. ASSUME Notify PROVE IInv'
  <2> USE <1>5 DEF Notify
  <2>1. TypeOK'
    BY DEF TypeOK
  <2>2. ReaderInv'
    BY DEF TypeOK, ReaderInv
  <2>3. ScannerInv'
    BY DEF TypeOK, ReaderInv, ScannerInv
  <2>4. TaskInv'
    BY DEF TypeOK, ReaderInv, ScannerInv, TaskInv
  <2>5. VerdictInv'
    BY DEF TypeOK, ScannerInv, VerdictInv
  <2>6. QED
    BY <2>1, <2>2, <2>3, <2>4, <2>5 DEF IInv
<1>6. ASSUME ReadDone PROVE IInv'
  <2> USE <1>6 DEF ReadDone
  <2>1. TypeOK'
    BY DEF TypeOK
  <2>2. ReaderInv'
    BY DEF TypeOK, ReaderInv
  <2>3. ScannerInv'
    BY DEF TypeOK, ReaderInv, ScannerInv
  <2>4. TaskInv'
    BY DEF TypeOK, ReaderInv, ScannerInv, TaskInv
  <2>5. VerdictInv'
    BY DEF TypeOK, ScannerInv, VerdictInv
  <2>6. QED
    BY <2>1, <2>2, <2>3, <2>4, <2>5 DEF IInv
<1>7. QED
  BY <1>1, <1>2, <1>3, <1>4, <1>5, <1>6 DEF ReaderStep

\* Every step of scan_columns() preserves it.
LEMMA ScannerStepInv ==
    ASSUME IInv, ScannerStep
    PROVE  IInv'
<1> USE LayoutShape DEF IInv, fixed, reader, scanner
<1>1. ASSUME StartScanner PROVE IInv'
  <2> USE <1>1 DEF StartScanner
  <2>1. TypeOK'
    BY DEF TypeOK
  <2>2. ReaderInv'
    BY DEF TypeOK, ReaderInv
  <2>3. ScannerInv'
    BY DEF TypeOK, ReaderInv, ScannerInv
  <2>4. TaskInv'
    BY DEF TypeOK, ReaderInv, ScannerInv, TaskInv
  <2>5. VerdictInv'
    BY DEF TypeOK, ScannerInv, VerdictInv
  <2>6. QED
    BY <2>1, <2>2, <2>3, <2>4, <2>5 DEF IInv
<1>2. ASSUME Snapshot PROVE IInv'
  <2> USE <1>2 DEF Snapshot, ScanError
  <2>1. TypeOK'
    BY DEF TypeOK
  <2>2. ReaderInv'
    BY DEF TypeOK, ReaderInv
  <2>3. ScannerInv'
    BY DEF TypeOK, ReaderInv, ScannerInv
  <2>4. TaskInv'
    BY DEF TypeOK, ReaderInv, ScannerInv, TaskInv
  <2>5. VerdictInv'
    BY DEF TypeOK, ScannerInv, VerdictInv
  <2>6. QED
    BY <2>1, <2>2, <2>3, <2>4, <2>5 DEF IInv
<1>3. ASSUME Advance PROVE IInv'
  <2> USE <1>3 DEF Advance, ScanError, WaitFor
  <2>1. TypeOK'
    BY DEF TypeOK, ScannerInv
  <2>2. ReaderInv'
    BY DEF TypeOK, ReaderInv
  <2>3. ScannerInv'
    BY DEF TypeOK, ReaderInv, ScannerInv
  <2>4. TaskInv'
    BY DEF TypeOK, ReaderInv, ScannerInv, TaskInv
  <2>5. VerdictInv'
    <3>1. k \in 1..Len(layout)
      BY DEF TypeOK, ScannerInv
    <3>2. layout[k].end > Total => ~Good(layout)
      BY <3>1, OverrunIsBad DEF TypeOK
    <3>3. QED
      BY <3>2 DEF TypeOK, ScannerInv, VerdictInv
  <2>6. QED
    BY <2>1, <2>2, <2>3, <2>4, <2>5 DEF IInv
<1>4. ASSUME WaitTooFar PROVE IInv'
  <2> USE <1>4 DEF WaitTooFar, Waiting, ScanError
  <2>1. TypeOK'
    BY DEF TypeOK
  <2>2. ReaderInv'
    BY DEF TypeOK, ReaderInv
  <2>3. ScannerInv'
    BY DEF TypeOK, ReaderInv, ScannerInv
  <2>4. TaskInv'
    BY DEF TypeOK, ReaderInv, ScannerInv, TaskInv
  <2>5. VerdictInv'
    <3>1. k \in 1..Len(layout) /\ layout[k].end > Total
      BY SMTT(30) DEF TypeOK, ScannerInv
    <3>2. ~Good(layout)
      BY <3>1, OverrunIsBad DEF TypeOK
    <3>3. QED
      BY <3>2 DEF TypeOK, ScannerInv, VerdictInv
  <2>6. QED
    BY <2>1, <2>2, <2>3, <2>4, <2>5 DEF IInv
<1>5. ASSUME Sleep PROVE IInv'
  <2> USE <1>5 DEF Sleep, Waiting
  <2>1. TypeOK'
    BY DEF TypeOK
  <2>2. ReaderInv'
    BY DEF TypeOK, ReaderInv
  <2>3. ScannerInv'
    BY DEF TypeOK, ReaderInv, ScannerInv
  <2>4. TaskInv'
    BY DEF TypeOK, ReaderInv, ScannerInv, TaskInv
  <2>5. VerdictInv'
    BY DEF TypeOK, ScannerInv, VerdictInv
  <2>6. QED
    BY <2>1, <2>2, <2>3, <2>4, <2>5 DEF IInv
<1>6. ASSUME WaitFailed PROVE IInv'
  <2> USE <1>6 DEF WaitFailed, Waiting, ScanError
  <2>1. TypeOK'
    BY DEF TypeOK
  <2>2. ReaderInv'
    BY DEF TypeOK, ReaderInv
  <2>3. ScannerInv'
    BY DEF TypeOK, ReaderInv, ScannerInv
  <2>4. TaskInv'
    BY DEF TypeOK, ReaderInv, ScannerInv, TaskInv
  <2>5. VerdictInv'
    BY DEF TypeOK, ScannerInv, VerdictInv
  <2>6. QED
    BY <2>1, <2>2, <2>3, <2>4, <2>5 DEF IInv
<1>7. ASSUME MoreArrived PROVE IInv'
  <2> USE <1>7 DEF MoreArrived, Ready
  <2>1. TypeOK'
    BY DEF TypeOK
  <2>2. ReaderInv'
    BY DEF TypeOK, ReaderInv
  <2>3. ScannerInv'
    BY DEF TypeOK, ReaderInv, ScannerInv
  <2>4. TaskInv'
    BY DEF TypeOK, ReaderInv, ScannerInv, TaskInv
  <2>5. VerdictInv'
    BY DEF TypeOK, ScannerInv, VerdictInv
  <2>6. QED
    BY <2>1, <2>2, <2>3, <2>4, <2>5 DEF IInv
<1>8. ASSUME SectionArrived PROVE IInv'
  <2> USE <1>8 DEF SectionArrived, Ready, NextSection, WaitFor
  <2>1. TypeOK'
    BY SMTT(30) DEF TypeOK, ScannerInv
  <2>2. ReaderInv'
    BY DEF TypeOK, ReaderInv
  <2>3. ScannerInv'
    BY DEF TypeOK, ReaderInv, ScannerInv
  <2>4. TaskInv'
    BY SMTT(30) DEF TypeOK, ReaderInv, ScannerInv, TaskInv
  <2>5. VerdictInv'
    <3>1. k = 1 /\ layout[1].flaw # "none" => ~Good(layout)
      BY DEF TypeOK, Good
    <3>2. QED
      BY <3>1 DEF TypeOK, ScannerInv, VerdictInv
  <2>6. QED
    BY <2>1, <2>2, <2>3, <2>4, <2>5 DEF IInv
<1>9. ASSUME TypeArrived PROVE IInv'
  <2> USE <1>9 DEF TypeArrived, Ready
  <2>1. TypeOK'
    BY DEF TypeOK
  <2>2. ReaderInv'
    BY DEF TypeOK, ReaderInv
  <2>3. ScannerInv'
    BY DEF TypeOK, ReaderInv, ScannerInv
  <2>4. TaskInv'
    BY DEF TypeOK, ReaderInv, ScannerInv, TaskInv
  <2>5. VerdictInv'
    BY DEF TypeOK, ScannerInv, VerdictInv
  <2>6. QED
    BY <2>1, <2>2, <2>3, <2>4, <2>5 DEF IInv
<1>10. ASSUME ScanDone PROVE IInv'
  <2> USE <1>10 DEF ScanDone, Ready
  <2>1. TypeOK'
    BY DEF TypeOK
  <2>2. ReaderInv'
    BY DEF TypeOK, ReaderInv
  <2>3. ScannerInv'
    BY DEF TypeOK, ReaderInv, ScannerInv
  <2>4. TaskInv'
    BY DEF TypeOK, ReaderInv, ScannerInv, TaskInv
  <2>5. VerdictInv'
    <3>1. layout[Len(layout)].end # Total => ~Good(layout)
      BY DEF Good
    <3>2. QED
      BY <3>1 DEF TypeOK, ScannerInv, VerdictInv
  <2>6. QED
    BY <2>1, <2>2, <2>3, <2>4, <2>5 DEF IInv
<1>11. QED
  BY <1>1, <1>2, <1>3, <1>4, <1>5, <1>6, <1>7, <1>8, <1>9, <1>10 DEF ScannerStep

\* Decode tasks and the end of the scope preserve it.
LEMMA TaskStepInv ==
    ASSUME IInv, (\E i \in DOMAIN task : StartDecode(i) \/ EndDecode(i)) \/ Join
    PROVE  IInv'
<1> USE LayoutShape DEF IInv, fixed, reader, scanner
<1>1. ASSUME NEW i \in DOMAIN task, StartDecode(i) PROVE IInv'
  <2> USE <1>1 DEF StartDecode
  <2>1. TypeOK'
    BY DEF TypeOK
  <2>2. ReaderInv'
    BY DEF TypeOK, ReaderInv
  <2>3. ScannerInv'
    BY DEF TypeOK, ReaderInv, ScannerInv
  <2>4. TaskInv'
    BY DEF TypeOK, ReaderInv, ScannerInv, TaskInv
  <2>5. VerdictInv'
    BY DEF TypeOK, ScannerInv, VerdictInv
  <2>6. QED
    BY <2>1, <2>2, <2>3, <2>4, <2>5 DEF IInv
<1>2. ASSUME NEW i \in DOMAIN task, EndDecode(i) PROVE IInv'
  <2> USE <1>2 DEF EndDecode
  <2>1. TypeOK'
    BY DEF TypeOK
  <2>2. ReaderInv'
    BY DEF TypeOK, ReaderInv
  <2>3. ScannerInv'
    BY DEF TypeOK, ReaderInv, ScannerInv
  <2>4. TaskInv'
    BY SMTT(30) DEF TypeOK, ReaderInv, ScannerInv, TaskInv
  <2>5. VerdictInv'
    BY DEF TypeOK, ScannerInv, VerdictInv
  <2>6. QED
    BY <2>1, <2>2, <2>3, <2>4, <2>5 DEF IInv
<1>3. ASSUME Join PROVE IInv'
  <2> USE <1>3 DEF Join
  <2>1. TypeOK'
    BY DEF TypeOK
  <2>2. ReaderInv'
    BY DEF TypeOK, ReaderInv
  <2>3. ScannerInv'
    BY DEF TypeOK, ReaderInv, ScannerInv
  <2>4. TaskInv'
    BY DEF TypeOK, ReaderInv, ScannerInv, TaskInv
  <2>5. VerdictInv'
    BY DEF TypeOK, ScannerInv, VerdictInv
  <2>6. QED
    BY <2>1, <2>2, <2>3, <2>4, <2>5 DEF IInv
<1>4. QED
  BY <1>1, <1>2, <1>3 

\* The inductive invariant holds of every reachable state.
LEMMA Inductive == Spec => []IInv
<1>1. Init => IInv
  <2> SUFFICES ASSUME Init PROVE IInv
    OBVIOUS
  <2> USE LayoutShape DEF Init
  <2>1. TypeOK
    <3>1. k \in 1..(Len(layout) + 1)
      OBVIOUS
    <3>2. task \in [2..Len(layout) -> {"none", "spawned", "running", "ok", "error", "panic"}]
      BY Zenon
    <3>3. failed \in BOOLEAN /\ asleep \in BOOLEAN
      OBVIOUS
    <3>4. received \in 0..Total /\ filled \in 0..Total /\ count \in 0..Total /\ need \in Nat
      OBVIOUS
    <3>5. QED
      BY <3>1, <3>2, <3>3, <3>4, Zenon DEF TypeOK
  <2>2. ReaderInv
    BY DEF ReaderInv
  <2>3. ScannerInv
    BY DEF ScannerInv
  <2>4. TaskInv /\ VerdictInv
    BY DEF TaskInv, VerdictInv
  <2>5. QED
    BY <2>1, <2>2, <2>3, <2>4 DEF IInv
<1>2. IInv /\ [Next]_vars => IInv'
  <2> SUFFICES ASSUME IInv, [Next]_vars PROVE IInv'
    OBVIOUS
  <2>1. CASE UNCHANGED vars
    BY <2>1 DEF IInv, TypeOK, ReaderInv, ScannerInv, TaskInv, VerdictInv,
                vars, fixed, reader, scanner
  <2>2. CASE Next
    BY <2>2, ReaderStepInv, ScannerStepInv, TaskStepInv DEF Next
  <2>3. QED
    BY <2>1, <2>2
<1>3. QED
  BY <1>1, <1>2, PTL DEF Spec

(***************************************************************************)
(* The theorems.                                                           *)
(***************************************************************************)
\* Types: the counters stay within the frame, and the scanner within the
\* layout.
THEOREM Types == Spec => []TypeOK
<1>1. IInv => TypeOK
  BY DEF IInv
<1>2. QED
  BY <1>1, Inductive, PTL

\* The bytes the scanner looks at and the columns the decode tasks were
\* given are published, and the reader writes beyond them only.
THEOREM Separation == Spec => []ReadersBelowWriter
<1>1. IInv => ReadersBelowWriter
  BY DEF IInv, TypeOK, ReaderInv, ScannerInv, TaskInv, ReadersBelowWriter
<1>2. QED
  BY <1>1, Inductive, PTL

\* Whether receive_table() returns an I/O error, a table or an error about
\* the body is what receiving the whole frame and decoding it then returns.
THEOREM Refinement == Spec => ReceivesLikeWholeFrame
<1>1. Init => WholeFrame!Init
  BY DEF Init, WholeFrame!Init, Good
<1>2. IInv /\ [Next]_vars => [WholeFrame!Next]_<<received, Good(layout), result>>
  <2> SUFFICES ASSUME IInv, [Next]_vars,
                      ~UNCHANGED <<received, Good(layout), result>>
               PROVE  WholeFrame!Next
    OBVIOUS
  <2> USE LayoutShape DEF IInv, fixed, reader, scanner
  <2>1. layout' = layout
    BY DEF vars, Next, ReadSome, ReadFails, ReaderStep, Publish, Fail, Notify, ReadDone,
           ScannerStep, StartScanner, Snapshot, Advance, WaitTooFar, Sleep, WaitFailed,
           Ready, MoreArrived, SectionArrived, TypeArrived, ScanDone,
           StartDecode, EndDecode, Join
  <2>2. Publish \/ Join
    BY <2>1
       DEF vars, Next, ReadSome, ReadFails, ReaderStep, Fail, Notify, ReadDone,
           ScannerStep, StartScanner, Snapshot, Advance, WaitTooFar, Sleep, WaitFailed,
           Ready, MoreArrived, SectionArrived, TypeArrived, ScanDone,
           StartDecode, EndDecode
  <2>3. CASE Publish
    <3>1. WholeFrame!Arrive
      BY <2>1, <2>3 DEF Publish, TypeOK, ReaderInv, WholeFrame!Arrive
    <3>2. QED
      BY <3>1 DEF WholeFrame!Next
  <2>4. CASE Join /\ io = "error"
    <3>1. WholeFrame!ReceiptFails
      BY <2>1, <2>4 DEF Join, TypeOK, ReaderInv, WholeFrame!ReceiptFails
    <3>2. QED
      BY <3>1 DEF WholeFrame!Next
  <2>5. CASE Join /\ io # "error"
    <3>1. received = Total /\ ~failed /\ result = "none" /\ received' = received
      BY <2>5 DEF Join, TypeOK, ReaderInv
    <3>2. \A i \in 2..Len(layout) : task[i] \in {"none", "ok", "error", "panic"}
      BY <2>5 DEF Join, TypeOK
    <3>3. ASSUME names = "ok", \A i \in DOMAIN task : task[i] = "ok"
          PROVE  Good(layout)
      <4>1. layout[1].flaw = "none" /\ layout[Len(layout)].end = Total
        BY <3>3 DEF TypeOK, ScannerInv, VerdictInv
      <4>2. \A i \in 2..Len(layout) : layout[i].flaw = "none"
        BY <3>3 DEF TypeOK, TaskInv
      <4>3. \A i \in 1..Len(layout) : i = 1 \/ i \in 2..Len(layout)
        OBVIOUS
      <4>4. QED
        BY <4>1, <4>2, <4>3 DEF Good
    <3>4. ASSUME Good(layout)
          PROVE  names = "ok" /\ \A i \in DOMAIN task : task[i] = "ok"
      <4>1. names = "ok"
        BY <2>5, <3>1, <3>4 DEF Join, TypeOK, VerdictInv
      <4>2. \A i \in 2..Len(layout) : task[i] # "none"
        BY <4>1, SMTT(30) DEF TypeOK, VerdictInv, TaskInv
      <4>3. \A i \in 2..Len(layout) : task[i] \notin {"error", "panic"}
        BY <3>4 DEF TaskInv, Good
      <4>4. QED
        BY <4>1, <4>2, <4>3, <3>2 DEF TypeOK
    <3>5. result' = IF Good(layout) THEN "table" ELSE "malformed"
      BY <2>5, <3>3, <3>4 DEF Join
    <3>6. WholeFrame!Decode
      BY <2>1, <3>1, <3>5 DEF WholeFrame!Decode
    <3>7. QED
      BY <3>6 DEF WholeFrame!Next
  <2>6. QED
    BY <2>2, <2>3, <2>4, <2>5
<1>3. QED
  BY <1>1, <1>2, Inductive, PTL DEF Spec, ReceivesLikeWholeFrame, WholeFrame!Spec
=============================================================================
