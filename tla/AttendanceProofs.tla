--------------------------- MODULE AttendanceProofs ---------------------------
(***************************************************************************)
(* Theorems about Attendance, for any number of requests, names, students, *)
(* todos, days and check-ins.                                              *)
(***************************************************************************)
EXTENDS Attendance, SequenceTheorems, FiniteSetTheorems, TLAPS

-----------------------------------------------------------------------------
(* The operators the handlers are built from. *)

\* Checking rows out keeps the table a sequence of rows of the same length.
LEMMA ClosedType ==
    ASSUME attendance \in Seq(Row), NEW rows
    PROVE  /\ Closed(rows) \in Seq(Row)
           /\ DOMAIN Closed(rows) = DOMAIN attendance
           /\ \A i \in DOMAIN attendance :
                 Closed(rows)[i] = [attendance[i] EXCEPT
                     !.out = attendance[i].out \/ i \in rows]
<1>1. DOMAIN attendance = 1..Len(attendance) /\ Len(attendance) \in Nat
  BY LenProperties
<1>2. \A i \in DOMAIN attendance : attendance[i] \in Row
  BY <1>1, ElementOfSeq
<1>3. ASSUME NEW i \in DOMAIN attendance, NEW b \in BOOLEAN
      PROVE  [attendance[i] EXCEPT !.out = attendance[i].out \/ b] \in Row
  BY <1>2, <1>3 DEF Row
<1>4. Closed(rows) \in [1..Len(attendance) -> Row]
  BY <1>1, <1>3 DEF Closed
<1>5. Closed(rows) \in Seq(Row)
  BY <1>1, <1>4, SeqDef
<1> QED  BY <1>1, <1>4, <1>5 DEF Closed

\* Only the time of departure changes, and only in these rows.
LEMMA ClosedFields ==
    ASSUME attendance \in Seq(Row), NEW rows, NEW i \in DOMAIN attendance
    PROVE  /\ Closed(rows)[i].who = attendance[i].who
           /\ Closed(rows)[i].day = attendance[i].day
           /\ Closed(rows)[i].sec = attendance[i].sec
           /\ Closed(rows)[i].out <=> attendance[i].out \/ i \in rows
<1>1. attendance[i] \in Row
  BY ElementOfSeq, LenProperties
<1> DEFINE b == attendance[i].out \/ i \in rows
<1>2. Closed(rows)[i] = [attendance[i] EXCEPT !.out = b]
  BY ClosedType
<1> HIDE DEF b
<1>3. /\ Closed(rows)[i].who = attendance[i].who
      /\ Closed(rows)[i].day = attendance[i].day
      /\ Closed(rows)[i].sec = attendance[i].sec
      /\ Closed(rows)[i].out = b
  BY <1>1, <1>2 DEF Row
<1> QED  BY <1>3 DEF b

\* Rows of a name are positions of the table.
LEMMA QueriesReturnRows ==
    ASSUME NEW n
    PROVE  /\ OpenToday(n) \subseteq Today(n)
           /\ Latest(n) \subseteq Today(n)
           /\ Today(n) \subseteq DOMAIN attendance
BY DEF OpenToday, Latest, Today

-----------------------------------------------------------------------------
(* Type correctness *)

PcLabel == {"idle", "ci_probe", "ci_insert", "ci_meta", "ci_audit",
            "co_gate", "co_update", "co_lookup", "co_audit",
            "listed", "tr_update", "tr_lookup", "tr_answer"}

LocalsOK ==
    /\ req \in [Request -> Local]
    /\ \A r \in Request : req[r].pc # "idle" => req[r].who \in Person

\* Moving a running request on, with new items or a new row, keeps its type.
LEMMA MoveType ==
    ASSUME LocalsOK, NEW r \in Request, req[r].pc # "idle",
           NEW pc \in PcLabel, NEW row \in Nat, NEW items \in SUBSET Item,
           Move(r, pc, items, row)
    PROVE  LocalsOK'
BY DEF LocalsOK, Local, PcLabel, Move

LEMMA GotoType ==
    ASSUME LocalsOK, NEW r \in Request, req[r].pc # "idle",
           NEW pc \in PcLabel, Goto(r, pc)
    PROVE  LocalsOK'
<1>1. req[r].items \in SUBSET Item /\ req[r].row \in Nat
  BY DEF LocalsOK, Local
<1> QED  BY <1>1, MoveType DEF Goto

\* A request that returns leaves an idle handler behind.
LEMMA ReturnType ==
    ASSUME LocalsOK, NEW r \in Request, Return(r)
    PROVE  LocalsOK'
BY DEF LocalsOK, Return, Idle, Local

LEMMA BeginType ==
    ASSUME LocalsOK, NEW r \in Request, NEW w \in Person,
           NEW pc \in PcLabel, Begin(r, w, pc)
    PROVE  LocalsOK'
BY DEF LocalsOK, Begin, Local, PcLabel

\* A row that is appended gets the next position as its id.
LEMMA AppendedRow ==
    ASSUME attendance \in Seq(Row), NEW x \in Row,
           attendance' = Append(attendance, x)
    PROVE  /\ attendance' \in Seq(Row)
           /\ Len(attendance) \in Nat
           /\ DOMAIN attendance = 1..Len(attendance)
           /\ DOMAIN attendance' = 1..(Len(attendance) + 1)
           /\ \A i \in DOMAIN attendance : attendance'[i] = attendance[i]
           /\ attendance'[Len(attendance) + 1] = x
BY AppendProperties, LenProperties

\* The types of the tables and of the open transaction.
TablesOK ==
    /\ day \in Nat /\ sec \in Nat
    /\ attendance \in Seq(Row)
    /\ meta \subseteq Nat
    /\ audit \subseteq Audit
    /\ todos \subseteq Student \X Item
    /\ responses \subseteq Response
    /\ tx \in Tx

LEMMA TypeParts ==
    /\ TypeOK <=> TablesOK /\ LocalsOK
    /\ TypeOK' <=> TablesOK' /\ LocalsOK'
BY DEF TypeOK, TablesOK, LocalsOK

LEMMA RunningRequest ==
    ASSUME TypeOK, NEW r \in Request, req[r].pc # "idle"
    PROVE  /\ req[r].who \in Person
           /\ req[r].items \in SUBSET Item
           /\ req[r].row \in Nat
           /\ StudentOf[req[r].who] \in Student
           /\ Posted(r) \in Name
BY PersonsAssumption DEF TypeOK, Local, Posted

LEMMA NoTxType == NoTx \in Tx
BY DEF NoTx, Tx

LEMMA CheckInType ==
    ASSUME TypeOK, NEW r \in Request, CheckInStep(r)
    PROVE  TypeOK'
<1> USE TypeParts
<1>1. CASE CheckInProbe(r)
  <2>1. LocalsOK'
    BY <1>1, GotoType, ReturnType DEF CheckInProbe, At, PcLabel
  <2> QED  BY <1>1, <2>1 DEF CheckInProbe, clock, tables, TablesOK
<1>2. CASE CheckInInsert(r)
  <2> DEFINE x == [who |-> req[r].who, day |-> day, sec |-> sec, out |-> FALSE]
  <2>1. attendance \in Seq(Row) /\ x \in Row /\ Len(attendance) \in Nat
    BY <1>2, RunningRequest, LenProperties DEF CheckInInsert, At, TablesOK, Row
  <2>2. CASE attendance' = Append(attendance, x) /\ Move(r, "ci_meta", {}, Len(attendance) + 1)
    <3>1. LocalsOK'
      BY <1>2, <2>1, <2>2, MoveType DEF CheckInInsert, At, PcLabel
    <3>2. attendance' \in Seq(Row)
      BY <2>1, <2>2, AppendedRow
    <3> QED  BY <1>2, <3>1, <3>2 DEF CheckInInsert, clock, TablesOK
  <2>3. CASE Return(r) /\ UNCHANGED attendance
    BY <1>2, <2>3, ReturnType DEF CheckInInsert, clock, TablesOK
  <2> QED  BY <1>2, <2>2, <2>3 DEF CheckInInsert
<1>3. CASE CheckInMeta(r)
  <2>1. LocalsOK'
    BY <1>3, GotoType DEF CheckInMeta, At, PcLabel
  <2>2. meta' \subseteq Nat
    BY <1>3, RunningRequest DEF CheckInMeta, At, TablesOK
  <2> QED  BY <1>3, <2>1, <2>2 DEF CheckInMeta, clock, TablesOK
<1>4. CASE CheckInAudit(r)
  <2>1. LocalsOK'
    BY <1>4, ReturnType DEF CheckInAudit
  <2>2. audit' \subseteq Audit
    BY <1>4, RunningRequest DEF CheckInAudit, WriteAudit, At, TablesOK, Audit
  <2> QED  BY <1>4, <2>1, <2>2 DEF CheckInAudit, clock, TablesOK
<1> QED  BY <1>1, <1>2, <1>3, <1>4 DEF CheckInStep

LEMMA CheckOutType ==
    ASSUME TypeOK, NEW r \in Request, CheckOutStep(r)
    PROVE  TypeOK'
<1> USE TypeParts
<1>1. CASE CheckOutGate(r)
  <2> DEFINE pending == Pending(StudentOf[req[r].who])
  <2>1. pending \in SUBSET Item
    BY DEF Pending
  <2>2. LocalsOK'
    BY <1>1, <2>1, MoveType, GotoType DEF CheckOutGate, At, PcLabel
  <2> QED  BY <1>1, <2>2 DEF CheckOutGate, clock, tables, TablesOK
<1>2. CASE CheckOutUpdate(r)
  <2>1. LocalsOK'
    BY <1>2, GotoType, ReturnType DEF CheckOutUpdate, At, PcLabel
  <2>2. attendance' \in Seq(Row)
    BY <1>2, ClosedType DEF CheckOutUpdate, TablesOK
  <2> QED  BY <1>2, <2>1, <2>2 DEF CheckOutUpdate, clock, TablesOK
<1>3. CASE CheckOutLookup(r)
  <2>1. Latest(Posted(r)) \subseteq Nat
    BY QueriesReturnRows, LenProperties DEF TablesOK
  <2>2. LocalsOK'
    BY <1>3, <2>1, MoveType, GotoType DEF CheckOutLookup, At, PcLabel
  <2> QED  BY <1>3, <2>2 DEF CheckOutLookup, clock, tables, TablesOK
<1>4. CASE CheckOutAudit(r)
  <2>1. LocalsOK'
    BY <1>4, ReturnType DEF CheckOutAudit
  <2>2. audit' \subseteq Audit
    BY <1>4, RunningRequest DEF CheckOutAudit, WriteAudit, At, TablesOK, Audit
  <2> QED  BY <1>4, <2>1, <2>2 DEF CheckOutAudit, clock, TablesOK
<1> QED  BY <1>1, <1>2, <1>3, <1>4 DEF CheckOutStep

LEMMA RespondType ==
    ASSUME TypeOK, NEW r \in Request, RespondStep(r)
    PROVE  TypeOK'
<1> USE TypeParts
<1>0. ASSUME Rollback(r), UNCHANGED <<clock, meta, audit, todos>> PROVE TypeOK'
  BY <1>0, ReturnType, NoTxType DEF Rollback, clock, TablesOK
<1>1. CASE RespondUpdate(r)
  <2>1. LocalsOK'
    BY <1>1, GotoType, ReturnType DEF RespondUpdate, At, PcLabel
  <2>2. OpenToday(Posted(r)) \subseteq Nat
    BY QueriesReturnRows, LenProperties DEF TablesOK
  <2>3. tx' \in Tx
    BY <1>1, <2>2 DEF RespondUpdate, TablesOK, Tx
  <2> QED  BY <1>1, <2>1, <2>3 DEF RespondUpdate, clock, tables, TablesOK
<1>2. CASE RespondLookup(r)
  <2>1. Latest(Posted(r)) \subseteq Nat
    BY QueriesReturnRows, LenProperties DEF TablesOK
  <2>2. ASSUME NEW i \in Latest(Posted(r)), Move(r, "tr_answer", req[r].items, i),
               UNCHANGED <<attendance, responses, tx>>
        PROVE  TypeOK'
    <3>1. LocalsOK'
      BY <1>2, <2>1, <2>2, MoveType, RunningRequest DEF RespondLookup, At, PcLabel
    <3> QED  BY <1>2, <2>2, <3>1 DEF RespondLookup, clock, TablesOK
  <2> QED  BY <1>0, <1>2, <2>2 DEF RespondLookup
<1>3. ASSUME NEW it \in Item, RespondAnswer(r, it) PROVE TypeOK'
  <2>1. Answer(r, it) \in Response
    BY <1>3, RunningRequest DEF RespondAnswer, At, Answer, Response, TablesOK
  <2>2. ASSUME tx' = [tx EXCEPT !.answers = @ \cup {Answer(r, it)}],
               Move(r, "tr_answer", req[r].items \ {it}, req[r].row),
               UNCHANGED <<attendance, responses>>
        PROVE  TypeOK'
    <3>1. req[r].items \ {it} \in SUBSET Item /\ req[r].row \in Nat
      BY <1>3, RunningRequest DEF RespondAnswer, At
    <3>2. LocalsOK'
      BY <1>3, <2>2, <3>1, MoveType DEF RespondAnswer, At, PcLabel
    <3>3. tx' \in Tx
      BY <2>1, <2>2 DEF TablesOK, Tx
    <3> QED  BY <1>3, <2>2, <3>2, <3>3 DEF RespondAnswer, clock, TablesOK
  <2> QED  BY <1>0, <1>3, <2>2 DEF RespondAnswer
<1>4. CASE RespondCommit(r)
  <2>1. ASSUME attendance' = Closed(tx.closed), responses' = responses \cup tx.answers,
               tx' = NoTx, Return(r)
        PROVE  TypeOK'
    <3>1. LocalsOK' /\ attendance' \in Seq(Row) /\ tx' \in Tx
      BY <2>1, ReturnType, ClosedType, NoTxType DEF TablesOK
    <3>2. responses' \subseteq Response
      BY <2>1 DEF TablesOK, Tx
    <3> QED  BY <1>4, <3>1, <3>2 DEF RespondCommit, clock, TablesOK
  <2> QED  BY <1>0, <1>4, <2>1 DEF RespondCommit
<1> QED  BY <1>1, <1>2, <1>3, <1>4 DEF RespondStep

LEMMA OutsideType ==
    ASSUME TypeOK, StaffStep \/ Tick \/ Midnight \/ Crash
    PROVE  TypeOK'
<1> USE TypeParts
<1>1. ASSUME NEW s \in Student, NEW it \in Item, NEW d \in LateDays,
             LateSignoff(s, it, d)
      PROVE  TypeOK'
  <2>1. [student |-> s, item |-> it, due |-> d, row |-> 0] \in Response
    BY BoundsAssumption DEF Response
  <2> QED  BY <1>1, <2>1 DEF LateSignoff, clock, TablesOK, LocalsOK
<1>2. ASSUME NEW s \in Student, NEW it \in Item, Reassign(s, it)
      PROVE  TypeOK'
  BY <1>2 DEF Reassign, clock, TablesOK, LocalsOK
<1>3. CASE Tick
  BY <1>3 DEF Tick, tables, TablesOK, LocalsOK
<1>4. CASE Midnight
  BY <1>4 DEF Midnight, tables, TablesOK, LocalsOK
<1>5. CASE Crash
  BY <1>5, NoTxType DEF Crash, tables, clock, TablesOK, LocalsOK, Idle, Local
<1> QED  BY <1>1, <1>2, <1>3, <1>4, <1>5 DEF StaffStep

LEMMA RequestType ==
    ASSUME TypeOK, NEW r \in Request,
           HandlerStep(r) \/ PageStep(r) \/ ClientStep(r)
    PROVE  TypeOK'
<1>1. CASE HandlerStep(r)
  BY <1>1, CheckInType, CheckOutType, RespondType DEF HandlerStep
<1> USE TypeParts
<1>2. CASE PageStep(r)
  <2>1. LocalsOK'
    BY <1>2, GotoType, ReturnType DEF PageStep, Submit, GiveUp, At, PcLabel
  <2> QED  BY <1>2, <2>1 DEF PageStep, Submit, GiveUp, clock, tables, TablesOK
<1>3. CASE ClientStep(r)
  <2>1. LocalsOK'
    BY <1>3, BeginType DEF ClientStep, BeginCheckIn, BeginCheckOut, PcLabel
  <2> QED
    BY <1>3, <2>1 DEF ClientStep, BeginCheckIn, BeginCheckOut, clock, tables, TablesOK
<1> QED  BY <1>1, <1>2, <1>3

LEMMA InitType == Init => TypeOK
<1> SUFFICES ASSUME Init PROVE TypeOK
  OBVIOUS
<1>1. TablesOK
  BY EmptySeq, NoTxType DEF Init, TablesOK
<1>2. LocalsOK
  BY DEF Init, LocalsOK, Idle, Local
<1> QED  BY <1>1, <1>2, TypeParts

LEMMA NextType == TypeOK /\ [Next]_vars => TypeOK'
<1> SUFFICES ASSUME TypeOK, [Next]_vars PROVE TypeOK'
  OBVIOUS
<1>1. CASE Next
  BY <1>1, RequestType, OutsideType DEF Next
<1>2. CASE UNCHANGED vars
  BY <1>2 DEF vars, clock, tables, TypeOK
<1> QED  BY <1>1, <1>2

\* The tables, the open transaction and every handler's locals keep their types,
\* whichever statements of whichever handlers interleave, fail or are lost.
THEOREM TypeCorrect == Spec => []TypeOK
<1>1. Init => TypeOK
  BY InitType
<1>2. TypeOK /\ [Next]_vars => TypeOK'
  BY NextType
<1> QED  BY <1>1, <1>2, PTL DEF Spec

-----------------------------------------------------------------------------
(* How the tables and the requests change *)

\* A row keeps its person and its time; once closed it stays closed.
Grows ==
    /\ DOMAIN attendance \subseteq DOMAIN attendance'
    /\ \A i \in DOMAIN attendance :
          /\ attendance'[i].who = attendance[i].who
          /\ attendance'[i].day = attendance[i].day
          /\ attendance'[i].sec = attendance[i].sec
          /\ attendance[i].out => attendance'[i].out

Arrival(w) == [who |-> w, day |-> day, sec |-> sec, out |-> FALSE]
Appends(w) == Unlocked /\ attendance' = Append(attendance, Arrival(w))

\* A transaction ends by closing the rows it has picked, or leaves the table.
LEMMA RespondSteps ==
    ASSUME NEW r \in Request, RespondStep(r)
    PROVE  \/ UNCHANGED attendance /\ UNCHANGED responses
           \/ /\ RespondCommit(r) /\ attendance' = Closed(tx.closed)
              /\ responses' = responses \cup tx.answers
              /\ tx' = NoTx /\ Return(r)
BY DEF RespondStep, RespondUpdate, RespondLookup, RespondAnswer, RespondCommit,
       Rollback, tables

\* Who changes the table attendance: an arrival, a check-out and a commit.
LEMMA RequestSteps ==
    ASSUME TypeOK, NEW r \in Request, HandlerStep(r) \/ PageStep(r) \/ ClientStep(r)
    PROVE  \/ UNCHANGED attendance
           \/ CheckInInsert(r) /\ req[r].who \in Person /\ Appends(req[r].who)
           \/ /\ CheckOutUpdate(r) /\ Unlocked
              /\ attendance' = Closed(OpenToday(Posted(r)))
           \/ RespondCommit(r) /\ attendance' = Closed(tx.closed)
<1>1. CASE CheckInInsert(r)
  BY <1>1, RunningRequest DEF CheckInInsert, At, Appends, Arrival
<1>2. CASE CheckInProbe(r) \/ CheckInMeta(r) \/ CheckInAudit(r)
  BY <1>2 DEF CheckInProbe, CheckInMeta, CheckInAudit, tables
<1>3. CASE CheckOutStep(r)
  BY <1>3 DEF CheckOutStep, CheckOutGate, CheckOutUpdate, CheckOutLookup,
       CheckOutAudit, tables
<1>4. CASE RespondStep(r)
  BY <1>4, RespondSteps
<1>5. CASE PageStep(r) \/ ClientStep(r)
  BY <1>5 DEF PageStep, Submit, GiveUp, ClientStep, BeginCheckIn,
       BeginCheckOut, tables
<1> QED  BY <1>1, <1>2, <1>3, <1>4, <1>5 DEF HandlerStep, CheckInStep

LEMMA OutsideLeavesRows ==
    ASSUME StaffStep \/ Tick \/ Midnight \/ Crash \/ UNCHANGED vars
    PROVE  UNCHANGED attendance
BY DEF StaffStep, LateSignoff, Reassign, Tick, Midnight, Crash, tables, vars

LEMMA ArrivalType ==
    ASSUME TypeOK, NEW w \in Person
    PROVE  Arrival(w) \in Row
BY DEF TypeOK, Arrival, Row

LEMMA AttendanceGrows ==
    ASSUME TypeOK, [Next]_vars
    PROVE  Grows
<1> attendance \in Seq(Row)
  BY DEF TypeOK
<1>1. CASE UNCHANGED attendance
  BY <1>1 DEF Grows
<1>2. ASSUME NEW w \in Person, Appends(w) PROVE Grows
  BY <1>2, ArrivalType, AppendedRow DEF Appends, Grows
<1>3. ASSUME NEW rows, attendance' = Closed(rows) PROVE Grows
  <2>1. DOMAIN attendance' = DOMAIN attendance
    BY <1>3, ClosedType
  <2> QED  BY <1>3, <2>1, ClosedFields DEF Grows
<1> QED  BY <1>1, <1>2, <1>3, RequestSteps, OutsideLeavesRows DEF Next

LEMMA OthersUnmoved ==
    ASSUME TypeOK, NEW r \in Request, NEW q \in Request, q # r,
           HandlerStep(r) \/ PageStep(r) \/ ClientStep(r)
    PROVE  UNCHANGED req[q]
<1> req \in [Request -> Local]
  BY DEF TypeOK
<1>1. CASE CheckInStep(r)
  BY <1>1 DEF CheckInStep, CheckInProbe, CheckInInsert, CheckInMeta,
       CheckInAudit, Move, Goto, Return
<1>2. CASE CheckOutStep(r) \/ RespondStep(r)
  BY <1>2 DEF CheckOutStep, CheckOutGate, CheckOutUpdate, CheckOutLookup,
       CheckOutAudit, RespondStep, RespondUpdate, RespondLookup, RespondAnswer,
       RespondCommit, Rollback, Move, Goto, Return
<1>3. CASE PageStep(r) \/ ClientStep(r)
  BY <1>3 DEF PageStep, Submit, GiveUp, ClientStep, BeginCheckIn, BeginCheckOut,
       Move, Goto, Return, Begin
<1> QED  BY <1>1, <1>2, <1>3 DEF HandlerStep

LEMMA RowTypes ==
    ASSUME attendance \in Seq(Row), NEW i \in DOMAIN attendance
    PROVE  /\ attendance[i].day \in Nat
           /\ attendance[i].who \in Person /\ NameAt(i) \in Name
<1>1. attendance[i] \in Row
  BY ElementOfSeq, LenProperties
<1> QED  BY <1>1, PersonsAssumption DEF Row, NameAt

\* The calendar never goes back, and only midnight moves it.
LEMMA DayGrows ==
    ASSUME TypeOK, [Next]_vars
    PROVE  /\ day' \in Nat /\ day \in Nat
           /\ day' = day \/ (Midnight /\ day' = day + 1)
<1>1. CASE \E r \in Request : HandlerStep(r) \/ PageStep(r) \/ ClientStep(r)
  BY <1>1 DEF HandlerStep, CheckInStep, CheckOutStep, CheckInProbe, CheckInInsert,
     CheckInMeta, CheckInAudit, CheckOutGate, CheckOutUpdate, CheckOutLookup,
     CheckOutAudit, RespondStep, RespondUpdate, RespondLookup, RespondAnswer,
     RespondCommit, PageStep, Submit, GiveUp, ClientStep,
     BeginCheckIn, BeginCheckOut, clock, TypeOK
<1>2. CASE StaffStep \/ Tick \/ Midnight \/ Crash \/ UNCHANGED vars
  BY <1>2 DEF StaffStep, LateSignoff, Reassign, Tick, Midnight, Crash, clock, vars, TypeOK
<1> QED  BY <1>1, <1>2 DEF Next

\* No session begins in the future.
NoFutureRows == \A i \in DOMAIN attendance : attendance[i].day <= day

LEMMA RowsKeepTheirDay ==
    ASSUME TypeOK, NoFutureRows, [Next]_vars
    PROVE  NoFutureRows'
<1> attendance \in Seq(Row)
  BY DEF TypeOK
<1>1. day' \in Nat /\ day \in Nat /\ day <= day'
  BY DayGrows
<1>2. \A i \in DOMAIN attendance : attendance[i].day \in Nat
  BY RowTypes
<1>3. CASE UNCHANGED attendance
  BY <1>1, <1>2, <1>3 DEF NoFutureRows
<1>4. ASSUME NEW w \in Person, Appends(w) PROVE NoFutureRows'
  BY <1>1, <1>2, <1>4, ArrivalType, AppendedRow DEF Appends, Arrival, NoFutureRows
<1>5. ASSUME NEW rows, attendance' = Closed(rows) PROVE NoFutureRows'
  BY <1>1, <1>2, <1>5, ClosedType, ClosedFields DEF NoFutureRows
<1> QED  BY <1>3, <1>4, <1>5, RequestSteps, OutsideLeavesRows DEF Next

-----------------------------------------------------------------------------
(* The open transaction *)

\* The open sessions of a name and a day, which need not be today.
OpenOn(n, d) == {i \in DOMAIN attendance :
                    NameAt(i) = n /\ attendance[i].day = d /\ ~attendance[i].out}

\* The transaction of r closes what was open on day d, which was the last day
\* anybody has arrived on.
Departs(r, d) ==
    /\ tx.closed = OpenOn(Posted(r), d) /\ tx.closed # {}
    /\ \A i \in DOMAIN attendance : attendance[i].day <= d

\* What it has answered so far, and for which of that day's sessions.
Answers(r, d) ==
    /\ req[r].row \in DOMAIN attendance
    /\ NameAt(req[r].row) = Posted(r) /\ attendance[req[r].row].day = d
    /\ \A a \in tx.answers :
          /\ a.student = StudentOf[req[r].who] /\ a.row = req[r].row
          /\ a.item \notin req[r].items
          /\ d <= a.due /\ a.due <= day
          /\ \A b \in tx.answers : a.item = b.item => a = b
    /\ req[r].items # {} \/ tx.answers # {}

TxKnown(r) ==
    /\ req[r].pc \in {"listed", "tr_update", "tr_lookup"} => req[r].items # {}
    /\ req[r].pc \in {"tr_lookup", "tr_answer"} =>
          /\ tx.by = r
          /\ \E d \in 0..day : /\ Departs(r, d)
                               /\ req[r].pc = "tr_lookup" => tx.answers = {}
                               /\ req[r].pc = "tr_answer" => Answers(r, d)

TxInv == TypeOK /\ NoFutureRows /\ \A r \in Request : TxKnown(r)

LEMMA TxKnownRest ==
    ASSUME NEW r \in Request, req[r].pc \notin {"listed", "tr_update", "tr_lookup", "tr_answer"}
    PROVE  TxKnown(r)
BY DEF TxKnown

\* While a transaction is open, the others leave it and the table alone.
LEMMA OthersLeaveTx ==
    ASSUME TxInv, NEW r \in Request, NEW q \in Request, q # r, tx.by = r,
           HandlerStep(q) \/ PageStep(q) \/ ClientStep(q)
    PROVE  UNCHANGED <<tx, attendance, responses, day>>
<1> tx.by # NoOne /\ TypeOK /\ TxKnown(q)
  BY RequestsAssumption DEF TxInv
<1>1. CASE CheckInStep(q) \/ CheckOutStep(q)
  BY <1>1 DEF CheckInStep, CheckInProbe, CheckInInsert, CheckInMeta, CheckInAudit,
     CheckOutStep, CheckOutGate, CheckOutUpdate, CheckOutLookup, CheckOutAudit,
     Unlocked, tables, clock
<1>2. CASE RespondUpdate(q)
  BY <1>2 DEF RespondUpdate, Unlocked, tables, clock
<1>3. CASE RespondLookup(q) \/ RespondCommit(q) \/ \E it \in Item : RespondAnswer(q, it)
  BY <1>3 DEF RespondLookup, RespondCommit, RespondAnswer, At, TxKnown
<1>4. CASE PageStep(q) \/ ClientStep(q)
  BY <1>4 DEF PageStep, Submit, GiveUp, ClientStep, BeginCheckIn, BeginCheckOut,
     tables, clock
<1> QED  BY <1>1, <1>2, <1>3, <1>4 DEF HandlerStep, RespondStep

LEMMA OtherKeepsTx ==
    ASSUME TxInv, NEW r \in Request, NEW q \in Request, q # r,
           HandlerStep(q) \/ PageStep(q) \/ ClientStep(q)
    PROVE  TxKnown(r)'
<1> TypeOK /\ TxKnown(r)
  BY DEF TxInv
<1>1. UNCHANGED req[r]
  BY OthersUnmoved
<1>2. CASE req[r].pc \in {"tr_lookup", "tr_answer"}
  <2>1. tx.by = r
    BY <1>2 DEF TxKnown
  <2>2. UNCHANGED <<tx, attendance, responses, day>>
    BY <2>1, OthersLeaveTx
  <2> QED  BY <1>1, <2>2 DEF TxKnown, Departs, Answers, OpenOn, NameAt, Posted
<1>3. CASE req[r].pc \notin {"tr_lookup", "tr_answer"}
  BY <1>1, <1>3 DEF TxKnown
<1> QED  BY <1>2, <1>3

\* The steps of the transaction itself.
LEMMA OwnStepKeepsTx ==
    ASSUME TxInv, NEW r \in Request, RespondStep(r)
    PROVE  TxKnown(r)'
<1> TypeOK /\ TxKnown(r) /\ NoFutureRows
  BY DEF TxInv
<1> req \in [Request -> Local] /\ attendance \in Seq(Row) /\ day \in Nat /\ tx \in Tx
  BY DEF TypeOK
<1>0. ASSUME Return(r) PROVE TxKnown(r)'
  <2>1. req'[r].pc = "idle"
    BY <1>0 DEF Return, Idle
  <2> QED  BY <2>1 DEF TxKnown
<1>1. CASE RespondUpdate(r)
  <2>1. ASSUME OpenToday(Posted(r)) # {}, Goto(r, "tr_lookup"),
               tx' = [by |-> r, closed |-> OpenToday(Posted(r)), answers |-> {}]
        PROVE  TxKnown(r)'
    <3>1. /\ req'[r].pc = "tr_lookup" /\ UNCHANGED <<req[r].who, req[r].items>>
          /\ req[r].items # {}
      BY <1>1, <2>1 DEF RespondUpdate, At, TxKnown, Goto, Move
    <3>2. UNCHANGED <<attendance, day>>
      BY <1>1 DEF RespondUpdate, clock, tables
    <3>3. OpenToday(Posted(r)) = OpenOn(Posted(r), day)
      BY DEF OpenToday, Today, OpenOn
    <3>4. Departs(r, day)'
      BY <2>1, <3>1, <3>2, <3>3 DEF Departs, OpenOn, Posted, NameAt, NoFutureRows
    <3>5. \E d \in 0..day' : Departs(r, d)'
      BY <3>2, <3>4
    <3> QED  BY <2>1, <3>1, <3>5 DEF TxKnown
  <2> QED  BY <1>0, <1>1, <2>1 DEF RespondUpdate
<1>2. CASE RespondLookup(r)
  <2>1. ASSUME NEW i \in Latest(Posted(r)), Move(r, "tr_answer", req[r].items, i),
               UNCHANGED <<attendance, responses, tx>>
        PROVE  TxKnown(r)'
    <3>1. /\ tx.by = r /\ tx.answers = {} /\ req[r].items # {}
          /\ \E d \in 0..day : Departs(r, d)
      BY <1>2 DEF RespondLookup, At, TxKnown
    <3>2. PICK d \in 0..day : Departs(r, d)
      BY <3>1
    <3>3. i \in DOMAIN attendance /\ NameAt(i) = Posted(r) /\ attendance[i].day = day
      BY DEF Latest, Today
    <3>4. d = day
      BY <3>2, <3>3 DEF Departs
    <3>5. /\ req'[r].pc = "tr_answer" /\ UNCHANGED <<req[r].who, req[r].items>>
          /\ req'[r].row = i /\ UNCHANGED <<attendance, day, tx>>
      BY <1>2, <2>1 DEF RespondLookup, Move, clock
    <3>6. Departs(r, d)'
      BY <3>2, <3>5 DEF Departs, OpenOn, Posted, NameAt
    <3>7. Answers(r, d)'
      BY <3>1, <3>3, <3>4, <3>5 DEF Answers, Posted, NameAt
    <3> QED  BY <3>1, <3>5, <3>6, <3>7 DEF TxKnown
  <2> QED  BY <1>0, <1>2, <2>1 DEF RespondLookup, Rollback
<1>3. ASSUME NEW it \in Item, RespondAnswer(r, it) PROVE TxKnown(r)'
  <2>1. ASSUME tx' = [tx EXCEPT !.answers = @ \cup {Answer(r, it)}],
               Move(r, "tr_answer", req[r].items \ {it}, req[r].row),
               UNCHANGED <<attendance, responses>>
        PROVE  TxKnown(r)'
    <3>1. /\ tx.by = r /\ it \in req[r].items
          /\ \E d \in 0..day : Departs(r, d) /\ Answers(r, d)
      BY <1>3 DEF RespondAnswer, At, TxKnown
    <3>2. PICK d \in 0..day : Departs(r, d) /\ Answers(r, d)
      BY <3>1
    <3>3. /\ req'[r].pc = "tr_answer" /\ UNCHANGED <<req[r].who, req[r].row>>
          /\ req'[r].items = req[r].items \ {it} /\ UNCHANGED <<attendance, day>>
      BY <1>3, <2>1 DEF RespondAnswer, Move, clock
    <3>4. /\ tx'.by = r /\ tx'.closed = tx.closed
          /\ tx'.answers = tx.answers \cup {Answer(r, it)}
      BY <2>1, <3>1 DEF Tx
    <3>5. Departs(r, d)'
      BY <3>2, <3>3, <3>4 DEF Departs, OpenOn, Posted, NameAt
    <3>6. Answers(r, d)'
      <4>1. /\ Answer(r, it).student = StudentOf[req[r].who]
            /\ Answer(r, it).row = req[r].row /\ Answer(r, it).item = it
            /\ Answer(r, it).due = day
        BY DEF Answer
      <4>2. \A a \in tx'.answers :
               /\ a.student = StudentOf[req[r].who] /\ a.row = req[r].row
               /\ a.item \notin req[r].items \ {it}
               /\ d <= a.due /\ a.due <= day
        BY <3>2, <3>4, <4>1 DEF Answers
      <4>3. \A a, b \in tx'.answers : a.item = b.item => a = b
        <5>1. \A a \in tx.answers : a.item # it
          BY <3>1, <3>2 DEF Answers
        <5> QED  BY <3>2, <3>4, <4>1, <5>1 DEF Answers
      <4> QED  BY <3>2, <3>3, <3>4, <4>2, <4>3 DEF Answers, Posted, NameAt
    <3> QED  BY <3>3, <3>4, <3>5, <3>6 DEF TxKnown
  <2> QED  BY <1>0, <1>3, <2>1 DEF RespondAnswer, Rollback
<1>4. CASE RespondCommit(r)
  BY <1>0, <1>4 DEF RespondCommit, Rollback
<1> QED  BY <1>1, <1>2, <1>3, <1>4 DEF RespondStep

LEMMA TxStep == TxInv /\ [Next]_vars => TxInv'
<1> SUFFICES ASSUME TxInv, [Next]_vars PROVE TxInv'
  OBVIOUS
<1> TypeOK /\ NoFutureRows
  BY DEF TxInv
<1>1. TypeOK' /\ NoFutureRows'
  BY NextType, RowsKeepTheirDay
<1> SUFFICES ASSUME NEW r \in Request PROVE TxKnown(r)'
  BY <1>1 DEF TxInv
<1> TxKnown(r) /\ req \in [Request -> Local]
  BY DEF TxInv, TypeOK
<1>2. ASSUME NEW q \in Request, q # r, HandlerStep(q) \/ PageStep(q) \/ ClientStep(q)
      PROVE  TxKnown(r)'
  BY <1>2, OtherKeepsTx
<1>3. CASE RespondStep(r)
  BY <1>3, OwnStepKeepsTx
<1>4. CASE CheckInStep(r) \/ ClientStep(r)
  <2>1. CASE CheckInStep(r)
    <3>1. req'[r].pc \in {"idle", "ci_insert", "ci_meta", "ci_audit"}
      BY <2>1 DEF CheckInStep, CheckInProbe, CheckInInsert, CheckInMeta, CheckInAudit,
         Goto, Move, Return, Idle
    <3> QED  BY <3>1 DEF TxKnown
  <2>2. CASE ClientStep(r)
    <3>1. req'[r].pc \in {"ci_probe", "co_gate"}
      BY <2>2 DEF ClientStep, BeginCheckIn, BeginCheckOut, Begin
    <3> QED  BY <3>1 DEF TxKnown
  <2> QED  BY <1>4, <2>1, <2>2
<1>5. CASE CheckOutStep(r)
  <2>1. CASE CheckOutGate(r)
    <3>1. /\ req'[r].pc \in {"listed", "co_update"}
          /\ req'[r].pc = "listed" => req'[r].items # {}
      BY <2>1 DEF CheckOutGate, Goto, Move
    <3> QED  BY <3>1 DEF TxKnown
  <2>2. CASE CheckOutUpdate(r) \/ CheckOutLookup(r) \/ CheckOutAudit(r)
    <3>1. req'[r].pc \in {"co_lookup", "co_audit", "idle"}
      BY <2>2 DEF CheckOutUpdate, CheckOutLookup, CheckOutAudit, Goto, Move, Return, Idle
    <3> QED  BY <3>1 DEF TxKnown
  <2> QED  BY <1>5, <2>1, <2>2 DEF CheckOutStep
<1>6. CASE PageStep(r)
  <2>1. /\ req'[r].pc \in {"tr_update", "idle"}
        /\ req'[r].pc = "tr_update" => req'[r].items # {}
    BY <1>6 DEF PageStep, Submit, GiveUp, At, TxKnown, Goto, Move, Return, Idle
  <2> QED  BY <2>1 DEF TxKnown
<1>7. CASE StaffStep \/ Tick \/ Midnight \/ UNCHANGED vars
  <2>1. UNCHANGED <<req, tx, attendance>>
    BY <1>7 DEF StaffStep, LateSignoff, Reassign, Tick, Midnight, tables, vars
  <2>2. day \in Nat /\ day' \in Nat /\ day <= day'
    BY DayGrows
  <2>3. CASE req[r].pc \in {"tr_lookup", "tr_answer"}
    <3>1. /\ tx.by = r /\ (req[r].pc = "tr_lookup" => req[r].items # {})
          /\ \E d \in 0..day : /\ Departs(r, d)
                               /\ req[r].pc = "tr_lookup" => tx.answers = {}
                               /\ req[r].pc = "tr_answer" => Answers(r, d)
      BY <2>3 DEF TxKnown
    <3>2. PICK d \in 0..day : /\ Departs(r, d)
                              /\ req[r].pc = "tr_lookup" => tx.answers = {}
                              /\ req[r].pc = "tr_answer" => Answers(r, d)
      BY <3>1
    <3>3. d \in 0..day'
      BY <2>2
    <3>4. Departs(r, d)'
      BY <2>1, <3>2 DEF Departs, OpenOn, Posted, NameAt
    <3>5. req[r].pc = "tr_answer" => Answers(r, d)'
      <4> SUFFICES ASSUME Answers(r, d) PROVE Answers(r, d)'
        BY <3>2
      <4>1. \A a \in tx.answers : a.due \in Nat
        BY DEF TypeOK, Tx, Response
      <4>2. \A a \in tx.answers : a.due <= day'
        BY <2>2, <4>1 DEF Answers
      <4> QED  BY <2>1, <4>2 DEF Answers, Posted, NameAt
    <3> QED  BY <2>1, <3>1, <3>2, <3>3, <3>4, <3>5 DEF TxKnown
  <2>4. CASE req[r].pc \notin {"tr_lookup", "tr_answer"}
    BY <2>1, <2>4 DEF TxKnown
  <2> QED  BY <2>3, <2>4
<1>8. CASE Crash
  BY <1>8 DEF Crash, TxKnown, Idle
<1> QED  BY <1>2, <1>3, <1>4, <1>5, <1>6, <1>7, <1>8 DEF Next, HandlerStep

LEMMA TxInvariant == Spec => []TxInv
<1>1. Init => TxInv
  BY InitType DEF Init, TxInv, NoFutureRows, TxKnown, Idle
<1>2. TxInv /\ [Next]_vars => TxInv'
  BY TxStep
<1> QED  BY <1>1, <1>2, PTL DEF Spec

\* What a transaction commits: the departure of its name on a day d, and
\* answers of that day or of the days since.
LEMMA CommitIsDeparture ==
    ASSUME TxInv, NEW r \in Request, RespondCommit(r)
    PROVE  \E d \in 0..day : Departs(r, d) /\ Answers(r, d) /\ tx.answers # {}
BY DEF RespondCommit, At, TxInv, TxKnown, Answers

\* The table changes by an arrival, or by a departure of a name on a day.
LEMMA AttendanceSteps ==
    ASSUME TxInv, [Next]_vars
    PROVE  \/ UNCHANGED attendance
           \/ \E w \in Person : Appends(w)
           \/ \E n \in Name, d \in 0..day : attendance' = Closed(OpenOn(n, d))
<1> TypeOK /\ day \in Nat
  BY DEF TxInv, TypeOK
<1>1. ASSUME NEW r \in Request, CheckOutUpdate(r),
             attendance' = Closed(OpenToday(Posted(r)))
      PROVE  \E n \in Name, d \in 0..day : attendance' = Closed(OpenOn(n, d))
  <2>1. Posted(r) \in Name
    BY <1>1, RunningRequest DEF CheckOutUpdate, At
  <2>2. OpenToday(Posted(r)) = OpenOn(Posted(r), day)
    BY DEF OpenToday, Today, OpenOn
  <2> QED  BY <1>1, <2>1, <2>2
<1>2. ASSUME NEW r \in Request, RespondCommit(r), attendance' = Closed(tx.closed)
      PROVE  \E n \in Name, d \in 0..day : attendance' = Closed(OpenOn(n, d))
  <2>1. Posted(r) \in Name
    BY <1>2, RunningRequest DEF RespondCommit, At
  <2> QED  BY <1>2, <2>1, CommitIsDeparture DEF Departs
<1> QED  BY <1>1, <1>2, RequestSteps, OutsideLeavesRows DEF Next

-----------------------------------------------------------------------------
(* The rows that answers and audit entries refer to *)

\* What a handler knows about the attendance id in its hands.
OwnRow(r)  == req[r].row \in DOMAIN attendance /\ NameAt(req[r].row) = Posted(r)
HeldRow(r) == /\ req[r].pc \in {"ci_meta", "ci_audit"} => OwnRow(r)
              /\ req[r].pc \in {"co_gate", "co_update", "co_lookup"} => req[r].row = 0
              /\ req[r].pc = "co_audit" => req[r].row = 0 \/ OwnRow(r)

RowsInv ==
    /\ TxInv
    /\ \A r \in Request : HeldRow(r)
    /\ AuditOwnRow
    /\ AnswersFollowCheckout

LEMMA GrowsKeepsRow ==
    ASSUME Grows, NEW r \in Request, HeldRow(r), UNCHANGED req[r]
    PROVE  HeldRow(r)'
BY DEF Grows, HeldRow, OwnRow, NameAt, Posted

\* A step of a handler keeps or renews what it knows about its row.
LEMMA StepKeepsRow ==
    ASSUME TypeOK, NEW r \in Request, HeldRow(r), Grows,
           HandlerStep(r) \/ PageStep(r) \/ ClientStep(r)
    PROVE  HeldRow(r)'
<1> req \in [Request -> Local] /\ attendance \in Seq(Row)
  BY DEF TypeOK
<1>0. ASSUME req'[r].pc \notin {"ci_meta", "ci_audit", "co_gate", "co_update",
                                "co_lookup", "co_audit"}
      PROVE  HeldRow(r)'
  BY <1>0 DEF HeldRow
<1> USE DEF HeldRow, OwnRow, NameAt, Posted
<1>1. CASE CheckInInsert(r)
  <2> DEFINE x == [who |-> req[r].who, day |-> day, sec |-> sec, out |-> FALSE]
  <2>1. CASE attendance' = Append(attendance, x) /\ Move(r, "ci_meta", {}, Len(attendance) + 1)
    <3>1. x \in Row
      BY <1>1, RunningRequest DEF CheckInInsert, At, TypeOK, Row
    <3>2. /\ Len(attendance) + 1 \in DOMAIN attendance'
          /\ attendance'[Len(attendance) + 1] = x
      BY <2>1, <3>1, AppendedRow
    <3>3. /\ req'[r].pc = "ci_meta" /\ req'[r].row = Len(attendance) + 1
          /\ req'[r].who = req[r].who
      BY <2>1 DEF Move
    <3> QED  BY <3>2, <3>3
  <2>2. CASE Return(r)
    BY <2>2 DEF Return, Idle
  <2> QED  BY <1>1, <2>1, <2>2 DEF CheckInInsert
<1>2. CASE CheckInProbe(r) \/ CheckInAudit(r)
  <2>1. req'[r].pc \in {"idle", "ci_insert"}
    BY <1>2 DEF CheckInProbe, CheckInAudit, Goto, Move, Return, Idle
  <2> QED  BY <2>1
<1>3. CASE CheckInMeta(r)
  <2>1. /\ req'[r].pc = "ci_audit" /\ UNCHANGED <<req[r].row, req[r].who>>
        /\ OwnRow(r)
    BY <1>3 DEF CheckInMeta, At, Goto, Move
  <2> QED  BY <2>1 DEF Grows
<1>4. CASE CheckOutLookup(r)
  <2>1. CASE Goto(r, "co_audit")
    BY <1>4, <2>1 DEF CheckOutLookup, At, Goto, Move
  <2>2. ASSUME NEW i \in Latest(Posted(r)), Move(r, "co_audit", {}, i)
        PROVE  HeldRow(r)'
    <3>1. i \in DOMAIN attendance /\ NameAt(i) = Posted(r)
      BY DEF Latest, Today
    <3>2. req'[r].pc = "co_audit" /\ req'[r].row = i /\ req'[r].who = req[r].who
      BY <2>2 DEF Move
    <3> QED  BY <3>1, <3>2 DEF Grows
  <2> QED  BY <1>4, <2>1, <2>2 DEF CheckOutLookup
<1>5. CASE CheckOutGate(r) \/ CheckOutUpdate(r)
  BY <1>5 DEF CheckOutGate, CheckOutUpdate, At, Goto, Move, Return, Idle
<1>6. CASE CheckOutAudit(r)
  BY <1>6 DEF CheckOutAudit, Return, Idle
<1>7. CASE RespondStep(r)
  <2>1. req'[r].pc \in {"idle", "tr_lookup", "tr_answer"}
    BY <1>7 DEF RespondStep, RespondUpdate, RespondLookup, RespondAnswer,
       RespondCommit, Rollback, Goto, Move, Return, Idle
  <2> QED  BY <1>0, <2>1
<1>8. CASE PageStep(r)
  <2>1. req'[r].pc \in {"idle", "tr_update"}
    BY <1>8 DEF PageStep, Submit, GiveUp, Goto, Move, Return, Idle
  <2> QED  BY <1>0, <2>1
<1>9. CASE ClientStep(r)
  BY <1>9 DEF ClientStep, BeginCheckIn, BeginCheckOut, Begin
<1> QED
  BY <1>1, <1>2, <1>3, <1>4, <1>5, <1>6, <1>7, <1>8, <1>9
  DEF HandlerStep, CheckInStep, CheckOutStep

LEMMA HeldRowsStep ==
    ASSUME RowsInv, [Next]_vars
    PROVE  \A r \in Request : HeldRow(r)'
<1> SUFFICES ASSUME NEW r \in Request PROVE HeldRow(r)'
  OBVIOUS
<1> TypeOK /\ HeldRow(r) /\ Grows
  BY AttendanceGrows DEF RowsInv, TxInv
<1>1. ASSUME NEW p \in Request, HandlerStep(p) \/ PageStep(p) \/ ClientStep(p)
      PROVE  HeldRow(r)'
  <2>1. CASE p = r
    BY <1>1, <2>1, StepKeepsRow
  <2>2. CASE p # r
    BY <1>1, <2>2, OthersUnmoved, GrowsKeepsRow
  <2> QED  BY <2>1, <2>2
<1>2. CASE Crash
  BY <1>2 DEF Crash, HeldRow, Idle
<1>3. CASE StaffStep \/ Tick \/ Midnight \/ UNCHANGED vars
  <2>1. UNCHANGED req
    BY <1>3 DEF StaffStep, LateSignoff, Reassign, Tick, Midnight, vars
  <2> QED  BY <2>1, GrowsKeepsRow
<1> QED  BY <1>1, <1>2, <1>3 DEF Next

\* The audit log is written by CheckInAudit and CheckOutAudit only.
LEMMA AuditStep ==
    ASSUME RowsInv, [Next]_vars
    PROVE  AuditOwnRow'
<1> TypeOK /\ AuditOwnRow /\ Grows
  BY AttendanceGrows DEF RowsInv, TxInv
<1>1. CASE UNCHANGED audit
  BY <1>1 DEF AuditOwnRow, Grows, NameAt
<1>2. ASSUME NEW r \in Request, CheckInAudit(r) PROVE AuditOwnRow'
  <2>1. OwnRow(r) /\ UNCHANGED attendance
    BY <1>2 DEF CheckInAudit, At, RowsInv, HeldRow
  <2> QED  BY <1>1, <1>2, <2>1 DEF CheckInAudit, WriteAudit, AuditOwnRow, OwnRow, NameAt, Posted
<1>3. ASSUME NEW r \in Request, CheckOutAudit(r) PROVE AuditOwnRow'
  <2>1. (req[r].row = 0 \/ OwnRow(r)) /\ UNCHANGED attendance
    BY <1>3 DEF CheckOutAudit, At, RowsInv, HeldRow
  <2> QED  BY <1>1, <1>3, <2>1 DEF CheckOutAudit, WriteAudit, AuditOwnRow, OwnRow, NameAt, Posted
<1>4. CASE \E r \in Request : HandlerStep(r) \/ PageStep(r) \/ ClientStep(r)
  BY <1>1, <1>2, <1>3, <1>4
  DEF HandlerStep, CheckInStep, CheckOutStep, CheckInProbe, CheckInInsert,
      CheckInMeta, CheckOutGate, CheckOutUpdate, CheckOutLookup,
      RespondStep, RespondUpdate, RespondLookup, RespondAnswer, RespondCommit,
      PageStep, Submit, GiveUp, ClientStep, BeginCheckIn, BeginCheckOut, tables
<1>5. CASE StaffStep \/ Tick \/ Midnight \/ Crash \/ UNCHANGED vars
  BY <1>1, <1>5
  DEF StaffStep, LateSignoff, Reassign, Tick, Midnight, Crash, tables, vars
<1> QED  BY <1>4, <1>5 DEF Next

\* Answers keep to the rows they were stored with.
LEMMA OldAnswers ==
    ASSUME AnswersFollowCheckout, Grows, attendance \in Seq(Row), NEW p \in responses, p.row # 0
    PROVE  /\ p.row \in DOMAIN attendance'
           /\ attendance'[p.row].day <= p.due
           /\ \E w \in Person : StudentOf[w] = p.student /\ NameOf[w] = NameAt(p.row)'
           /\ \A i \in 1..p.row :
                 (/\ NameAt(i)' = NameAt(p.row)'
                  /\ attendance'[i].day = attendance'[p.row].day) => attendance'[i].out
<1>1. p.row \in DOMAIN attendance /\ DOMAIN attendance = 1..Len(attendance)
      /\ Len(attendance) \in Nat
  BY LenProperties DEF AnswersFollowCheckout
<1>2. \A i \in 1..p.row : i \in DOMAIN attendance
  BY <1>1
<1> QED  BY <1>1, <1>2 DEF AnswersFollowCheckout, Grows, NameAt

\* Answers are written by a commit and by LateSignoff only.
LEMMA AnswersStep ==
    ASSUME RowsInv, [Next]_vars
    PROVE  AnswersFollowCheckout'
<1> TxInv /\ TypeOK /\ AnswersFollowCheckout /\ Grows /\ attendance \in Seq(Row)
  BY AttendanceGrows DEF RowsInv, TxInv, TypeOK
<1>1. CASE UNCHANGED responses
  BY <1>1, OldAnswers DEF AnswersFollowCheckout
<1>2. ASSUME NEW r \in Request, RespondCommit(r),
             attendance' = Closed(tx.closed), responses' = responses \cup tx.answers
      PROVE  AnswersFollowCheckout'
  <2>1. PICK d \in 0..day : Departs(r, d) /\ Answers(r, d)
    BY <1>2, CommitIsDeparture
  <2>2. PICK k \in DOMAIN attendance : k = req[r].row
    BY <2>1 DEF Answers
  <2>3. /\ NameAt(k) = Posted(r) /\ attendance[k].day = d
        /\ \A p \in tx.answers :
              p.row = k /\ d <= p.due /\ p.student = StudentOf[req[r].who]
    BY <2>1, <2>2 DEF Answers
  <2>4. req[r].who \in Person
    BY <1>2, RunningRequest DEF RespondCommit, At
  <2>5. \A i \in DOMAIN attendance :
           (NameAt(i) = Posted(r) /\ attendance[i].day = d) => attendance'[i].out
    BY <1>2, <2>1, ClosedFields DEF Departs, OpenOn
  <2>6. DOMAIN attendance = 1..Len(attendance) /\ Len(attendance) \in Nat
    BY LenProperties
  <2>7. \A i \in 1..k : i \in DOMAIN attendance
    BY <2>6
  <2>8. ASSUME NEW p \in tx.answers
        PROVE  /\ p.row \in DOMAIN attendance'
               /\ attendance'[p.row].day <= p.due
               /\ \E w \in Person : StudentOf[w] = p.student /\ NameOf[w] = NameAt(p.row)'
               /\ \A i \in 1..p.row :
                     (/\ NameAt(i)' = NameAt(p.row)'
                      /\ attendance'[i].day = attendance'[p.row].day) => attendance'[i].out
    <3>1. p.row = k /\ d <= p.due /\ p.student = StudentOf[req[r].who]
      BY <2>3
    <3>2. k \in DOMAIN attendance' /\ attendance'[k].day = d /\ NameAt(k)' = Posted(r)
      BY <2>3 DEF Grows, NameAt
    <3>3. \A i \in 1..k : /\ NameAt(i)' = NameAt(i)
                          /\ attendance'[i].day = attendance[i].day
      BY <2>7 DEF Grows, NameAt
    <3>4. \A i \in 1..k : (NameAt(i)' = Posted(r) /\ attendance'[i].day = d)
                              => attendance'[i].out
      BY <2>5, <2>7, <3>3
    <3>5. StudentOf[req[r].who] = p.student /\ NameOf[req[r].who] = NameAt(k)'
      BY <3>1, <3>2 DEF Posted
    <3> QED  BY <2>4, <3>1, <3>2, <3>4, <3>5
  <2> QED  BY <1>2, <2>8, OldAnswers DEF AnswersFollowCheckout
<1>3. ASSUME NEW s \in Student, NEW it \in Item, NEW d \in LateDays,
             LateSignoff(s, it, d)
      PROVE  AnswersFollowCheckout'
  BY <1>3 DEF LateSignoff, AnswersFollowCheckout, NameAt
<1>4. ASSUME NEW r \in Request, HandlerStep(r) \/ PageStep(r) \/ ClientStep(r)
      PROVE  AnswersFollowCheckout'
  <2>1. CASE RespondStep(r)
    BY <1>1, <1>2, <2>1, RespondSteps
  <2>2. CASE CheckInStep(r) \/ CheckOutStep(r) \/ PageStep(r) \/ ClientStep(r)
    BY <1>1, <2>2
    DEF CheckInStep, CheckOutStep, CheckInProbe, CheckInInsert, CheckInMeta,
      CheckInAudit, CheckOutGate, CheckOutUpdate, CheckOutLookup, CheckOutAudit,
      PageStep, Submit, GiveUp, ClientStep, BeginCheckIn, BeginCheckOut, tables
  <2> QED  BY <1>4, <2>1, <2>2 DEF HandlerStep
<1>5. CASE StaffStep \/ Tick \/ Midnight \/ Crash \/ UNCHANGED vars
  BY <1>1, <1>3, <1>5
  DEF StaffStep, Reassign, Tick, Midnight, Crash, tables, vars
<1> QED  BY <1>4, <1>5 DEF Next

LEMMA RowsInvariant == Spec => []RowsInv
<1>1. Init => RowsInv
  <2>1. Init => \A r \in Request : HeldRow(r)
    BY DEF Init, HeldRow, Idle
  <2>2. Init => AuditOwnRow /\ AnswersFollowCheckout
    BY DEF Init, AuditOwnRow, AnswersFollowCheckout
  <2>3. Init => TxInv
    BY InitType DEF Init, TxInv, NoFutureRows, TxKnown, Idle
  <2> QED  BY <2>1, <2>2, <2>3 DEF RowsInv
<1>2. RowsInv /\ [Next]_vars => RowsInv'
  BY TxStep, HeldRowsStep, AuditStep, AnswersStep DEF RowsInv
<1> QED  BY <1>1, <1>2, PTL DEF Spec

\* Whatever interleaves with a check-out, fails in it or interrupts it, its
\* answers hang on a session of the posted name, whose day was over for it.
THEOREM AnswersAreAnchored == Spec => []AnswersFollowCheckout
<1>1. RowsInv => AnswersFollowCheckout
  BY DEF RowsInv
<1> QED  BY <1>1, RowsInvariant, PTL

\* No audit entry is filed under another name's session, although it is
\* written statements later with an id the handler kept or looked up.
THEOREM AuditIsAnchored == Spec => []AuditOwnRow
<1>1. RowsInv => AuditOwnRow
  BY DEF RowsInv
<1> QED  BY <1>1, RowsInvariant, PTL

-----------------------------------------------------------------------------
(* The todo gate *)

\* What a request has been told about the todos of its student stays true:
\* nothing is pending once the gate let it pass, and the page's list covers
\* whatever is pending still, together with what the transaction has answered.
GateKnown(r) ==
    /\ req[r].pc = "co_update" => Pending(StudentOf[req[r].who]) = {}
    /\ req[r].pc \in {"listed", "tr_update", "tr_lookup"} =>
          Pending(StudentOf[req[r].who]) \subseteq req[r].items
    /\ req[r].pc = "tr_answer" =>
          Pending(StudentOf[req[r].who]) \subseteq
              req[r].items \cup {a.item : a \in {b \in tx.answers : b.due = day}}

GateInv ==
    /\ TxInv
    /\ \A r \in Request : GateKnown(r)
    /\ GateHolds

\* Nobody else is checked in by the name of a student.
NamesTellStudents == \A v, w \in Person : NameOf[v] = NameOf[w] => StudentOf[v] = StudentOf[w]

LEMMA PendingShrinks ==
    ASSUME UNCHANGED <<day, todos>>, responses \subseteq responses', NEW s
    PROVE  Pending(s)' \subseteq Pending(s)
BY DEF Pending, Answered

\* A step that leaves the date and the todos alone only ever adds responses.
LEMMA RequestsAddResponses ==
    ASSUME NEW r \in Request, HandlerStep(r) \/ PageStep(r) \/ ClientStep(r)
    PROVE  UNCHANGED <<day, todos>> /\ responses \subseteq responses'
<1>1. CASE RespondStep(r)
  BY <1>1, RespondSteps DEF RespondStep, RespondUpdate, RespondLookup, RespondAnswer,
     RespondCommit, clock, tables
<1>2. CASE CheckInStep(r) \/ CheckOutStep(r)
  BY <1>2 DEF CheckInStep, CheckOutStep, CheckInProbe, CheckInInsert,
     CheckInMeta, CheckInAudit, CheckOutGate, CheckOutUpdate, CheckOutLookup,
     CheckOutAudit, tables, clock
<1>3. CASE PageStep(r) \/ ClientStep(r)
  BY <1>3 DEF PageStep, Submit, GiveUp, ClientStep, BeginCheckIn, BeginCheckOut,
     tables, clock
<1> QED  BY <1>1, <1>2, <1>3 DEF HandlerStep

\* What a step of a request makes it know, and leaves it knowing.
LEMMA StepKeepsGate ==
    ASSUME TxInv, "busy" \notin Faults, NEW r \in Request, GateKnown(r),
           HandlerStep(r) \/ PageStep(r) \/ ClientStep(r)
    PROVE  GateKnown(r)'
<1> req \in [Request -> Local] /\ tx \in Tx /\ TxKnown(r)
  BY DEF TxInv, TypeOK
<1> DEFINE gated == {"co_update", "listed", "tr_update", "tr_lookup", "tr_answer"}
<1>0. ASSUME req'[r].pc \notin gated PROVE GateKnown(r)'
  BY <1>0 DEF GateKnown
<1> HIDE DEF gated
<1>a. \A s : Pending(s)' \subseteq Pending(s)
  BY RequestsAddResponses, PendingShrinks
<1>1. CASE CheckInStep(r)
  <2>1. req'[r].pc \in {"idle", "ci_insert", "ci_meta", "ci_audit"}
    BY <1>1 DEF CheckInStep, CheckInProbe, CheckInInsert, CheckInMeta,
       CheckInAudit, Move, Goto, Return, Idle
  <2> QED  BY <1>0, <2>1 DEF gated
<1>2. CASE CheckOutGate(r)
  BY <1>a, <1>2 DEF CheckOutGate, CanFail, Move, Goto, GateKnown
<1>3. CASE CheckOutUpdate(r) \/ CheckOutLookup(r) \/ CheckOutAudit(r)
  <2>1. req'[r].pc \in {"idle", "co_lookup", "co_audit"}
    BY <1>3 DEF CheckOutUpdate, CheckOutLookup, CheckOutAudit, Move, Goto, Return, Idle
  <2> QED  BY <1>0, <2>1 DEF gated
<1>4. CASE RespondUpdate(r)
  <2>1. CASE Goto(r, "tr_lookup")
    BY <1>a, <1>4, <2>1 DEF RespondUpdate, At, Move, Goto, GateKnown
  <2>2. CASE Return(r)
    BY <1>0, <2>2 DEF Return, Idle, gated
  <2> QED  BY <1>4, <2>1, <2>2 DEF RespondUpdate
<1>5. CASE RespondLookup(r)
  <2>1. ASSUME NEW i \in Latest(Posted(r)), Move(r, "tr_answer", req[r].items, i)
        PROVE  GateKnown(r)'
    BY <1>a, <1>5, <2>1 DEF RespondLookup, At, Move, GateKnown
  <2>2. CASE Return(r)
    BY <1>0, <2>2 DEF Return, Idle, gated
  <2> QED  BY <1>5, <2>1, <2>2 DEF RespondLookup, Rollback
<1>6. ASSUME NEW it \in Item, RespondAnswer(r, it) PROVE GateKnown(r)'
  <2>1. ASSUME tx' = [tx EXCEPT !.answers = @ \cup {Answer(r, it)}],
               Move(r, "tr_answer", req[r].items \ {it}, req[r].row)
        PROVE  GateKnown(r)'
    <3>1. /\ req'[r].pc = "tr_answer" /\ req'[r].who = req[r].who
          /\ req'[r].items = req[r].items \ {it} /\ day' = day
      BY <1>6, <2>1 DEF RespondAnswer, Move, clock
    <3>2. tx'.answers = tx.answers \cup {Answer(r, it)}
      BY <2>1 DEF Tx
    <3>3. Answer(r, it).item = it /\ Answer(r, it).due = day
      BY DEF Answer
    <3>4. Pending(StudentOf[req[r].who]) \subseteq
              req[r].items \cup {a.item : a \in {b \in tx.answers : b.due = day}}
      BY <1>6 DEF RespondAnswer, At, GateKnown
    <3>5. \A x \in req[r].items \cup {a.item : a \in {b \in tx.answers : b.due = day}} :
             x \in (req[r].items \ {it})
                   \cup {a.item : a \in {b \in tx'.answers : b.due = day}}
      BY <3>2, <3>3
    <3> QED  BY <1>a, <3>1, <3>4, <3>5 DEF GateKnown
  <2>2. CASE Return(r)
    BY <1>0, <2>2 DEF Return, Idle, gated
  <2> QED  BY <1>6, <2>1, <2>2 DEF RespondAnswer, Rollback
<1>7. CASE RespondCommit(r)
  <2>1. req'[r].pc = "idle"
    BY <1>7 DEF RespondCommit, Rollback, Return, Idle
  <2> QED  BY <1>0, <2>1 DEF gated
<1>8. CASE PageStep(r)
  <2>1. CASE Submit(r)
    BY <1>a, <2>1 DEF Submit, At, Move, Goto, GateKnown
  <2>2. CASE GiveUp(r)
    BY <1>0, <2>2 DEF GiveUp, Return, Idle, gated
  <2> QED  BY <1>8, <2>1, <2>2 DEF PageStep
<1>9. CASE ClientStep(r)
  <2>1. req'[r].pc \in {"ci_probe", "co_gate"}
    BY <1>9 DEF ClientStep, BeginCheckIn, BeginCheckOut, Begin
  <2> QED  BY <1>0, <2>1 DEF gated
<1> QED
  BY <1>1, <1>2, <1>3, <1>4, <1>5, <1>6, <1>7, <1>8, <1>9
  DEF HandlerStep, CheckOutStep, RespondStep

\* Checking in or out touches the sessions of one name only.
LEMMA OtherNames ==
    ASSUME TypeOK, UNCHANGED day, NEW n \in Name, NEW m \in Name, m # n,
           \/ \E w \in Person : NameOf[w] = n /\ Appends(w)
           \/ \E d \in Nat : attendance' = Closed(OpenOn(n, d))
    PROVE  Today(m)' = Today(m) /\ OpenToday(m)' = OpenToday(m)
<1> attendance \in Seq(Row)
  BY DEF TypeOK
<1>1. ASSUME NEW w \in Person, NameOf[w] = n, Appends(w)
      PROVE  Today(m)' = Today(m) /\ OpenToday(m)' = OpenToday(m)
  <2>1. Arrival(w) \in Row /\ Arrival(w).who = w
    BY ArrivalType DEF Arrival
  <2> QED  BY <1>1, <2>1, AppendedRow DEF Appends, Today, OpenToday, NameAt
<1>2. ASSUME NEW d \in Nat, attendance' = Closed(OpenOn(n, d))
      PROVE  Today(m)' = Today(m) /\ OpenToday(m)' = OpenToday(m)
  <2>1. \A i \in DOMAIN attendance : i \in OpenOn(n, d) => NameAt(i) = n
    BY DEF OpenOn
  <2> QED  BY <1>2, <2>1, ClosedType, ClosedFields DEF Today, OpenToday, NameAt
<1> QED  BY <1>1, <1>2

\* A departure leaves no name open that was not.
LEMMA DepartureOpensNothing ==
    ASSUME TypeOK, UNCHANGED day, NEW n, NEW rows, attendance' = Closed(rows)
    PROVE  Today(n)' = Today(n) /\ OpenToday(n)' \subseteq OpenToday(n)
<1> attendance \in Seq(Row)
  BY DEF TypeOK
<1> QED  BY ClosedType, ClosedFields DEF Today, OpenToday, NameAt

LEMMA RequestKeepsGate ==
    ASSUME GateInv, "busy" \notin Faults, NamesTellStudents, NEW r \in Request,
           HandlerStep(r) \/ PageStep(r) \/ ClientStep(r)
    PROVE  GateHolds'
<1> TxInv /\ TypeOK /\ GateHolds /\ GateKnown(r) /\ attendance \in Seq(Row)
    /\ day \in Nat
  BY DEF GateInv, TxInv, TypeOK
<1>0. UNCHANGED day /\ \A s : Pending(s)' \subseteq Pending(s)
  BY RequestsAddResponses, PendingShrinks
<1>1. CASE UNCHANGED attendance
  BY <1>0, <1>1 DEF GateHolds, Today, OpenToday, NameAt
<1>2. ASSUME NEW w \in Person, Appends(w) PROVE GateHolds'
  <2>1. Arrival(w) \in Row
    BY ArrivalType
  <2>2. Len(attendance) + 1 \in OpenToday(NameOf[w])'
    BY <1>0, <1>2, <2>1, AppendedRow DEF Appends, Arrival, OpenToday, Today, NameAt
  <2>3. \A v \in Person : NameOf[v] \in Name
    BY PersonsAssumption
  <2>4. ASSUME NEW v \in Person, NameOf[v] # NameOf[w]
        PROVE  Today(NameOf[v])' = Today(NameOf[v])
               /\ OpenToday(NameOf[v])' = OpenToday(NameOf[v])
    BY <1>0, <1>2, <2>3, <2>4, OtherNames
  <2>5. ASSUME NEW v \in Person, Today(NameOf[v])' # {}, OpenToday(NameOf[v])' = {}
        PROVE  Pending(StudentOf[v])' = {}
    <3>1. NameOf[v] # NameOf[w]
      BY <2>2, <2>5
    <3> QED  BY <1>0, <2>4, <2>5, <3>1 DEF GateHolds
  <2> QED  BY <2>5 DEF GateHolds
<1>3. ASSUME NEW w \in Person, w = req[r].who, NEW d \in 0..day,
             attendance' = Closed(OpenOn(NameOf[w], d)),
             Pending(StudentOf[w])' = {}
      PROVE  GateHolds'
  <2>1. \A v \in Person : NameOf[v] \in Name
    BY PersonsAssumption
  <2>2. ASSUME NEW v \in Person, Today(NameOf[v])' # {}, OpenToday(NameOf[v])' = {}
        PROVE  Pending(StudentOf[v])' = {}
    <3>1. CASE NameOf[v] # NameOf[w]
      <4>1. /\ Today(NameOf[v])' = Today(NameOf[v])
            /\ OpenToday(NameOf[v])' = OpenToday(NameOf[v])
        BY <1>0, <1>3, <2>1, <3>1, OtherNames
      <4> QED  BY <1>0, <2>2, <4>1 DEF GateHolds
    <3>2. CASE NameOf[v] = NameOf[w]
      <4>1. StudentOf[v] = StudentOf[w]
        BY <3>2 DEF NamesTellStudents
      <4> QED  BY <1>3, <4>1
    <3> QED  BY <3>1, <3>2
  <2> QED  BY <2>2 DEF GateHolds
<1>4. CASE CheckInInsert(r) /\ req[r].who \in Person /\ Appends(req[r].who)
  BY <1>2, <1>4
<1>5. CASE CheckOutUpdate(r) /\ attendance' = Closed(OpenToday(Posted(r)))
  <2>1. PICK w \in Person : w = req[r].who
    BY <1>5, RunningRequest DEF CheckOutUpdate, At
  <2>2. OpenToday(Posted(r)) = OpenOn(NameOf[w], day) /\ day \in 0..day
    BY <2>1 DEF OpenToday, Today, OpenOn, Posted
  <2>3. Pending(StudentOf[w]) = {}
    BY <1>5, <2>1 DEF CheckOutUpdate, At, GateKnown
  <2>4. Pending(StudentOf[w])' = {}
    BY <1>0, <2>3
  <2> QED  BY <1>3, <1>5, <2>1, <2>2, <2>4
<1>6. CASE RespondCommit(r) /\ attendance' = Closed(tx.closed)
  <2>1. CASE UNCHANGED attendance
    BY <1>1, <2>1
  <2>2. CASE responses' = responses \cup tx.answers
    <3>1. PICK w \in Person : w = req[r].who
      BY <1>6, RunningRequest DEF RespondCommit, At
    <3>2. PICK d \in 0..day : Departs(r, d) /\ Answers(r, d)
      BY <1>6, CommitIsDeparture
    <3>3. tx.closed = OpenOn(NameOf[w], d)
      BY <3>1, <3>2 DEF Departs, Posted
    <3>4. \A x \in Pending(StudentOf[w]) :
             \E a \in tx.answers : a.item = x /\ a.due = day /\ a.student = StudentOf[w]
      BY <1>6, <3>1, <3>2 DEF RespondCommit, At, GateKnown, Answers
    <3>5. UNCHANGED <<day, todos>>
      BY RequestsAddResponses
    <3>6. Pending(StudentOf[w])' = {}
      BY <2>2, <3>4, <3>5 DEF Pending, Answered
    <3> QED  BY <1>3, <1>6, <3>1, <3>3, <3>6
  <2> QED  BY <1>6, <2>1, <2>2 DEF RespondCommit, Rollback
<1> QED  BY <1>1, <1>4, <1>5, <1>6, RequestSteps

\* Only the transaction's own request knows anything about its answers.
LEMMA OtherKeepsGate ==
    ASSUME TxInv, NEW r \in Request, NEW q \in Request, q # r, GateKnown(q),
           HandlerStep(r) \/ PageStep(r) \/ ClientStep(r)
    PROVE  GateKnown(q)'
<1>1. UNCHANGED req[q] /\ UNCHANGED day
  BY OthersUnmoved, RequestsAddResponses DEF TxInv
<1>2. \A s : Pending(s)' \subseteq Pending(s)
  BY RequestsAddResponses, PendingShrinks
<1>3. CASE req[q].pc = "tr_answer"
  <2>1. tx.by = q
    BY <1>3 DEF TxInv, TxKnown
  <2>2. UNCHANGED tx
    BY <2>1, OthersLeaveTx
  <2> QED  BY <1>1, <1>2, <1>3, <2>2 DEF GateKnown
<1>4. CASE req[q].pc # "tr_answer"
  BY <1>1, <1>2, <1>4 DEF GateKnown
<1> QED  BY <1>3, <1>4

LEMMA GateStep ==
    ASSUME GateInv, Faults \subseteq {"crash"}, NamesTellStudents, [Next]_vars
    PROVE  GateInv'
<1> TxInv /\ TypeOK /\ NoFutureRows /\ GateHolds /\ (\A r \in Request : GateKnown(r))
  BY DEF GateInv, TxInv
<1>1. TxInv'
  BY TxStep
<1>2. ASSUME NEW r \in Request, HandlerStep(r) \/ PageStep(r) \/ ClientStep(r)
      PROVE  GateHolds' /\ \A q \in Request : GateKnown(q)'
  <2>1. \A q \in Request : q # r => GateKnown(q)'
    BY <1>2, OtherKeepsGate
  <2>2. GateKnown(r)'
    BY <1>2, StepKeepsGate
  <2> QED  BY <1>2, <2>1, <2>2, RequestKeepsGate
<1>3. CASE (\E s \in Student, it \in Item, d \in LateDays : LateSignoff(s, it, d))
           \/ Tick \/ Crash \/ UNCHANGED vars
  <2>1. UNCHANGED <<day, todos, attendance>> /\ responses \subseteq responses'
    BY <1>3 DEF LateSignoff, Tick, Crash, clock, tables, vars
  <2>2. \A s : Pending(s)' \subseteq Pending(s)
    BY <2>1, PendingShrinks
  <2>3. ASSUME NEW q \in Request PROVE GateKnown(q)'
    <3>1. (UNCHANGED req[q] /\ UNCHANGED tx) \/ req'[q] = Idle
      BY <1>3 DEF LateSignoff, Tick, Crash, vars
    <3> QED  BY <2>1, <2>2, <3>1 DEF GateKnown, Idle
  <2>4. GateHolds'
    BY <2>1, <2>2 DEF GateHolds, Today, OpenToday, NameAt
  <2> QED  BY <1>1, <2>3, <2>4 DEF GateInv
<1>4. CASE Midnight
  <2>1. /\ \A r \in Request : req[r].pc = "idle"
        /\ UNCHANGED <<req, attendance>> /\ day' = day + 1
    BY <1>4 DEF Midnight, At, tables
  <2>2. \A n \in Name : Today(n)' = {}
    <3>1. \A i \in DOMAIN attendance : attendance[i].day \in Nat /\ day \in Nat
      BY RowTypes DEF TypeOK
    <3> QED  BY <2>1, <3>1 DEF Today, NoFutureRows
  <2>3. \A r \in Request : GateKnown(r)'
    BY <2>1 DEF GateKnown
  <2>4. GateHolds'
    BY <2>2, PersonsAssumption DEF GateHolds
  <2> QED  BY <1>1, <2>3, <2>4 DEF GateInv
<1>5. ASSUME NEW s \in Student, NEW it \in Item, Reassign(s, it) PROVE FALSE
  BY <1>5 DEF Reassign
<1> QED  BY <1>1, <1>2, <1>3, <1>4, <1>5 DEF GateInv, Next, StaffStep

\* Todos block check-out: as long as no query fails and nobody edits todos, no
\* request is under way at midnight and no two students share a name, a name
\* that was checked out today has answered everything, however the two ways
\* out of the building interleave and wherever the process is killed.
THEOREM GateIsSound ==
    ASSUME Faults \subseteq {"crash"}, NamesTellStudents
    PROVE  Spec => []GateHolds
<1>1. Init => GateInv
  <2>1. Init => TxInv
    BY InitType DEF Init, TxInv, NoFutureRows, TxKnown, Idle
  <2>2. Init => GateHolds /\ \A r \in Request : GateKnown(r)
    BY DEF Init, GateHolds, Today, GateKnown, Idle
  <2> QED  BY <2>1, <2>2 DEF GateInv
<1>2. GateInv /\ [Next]_vars => GateInv'
  BY GateStep
<1>3. GateInv => GateHolds
  BY DEF GateInv
<1> QED  BY <1>1, <1>2, <1>3, PTL DEF Spec

-----------------------------------------------------------------------------
(* Sessions end together, and every session is linked *)

LEMMA SessionStep == TxInv /\ [Next]_vars => SessionSteps
<1> SUFFICES ASSUME TxInv, [Next]_vars PROVE SessionSteps
  OBVIOUS
<1> TypeOK /\ attendance \in Seq(Row)
  BY DEF TxInv, TypeOK
<1>1. CASE UNCHANGED attendance
  BY <1>1 DEF SessionSteps
<1>2. ASSUME NEW w \in Person, Appends(w) PROVE SessionSteps
  BY <1>2, ArrivalType, AppendedRow DEF Appends, SessionSteps
<1>3. ASSUME NEW n \in Name, NEW d \in 0..day, attendance' = Closed(OpenOn(n, d))
      PROVE  SessionSteps
  <2> SUFFICES ASSUME NEW i \in DOMAIN attendance, attendance'[i] # attendance[i]
               PROVE  /\ attendance'[i] = [attendance[i] EXCEPT !.out = TRUE]
                      /\ \A j \in DOMAIN attendance :
                            (/\ NameAt(j) = NameAt(i)
                             /\ attendance[j].day = attendance[i].day) => attendance'[j].out
    BY DEF SessionSteps
  <2>1. attendance'[i] = [attendance[i] EXCEPT
                             !.out = attendance[i].out \/ i \in OpenOn(n, d)]
    BY <1>3, ClosedType
  <2>2. attendance[i] \in Row
    BY ElementOfSeq, LenProperties
  <2>3. [attendance[i] EXCEPT !.out = attendance[i].out] = attendance[i]
    BY <2>2 DEF Row
  <2>4. i \in OpenOn(n, d)
    <3>1. SUFFICES ASSUME i \notin OpenOn(n, d) PROVE FALSE
      OBVIOUS
    <3>2. (attendance[i].out \/ i \in OpenOn(n, d)) = attendance[i].out
      BY <2>2, <3>1 DEF Row
    <3> QED  BY <2>1, <2>3, <3>2
  <2>5. NameAt(i) = n /\ attendance[i].day = d
    BY <2>4 DEF OpenOn
  <2>6. ASSUME NEW j \in DOMAIN attendance, NameAt(j) = n, attendance[j].day = d
        PROVE  attendance'[j].out
    BY <1>3, <2>6, ClosedFields DEF OpenOn
  <2>7. attendance'[i] = [attendance[i] EXCEPT !.out = TRUE]
    BY <2>1, <2>4
  <2> QED  BY <2>5, <2>6, <2>7
<1> QED  BY <1>1, <1>2, <1>3, AttendanceSteps

\* A check-out closes every session of the name and day in one step, and no
\* other step of any handler ends a session or alters one.
THEOREM SessionsEnd == Spec => SessionsEndTogether
<1>1. TxInv /\ [Next]_vars => [SessionSteps]_vars
  BY SessionStep
<1> QED  BY <1>1, TxInvariant, PTL DEF Spec, SessionsEndTogether

LEMMA MetaStep ==
    ASSUME Faults \cap {"busy", "crash"} = {}
    PROVE  TypeOK /\ MetaComplete /\ [Next]_vars => MetaComplete'
<1> SUFFICES ASSUME TypeOK, MetaComplete, [Next]_vars PROVE MetaComplete'
  OBVIOUS
<1> attendance \in Seq(Row)
  BY DEF TypeOK
<1> req \in [Request -> Local]
  BY DEF TypeOK
<1>1. ~CanFail /\ "crash" \notin Faults
  BY DEF CanFail
<1>2. ASSUME NEW r \in Request, CheckInInsert(r) PROVE MetaComplete'
  <2>1. [who |-> req[r].who, day |-> day, sec |-> sec, out |-> FALSE] \in Row
    BY <1>2, RunningRequest DEF CheckInInsert, At, TypeOK, Row
  <2>2. /\ DOMAIN attendance = 1..Len(attendance)
        /\ DOMAIN attendance' = 1..(Len(attendance) + 1)
        /\ Len(attendance) \in Nat
    BY <1>1, <1>2, <2>1, AppendedRow DEF CheckInInsert
  <2>3. req'[r].pc = "ci_meta" /\ req'[r].row = Len(attendance) + 1
    BY <1>1, <1>2 DEF CheckInInsert, Move
  <2>4. \A q \in Request : At(q, "ci_meta") => req'[q] = req[q]
    BY <1>1, <1>2 DEF CheckInInsert, Move, At
  <2>5. meta' = meta
    BY <1>2 DEF CheckInInsert
  <2> QED  BY <2>2, <2>3, <2>4, <2>5 DEF MetaComplete, At
<1>3. ASSUME NEW r \in Request, CheckInMeta(r) PROVE MetaComplete'
  <2>1. meta' = meta \cup {req[r].row} /\ attendance' = attendance
    BY <1>1, <1>3 DEF CheckInMeta
  <2>2. \A q \in Request : q # r => req'[q] = req[q]
    BY <1>3 DEF CheckInMeta, Goto, Move
  <2> QED  BY <2>1, <2>2 DEF MetaComplete, At
<1>4. ASSUME meta' = meta, DOMAIN attendance' = DOMAIN attendance,
             \A q \in Request : At(q, "ci_meta") => req'[q] = req[q]
      PROVE  MetaComplete'
  BY <1>4 DEF MetaComplete, At
<1>5. ASSUME NEW r \in Request,
             HandlerStep(r) \/ PageStep(r) \/ ClientStep(r),
             ~CheckInInsert(r), ~CheckInMeta(r)
      PROVE  MetaComplete'
  <2>1. meta' = meta /\ ~At(r, "ci_meta")
    BY <1>5 DEF HandlerStep, CheckInStep, CheckInProbe, CheckInAudit,
         CheckOutStep, CheckOutGate, CheckOutUpdate, CheckOutLookup,
         CheckOutAudit, RespondStep, RespondUpdate, RespondLookup, RespondAnswer,
         RespondCommit, PageStep, Submit, GiveUp, ClientStep,
         BeginCheckIn, BeginCheckOut, Begin, At, tables
  <2>2. DOMAIN attendance' = DOMAIN attendance
    <3>1. attendance' = attendance \/ \E rows \in {OpenToday(Posted(r)), tx.closed} :
                                         attendance' = Closed(rows)
      BY <1>5, RequestSteps
    <3> QED  BY <3>1, ClosedType
  <2> QED  BY <1>4, <1>5, <2>1, <2>2, OthersUnmoved
<1>6. CASE StaffStep \/ Tick \/ Midnight \/ UNCHANGED vars
  BY <1>4, <1>6 DEF StaffStep, LateSignoff, Reassign, Tick, Midnight, tables, vars
<1>7. CASE Crash
  BY <1>1, <1>7 DEF Crash
<1> QED  BY <1>2, <1>3, <1>5, <1>6, <1>7 DEF Next

\* As long as no statement fails and the process is not killed, every session
\* is linked to its student or about to be, whatever runs beside.
THEOREM SessionsAreLinked ==
    ASSUME Faults \cap {"busy", "crash"} = {}
    PROVE  Spec => []MetaComplete
<1>1. Init => MetaComplete
  BY DEF Init, MetaComplete
<1>2. TypeOK /\ MetaComplete /\ [Next]_vars => MetaComplete'
  BY MetaStep
<1> QED  BY <1>1, <1>2, TypeCorrect, PTL DEF Spec

-----------------------------------------------------------------------------
(***************************************************************************)
(* Attendance implements AttendanceLedger: each step of a handler is an    *)
(* arrival, a departure, a late sign-off, the passing of time, or changes  *)
(* nothing a reader of the ledger sees.                                    *)
(***************************************************************************)
\* The handlers' query and the ledger's notion of an open session agree.
LEMMA OpenIsOpen ==
    ASSUME NEW n, NEW d
    PROVE  /\ Ledger!OpenSessions(n, d) = OpenOn(n, d)
           /\ LimitedLedger!OpenSessions(n, d) = OpenOn(n, d)
           /\ OpenToday(n) = OpenOn(n, day)
BY DEF Ledger!OpenSessions, LimitedLedger!OpenSessions, Ledger!Sessions,
   LimitedLedger!Sessions, OpenOn, OpenToday, Today, NameAt

LEMMA CardinalityAgrees == \A S : LimitedLedger!Cardinality(S) = Cardinality(S)
BY DEF LimitedLedger!Cardinality, Cardinality

\* Closing the open rows of a name and day is the departure of that name.
LEMMA ClosingIsLeave ==
    ASSUME NEW w \in Person, NEW d \in 0..day, NEW answers, NEW i \in DOMAIN attendance,
           NameAt(i) = NameOf[w], attendance[i].day = d,
           OpenOn(NameOf[w], d) # {}, attendance' = Closed(OpenOn(NameOf[w], d)),
           responses' = responses \cup
               {[student |-> StudentOf[w], item |-> a[1], due |-> a[2], row |-> i] :
                   a \in answers},
           d = day \/ answers # {},
           UNCHANGED clock
    PROVE  Ledger!Leave(w, d, answers) /\ LimitedLedger!Leave(w, d, answers)
<1>1. i \in Ledger!Sessions(NameOf[w], d) /\ i \in LimitedLedger!Sessions(NameOf[w], d)
  BY DEF Ledger!Sessions, LimitedLedger!Sessions, NameAt
<1> QED  BY <1>1, OpenIsOpen DEF Ledger!Leave, LimitedLedger!Leave, Closed, clock

\* Both ledgers make this step, or stay as they are.
DepartureOrStutter ==
    \/ UNCHANGED <<day, sec, attendance, responses>>
    \/ \E w \in Person, d \in 0..day :
          \E a \in Ledger!Answers(d) :
              Ledger!Leave(w, d, a) /\ LimitedLedger!Leave(w, d, a)

LEMMA CheckOutIsLeave ==
    ASSUME TypeOK, NEW r \in Request, CheckOutUpdate(r)
    PROVE  DepartureOrStutter
<1>1. CASE UNCHANGED attendance
  BY <1>1 DEF CheckOutUpdate, clock, DepartureOrStutter
<1>2. CASE OpenToday(Posted(r)) # {} /\ attendance' = Closed(OpenToday(Posted(r)))
  <2>1. PICK w \in Person : w = req[r].who
    BY RunningRequest DEF CheckOutUpdate, At
  <2>2. OpenToday(Posted(r)) = OpenOn(NameOf[w], day)
    BY <2>1, OpenIsOpen DEF Posted
  <2>3. PICK i \in OpenOn(NameOf[w], day) : TRUE
    BY <1>2, <2>2
  <2>4. i \in DOMAIN attendance /\ NameAt(i) = NameOf[w] /\ attendance[i].day = day
    BY DEF OpenOn
  <2>5. responses' = responses \cup
           {[student |-> StudentOf[w], item |-> a[1], due |-> a[2], row |-> i] : a \in {}}
    BY DEF CheckOutUpdate
  <2>6. day \in 0..day /\ UNCHANGED clock
    BY DEF CheckOutUpdate, TypeOK
  <2>7. Ledger!Leave(w, day, {}) /\ LimitedLedger!Leave(w, day, {})
    BY <1>2, <2>2, <2>4, <2>5, <2>6, ClosingIsLeave
  <2>8. {} \in Ledger!Answers(day)
    BY DEF Ledger!Answers
  <2> QED  BY <2>6, <2>7, <2>8 DEF DepartureOrStutter
<1> QED  BY <1>1, <1>2 DEF CheckOutUpdate

LEMMA CommitIsLeave ==
    ASSUME TxInv, NEW r \in Request, RespondCommit(r)
    PROVE  DepartureOrStutter
<1> TypeOK /\ tx \in Tx /\ day \in Nat
  BY DEF TxInv, TypeOK
<1>1. CASE UNCHANGED <<attendance, responses>>
  BY <1>1 DEF RespondCommit, clock, DepartureOrStutter
<1>2. CASE attendance' = Closed(tx.closed) /\ responses' = responses \cup tx.answers
  <2>1. PICK w \in Person : w = req[r].who
    BY RunningRequest DEF RespondCommit, At
  <2>2. PICK d \in 0..day : Departs(r, d) /\ Answers(r, d) /\ tx.answers # {}
    BY CommitIsDeparture
  <2>3. PICK i \in DOMAIN attendance : i = req[r].row
    BY <2>2 DEF Answers
  <2>4. /\ NameAt(i) = NameOf[w] /\ attendance[i].day = d
        /\ tx.closed = OpenOn(NameOf[w], d) /\ tx.closed # {}
    BY <2>1, <2>2, <2>3 DEF Answers, Departs, Posted
  <2>5. \A p \in tx.answers :
           /\ p \in Response
           /\ p.student = StudentOf[w] /\ p.row = i /\ p.due \in d..day
           /\ \A q \in tx.answers : p.item = q.item => p = q
    BY <2>1, <2>2, <2>3 DEF Answers, Tx, Response
  <2> DEFINE answers == {<<p.item, p.due>> : p \in tx.answers}
  <2>6. answers \in Ledger!Answers(d)
    <3>1. answers \in SUBSET (Item \X (d..day))
      BY <2>5 DEF Response
    <3>2. ASSUME NEW x \in answers, NEW y \in answers, x[1] = y[1] PROVE x = y
      BY <2>5, <3>2
    <3> QED  BY <3>1, <3>2 DEF Ledger!Answers
  <2>7. \A p \in tx.answers :
           p = [student |-> StudentOf[w], item |-> p.item, due |-> p.due, row |-> i]
    BY <2>5 DEF Response
  <2>8. tx.answers = {[student |-> StudentOf[w], item |-> a[1], due |-> a[2], row |-> i] :
                         a \in answers}
    <3>1. ASSUME NEW p \in tx.answers
          PROVE  \E a \in answers : p = [student |-> StudentOf[w], item |-> a[1],
                                       due |-> a[2], row |-> i]
      <4>1. <<p.item, p.due>> \in answers
        OBVIOUS
      <4> QED  BY <2>7, <4>1
    <3>2. ASSUME NEW a \in answers
          PROVE  [student |-> StudentOf[w], item |-> a[1], due |-> a[2], row |-> i]
                     \in tx.answers
      <4>1. PICK p \in tx.answers : a = <<p.item, p.due>>
        OBVIOUS
      <4>2. a[1] = p.item /\ a[2] = p.due
        BY <4>1
      <4> QED  BY <2>7, <4>2
    <3> HIDE DEF answers
    <3> QED  BY <3>1, <3>2
  <2>9. answers # {} /\ UNCHANGED clock
    BY <2>2 DEF RespondCommit
  <2> HIDE DEF answers
  <2>10. Ledger!Leave(w, d, answers) /\ LimitedLedger!Leave(w, d, answers)
    BY <1>2, <2>3, <2>4, <2>8, <2>9, ClosingIsLeave
  <2> QED  BY <2>6, <2>10 DEF DepartureOrStutter
<1> QED  BY <1>1, <1>2 DEF RespondCommit, Rollback

\* A step of a handler that is no check-in changes both ledgers alike.
LEMMA DepartureSteps ==
    ASSUME TxInv, NEW r \in Request,
           CheckOutStep(r) \/ RespondStep(r) \/ PageStep(r) \/ ClientStep(r)
    PROVE  DepartureOrStutter
<1> TypeOK
  BY DEF TxInv
<1>1. CASE CheckOutStep(r)
  <2>1. CASE CheckOutGate(r) \/ CheckOutLookup(r) \/ CheckOutAudit(r)
    BY <2>1 DEF CheckOutGate, CheckOutLookup, CheckOutAudit, clock, tables, DepartureOrStutter
  <2> QED  BY <1>1, <2>1, CheckOutIsLeave DEF CheckOutStep
<1>2. CASE RespondStep(r)
  <2>1. CASE RespondUpdate(r) \/ RespondLookup(r) \/ \E it \in Item : RespondAnswer(r, it)
    BY <2>1 DEF RespondUpdate, RespondLookup, RespondAnswer, Rollback, clock, tables, DepartureOrStutter
  <2> QED  BY <1>2, <2>1, CommitIsLeave DEF RespondStep
<1>3. CASE PageStep(r) \/ ClientStep(r)
  BY <1>3 DEF PageStep, Submit, GiveUp, ClientStep, BeginCheckIn, BeginCheckOut,
       clock, tables, DepartureOrStutter
<1> QED  BY <1>1, <1>2, <1>3

\* A check-in appends a row or changes nothing a reader of the ledger sees.
LEMMA ArrivalSteps ==
    ASSUME TypeOK, NEW r \in Request, CheckInStep(r)
    PROVE  \/ UNCHANGED <<day, sec, attendance, responses>>
           \/ /\ At(r, "ci_insert") /\ req[r].who \in Person
              /\ Ledger!Arrive(req[r].who)
              /\ Cardinality(OpenToday(Posted(r))) < Cardinality(Request)
                     => LimitedLedger!Arrive(req[r].who)
<1>1. CASE CheckInInsert(r)
  <2>1. OpenToday(Posted(r)) = LimitedLedger!OpenSessions(NameOf[req[r].who], day)
    BY OpenIsOpen DEF Posted
  <2> QED
    BY <1>1, <2>1, RunningRequest, CardinalityAgrees
    DEF CheckInInsert, At, clock, Ledger!Arrive, LimitedLedger!Arrive
<1>2. CASE CheckInProbe(r) \/ CheckInMeta(r) \/ CheckInAudit(r)
  BY <1>2 DEF CheckInProbe, CheckInMeta, CheckInAudit, clock, tables
<1> QED  BY <1>1, <1>2 DEF CheckInStep

\* Staff, the clock and a crash.
LEMMA OutsideSteps ==
    ASSUME StaffStep \/ Tick \/ Midnight \/ Crash \/ UNCHANGED vars
    PROVE  \/ UNCHANGED <<day, sec, attendance, responses>>
           \/ Ledger!Next /\ LimitedLedger!Next
<1>1. ASSUME NEW s \in Student, NEW it \in Item, NEW d \in LateDays,
             LateSignoff(s, it, d)
      PROVE  Ledger!Next /\ LimitedLedger!Next
  <2>1. Ledger!SignOffLate(s, it, d) /\ LimitedLedger!SignOffLate(s, it, d)
    BY <1>1 DEF LateSignoff, clock, Ledger!SignOffLate, LimitedLedger!SignOffLate
  <2> QED  BY <2>1 DEF Ledger!Next, LimitedLedger!Next
<1>2. CASE Tick \/ Midnight
  <2>1. Ledger!TimePasses /\ LimitedLedger!TimePasses
    BY <1>2 DEF Tick, Midnight, tables, Ledger!TimePasses, LimitedLedger!TimePasses
  <2> QED  BY <2>1 DEF Ledger!Next, LimitedLedger!Next
<1>3. ASSUME NEW s \in Student, NEW it \in Item, Reassign(s, it)
      PROVE  UNCHANGED <<day, sec, attendance, responses>>
  BY <1>3 DEF Reassign, clock
<1>4. CASE Crash \/ UNCHANGED vars
  BY <1>4 DEF Crash, clock, tables, vars
<1> QED  BY <1>1, <1>2, <1>3, <1>4 DEF StaffStep

LEMMA LedgerAnswersAgree == \A d : Ledger!Answers(d) = LimitedLedger!Answers(d)
BY DEF Ledger!Answers, LimitedLedger!Answers

LEMMA LedgerStep ==
    ASSUME TxInv, [Next]_vars
    PROVE  [Ledger!Next]_(Ledger!vars)
<1> TypeOK
  BY DEF TxInv
<1>1. ASSUME NEW r \in Request, CheckInStep(r)
      PROVE  [Ledger!Next]_(Ledger!vars)
  BY <1>1, ArrivalSteps DEF Ledger!Next, Ledger!vars
<1>2. ASSUME NEW r \in Request,
             CheckOutStep(r) \/ RespondStep(r) \/ PageStep(r) \/ ClientStep(r)
      PROVE  [Ledger!Next]_(Ledger!vars)
  BY <1>2, DepartureSteps DEF DepartureOrStutter, Ledger!Next, Ledger!vars
<1>3. CASE StaffStep \/ Tick \/ Midnight \/ Crash \/ UNCHANGED vars
  BY <1>3, OutsideSteps DEF Ledger!vars
<1> QED  BY <1>1, <1>2, <1>3 DEF Next, HandlerStep

\* Handlers that interleave statement by statement, fail half-way, run into
\* midnight and die in crashes look, in the tables, like atomic arrivals,
\* departures with their answers, and late sign-offs.
THEOREM LedgerRefined == Spec => LedgerImplemented
<1>1. Init => Ledger!Init
  BY DEF Init, Ledger!Init
<1>2. TxInv /\ [Next]_vars => [Ledger!Next]_(Ledger!vars)
  BY LedgerStep
<1> QED  BY <1>1, <1>2, TxInvariant, PTL DEF Spec, LedgerImplemented, Ledger!Spec

-----------------------------------------------------------------------------
(* How many open sessions a name can have *)

\* Requests that have found no open session and are about to open one.
Arriving(n) == {r \in Request : At(r, "ci_insert") /\ Posted(r) = n}

FewOpen(n) ==
    Cardinality(OpenToday(n)) + Cardinality(Arriving(n)) <= Cardinality(Request)

FewInv == TypeOK /\ NoFutureRows /\ \A n \in Name : FewOpen(n)

LEMMA Counted ==
    ASSUME attendance \in Seq(Row), NEW n
    PROVE  /\ IsFiniteSet(OpenToday(n)) /\ Cardinality(OpenToday(n)) \in Nat
           /\ IsFiniteSet(Arriving(n)) /\ Cardinality(Arriving(n)) \in Nat
           /\ Cardinality(Request) \in Nat
           /\ Cardinality(Arriving(n)) <= Cardinality(Request)
<1>1. IsFiniteSet(Request) /\ Arriving(n) \subseteq Request
  BY RequestsAssumption DEF Arriving
<1>2. OpenToday(n) \subseteq 1..Len(attendance) /\ Len(attendance) \in Nat
  BY QueriesReturnRows, LenProperties
<1>3. IsFiniteSet(1..Len(attendance))
  BY <1>2, FS_Interval
<1> QED  BY <1>1, <1>2, <1>3, FS_Subset, FS_CardinalityType

\* Nobody arrives and nothing opens: the count can only shrink.
LEMMA FewerStaysFew ==
    ASSUME attendance \in Seq(Row), attendance' \in Seq(Row), NEW n, FewOpen(n),
           OpenToday(n)' \subseteq OpenToday(n), Arriving(n)' \subseteq Arriving(n)
    PROVE  FewOpen(n)'
<1>1. PICK open, coming : open = OpenToday(n)' /\ coming = Arriving(n)'
  OBVIOUS
<1>2. /\ IsFiniteSet(OpenToday(n)) /\ Cardinality(OpenToday(n)) \in Nat
      /\ IsFiniteSet(Arriving(n)) /\ Cardinality(Arriving(n)) \in Nat
      /\ Cardinality(Request) \in Nat
  BY Counted
<1>3. /\ Cardinality(open) \in Nat /\ Cardinality(open) <= Cardinality(OpenToday(n))
      /\ Cardinality(coming) \in Nat /\ Cardinality(coming) <= Cardinality(Arriving(n))
  BY <1>1, <1>2, FS_Subset, FS_CardinalityType
<1>4. Cardinality(open) + Cardinality(coming) <= Cardinality(Request)
  BY <1>2, <1>3 DEF FewOpen
<1> QED  BY <1>1, <1>4 DEF FewOpen

\* Who is in, and who is on the way in, when nothing is open of today.
LEMMA NoneOpenIsFew ==
    ASSUME attendance \in Seq(Row), NEW n, OpenToday(n) = {}
    PROVE  FewOpen(n)
BY Counted, FS_EmptySet DEF FewOpen

LEMMA NoneOpenNextIsFew ==
    ASSUME NEW n, OpenToday(n)' = {}
    PROVE  FewOpen(n)'
<1>1. PICK coming : coming = Arriving(n)' /\ coming \subseteq Request
  BY DEF Arriving
<1>2. Cardinality(coming) <= Cardinality(Request) /\ Cardinality(coming) \in Nat
  BY <1>1, RequestsAssumption, FS_Subset, FS_CardinalityType
<1>3. Cardinality({}) = 0
  BY FS_EmptySet
<1> QED  BY <1>1, <1>2, <1>3 DEF FewOpen

\* An arrival: one more session, one request less on the way.
LEMMA InsertKeepsFew ==
    ASSUME FewInv, "busy" \notin Faults, NEW r \in Request, CheckInInsert(r), NEW n \in Name
    PROVE  FewOpen(n)'
<1> /\ TypeOK /\ TypeOK' /\ attendance \in Seq(Row) /\ attendance' \in Seq(Row)
    /\ FewOpen(n) /\ req \in [Request -> Local]
  <2>1. [Next]_vars /\ TypeOK
    BY DEF FewInv, Next, HandlerStep, CheckInStep
  <2> QED  BY <2>1, NextType DEF FewInv, TypeOK
<1> DEFINE new == Len(attendance) + 1
<1>1. PICK w \in Person : w = req[r].who /\ NameOf[w] \in Name
  BY RunningRequest, PersonsAssumption DEF CheckInInsert, At
<1>2. /\ attendance' = Append(attendance, Arrival(w)) /\ day' = day
      /\ req' = [req EXCEPT ![r] = [pc |-> "ci_meta", who |-> w, items |-> {}, row |-> new]]
  BY <1>1 DEF CheckInInsert, CanFail, Arrival, Move, clock
<1>3. Arrival(w) \in Row /\ NameOf[Arrival(w).who] = NameOf[w]
      /\ Arrival(w).day = day /\ Arrival(w).out = FALSE
  BY ArrivalType DEF Arrival
<1>4. /\ DOMAIN attendance = 1..Len(attendance) /\ Len(attendance) \in Nat
      /\ DOMAIN attendance' = 1..new /\ attendance'[new] = Arrival(w)
      /\ \A i \in DOMAIN attendance : attendance'[i] = attendance[i]
  BY <1>2, <1>3, AppendedRow
<1>5. Arriving(n)' = Arriving(n) \ {r}
  <2>1. At(r, "ci_insert") /\ \A q \in Request : q # r => req'[q] = req[q]
    BY <1>2 DEF CheckInInsert
  <2>2. req'[r].pc = "ci_meta"
    BY <1>2
  <2> QED  BY <2>1, <2>2 DEF Arriving, At, Posted
<1>6. CASE n # NameOf[w]
  <2>1. OpenToday(n)' = OpenToday(n)
    BY <1>2, <1>3, <1>4, <1>6 DEF OpenToday, Today, NameAt
  <2> QED  BY <1>5, <2>1, FewerStaysFew
<1>7. CASE n = NameOf[w]
  <2>1. PICK open, coming : open = OpenToday(n) /\ coming = Arriving(n)
    OBVIOUS
  <2>2. OpenToday(n)' = open \cup {new} /\ new \notin open
    BY <1>2, <1>3, <1>4, <1>7, <2>1 DEF OpenToday, Today, NameAt
  <2>3. Arriving(n)' = coming \ {r} /\ r \in coming
    BY <1>1, <1>5, <1>7, <2>1 DEF Arriving, CheckInInsert, Posted
  <2>4. /\ IsFiniteSet(open) /\ Cardinality(open) \in Nat
        /\ IsFiniteSet(coming) /\ Cardinality(coming) \in Nat
        /\ Cardinality(Request) \in Nat
    BY <2>1, Counted
  <2>5. Cardinality(open \cup {new}) = Cardinality(open) + 1
    BY <2>2, <2>4, FS_AddElement
  <2>6. Cardinality(coming \ {r}) = Cardinality(coming) - 1
    BY <2>3, <2>4, FS_RemoveElement
  <2>7. Cardinality(open) + Cardinality(coming) <= Cardinality(Request)
    BY <2>1 DEF FewOpen
  <2>8. Cardinality(open \cup {new}) + Cardinality(coming \ {r}) <= Cardinality(Request)
    BY <2>4, <2>5, <2>6, <2>7
  <2> QED  BY <2>2, <2>3, <2>8 DEF FewOpen
<1> QED  BY <1>6, <1>7

\* The check finds nobody in before its request counts as arriving.
LEMMA ProbeKeepsFew ==
    ASSUME FewInv, "busy" \notin Faults, NEW r \in Request, CheckInProbe(r), NEW n \in Name
    PROVE  FewOpen(n)'
<1> /\ TypeOK /\ attendance \in Seq(Row) /\ FewOpen(n) /\ req \in [Request -> Local]
    /\ UNCHANGED <<attendance, day>>
  BY DEF FewInv, TypeOK, CheckInProbe, tables, clock
<1>1. OpenToday(n)' = OpenToday(n)
  BY DEF OpenToday, Today, NameAt
<1>2. CASE OpenToday(n) = {}
  BY <1>1, <1>2, NoneOpenNextIsFew
<1>3. CASE OpenToday(n) # {}
  <2>1. Arriving(n)' \subseteq Arriving(n)
    <3>1. \A q \in Request : q # r => req'[q] = req[q]
      BY DEF CheckInProbe, Goto, Move, Return
    <3>2. CASE Posted(r) = n
      <4>1. req'[r].pc = "idle"
        BY <1>3, <3>2 DEF CheckInProbe, CanFail, Return, Idle
      <4> QED  BY <3>1, <4>1 DEF Arriving, At, Posted
    <3>3. CASE Posted(r) # n
      <4>1. req'[r].pc = "idle" \/ req'[r].who = req[r].who
        BY DEF CheckInProbe, Goto, Move, Return, Idle
      <4> QED  BY <3>1, <3>3, <4>1 DEF Arriving, At, Posted
    <3> QED  BY <3>2, <3>3
  <2> QED  BY <1>1, <2>1, FewerStaysFew
<1> QED  BY <1>2, <1>3

\* No other step of a request makes one arrive or opens a session.
LEMMA OthersArriveNot ==
    ASSUME TypeOK, NEW r \in Request, NEW n,
           HandlerStep(r) \/ PageStep(r) \/ ClientStep(r),
           ~CheckInProbe(r), ~CheckInInsert(r)
    PROVE  Arriving(n)' \subseteq Arriving(n) /\ OpenToday(n)' \subseteq OpenToday(n)
<1> req \in [Request -> Local] /\ attendance \in Seq(Row)
  BY DEF TypeOK
<1>1. req'[r].pc # "ci_insert"
  <2>1. CASE CheckInMeta(r) \/ CheckInAudit(r)
    BY <2>1 DEF CheckInMeta, CheckInAudit, Goto, Move, Return, Idle
  <2>2. CASE CheckOutStep(r)
    BY <2>2 DEF CheckOutStep, CheckOutGate, CheckOutUpdate, CheckOutLookup,
       CheckOutAudit, Goto, Move, Return, Idle
  <2>3. CASE RespondStep(r)
    BY <2>3 DEF RespondStep, RespondUpdate, RespondLookup, RespondAnswer,
       RespondCommit, Rollback, Goto, Move, Return, Idle
  <2>4. CASE PageStep(r)
    BY <2>4 DEF PageStep, Submit, GiveUp, Goto, Move, Return, Idle
  <2>5. CASE ClientStep(r)
    <3>1. req'[r].pc \in {"ci_probe", "co_gate"}
      BY <2>5 DEF ClientStep, BeginCheckIn, BeginCheckOut, Begin
    <3> QED  BY <3>1
  <2> QED  BY <2>1, <2>2, <2>3, <2>4, <2>5 DEF HandlerStep, CheckInStep
<1>2. \A q \in Request : q # r => req'[q] = req[q]
  BY OthersUnmoved
<1>3. Arriving(n)' \subseteq Arriving(n)
  BY <1>1, <1>2 DEF Arriving, At, Posted
<1>4. UNCHANGED day
  BY RequestsAddResponses
<1>5. attendance' = attendance \/ \E rows \in {OpenToday(Posted(r)), tx.closed} :
                                     attendance' = Closed(rows)
  BY RequestSteps
<1>6. OpenToday(n)' \subseteq OpenToday(n)
  BY <1>4, <1>5, DepartureOpensNothing DEF OpenToday, Today, NameAt
<1> QED  BY <1>3, <1>6

LEMMA FewStep ==
    ASSUME FewInv, "busy" \notin Faults, [Next]_vars
    PROVE  FewInv'
<1> /\ TypeOK /\ NoFutureRows /\ TypeOK' /\ attendance \in Seq(Row)
    /\ attendance' \in Seq(Row)
  <2>1. TypeOK /\ TypeOK'
    BY NextType DEF FewInv
  <2> QED  BY <2>1 DEF FewInv, TypeOK
<1>1. NoFutureRows'
  BY RowsKeepTheirDay
<1> SUFFICES ASSUME NEW n \in Name PROVE FewOpen(n)'
  BY <1>1 DEF FewInv
<1> FewOpen(n)
  BY DEF FewInv
<1>2. ASSUME NEW r \in Request, HandlerStep(r) \/ PageStep(r) \/ ClientStep(r)
      PROVE  FewOpen(n)'
  <2>1. CASE CheckInProbe(r)
    BY <2>1, ProbeKeepsFew
  <2>2. CASE CheckInInsert(r)
    BY <2>2, InsertKeepsFew
  <2>3. CASE ~CheckInProbe(r) /\ ~CheckInInsert(r)
    BY <1>2, <2>3, OthersArriveNot, FewerStaysFew
  <2> QED  BY <2>1, <2>2, <2>3
<1>3. CASE StaffStep \/ Tick \/ UNCHANGED vars
  <2>1. UNCHANGED <<day, attendance, req>>
    BY <1>3 DEF StaffStep, LateSignoff, Reassign, Tick, clock, tables, vars
  <2> QED
    BY <2>1, FewerStaysFew DEF OpenToday, Today, NameAt, Arriving, At, Posted
<1>4. CASE Crash
  <2>1. UNCHANGED <<day, attendance>> /\ Arriving(n)' = {}
    BY <1>4 DEF Crash, clock, tables, Arriving, At, Idle
  <2> QED  BY <2>1, FewerStaysFew DEF OpenToday, Today, NameAt
<1>5. CASE Midnight
  <2>1. UNCHANGED attendance /\ day' = day + 1 /\ day \in Nat
    BY <1>5 DEF Midnight, tables, TypeOK
  <2>2. \A i \in DOMAIN attendance : attendance[i].day \in Nat
    BY RowTypes
  <2>3. OpenToday(n)' = {}
    BY <2>1, <2>2 DEF OpenToday, Today, NoFutureRows
  <2> QED  BY <2>3, NoneOpenNextIsFew
<1> QED  BY <1>2, <1>3, <1>4, <1>5 DEF Next

LEMMA FewInvariant ==
    ASSUME "busy" \notin Faults
    PROVE  Spec => []FewInv
<1>1. Init => FewInv
  <2> SUFFICES ASSUME Init PROVE FewInv
    OBVIOUS
  <2>1. TypeOK /\ NoFutureRows
    BY InitType DEF Init, NoFutureRows
  <2>2. attendance \in Seq(Row) /\ \A n \in Name : OpenToday(n) = {}
    BY <2>1 DEF Init, TypeOK, OpenToday, Today
  <2> QED  BY <2>1, <2>2, NoneOpenIsFew DEF FewInv
<1>2. FewInv /\ [Next]_vars => FewInv'
  BY FewStep
<1> QED  BY <1>1, <1>2, PTL DEF Spec

\* When its row is inserted, a request is counted among those arriving.
LEMMA ArrivalFindsFew ==
    ASSUME FewInv, NEW r \in Request, At(r, "ci_insert"), req[r].who \in Person
    PROVE  Cardinality(OpenToday(Posted(r))) < Cardinality(Request)
<1> PICK n \in Name : n = Posted(r)
  BY PersonsAssumption DEF Posted
<1>1. /\ attendance \in Seq(Row) /\ FewOpen(n) /\ r \in Arriving(n)
  BY DEF FewInv, TypeOK, Arriving
<1>2. /\ Cardinality(OpenToday(n)) \in Nat /\ Cardinality(Arriving(n)) \in Nat
      /\ Cardinality(Request) \in Nat /\ IsFiniteSet(Arriving(n))
  BY <1>1, Counted
<1>3. Cardinality(Arriving(n)) # 0
  BY <1>1, <1>2, FS_EmptySet
<1> QED  BY <1>1, <1>2, <1>3 DEF FewOpen

LEMMA LimitedLedgerStep ==
    ASSUME TxInv, FewInv, [Next]_vars
    PROVE  [LimitedLedger!Next]_(LimitedLedger!vars)
<1> TypeOK
  BY DEF TxInv
<1>1. ASSUME NEW r \in Request, CheckInStep(r)
      PROVE  [LimitedLedger!Next]_(LimitedLedger!vars)
  BY <1>1, ArrivalSteps, ArrivalFindsFew DEF LimitedLedger!Next, LimitedLedger!vars
<1>2. ASSUME NEW r \in Request,
             CheckOutStep(r) \/ RespondStep(r) \/ PageStep(r) \/ ClientStep(r)
      PROVE  [LimitedLedger!Next]_(LimitedLedger!vars)
  BY <1>2, DepartureSteps, LedgerAnswersAgree
  DEF DepartureOrStutter, LimitedLedger!Next, LimitedLedger!vars
<1>3. CASE StaffStep \/ Tick \/ Midnight \/ Crash \/ UNCHANGED vars
  BY <1>3, OutsideSteps DEF LimitedLedger!vars
<1> QED  BY <1>1, <1>2, <1>3 DEF Next, HandlerStep

\* As long as no statement fails, a name arrives only while it has fewer open
\* sessions than requests are in flight: none at all if they come one by one.
THEOREM LimitedLedgerRefined ==
    ASSUME "busy" \notin Faults
    PROVE  Spec => LimitedLedgerImplemented
<1>1. Init => LimitedLedger!Init
  BY DEF Init, LimitedLedger!Init
<1>2. TxInv /\ FewInv /\ [Next]_vars => [LimitedLedger!Next]_(LimitedLedger!vars)
  BY LimitedLedgerStep
<1> QED
  BY <1>1, <1>2, TxInvariant, FewInvariant, PTL
  DEF Spec, LimitedLedgerImplemented, LimitedLedger!Spec
=============================================================================
