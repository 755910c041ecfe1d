--------------------------- MODULE EnrollmentProofs ---------------------------
(***************************************************************************)
(* Theorems about Enrollment, for any number of requests, teachers,        *)
(* students, rooms and classes.                                            *)
(***************************************************************************)
EXTENDS Enrollment, FiniteSetTheorems, TLAPS

-----------------------------------------------------------------------------
(* The inductive invariant *)

ReadsRow   == {"en_room", "en_write", "un_write", "up_write", "de_write"}
ForStudent == {"en_read", "en_room", "en_write", "un_read", "un_write"}
ForTeacher == {"cr_max", "cr_write", "up_check", "up_write"}

\* What a request knows about its locals from the statements it has executed.
Knows(r) ==
    LET l == req[r] IN
    /\ l.pc \notin {"idle", "cr_max"} => l.id \in Id
    /\ l.pc \in ReadsRow => Exists(l.id)
    /\ l.pc \in ForStudent => l.student \in Student
    /\ l.pc \in ForTeacher => l.teacher \in Teacher /\ l.room \in Room
    /\ l.pc \in {"en_room", "en_write"} => l.room \in Room
    /\ IsFiniteSet(l.list)
    /\ l.pc = "cr_write" => l.id = 1 \/ l.id - 1 \in Used

\* A request that is about to enrol has seen a free seat.
SeatSeen(r) ==
    LET cap == Capacity[req[r].room] IN
    At(r, "en_write") /\ "failure" \notin met =>
        cap = 0 \/ Cardinality(req[r].list) < cap

ListsInv ==
    /\ \A c \in Id : Exists(c) => IsFiniteSet(class[c].students)
    /\ \A t \in Teacher : form[t] # None => IsFiniteSet(form[t].list)

Creators == {q \in Request : req[q].pc \in {"cr_max", "cr_write"}}

\* Ids are handed out without gaps, and every creation under way has one left.
IdsInv ==
    /\ IsFiniteSet(Creators)
    /\ \E k \in Id : Used = 1..k /\ k + Cardinality(Creators) <= MaxClass

\* While no requests have overlapped, what the one request read still holds.
AloneInv ==
    "overlap" \notin met =>
        /\ \A p, q \in Request : p # q => At(p, "idle") \/ At(q, "idle")
        /\ \A q \in Request :
              req[q].pc \in {"en_room", "en_write", "un_write"} =>
                  req[q].list = class[req[q].id].students
        /\ met = {} => \A q \in Request : At(q, "cr_write") => ~Exists(req[q].id)

IInv ==
    /\ TypeOK
    /\ \A r \in Request : Knows(r) /\ SeatSeen(r)
    /\ ListsInv
    /\ IdsInv
    /\ AloneInv

-----------------------------------------------------------------------------
(* Ids *)

\* The number above 1..k is k + 1.
LEMMA AboveInterval ==
    ASSUME NEW k \in Nat, k + 1 \in Id
    PROVE  Above(1..k) = k + 1
<1> MaxClass \in Nat
  BY BoundsAssumption
<1> DEFINE P(d) == (\A c \in 1..k : c < d) /\ (d = 1 \/ d - 1 \in 1..k)
<1>1. P(k + 1)
  OBVIOUS
<1>2. ASSUME NEW d \in Id, P(d) PROVE d = k + 1
  <2>1. d \in Nat /\ d >= 1
    BY DEF Id
  <2>2. CASE d = 1
    BY <1>2, <2>2
  <2>3. CASE d - 1 \in 1..k
    <3>1. k \in 1..k
      BY <2>3
    <3> QED  BY <1>2, <2>1, <2>3, <3>1
  <2> QED  BY <1>2, <2>2, <2>3
<1> HIDE DEF P
<1>3. (CHOOSE d \in Id : P(d)) = k + 1
  BY <1>1, <1>2
<1> QED  BY <1>3 DEF Above, P

LEMMA UsedSize ==
    ASSUME NEW k \in Nat
    PROVE  Cardinality(1..k) = k
BY FS_Interval

-----------------------------------------------------------------------------
(* The initial state *)

LEMMA InitInv == Init => IInv
<1> SUFFICES ASSUME Init PROVE IInv
  OBVIOUS
<1> MaxClass \in Nat /\ 1 \in Id
  BY BoundsAssumption DEF Id
<1>1. PICK t \in Teacher, room \in Room :
         class = [c \in Id |-> IF c = 1
                    THEN [owner |-> t, room |-> room, students |-> {},
                          deleted |-> FALSE]
                    ELSE None]
  BY DEF Init
<1> DEFINE row == [owner |-> t, room |-> room, students |-> {}, deleted |-> FALSE]
<1>2. row \in ClassRow
  BY DEF ClassRow
<1>3. Used = 1..1
  <2>1. \A c \in Id : Exists(c) <=> c = 1
    BY <1>1, <1>2, NoneAssumption DEF Exists
  <2> QED  BY <2>1 DEF Used
<1>4. TypeOK
  BY <1>1, <1>2 DEF Init, TypeOK, Local, Idle
<1>5. Creators = {}
  BY DEF Init, Creators, Idle
<1>6. IdsInv
  <2>1. IsFiniteSet(Creators) /\ Cardinality(Creators) = 0
    BY <1>5, FS_EmptySet
  <2>2. 1 + Cardinality(Creators) <= MaxClass
    BY <2>1, BoundsAssumption
  <2> QED  BY <1>3, <2>1, <2>2 DEF IdsInv
<1>7. ListsInv
  <2>1. \A c \in Id : Exists(c) => class[c].students = {}
    BY <1>1 DEF Exists
  <2> QED  BY <2>1, FS_EmptySet DEF Init, ListsInv
<1>8. \A r \in Request : Knows(r) /\ SeatSeen(r)
  BY FS_EmptySet DEF Init, Knows, SeatSeen, At, Idle, ReadsRow, ForStudent, ForTeacher
<1>9. AloneInv
  BY DEF Init, AloneInv, At, Idle
<1> QED  BY <1>4, <1>6, <1>7, <1>8, <1>9 DEF IInv
-----------------------------------------------------------------------------
(* Steps *)

\* Nothing that a request knows is lost while others move.
LEMMA Frame ==
    ASSUME NEW q \in Request, Knows(q), SeatSeen(q), UNCHANGED req[q],
           Used \subseteq Used', met \subseteq met'
    PROVE  Knows(q)' /\ SeatSeen(q)'
<1>1. \A c \in Id : Exists(c) => Exists(c)'
  BY DEF Used
<1>2. ReadsRow \cap {"idle", "cr_max"} = {}
  BY DEF ReadsRow
<1>3. Knows(q)'
  BY <1>1, <1>2 DEF Knows
<1> QED  BY <1>3 DEF SeatSeen, At

\* A row is written with the id that the request holds.
Writes(r, row) ==
    /\ class' = [class EXCEPT ![req[r].id] = row]
    /\ Return(r)
    /\ UNCHANGED <<form, met>>

Write(r) == EnrollWrite(r) \/ UnenrollWrite(r) \/ SaveWrite(r) \/ DeleteWrite(r)

\* Every statement that writes replaces the row by a well-formed one.
LEMMA WriteIsRow ==
    ASSUME IInv, NEW r \in Request, Write(r)
    PROVE  /\ req[r].id \in Id
           /\ \E row \in ClassRow : Writes(r, row) /\ IsFiniteSet(row.students)
<1> DEFINE l == req[r]
<1>1. l \in Local /\ Knows(r)
  BY DEF IInv, TypeOK
<1>2. l.id \in Id
  BY <1>1 DEF Write, EnrollWrite, UnenrollWrite, SaveWrite, DeleteWrite, Knows, At
<1>3. class \in [Id -> ClassRow \cup {None}]
  BY DEF IInv, TypeOK
<1>4. l.pc \in ReadsRow => class[l.id] \in ClassRow /\ IsFiniteSet(class[l.id].students)
  BY <1>1, <1>2, <1>3 DEF Knows, Exists, IInv, ListsInv
<1>5. CASE EnrollWrite(r)
  <2> DEFINE row == [class[l.id] EXCEPT !.students = l.list \cup {l.student}]
  <2>1. l.list \subseteq Student /\ l.student \in Student /\ IsFiniteSet(l.list)
    BY <1>1, <1>5 DEF EnrollWrite, At, Knows, ForStudent, Local
  <2>2. class[l.id] \in ClassRow
    BY <1>4, <1>5 DEF EnrollWrite, At, ReadsRow
  <2>3. row \in ClassRow /\ row.students = l.list \cup {l.student}
    BY <2>1, <2>2 DEF ClassRow
  <2>4. IsFiniteSet(row.students)
    BY <2>1, <2>3, FS_AddElement
  <2>5. Writes(r, row)
    BY <1>5, <1>2, <1>3 DEF EnrollWrite, Writes
  <2> QED  BY <1>2, <2>3, <2>4, <2>5
<1>6. CASE UnenrollWrite(r)
  <2> DEFINE row == [class[l.id] EXCEPT !.students = l.list \ {l.student}]
  <2>1. l.list \subseteq Student /\ IsFiniteSet(l.list)
    BY <1>1 DEF Knows, Local
  <2>2. class[l.id] \in ClassRow
    BY <1>4, <1>6 DEF UnenrollWrite, At, ReadsRow
  <2>3. row \in ClassRow /\ row.students = l.list \ {l.student}
    BY <2>1, <2>2 DEF ClassRow
  <2>4. IsFiniteSet(row.students)
    BY <2>1, <2>3, FS_Subset
  <2>5. Writes(r, row)
    BY <1>6, <1>2, <1>3 DEF UnenrollWrite, Writes
  <2> QED  BY <1>2, <2>3, <2>4, <2>5
<1>7. CASE SaveWrite(r)
  <2> DEFINE row == [owner |-> l.teacher, room |-> l.room, students |-> l.list,
                     deleted |-> FALSE]
  <2>1. /\ l.list \subseteq Student /\ IsFiniteSet(l.list)
        /\ l.teacher \in Teacher /\ l.room \in Room
    BY <1>1, <1>7 DEF SaveWrite, Knows, ForTeacher, Local
  <2>2. row \in ClassRow /\ row.students = l.list
    BY <2>1 DEF ClassRow
  <2>3. Writes(r, row)
    BY <1>7 DEF SaveWrite, Writes
  <2> QED  BY <1>2, <2>1, <2>2, <2>3
<1>8. CASE DeleteWrite(r)
  <2> DEFINE row == [class[l.id] EXCEPT !.deleted = TRUE]
  <2>1. class[l.id] \in ClassRow /\ IsFiniteSet(class[l.id].students)
    BY <1>4, <1>8 DEF DeleteWrite, At, ReadsRow
  <2>2. row \in ClassRow /\ row.students = class[l.id].students
    BY <2>1 DEF ClassRow
  <2>3. Writes(r, row)
    BY <1>8, <1>2, <1>3 DEF DeleteWrite, Writes
  <2> QED  BY <1>2, <2>1, <2>2, <2>3
<1> QED  BY <1>5, <1>6, <1>7, <1>8 DEF Write

\* The statements that only read, and those that fail, leave the table alone.
Reads(r) ==
    \/ EnrollRead(r) \/ EnrollRoom(r) \/ UnenrollRead(r) \/ CreateMax(r)
    \/ UpdateCheck(r) \/ DeleteCheck(r) \/ StatementFails(r)

Begins(r) ==
    \/ StudentStep(r)
    \/ \E t \in Teacher, room \in Room : BeginSave(r, t, room)
    \/ \E t \in Teacher, c \in Id : BeginDelete(r, t, c)

Fills(t) ==
    \/ \E c \in Id : OpenForm(t, c)
    \/ OpenNewForm(t)
    \/ \E s \in Student : EditForm(t, s)

LEMMA Steps ==
    ASSUME Next
    PROVE  \/ \E r \in Request : Write(r) \/ Reads(r) \/ Begins(r)
           \/ \E t \in Teacher : Fills(t)
<1>1. ASSUME NEW r \in Request,
             \/ EnrollStep(r) \/ UnenrollStep(r) \/ SaveStep(r)
             \/ DeleteStep(r) \/ StudentStep(r) \/ StatementFails(r)
      PROVE  Write(r) \/ Reads(r) \/ Begins(r)
  BY <1>1 DEF EnrollStep, UnenrollStep, SaveStep, DeleteStep, Write, Reads, Begins
<1>2. ASSUME NEW t \in Teacher, TeacherStep(t)
      PROVE  Fills(t) \/ \E r \in Request : Begins(r)
  BY <1>2 DEF TeacherStep, Fills, Begins
<1> QED  BY <1>1, <1>2 DEF Next

LEMMA ReadSteps ==
    ASSUME NEW r \in Request, Reads(r)
    PROVE  UNCHANGED <<class, form>> /\ met \subseteq met'
BY DEF Reads, EnrollRead, EnrollRoom, UnenrollRead, CreateMax, UpdateCheck,
     DeleteCheck, StatementFails

LEMMA BeginSteps ==
    ASSUME NEW r \in Request, Begins(r)
    PROVE  /\ UNCHANGED class /\ met \subseteq met'
           /\ At(r, "idle")
BY DEF Begins, StudentStep, BeginEnroll, BeginUnenroll, BeginSave, BeginDelete, Start

LEMMA NextId ==
    ASSUME IInv, NEW r \in Request, At(r, "cr_max")
    PROVE  \E k \in Id : Used = 1..k /\ k + 1 \in Id /\ Above(Used) = k + 1
<1> MaxClass \in Nat
  BY BoundsAssumption
<1>1. PICK k \in Id : Used = 1..k /\ k + Cardinality(Creators) <= MaxClass
  BY DEF IInv, IdsInv
<1>2. IsFiniteSet(Creators) /\ r \in Creators
  BY DEF IInv, IdsInv, Creators, At
<1>3. Cardinality(Creators) \in Nat /\ Cardinality(Creators) # 0
  BY <1>2, FS_EmptySet, FS_CardinalityType
<1>4. k + 1 \in Id /\ k \in Nat
  BY <1>1, <1>3 DEF Id
<1> QED  BY <1>1, <1>4, AboveInterval

\* A step of a request leaves the others alone and gives it a typed record.
Record(r, l) == l \in Local /\ req' = [req EXCEPT ![r] = l]

LEMMA IdleRecord == Idle \in Local
BY DEF Idle, Local

LEMMA ReadRecord ==
    ASSUME IInv, NEW r \in Request, Reads(r)
    PROVE  \E l : Record(r, l)
<1> DEFINE l == req[r]
<1>1. l \in Local /\ Knows(r) /\ req \in [Request -> Local]
  BY DEF IInv, TypeOK
<1>2. \A pc \in {"en_write", "up_write", "de_write"} :
         Goto(r, pc) => Record(r, [l EXCEPT !.pc = pc])
  BY <1>1 DEF Goto, Record, Local
<1>3. Return(r) => Record(r, Idle)
  BY IdleRecord DEF Return, Record
<1>4. class \in [Id -> ClassRow \cup {None}]
  BY DEF IInv, TypeOK
<1>5. CASE EnrollRead(r) \/ UnenrollRead(r)
  <2>1. l.id \in Id
    BY <1>1, <1>5 DEF EnrollRead, UnenrollRead, At, Knows
  <2>2. Live(l.id) => class[l.id].room \in Room /\ class[l.id].students \subseteq Student
    BY <1>4, <2>1 DEF Live, Exists, ClassRow
  <2>3. CASE EnrollRead(r) /\ ~Return(r)
    <3>1. /\ Live(l.id)
          /\ req' = [req EXCEPT ![r].pc = "en_room", ![r].room = class[l.id].room,
                                ![r].list = class[l.id].students]
      BY <2>3 DEF EnrollRead
    <3>2. Record(r, [l EXCEPT !.pc = "en_room", !.room = class[l.id].room,
                              !.list = class[l.id].students])
      BY <1>1, <2>2, <3>1 DEF Record, Local
    <3> QED  BY <3>2
  <2>4. CASE UnenrollRead(r) /\ ~Return(r)
    <3>1. /\ Live(l.id)
          /\ req' = [req EXCEPT ![r].pc = "un_write", ![r].list = class[l.id].students]
      BY <2>4 DEF UnenrollRead
    <3>2. Record(r, [l EXCEPT !.pc = "un_write", !.list = class[l.id].students])
      BY <1>1, <2>2, <3>1 DEF Record, Local
    <3> QED  BY <3>2
  <2> QED  BY <1>3, <1>5, <2>3, <2>4
<1>6. CASE CreateMax(r)
  <2>1. Above(Used) \in Id
    BY <1>6, NextId DEF CreateMax
  <2>2. Record(r, [l EXCEPT !.pc = "cr_write", !.id = Above(Used)])
    BY <1>1, <1>6, <2>1 DEF CreateMax, Record, Local
  <2> QED  BY <2>2
<1>7. CASE EnrollRoom(r) \/ UpdateCheck(r) \/ DeleteCheck(r)
  BY <1>2, <1>3, <1>7 DEF EnrollRoom, UpdateCheck, DeleteCheck
<1>8. CASE StatementFails(r)
  <2>1. CASE req' = [req EXCEPT ![r].pc = "cr_write", ![r].id = 1]
    <3>1. 1 \in Id
      BY BoundsAssumption DEF Id
    <3>2. Record(r, [l EXCEPT !.pc = "cr_write", !.id = 1])
      BY <1>1, <2>1, <3>1 DEF Record, Local
    <3> QED  BY <3>2
  <2> QED  BY <1>2, <1>3, <1>8, <2>1 DEF StatementFails
<1> QED  BY <1>5, <1>6, <1>7, <1>8 DEF Reads

\* A request begins with an id and a student, or with what a form posts.
LEMMA BeginRecord ==
    ASSUME IInv, NEW r \in Request, Begins(r)
    PROVE  \E l : /\ Record(r, l)
                  /\ l.pc \in {"en_read", "un_read", "cr_max", "up_check", "de_check"}
                  /\ l.pc # "cr_max" => l.id \in Id
                  /\ l.pc = "cr_max" => IdsLeft
                  /\ l.pc \in ForStudent => l.student \in Student
                  /\ l.pc \in ForTeacher => l.teacher \in Teacher /\ l.room \in Room
                  /\ IsFiniteSet(l.list)
<1> req \in [Request -> Local]
  BY DEF IInv, TypeOK
<1>0. Idle.list = {} /\ IsFiniteSet({})
  BY FS_EmptySet DEF Idle
<1>1. ASSUME NEW c \in Id, NEW s \in Student, NEW pc \in {"en_read", "un_read"},
             Start(r, [Idle EXCEPT !.pc = pc, !.id = c, !.student = s])
      PROVE  Record(r, [Idle EXCEPT !.pc = pc, !.id = c, !.student = s])
  BY <1>1 DEF Start, Record, Local, Idle
<1>2. CASE StudentStep(r)
  <2>1. PICK c \in Id, s \in Student, pc \in {"en_read", "un_read"} :
           Start(r, [Idle EXCEPT !.pc = pc, !.id = c, !.student = s])
    BY <1>2 DEF StudentStep, BeginEnroll, BeginUnenroll
  <2> DEFINE l == [Idle EXCEPT !.pc = pc, !.id = c, !.student = s]
  <2>2. /\ l.pc = pc /\ l.id = c /\ l.student = s /\ l.list = {}
    BY DEF Idle
  <2>3. Record(r, l)
    BY <1>1, <2>1
  <2> HIDE DEF l
  <2> QED  BY <1>0, <2>2, <2>3 DEF ForStudent, ForTeacher
<1>3. CASE \E t \in Teacher, room \in Room : BeginSave(r, t, room)
  <2>1. PICK t \in Teacher, room \in Room : BeginSave(r, t, room)
    BY <1>3
  <2> DEFINE pc == IF form[t].id = 0 THEN "cr_max" ELSE "up_check"
             l == [Idle EXCEPT !.pc = pc, !.id = form[t].id, !.teacher = t,
                               !.room = room, !.list = form[t].list]
  <2>2. form[t] \in Form /\ IsFiniteSet(form[t].list)
    BY <2>1 DEF BeginSave, IInv, TypeOK, ListsInv
  <2>3. /\ l.pc = pc /\ l.id = form[t].id /\ l.teacher = t /\ l.room = room
        /\ l.list = form[t].list
    BY DEF Idle
  <2>4. l \in Local
    BY <2>2 DEF Idle, Local, Form
  <2>5. Record(r, l)
    BY <2>1, <2>4 DEF BeginSave, Start, Record
  <2>6. form[t].id \in Id \/ form[t].id = 0
    BY <2>2 DEF Form
  <2>7. form[t].id = 0 => IdsLeft
    BY <2>1 DEF BeginSave
  <2> HIDE DEF l
  <2> QED  BY <2>2, <2>3, <2>5, <2>6, <2>7 DEF ForStudent, ForTeacher
<1>4. CASE \E t \in Teacher, c \in Id : BeginDelete(r, t, c)
  <2>1. PICK t \in Teacher, c \in Id : BeginDelete(r, t, c)
    BY <1>4
  <2> DEFINE l == [Idle EXCEPT !.pc = "de_check", !.id = c, !.teacher = t]
  <2>2. l \in Local /\ l.pc = "de_check" /\ l.id = c /\ l.list = {}
    BY DEF Idle, Local
  <2>3. Record(r, l)
    BY <2>1, <2>2 DEF BeginDelete, Start, Record
  <2> HIDE DEF l
  <2> QED  BY <1>0, <2>2, <2>3 DEF ForStudent, ForTeacher
<1> QED  BY <1>2, <1>3, <1>4 DEF Begins

-----------------------------------------------------------------------------
(* Every conjunct is kept *)

LEMMA TypeStep ==
    ASSUME IInv, [Next]_vars
    PROVE  TypeOK'
<1> USE DEF TypeOK
<1> TypeOK
  BY DEF IInv
<1>1. ASSUME NEW r \in Request, Write(r) PROVE TypeOK'
  <2>1. PICK row \in ClassRow : req[r].id \in Id /\ Writes(r, row)
    BY <1>1, WriteIsRow
  <2> QED  BY <2>1, IdleRecord DEF Writes, Return
<1>2. ASSUME NEW r \in Request, Reads(r) PROVE TypeOK'
  <2>1. PICK l : Record(r, l)
    BY <1>2, ReadRecord
  <2>2. met' \subseteq {"overlap", "failure"}
    BY <1>2 DEF Reads, EnrollRead, EnrollRoom, UnenrollRead, CreateMax,
         UpdateCheck, DeleteCheck, StatementFails
  <2> QED  BY <1>2, <2>1, <2>2, ReadSteps DEF Record
<1>3. ASSUME NEW r \in Request, Begins(r) PROVE TypeOK'
  <2>1. PICK l : Record(r, l)
    BY <1>3, BeginRecord
  <2>2. met' \subseteq {"overlap", "failure"}
    BY <1>3 DEF Begins, StudentStep, BeginEnroll, BeginUnenroll, BeginSave,
         BeginDelete, Start
  <2>3. form' \in [Teacher -> Form \cup {None}]
    BY <1>3 DEF Begins, StudentStep, BeginEnroll, BeginUnenroll, BeginSave, BeginDelete
  <2> QED  BY <1>3, <2>1, <2>2, <2>3, BeginSteps DEF Record
<1>4. ASSUME NEW t \in Teacher, Fills(t) PROVE TypeOK'
  <2>1. UNCHANGED <<class, req, met>>
    BY <1>4 DEF Fills, OpenForm, OpenNewForm, EditForm
  <2>2. form' \in [Teacher -> Form \cup {None}]
    <3>1. CASE \E c \in Id : OpenForm(t, c)
      <4>1. PICK c \in Id : OpenForm(t, c)
        BY <3>1
      <4>2. class[c].students \subseteq Student
        BY <4>1 DEF OpenForm, Live, Exists, ClassRow
      <4>3. [id |-> c, list |-> class[c].students] \in Form
        BY <4>2 DEF Form
      <4> QED  BY <4>1, <4>3 DEF OpenForm
    <3>2. CASE OpenNewForm(t)
      BY <3>2 DEF OpenNewForm, Form
    <3>3. CASE \E s \in Student : EditForm(t, s)
      <4>1. PICK s \in Student : EditForm(t, s)
        BY <3>3
      <4>2. form[t] \in Form
        BY <4>1 DEF EditForm
      <4> DEFINE list == IF s \in form[t].list THEN form[t].list \ {s}
                                               ELSE form[t].list \cup {s}
      <4>3. form' = [form EXCEPT ![t] = [form[t] EXCEPT !.list = list]]
        BY <4>1 DEF EditForm
      <4>4. [form[t] EXCEPT !.list = list] \in Form
        BY <4>2 DEF Form
      <4> QED  BY <4>3, <4>4
    <3> QED  BY <1>4, <3>1, <3>2, <3>3 DEF Fills
  <2> QED  BY <2>1, <2>2
<1>5. CASE UNCHANGED vars
  BY <1>5 DEF vars
<1> QED  BY <1>1, <1>2, <1>3, <1>4, <1>5, Steps

LEMMA ListsStep ==
    ASSUME IInv, [Next]_vars
    PROVE  ListsInv'
<1> ListsInv /\ class \in [Id -> ClassRow \cup {None}]
         /\ form \in [Teacher -> Form \cup {None}]
  BY DEF IInv, TypeOK
<1> USE DEF ListsInv, Exists
<1>1. ASSUME NEW r \in Request, Write(r) PROVE ListsInv'
  <2>1. PICK row \in ClassRow :
           req[r].id \in Id /\ Writes(r, row) /\ IsFiniteSet(row.students)
    BY <1>1, WriteIsRow
  <2> QED  BY <2>1 DEF Writes
<1>2. ASSUME NEW r \in Request, Reads(r) PROVE ListsInv'
  BY <1>2, ReadSteps
<1>3. ASSUME NEW r \in Request, Begins(r) PROVE ListsInv'
  <2>1. class' = class
    BY <1>3, BeginSteps
  <2>2. form' = form \/ \E t \in Teacher : form' = [form EXCEPT ![t] = None]
    BY <1>3 DEF Begins, StudentStep, BeginEnroll, BeginUnenroll, BeginSave, BeginDelete
  <2> QED  BY <2>1, <2>2
<1>4. ASSUME NEW t \in Teacher, Fills(t) PROVE ListsInv'
  <2>1. class' = class
    BY <1>4 DEF Fills, OpenForm, OpenNewForm, EditForm
  <2>2. \E f : form' = [form EXCEPT ![t] = f] /\ IsFiniteSet(f.list)
    <3>1. CASE \E c \in Id : OpenForm(t, c)
      <4>1. PICK c \in Id : OpenForm(t, c)
        BY <3>1
      <4> DEFINE f == [id |-> c, list |-> class[c].students]
      <4>2. form' = [form EXCEPT ![t] = f] /\ f.list = class[c].students
        BY <4>1 DEF OpenForm
      <4>3. IsFiniteSet(class[c].students)
        BY <4>1 DEF OpenForm, Live
      <4> QED  BY <4>2, <4>3
    <3>2. CASE OpenNewForm(t)
      <4> DEFINE f == [id |-> 0, list |-> {}]
      <4>1. form' = [form EXCEPT ![t] = f] /\ f.list = {}
        BY <3>2 DEF OpenNewForm
      <4> QED  BY <4>1, FS_EmptySet
    <3>3. CASE \E s \in Student : EditForm(t, s)
      <4>1. PICK s \in Student : EditForm(t, s)
        BY <3>3
      <4> DEFINE list == IF s \in form[t].list THEN form[t].list \ {s}
                                               ELSE form[t].list \cup {s}
                 f == [form[t] EXCEPT !.list = list]
      <4>2. form' = [form EXCEPT ![t] = f]
        BY <4>1 DEF EditForm
      <4>3. form[t] \in Form /\ IsFiniteSet(form[t].list)
        BY <4>1 DEF EditForm
      <4>4. f.list = list
        BY <4>3 DEF Form
      <4>5. IsFiniteSet(list)
        BY <4>3, FS_AddElement, FS_RemoveElement
      <4> QED  BY <4>2, <4>4, <4>5
    <3> QED  BY <1>4, <3>1, <3>2, <3>3 DEF Fills
  <2> QED  BY <2>1, <2>2
<1>5. CASE UNCHANGED vars
  BY <1>5 DEF vars
<1> QED  BY <1>1, <1>2, <1>3, <1>4, <1>5, Steps

\* Rows never vanish: a step fills at most the id that its request holds.
LEMMA UsedStep ==
    ASSUME IInv, [Next]_vars
    PROVE  Used \subseteq Used' /\ met \subseteq met'
<1> class \in [Id -> ClassRow \cup {None}]
  BY DEF IInv, TypeOK
<1>1. ASSUME NEW r \in Request, Write(r)
      PROVE  Used' = Used \cup {req[r].id} /\ met' = met
  <2>1. PICK row \in ClassRow : req[r].id \in Id /\ Writes(r, row)
    BY <1>1, WriteIsRow
  <2>2. row # None
    BY NoneAssumption
  <2> QED  BY <2>1, <2>2 DEF Writes, Used, Exists
<1>2. ASSUME NEW r \in Request, Reads(r) \/ Begins(r) PROVE class' = class /\ met \subseteq met'
  BY <1>2, ReadSteps, BeginSteps
<1>3. ASSUME NEW t \in Teacher, Fills(t) PROVE class' = class /\ met' = met
  BY <1>3 DEF Fills, OpenForm, OpenNewForm, EditForm
<1>4. class' = class => Used' = Used
  BY DEF Used, Exists
<1>5. CASE UNCHANGED vars
  BY <1>4, <1>5 DEF vars
<1> QED  BY <1>1, <1>2, <1>3, <1>4, <1>5, Steps

\* Only the request whose step it is moves.
LEMMA OthersRest ==
    ASSUME IInv, NEW r \in Request, Write(r) \/ Reads(r) \/ Begins(r),
           NEW q \in Request, q # r
    PROVE  UNCHANGED req[q]
<1> req \in [Request -> Local]
  BY DEF IInv, TypeOK
<1>1. CASE Write(r)
  BY <1>1, WriteIsRow DEF Writes, Return
<1>2. CASE Reads(r)
  BY <1>2, ReadRecord DEF Record
<1>3. CASE Begins(r)
  BY <1>3, BeginRecord DEF Record
<1> QED  BY <1>1, <1>2, <1>3

LEMMA IdleKnows ==
    ASSUME NEW r \in Request, req'[r] = Idle
    PROVE  Knows(r)' /\ SeatSeen(r)'
BY FS_EmptySet DEF Idle, Knows, SeatSeen, At, ReadsRow, ForStudent, ForTeacher

\* What a reading statement finds is what the request knows afterwards.
LEMMA ReadKnows ==
    ASSUME IInv, NEW r \in Request, Reads(r)
    PROVE  Knows(r)' /\ SeatSeen(r)'
<1> DEFINE l == req[r]
<1> req \in [Request -> Local] /\ l \in Local
  BY DEF IInv, TypeOK
<1> class \in [Id -> ClassRow \cup {None}]
  BY DEF IInv, TypeOK
<1> Knows(r) /\ ListsInv
  BY DEF IInv
<1>0. class' = class /\ Used' = Used
  BY ReadSteps DEF Used, Exists
<1>1. CASE Return(r)
  BY <1>1, IdleKnows DEF Return
<1>2. CASE EnrollRead(r) /\ ~Return(r)
  <2>1. /\ At(r, "en_read") /\ Live(l.id)
        /\ req'[r] = [l EXCEPT !.pc = "en_room", !.room = class[l.id].room,
                               !.list = class[l.id].students]
    BY <1>2 DEF EnrollRead
  <2>2. l.id \in Id /\ l.student \in Student
    BY <2>1 DEF At, Knows, ForStudent
  <2>3. class[l.id].room \in Room /\ IsFiniteSet(class[l.id].students)
    BY <2>1, <2>2 DEF Live, Exists, ListsInv, ClassRow
  <2>4. /\ req'[r].pc = "en_room" /\ req'[r].id = l.id /\ req'[r].student = l.student
        /\ req'[r].room = class[l.id].room /\ req'[r].list = class[l.id].students
    BY <2>1 DEF Local
  <2> QED  BY <1>0, <2>1, <2>2, <2>3, <2>4
           DEF Knows, SeatSeen, At, Live, Exists, ReadsRow, ForStudent, ForTeacher
<1>3. CASE EnrollRoom(r) /\ ~Return(r)
  <2>1. /\ At(r, "en_room") /\ req'[r] = [l EXCEPT !.pc = "en_write"]
        /\ ~(Capacity[l.room] > 0 /\ Cardinality(l.list) >= Capacity[l.room])
    BY <1>3 DEF EnrollRoom, Goto
  <2>2. /\ req'[r].pc = "en_write" /\ req'[r].id = l.id /\ req'[r].student = l.student
        /\ req'[r].room = l.room /\ req'[r].list = l.list
    BY <2>1 DEF Local
  <2>3. /\ l.id \in Id /\ Exists(l.id) /\ l.student \in Student /\ l.room \in Room
        /\ IsFiniteSet(l.list)
    BY <2>1 DEF At, Knows, ReadsRow, ForStudent
  <2>4. Capacity[l.room] \in Nat /\ Cardinality(l.list) \in Nat
    BY <2>3, CapacityAssumption, FS_CardinalityType
  <2>5. Knows(r)'
    BY <1>0, <2>2, <2>3 DEF Knows, Exists, ReadsRow, ForStudent, ForTeacher
  <2> QED  BY <2>1, <2>2, <2>4, <2>5 DEF SeatSeen, At
<1>4. CASE UnenrollRead(r) /\ ~Return(r)
  <2>1. /\ At(r, "un_read") /\ Live(l.id)
        /\ req'[r] = [l EXCEPT !.pc = "un_write", !.list = class[l.id].students]
    BY <1>4 DEF UnenrollRead
  <2>2. l.id \in Id /\ l.student \in Student
    BY <2>1 DEF At, Knows, ForStudent
  <2>3. IsFiniteSet(class[l.id].students)
    BY <2>1, <2>2 DEF Live, Exists, ListsInv
  <2>4. /\ req'[r].pc = "un_write" /\ req'[r].id = l.id /\ req'[r].student = l.student
        /\ req'[r].list = class[l.id].students
    BY <2>1 DEF Local
  <2> QED  BY <1>0, <2>1, <2>2, <2>3, <2>4
           DEF Knows, SeatSeen, At, Live, Exists, ReadsRow, ForStudent, ForTeacher
<1>5. ASSUME NEW d \in Id, At(r, "cr_max"), d = 1 \/ d - 1 \in Used,
             req' = [req EXCEPT ![r].pc = "cr_write", ![r].id = d]
      PROVE  Knows(r)' /\ SeatSeen(r)'
  <2>1. /\ req'[r].pc = "cr_write" /\ req'[r].id = d /\ req'[r].teacher = l.teacher
        /\ req'[r].room = l.room /\ req'[r].list = l.list
    BY <1>5 DEF Local
  <2>2. l.teacher \in Teacher /\ l.room \in Room
    BY <1>5 DEF At, Knows, ForTeacher
  <2> QED  BY <1>0, <1>5, <2>1, <2>2
           DEF Knows, SeatSeen, At, ReadsRow, ForStudent, ForTeacher
<1>6. CASE CreateMax(r)
  <2>1. PICK k \in Id : Used = 1..k /\ k + 1 \in Id /\ Above(Used) = k + 1
    BY <1>6, NextId DEF CreateMax
  <2>2. (k + 1) - 1 \in Used
    BY <2>1 DEF Id
  <2> QED  BY <1>5, <1>6, <2>1, <2>2 DEF CreateMax
<1>7. CASE (UpdateCheck(r) \/ DeleteCheck(r)) /\ ~Return(r)
  <2>1. PICK pc \in {"up_write", "de_write"} :
           /\ req'[r] = [l EXCEPT !.pc = pc]
           /\ Owns(r)
           /\ pc = "up_write" => At(r, "up_check")
           /\ At(r, "up_check") \/ At(r, "de_check")
    BY <1>7 DEF UpdateCheck, DeleteCheck, Goto
  <2>2. /\ req'[r].pc = pc /\ req'[r].id = l.id /\ req'[r].teacher = l.teacher
        /\ req'[r].room = l.room /\ req'[r].list = l.list
    BY <2>1 DEF Local
  <2>3. l.id \in Id /\ Exists(l.id)
    BY <2>1 DEF At, Knows, Owns, Live
  <2>4. pc = "up_write" => l.teacher \in Teacher /\ l.room \in Room
    BY <2>1 DEF At, Knows, ForTeacher
  <2> QED  BY <1>0, <2>1, <2>2, <2>3, <2>4
           DEF Knows, SeatSeen, At, Exists, ReadsRow, ForStudent, ForTeacher
<1>8. CASE StatementFails(r) /\ ~Return(r)
  <2>1. "failure" \in met'
    BY <1>8 DEF StatementFails
  <2>2. CASE At(r, "en_room") /\ Goto(r, "en_write")
    <3>1. /\ req'[r].pc = "en_write" /\ req'[r].id = l.id /\ req'[r].student = l.student
          /\ req'[r].room = l.room /\ req'[r].list = l.list
      BY <2>2 DEF Goto, Local
    <3>2. /\ l.id \in Id /\ Exists(l.id) /\ l.student \in Student /\ l.room \in Room
      BY <2>2 DEF At, Knows, ReadsRow, ForStudent
    <3> QED  BY <1>0, <2>1, <2>2, <3>1, <3>2
             DEF Knows, SeatSeen, At, Exists, ReadsRow, ForStudent, ForTeacher
  <2>3. 1 \in Id
    BY BoundsAssumption DEF Id
  <2> QED  BY <1>5, <1>8, <2>2, <2>3 DEF StatementFails
<1> QED  BY <1>1, <1>2, <1>3, <1>4, <1>6, <1>7, <1>8 DEF Reads

LEMMA KnowsStep ==
    ASSUME IInv, [Next]_vars
    PROVE  \A r \in Request : (Knows(r) /\ SeatSeen(r))'
<1>0. ASSUME NEW r \in Request, UNCHANGED req[r] PROVE Knows(r)' /\ SeatSeen(r)'
  BY <1>0, UsedStep, Frame DEF IInv
<1>1. ASSUME NEW r \in Request, Write(r) PROVE Knows(r)' /\ SeatSeen(r)'
  <2>1. req'[r] = Idle
    BY <1>1, WriteIsRow DEF Writes, Return, IInv, TypeOK
  <2> QED  BY <2>1, IdleKnows
<1>2. ASSUME NEW r \in Request, Begins(r) PROVE Knows(r)' /\ SeatSeen(r)'
  <2>1. PICK l : /\ Record(r, l)
                 /\ l.pc \in {"en_read", "un_read", "cr_max", "up_check", "de_check"}
                 /\ l.pc # "cr_max" => l.id \in Id
                 /\ l.pc \in ForStudent => l.student \in Student
                 /\ l.pc \in ForTeacher => l.teacher \in Teacher /\ l.room \in Room
                 /\ IsFiniteSet(l.list)
    BY <1>2, BeginRecord
  <2>2. req'[r] = l
    BY <2>1 DEF Record, IInv, TypeOK
  <2> QED  BY <2>1, <2>2 DEF Knows, SeatSeen, At, ReadsRow
<1>3. ASSUME NEW t \in Teacher, Fills(t) PROVE req' = req
  BY <1>3 DEF Fills, OpenForm, OpenNewForm, EditForm
<1>4. CASE UNCHANGED vars
  BY <1>0, <1>4 DEF vars
<1> QED  BY <1>0, <1>1, <1>2, <1>3, <1>4, ReadKnows, OthersRest, Steps

\* A creation that ends frees the place it has counted on.
LEMMA IdsStep ==
    ASSUME IInv, [Next]_vars
    PROVE  IdsInv'
<1> MaxClass \in Nat
  BY BoundsAssumption
<1> class \in [Id -> ClassRow \cup {None}] /\ req \in [Request -> Local]
  BY DEF IInv, TypeOK
<1>0. PICK k \in Id : Used = 1..k /\ k + Cardinality(Creators) <= MaxClass
  BY DEF IInv, IdsInv
<1> DEFINE n == Cardinality(Creators)
<1>k. k \in Nat /\ k >= 1 /\ IsFiniteSet(Creators) /\ n \in Nat
  BY FS_CardinalityType DEF IInv, IdsInv, Id
<1>1. ASSUME Used' = Used, Creators' \subseteq Creators PROVE IdsInv'
  <2>1. IsFiniteSet(Creators') /\ Cardinality(Creators') <= n /\ Cardinality(Creators') \in Nat
    BY <1>1, <1>k, FS_Subset, FS_CardinalityType
  <2>2. k + Cardinality(Creators') <= MaxClass
    BY <1>0, <1>k, <2>1
  <2> QED  BY <1>0, <1>1, <2>1, <2>2 DEF IdsInv, Id
<1>2. ASSUME NEW r \in Request, Write(r) PROVE IdsInv'
  <2>1. PICK row \in ClassRow : req[r].id \in Id /\ Writes(r, row)
    BY <1>2, WriteIsRow
  <2>2. Used' = Used \cup {req[r].id}
    BY <2>1, NoneAssumption DEF Writes, Used, Exists
  <2>3. Creators' = Creators \ {r}
    BY <2>1 DEF Writes, Return, Creators, Idle
  <2>4. CASE req[r].id \in Used
    BY <1>1, <2>2, <2>3, <2>4
  <2>5. CASE req[r].id \notin Used
    <3>1. Knows(r)
      BY DEF IInv
    <3>2. At(r, "cr_write")
      BY <1>2, <2>1, <2>5, <3>1 DEF Write, EnrollWrite, UnenrollWrite, SaveWrite,
           DeleteWrite, Knows, ReadsRow, At, Used
    <3>3. req[r].id = k + 1
      <4>1. req[r].id = 1 \/ req[r].id - 1 \in 1..k
        BY <1>0, <3>1, <3>2 DEF Knows, At
      <4>2. req[r].id \in Nat /\ req[r].id \notin 1..k
        BY <1>0, <2>1, <2>5 DEF Id
      <4> QED  BY <1>k, <4>1, <4>2
    <3>4. Used' = 1..(k + 1)
      BY <1>0, <1>k, <2>2, <3>3
    <3>5. r \in Creators
      BY <3>2 DEF Creators, At
    <3>6. IsFiniteSet(Creators') /\ Cardinality(Creators') = n - 1
      BY <1>k, <2>3, <3>5, FS_RemoveElement
    <3>7. (k + 1) + Cardinality(Creators') <= MaxClass
      BY <1>0, <1>k, <3>6
    <3> QED  BY <2>1, <3>3, <3>4, <3>6, <3>7 DEF IdsInv
  <2> QED  BY <2>4, <2>5
<1>3. ASSUME NEW r \in Request, Reads(r) PROVE IdsInv'
  <2>1. Used' = Used
    BY <1>3, ReadSteps DEF Used, Exists
  <2>2. req'[r].pc \in {"cr_max", "cr_write"} => req[r].pc \in {"cr_max", "cr_write"}
    BY <1>3 DEF Reads, EnrollRead, EnrollRoom, UnenrollRead, CreateMax, UpdateCheck,
         DeleteCheck, StatementFails, Goto, Return, At, Idle, Local
  <2>3. Creators' \subseteq Creators
    BY <1>3, <2>2, OthersRest DEF Creators
  <2> QED  BY <1>1, <2>1, <2>3
<1>4. ASSUME NEW r \in Request, Begins(r) PROVE IdsInv'
  <2>1. Used' = Used
    BY <1>4, BeginSteps DEF Used, Exists
  <2>2. PICK l : Record(r, l) /\ (l.pc = "cr_max" => IdsLeft) /\ l.pc # "cr_write"
    BY <1>4, BeginRecord
  <2>3. req'[r] = l
    BY <2>2 DEF Record
  <2>4. CASE l.pc # "cr_max"
    <3>1. Creators' \subseteq Creators
      BY <1>4, <2>2, <2>3, <2>4, OthersRest DEF Creators
    <3> QED  BY <1>1, <2>1, <3>1
  <2>5. CASE l.pc = "cr_max"
    <3>1. Creators' = Creators \cup {r}
      BY <1>4, <2>3, <2>5, OthersRest DEF Creators
    <3>2. r \notin Creators
      BY <1>4, BeginSteps DEF Creators, At
    <3>3. IsFiniteSet(Creators') /\ Cardinality(Creators') = n + 1
      BY <1>k, <3>1, <3>2, FS_AddElement
    <3>4. Cardinality(Used) = k
      BY <1>0, <1>k, UsedSize
    <3>5. k < MaxClass - n
      BY <2>2, <2>5, <3>4 DEF IdsLeft, Creators
    <3>6. k + Cardinality(Creators') <= MaxClass
      BY <1>k, <3>3, <3>5
    <3> QED  BY <1>0, <2>1, <3>3, <3>6 DEF IdsInv, Id
  <2> QED  BY <2>4, <2>5
<1>5. CASE UNCHANGED vars \/ \E t \in Teacher : Fills(t)
  <2>1. class' = class /\ req' = req
    BY <1>5 DEF vars, Fills, OpenForm, OpenNewForm, EditForm
  <2> QED  BY <1>1, <2>1 DEF Used, Exists, Creators
<1> QED  BY <1>2, <1>3, <1>4, <1>5, Steps

\* Nobody else has changed what the only request has read.
LEMMA AloneStep ==
    ASSUME IInv, [Next]_vars
    PROVE  AloneInv'
<1> SUFFICES ASSUME "overlap" \notin met'
             PROVE  /\ \A p, q \in Request : p # q => (At(p, "idle") \/ At(q, "idle"))'
                    /\ \A q \in Request :
                          req'[q].pc \in {"en_room", "en_write", "un_write"} =>
                              req'[q].list = class'[req'[q].id].students
                    /\ met' = {} => \A q \in Request :
                          At(q, "cr_write")' => ~Exists(req[q].id)'
  BY DEF AloneInv
<1> req \in [Request -> Local] /\ class \in [Id -> ClassRow \cup {None}]
  BY DEF IInv, TypeOK
<1>0. /\ "overlap" \notin met /\ met \subseteq met'
      /\ \A p, q \in Request : p # q => At(p, "idle") \/ At(q, "idle")
      /\ \A q \in Request :
            req[q].pc \in {"en_room", "en_write", "un_write"} =>
                req[q].list = class[req[q].id].students
      /\ met = {} => \A q \in Request : At(q, "cr_write") => ~Exists(req[q].id)
  BY UsedStep DEF IInv, AloneInv
<1>1. ASSUME NEW r \in Request, Write(r) \/ Reads(r) \/ Begins(r)
      PROVE  \A q \in Request : q # r => At(q, "idle") /\ At(q, "idle")'
  <2>1. CASE Begins(r)
    <3>1. \A q \in Request : At(q, "idle")
      BY <2>1 DEF Begins, StudentStep, BeginEnroll, BeginUnenroll, BeginSave,
           BeginDelete, Start
    <3> QED  BY <2>1, <3>1, OthersRest DEF At
  <2>2. CASE Write(r) \/ Reads(r)
    <3>1. ~At(r, "idle")
      BY <2>2 DEF Write, Reads, EnrollWrite, UnenrollWrite, SaveWrite, DeleteWrite,
           EnrollRead, EnrollRoom, UnenrollRead, CreateMax, UpdateCheck, DeleteCheck,
           StatementFails, At
    <3> QED  BY <1>0, <2>2, <3>1, OthersRest DEF At
  <2> QED  BY <1>1, <2>1, <2>2
<1>2. ASSUME NEW r \in Request, Write(r)
      PROVE  \A q \in Request : At(q, "idle")'
  <2>1. req'[r] = Idle
    BY <1>2, WriteIsRow DEF Writes, Return
  <2> QED  BY <1>1, <1>2, <2>1 DEF At, Idle
<1>3. ASSUME NEW r \in Request, Begins(r)
      PROVE  \A q \in Request :
                req'[q].pc \notin {"en_room", "en_write", "un_write", "cr_write"}
  <2>1. req'[r].pc \notin {"en_room", "en_write", "un_write", "cr_write"}
    BY <1>3, BeginRecord DEF Record
  <2> QED  BY <1>1, <1>3, <2>1 DEF At
<1>4. ASSUME NEW r \in Request, Reads(r)
      PROVE  /\ req'[r].pc \in {"en_room", "en_write", "un_write"} =>
                    req'[r].list = class'[req'[r].id].students
             /\ met' = {} /\ At(r, "cr_write")' => ~Exists(req[r].id)'
  <2>1. class' = class
    BY <1>4, ReadSteps
  <2>2. req'[r].pc \in {"en_room", "en_write", "un_write"} =>
            req'[r].list = class'[req'[r].id].students
    BY <1>0, <1>4, <2>1 DEF Reads, EnrollRead, EnrollRoom, UnenrollRead, CreateMax,
         UpdateCheck, DeleteCheck, StatementFails, Goto, Return, At, Idle, Local
  <2>3. ASSUME met' = {}, At(r, "cr_write")' PROVE ~Exists(req[r].id)'
    <3>1. CreateMax(r)
      BY <1>4, <2>3 DEF Reads, EnrollRead, EnrollRoom, UnenrollRead, UpdateCheck,
           DeleteCheck, StatementFails, Goto, Return, At, Idle, Local
    <3>2. PICK k \in Id : Used = 1..k /\ k + 1 \in Id /\ Above(Used) = k + 1
      BY <3>1, NextId DEF CreateMax
    <3>3. req'[r].id = k + 1
      BY <3>1, <3>2 DEF CreateMax, Local
    <3>4. k + 1 \notin Used
      BY <3>2 DEF Id
    <3> QED  BY <2>1, <3>2, <3>3, <3>4 DEF Used, Exists
  <2> QED  BY <2>2, <2>3
<1>5. CASE UNCHANGED vars \/ \E t \in Teacher : Fills(t)
  <2>1. class' = class /\ req' = req /\ met' = met
    BY <1>5 DEF vars, Fills, OpenForm, OpenNewForm, EditForm
  <2> QED  BY <1>0, <2>1 DEF At, Exists
<1>6. ASSUME NEW r \in Request, Write(r) PROVE AloneInv'
  BY <1>2, <1>6 DEF AloneInv, At
<1>7. ASSUME NEW r \in Request, Reads(r) \/ Begins(r) PROVE AloneInv'
  <2>1. \A p, q \in Request : p # q => (At(p, "idle") \/ At(q, "idle"))'
    BY <1>1, <1>7
  <2>2. \A q \in Request :
            req'[q].pc \in {"en_room", "en_write", "un_write"} =>
                req'[q].list = class'[req'[q].id].students
    BY <1>1, <1>3, <1>4, <1>7 DEF At
  <2>3. met' = {} => \A q \in Request : At(q, "cr_write")' => ~Exists(req[q].id)'
    BY <1>1, <1>3, <1>4, <1>7 DEF At
  <2> QED  BY <2>1, <2>2, <2>3 DEF AloneInv
<1> QED  BY <1>5, <1>6, <1>7, Steps DEF AloneInv

LEMMA Invariance == Spec => []IInv
<1>1. IInv /\ [Next]_vars => IInv'
  BY TypeStep, ListsStep, IdsStep, KnowsStep, AloneStep DEF IInv
<1> QED  BY <1>1, InitInv, PTL DEF Spec

-----------------------------------------------------------------------------
(* Theorems *)

\* Rows, forms and locals keep their types, whatever overlaps or fails; in
\* particular a class that is made always gets an id.
THEOREM TypeCorrect == Spec => []TypeOK
<1>1. IInv => TypeOK
  BY DEF IInv
<1> QED  BY <1>1, Invariance, PTL

\* A request that becomes idle has executed a statement of its own.
LEMMA OwnStep ==
    ASSUME IInv, [Next]_vars, NEW r \in Request, ~At(r, "idle"), At(r, "idle")'
    PROVE  Write(r) \/ Reads(r)
<1>1. ~UNCHANGED req[r]
  BY DEF At
<1>2. ~UNCHANGED vars
  BY <1>1 DEF vars
<1>3. \A t \in Teacher : ~Fills(t)
  BY <1>1 DEF Fills, OpenForm, OpenNewForm, EditForm
<1>4. \A q \in Request : q # r => ~(Write(q) \/ Reads(q) \/ Begins(q))
  BY <1>1, OthersRest
<1>5. ~Begins(r)
  BY BeginSteps
<1> QED  BY <1>2, <1>3, <1>4, <1>5, Steps

\* The seat that was seen is still free: others may enrol meanwhile, but the
\* list that is written is the one that was counted.
LEMMA FitsStep ==
    ASSUME IInv, [Next]_vars, NEW r \in Request, NEW c \in Id,
           Does(r, "en_write"), class'[c] # class[c],
           "failure" \notin met, class[c].room = req[r].room
    PROVE  Fits(c)'
<1> DEFINE l == req[r]
           cap == Capacity[l.room]
<1>0. class \in [Id -> ClassRow \cup {None}] /\ l \in Local
  BY DEF IInv, TypeOK
<1>1. At(r, "en_write") /\ Knows(r) /\ SeatSeen(r)
  BY DEF Does, IInv
<1>2. EnrollWrite(r)
  <2>1. Write(r) \/ Reads(r)
    BY <1>1, OwnStep DEF Does, At
  <2>2. ~Reads(r)
    BY ReadSteps
  <2> QED  BY <1>1, <2>1, <2>2 DEF Write, UnenrollWrite, SaveWrite, DeleteWrite, At
<1>3. c = l.id
  BY <1>0, <1>2 DEF EnrollWrite
<1>4. class[c] \in ClassRow /\ l.room \in Room /\ l.student \in Student /\ IsFiniteSet(l.list)
  BY <1>0, <1>1, <1>3 DEF Knows, At, ReadsRow, ForStudent, Exists
<1>5. class'[c] = [class[c] EXCEPT !.students = l.list \cup {l.student}]
  BY <1>0, <1>2, <1>3 DEF EnrollWrite
<1>6. class'[c].students = l.list \cup {l.student} /\ class'[c].room = l.room
  BY <1>4, <1>5 DEF ClassRow
<1>7. cap \in Nat /\ (cap = 0 \/ Cardinality(l.list) < cap)
  BY <1>1, <1>4, CapacityAssumption DEF SeatSeen
<1>8. /\ Cardinality(l.list) \in Nat
      /\ \/ Cardinality(l.list \cup {l.student}) = Cardinality(l.list)
         \/ Cardinality(l.list \cup {l.student}) = Cardinality(l.list) + 1
  BY <1>4, FS_AddElement, FS_CardinalityType
<1> QED  BY <1>6, <1>7, <1>8 DEF Fits

\* HandleDashboardEnroll never overfills a room, however many requests
\* overlap: each writes back a list that it has counted itself.
THEOREM RoomsAreNotOverfilled == Spec => EnrollmentFits
<1>1. IInv /\ [Next]_vars =>
        [\A r \in Request, c \in Id :
          /\ Does(r, "en_write") /\ class'[c] # class[c]
          /\ "failure" \notin met /\ class[c].room = req[r].room
          => Fits(c)']_vars
  BY FitsStep
<1> QED  BY <1>1, Invariance, PTL DEF Spec, EnrollmentFits

LEMMA MembershipStep ==
    ASSUME IInv, [Next]_vars, "overlap" \notin met
    PROVE  OwnMembershipOnly
<1> SUFFICES ASSUME NEW c \in Id, NEW s \in Student, Live(c), Live(c)',
                    (s \in class[c].students) # (s \in class'[c].students)
             PROVE  \E r \in Request :
                       /\ req[r].id = c
                       /\ \/ Does(r, "en_write") /\ req[r].student = s
                          \/ Does(r, "un_write") /\ req[r].student = s
                          \/ Does(r, "cr_write") \/ Does(r, "up_write")
  BY DEF OwnMembershipOnly
<1>0. class \in [Id -> ClassRow \cup {None}] /\ req \in [Request -> Local]
  BY DEF IInv, TypeOK
<1>1. class'[c] # class[c]
  OBVIOUS
<1>2. PICK r \in Request : Write(r)
  BY <1>1, Steps, ReadSteps, BeginSteps
     DEF vars, Fills, OpenForm, OpenNewForm, EditForm
<1>3. PICK row \in ClassRow : req[r].id \in Id /\ Writes(r, row)
  BY <1>2, WriteIsRow
<1>4. req[r].id = c /\ At(r, "idle")'
  BY <1>0, <1>1, <1>3 DEF Writes, Return, At, Idle
<1>5. class[c] \in ClassRow
  BY <1>0 DEF Live, Exists
<1>6. req[r].pc \in {"en_write", "un_write"} => req[r].list = class[c].students
  BY <1>4 DEF IInv, AloneInv
<1>7. CASE EnrollWrite(r)
  <2>1. class'[c].students = class[c].students \cup {req[r].student}
    BY <1>0, <1>4, <1>5, <1>6, <1>7 DEF EnrollWrite, At, ClassRow
  <2> QED  BY <1>4, <1>7, <2>1 DEF Does, EnrollWrite
<1>8. CASE UnenrollWrite(r)
  <2>1. class'[c].students = class[c].students \ {req[r].student}
    BY <1>0, <1>4, <1>5, <1>6, <1>8 DEF UnenrollWrite, At, ClassRow
  <2> QED  BY <1>4, <1>8, <2>1 DEF Does, UnenrollWrite
<1>9. CASE SaveWrite(r)
  BY <1>4, <1>9 DEF Does, SaveWrite, At
<1>10. CASE DeleteWrite(r)
  <2>1. class'[c].students = class[c].students
    BY <1>0, <1>4, <1>5, <1>10 DEF DeleteWrite, ClassRow
  <2> QED  BY <2>1
<1> QED  BY <1>2, <1>7, <1>8, <1>9, <1>10 DEF Write

\* While no two requests have overlapped, a student joins or leaves a class
\* only by a request about this student or by the teacher's form.
THEOREM EnrolmentsAreOwn == Spec => OneStudentAtATime
<1>1. IInv /\ [Next]_vars => ["overlap" \notin met => OwnMembershipOnly]_vars
  BY MembershipStep
<1> QED  BY <1>1, Invariance, PTL DEF Spec, OneStudentAtATime

\* While requests have neither overlapped nor failed, a class that is made
\* overwrites none, deleted or another teacher's.
THEOREM NewIdsAreUnused == Spec => IdsAreNew
<1>1. IInv /\ [Next]_vars =>
        [\A r \in Request : Does(r, "cr_write") /\ met = {} => ~Exists(req[r].id)]_vars
  BY DEF IInv, AloneInv, Does
<1> QED  BY <1>1, Invariance, PTL DEF Spec, IdsAreNew

====
