------------------------------ MODULE Enrollment ------------------------------
(***************************************************************************)
(* Class lists: HandleDashboardEnroll, HandleDashboardUnenroll,            *)
(* HandleDashboardScheduleSave and HandleDashboardScheduleDelete           *)
(* (internal/handlers/dashboard.go), and the form of the teacher's page    *)
(* (templates/dashboard.html).                                             *)
(*                                                                         *)
(* A class keeps its students in one text column.  Every handler reads     *)
(* that row in one statement and writes the whole column, or the whole     *)
(* row, in a later one.  A step is one statement.                          *)
(***************************************************************************)
EXTENDS Naturals, FiniteSets

CONSTANTS
    Request,    \* handler invocations in flight at one time
    Teacher, Student,
    Room,
    Capacity,   \* rooms.capacity; 0: unlimited
    None,       \* no class with this id; no class in the form
    MaxClass    \* bound: ids SCH001 ... that may be handed out

Id == 1..MaxClass
ClassRow == [owner : Teacher, room : Room, students : SUBSET Student,
             deleted : BOOLEAN]

ASSUME BoundsAssumption   == MaxClass \in Nat \ {0}
ASSUME CapacityAssumption == Capacity \in [Room -> Nat]
ASSUME NoneAssumption     == None \notin ClassRow /\ None \notin Nat

VARIABLES
    class,      \* table schedules
    form,       \* what each teacher's browser shows
    req,        \* the local state of every request
    met         \* history: "overlap" of requests, "failure" of a statement

vars == <<class, form, req, met>>

-----------------------------------------------------------------------------
Local == [pc : {"idle", "en_read", "en_room", "en_write", "un_read", "un_write",
                "cr_max", "cr_write", "up_check", "up_write",
                "de_check", "de_write"},
          id : Id \cup {0},
          student : Student \cup {None},
          teacher : Teacher \cup {None},
          room : Room \cup {None},
          list : SUBSET Student]        \* the list read, or posted by the form

Idle == [pc |-> "idle", id |-> 0, student |-> None, teacher |-> None,
         room |-> None, list |-> {}]

Form == [id : Id \cup {0}, list : SUBSET Student]    \* id 0: a new class

\* One type invariant: rows, forms and the locals of the handlers.
TypeOK ==
    /\ class \in [Id -> ClassRow \cup {None}]
    /\ form \in [Teacher -> Form \cup {None}]
    /\ req \in [Request -> Local]
    /\ met \subseteq {"overlap", "failure"}

Exists(c) == class[c] # None
Live(c)   == Exists(c) /\ ~class[c].deleted
Used      == {c \in Id : Exists(c)}

At(r, pc)   == req[r].pc = pc
Goto(r, pc) == req' = [req EXCEPT ![r].pc = pc]
Return(r)   == req' = [req EXCEPT ![r] = Idle]
Start(r, l) == /\ At(r, "idle")
               /\ req' = [req EXCEPT ![r] = l]
               /\ met' = IF \A q \in Request : At(q, "idle")
                         THEN met ELSE met \cup {"overlap"}

-----------------------------------------------------------------------------
(* HandleDashboardEnroll *)

BeginEnroll(r, c, s) ==
    /\ Start(r, [Idle EXCEPT !.pc = "en_read", !.id = c, !.student = s])
    /\ UNCHANGED <<class, form>>

EnrollRead(r) ==
    LET c == req[r].id
        joins == Live(c) /\ req[r].student \notin class[c].students
    IN
    /\ At(r, "en_read")
    /\ IF joins
       THEN req' = [req EXCEPT ![r].pc = "en_room", ![r].room = class[c].room,
                               ![r].list = class[c].students]
       ELSE Return(r)
    /\ UNCHANGED <<class, form, met>>

\* (mutant) one student too many passes
EnrollRoom_OffByOne(r) ==
    LET cap == Capacity[req[r].room] IN
    /\ At(r, "en_room")
    /\ IF cap > 0 /\ Cardinality(req[r].list) > cap
       THEN Return(r)
       ELSE Goto(r, "en_write")
    /\ UNCHANGED <<class, form, met>>

\* "Class is full"
EnrollRoom(r) ==
    LET cap == Capacity[req[r].room] IN
    /\ At(r, "en_room")
    /\ IF cap > 0 /\ Cardinality(req[r].list) >= cap
       THEN Return(r)
       ELSE Goto(r, "en_write")
    /\ UNCHANGED <<class, form, met>>

\* UPDATE schedules SET student_ids = <the list read, and the student>
EnrollWrite(r) ==
    /\ At(r, "en_write")
    /\ class' = [class EXCEPT ![req[r].id].students =
                    req[r].list \cup {req[r].student}]
    /\ Return(r)
    /\ UNCHANGED <<form, met>>

-----------------------------------------------------------------------------
(* HandleDashboardUnenroll *)

BeginUnenroll(r, c, s) ==
    /\ Start(r, [Idle EXCEPT !.pc = "un_read", !.id = c, !.student = s])
    /\ UNCHANGED <<class, form>>

UnenrollRead(r) ==
    LET c == req[r].id
        leaves == Live(c) /\ req[r].student \in class[c].students
    IN
    /\ At(r, "un_read")
    /\ IF leaves
       THEN req' = [req EXCEPT ![r].pc = "un_write",
                               ![r].list = class[c].students]
       ELSE Return(r)
    /\ UNCHANGED <<class, form, met>>

\* (mutant) the list is emptied
UnenrollWrite_All(r) ==
    /\ At(r, "un_write")
    /\ class' = [class EXCEPT ![req[r].id].students = {}]
    /\ Return(r)
    /\ UNCHANGED <<form, met>>

UnenrollWrite(r) ==
    /\ At(r, "un_write")
    /\ class' = [class EXCEPT ![req[r].id].students =
                    req[r].list \ {req[r].student}]
    /\ Return(r)
    /\ UNCHANGED <<form, met>>

-----------------------------------------------------------------------------
(* The teacher's form and HandleDashboardScheduleSave *)

\* The form keeps the class list in a hidden field until it is saved.
OpenForm(t, c) ==
    /\ Live(c) /\ class[c].owner = t
    /\ form' = [form EXCEPT ![t] = [id |-> c, list |-> class[c].students]]
    /\ UNCHANGED <<class, req, met>>

OpenNewForm(t) ==
    /\ form' = [form EXCEPT ![t] = [id |-> 0, list |-> {}]]
    /\ UNCHANGED <<class, req, met>>

EditForm(t, s) ==
    /\ form[t] # None
    /\ form' = [form EXCEPT ![t].list = IF s \in @ THEN @ \ {s} ELSE @ \cup {s}]
    /\ UNCHANGED <<class, req, met>>

\* Bound: there is an id for every class that is being made.
IdsLeft ==
    Cardinality(Used) < MaxClass
        - Cardinality({q \in Request : req[q].pc \in {"cr_max", "cr_write"}})

BeginSave(r, t, room) ==
    /\ form[t] # None
    /\ form[t].id = 0 => IdsLeft
    /\ Start(r, [Idle EXCEPT
                    !.pc = IF form[t].id = 0 THEN "cr_max" ELSE "up_check",
                    !.id = form[t].id, !.teacher = t,
                    !.room = room, !.list = form[t].list])
    /\ form' = [form EXCEPT ![t] = None]
    /\ UNCHANGED class

\* The number after the highest one in S; 1 after none.
Above(S) == CHOOSE d \in Id : (\A c \in S : c < d) /\ (d = 1 \/ d - 1 \in S)

\* (mutant) deleted classes do not count
CreateMax_Live(r) ==
    /\ At(r, "cr_max")
    /\ req' = [req EXCEPT ![r].pc = "cr_write",
                          ![r].id = Above({c \in Id : Live(c)})]
    /\ UNCHANGED <<class, form, met>>

CreateMax(r) ==
    /\ At(r, "cr_max")
    /\ req' = [req EXCEPT ![r].pc = "cr_write", ![r].id = Above(Used)]
    /\ UNCHANGED <<class, form, met>>

Owns(r) == LET c == req[r].id IN Live(c) /\ class[c].owner = req[r].teacher

UpdateCheck(r) ==
    /\ At(r, "up_check")
    /\ IF Owns(r) THEN Goto(r, "up_write") ELSE Return(r)
    /\ UNCHANGED <<class, form, met>>

\* INSERT OR REPLACE: whatever row has the id now is overwritten.
SaveWrite(r) ==
    /\ req[r].pc \in {"cr_write", "up_write"}
    /\ class' = [class EXCEPT ![req[r].id] =
          [owner |-> req[r].teacher, room |-> req[r].room,
           students |-> req[r].list, deleted |-> FALSE]]
    /\ Return(r)
    /\ UNCHANGED <<form, met>>

-----------------------------------------------------------------------------
(* HandleDashboardScheduleDelete *)

BeginDelete(r, t, c) ==
    /\ Start(r, [Idle EXCEPT !.pc = "de_check", !.id = c, !.teacher = t])
    /\ UNCHANGED <<class, form>>

DeleteCheck(r) ==
    /\ At(r, "de_check")
    /\ IF Owns(r) THEN Goto(r, "de_write") ELSE Return(r)
    /\ UNCHANGED <<class, form, met>>

DeleteWrite(r) ==
    /\ At(r, "de_write")
    /\ class' = [class EXCEPT ![req[r].id].deleted = TRUE]
    /\ Return(r)
    /\ UNCHANGED <<form, met>>

-----------------------------------------------------------------------------
\* SQLITE_BUSY.  The room query fails as "no limit" and the query for the
\* highest id as "none in use"; any other failure ends the request.
StatementFails(r) ==
    /\ ~At(r, "idle")
    /\ \/ At(r, "en_room") /\ Goto(r, "en_write")
       \/ At(r, "cr_max") /\ req' = [req EXCEPT ![r].pc = "cr_write", ![r].id = 1]
       \/ ~At(r, "en_room") /\ ~At(r, "cr_max") /\ Return(r)
    /\ met' = met \cup {"failure"}
    /\ UNCHANGED <<class, form>>

-----------------------------------------------------------------------------
\* One class exists, without students.
Init ==
    /\ \E t \in Teacher, room \in Room :
          class = [c \in Id |-> IF c = 1
                    THEN [owner |-> t, room |-> room, students |-> {},
                          deleted |-> FALSE]
                    ELSE None]
    /\ form = [t \in Teacher |-> None]
    /\ req = [r \in Request |-> Idle]
    /\ met = {}

EnrollStep(r)   == EnrollRead(r) \/ EnrollRoom(r) \/ EnrollWrite(r)
UnenrollStep(r) == UnenrollRead(r) \/ UnenrollWrite(r)
SaveStep(r)     == CreateMax(r) \/ UpdateCheck(r) \/ SaveWrite(r)
DeleteStep(r)   == DeleteCheck(r) \/ DeleteWrite(r)
StudentStep(r)  == \E c \in Id, s \in Student :
                      BeginEnroll(r, c, s) \/ BeginUnenroll(r, c, s)
TeacherStep(t)  == \/ \E c \in Id : OpenForm(t, c)
                   \/ OpenNewForm(t)
                   \/ \E s \in Student : EditForm(t, s)
                   \/ \E r \in Request :
                         \/ \E room \in Room : BeginSave(r, t, room)
                         \/ \E c \in Id : BeginDelete(r, t, c)

Next ==
    \/ \E r \in Request : \/ EnrollStep(r) \/ UnenrollStep(r) \/ SaveStep(r)
                          \/ DeleteStep(r) \/ StudentStep(r) \/ StatementFails(r)
    \/ \E t \in Teacher : TeacherStep(t)

Spec == Init /\ [][Next]_vars

-----------------------------------------------------------------------------
(* Properties *)

Fits(c) == \/ Capacity[class[c].room] = 0
           \/ Cardinality(class[c].students) <= Capacity[class[c].room]

\* Request r executes the statement at pc.
Does(r, pc) == At(r, pc) /\ At(r, "idle")'

\* HandleDashboardEnroll never overfills the room ("Class is full"), however
\* many requests overlap, as long as no statement fails and the class keeps
\* the room that was checked: only a teacher's form can.
EnrollmentFits ==
    [][\A r \in Request, c \in Id :
          /\ Does(r, "en_write") /\ class'[c] # class[c]
          /\ "failure" \notin met /\ class[c].room = req[r].room
          => Fits(c)']_vars

\* A student joins or leaves a class only by a request about this very
\* student, or by the teacher's form.
OwnMembershipOnly ==
    \A c \in Id, s \in Student :
        (Live(c) /\ Live(c)' /\ (s \in class[c].students) # (s \in class'[c].students)) =>
            \E r \in Request :
                /\ req[r].id = c
                /\ \/ Does(r, "en_write") /\ req[r].student = s
                   \/ Does(r, "un_write") /\ req[r].student = s
                   \/ Does(r, "cr_write") \/ Does(r, "up_write")

\* HandleDashboardEnroll and HandleDashboardUnenroll move the one student they
\* are about, as long as no two requests have overlapped.
OneStudentAtATime == []["overlap" \notin met => OwnMembershipOnly]_vars

\* A class that HandleDashboardScheduleSave creates gets an id of its own and
\* overwrites none, deleted or another teacher's, as long as no two requests
\* have overlapped and no statement has failed.
IdsAreNew ==
    [][\A r \in Request : Does(r, "cr_write") /\ met = {} => ~Exists(req[r].id)]_vars
=============================================================================
