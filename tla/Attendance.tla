------------------------------ MODULE Attendance ------------------------------
(***************************************************************************)
(* The three handlers that write a student's attendance:                   *)
(*   HandleCheckIn, HandleCheckOut          (internal/handlers/api.go)     *)
(*   HandleTrackerRespond                   (internal/handlers/tracker.go) *)
(* over the tables attendance, attendance_meta, checkin_audit,             *)
(* task_items (the todos) and tracker_responses.                           *)
(*                                                                         *)
(* net/http runs every request in a goroutine of its own, and the handlers *)
(* share nothing but the database.  A handler is therefore a sequence of   *)
(* steps, one for each SQL statement it issues, and the steps of different *)
(* requests interleave freely.  HandleTrackerRespond's statements are one  *)
(* transaction: SQLite has one writer at a time, and what the transaction  *)
(* has written (tx) is seen by nobody else before it commits.  PIN and     *)
(* rate limiter only ever refuse a request before its first write; a       *)
(* refused request changes nothing here.                                   *)
(***************************************************************************)
EXTENDS Naturals, Sequences, FiniteSets

CONSTANTS
    Request,    \* handler invocations in flight at one time
    Name,       \* texts posted as student_name
    Student,
    Person,     \* what a request may post: a name and an id that go together
    Nobody,     \* whom a request that is not running is about
    NameOf,     \* the posted name of a person
    StudentOf,  \* the posted id, or what findStudentID finds for the name
    Item,       \* task items of type 'todo' with recurrence 'daily'
    NoOne,      \* the writer when no transaction is open
    Faults,     \* which disturbances a run admits, see FaultKinds
    LateDays,   \* bound: days for which teachers record late answers
    MaxRows,    \* bound: check-ins that may be recorded
    MaxDay,     \* bound: last calendar day
    MaxSec      \* bound: last distinct timestamp of a day

(***************************************************************************)
(* "busy":     a statement fails with SQLITE_BUSY (the pool is opened with *)
(*             neither a busy timeout nor a connection limit); without it, *)
(*             no write meets a transaction of another request             *)
(* "crash":    the process dies and is restarted                           *)
(* "reassign": todos are handed out and withdrawn while requests run       *)
(* "midnight": the date changes while requests run                         *)
(***************************************************************************)
FaultKinds == {"busy", "crash", "reassign", "midnight"}

ASSUME PersonsAssumption ==
    /\ NameOf \in [Person -> Name] /\ StudentOf \in [Person -> Student]
    /\ Nobody \notin Person
ASSUME RequestsAssumption == IsFiniteSet(Request) /\ NoOne \notin Request
ASSUME FaultsAssumption == Faults \subseteq FaultKinds
ASSUME BoundsAssumption ==
    MaxRows \in Nat /\ MaxDay \in Nat /\ MaxSec \in Nat /\ LateDays \subseteq Nat

VARIABLES
    day, sec,     \* date('now','localtime') and the time of day
    attendance,   \* table attendance; a row's id is its position
    meta,         \* ids with a row in attendance_meta
    audit,        \* table checkin_audit
    todos,        \* <<student, item>>: the todo is active for the student
    responses,    \* table tracker_responses
    tx,           \* the open transaction of SaveTrackerResponses
    req           \* the local state of every request

tables == <<attendance, meta, audit, todos, responses>>
clock  == <<day, sec>>
vars   == <<clock, tables, tx, req>>

-----------------------------------------------------------------------------
Row      == [who : Person, day : Nat, sec : Nat, out : BOOLEAN]
Audit    == [action : {"checkin", "checkout"}, row : Nat, who : Person]
Response == [student : Student, item : Item, due : Nat, row : Nat]
Local    == [pc : {"idle", "ci_probe", "ci_insert", "ci_meta", "ci_audit",
                   "co_gate", "co_update", "co_lookup", "co_audit",
                   "listed", "tr_update", "tr_lookup", "tr_answer"},
             who : Person \cup {Nobody},
             items : SUBSET Item,
             row : Nat]
Tx       == [by : Request \cup {NoOne}, closed : SUBSET Nat,
             answers : SUBSET Response]

Idle == [pc |-> "idle", who |-> Nobody, items |-> {}, row |-> 0]
NoTx == [by |-> NoOne, closed |-> {}, answers |-> {}]

\* One type invariant: the shape of every table and of a handler's locals.
TypeOK ==
    /\ day \in Nat /\ sec \in Nat
    /\ attendance \in Seq(Row)
    /\ meta \subseteq Nat
    /\ audit \subseteq Audit
    /\ todos \subseteq Student \X Item
    /\ responses \subseteq Response
    /\ tx \in Tx
    /\ req \in [Request -> Local]
    /\ \A r \in Request : req[r].pc # "idle" => req[r].who \in Person

-----------------------------------------------------------------------------
(* The queries the handlers issue. *)

NameAt(i) == NameOf[attendance[i].who]

Today(n) == {i \in DOMAIN attendance : NameAt(i) = n /\ attendance[i].day = day}

\* (mutant) the query forgets the date
OpenToday_AnyDay(n) ==
    {i \in DOMAIN attendance : NameAt(i) = n /\ ~attendance[i].out}
\* check_out_time IS NULL among today's rows of the name
OpenToday(n) == {i \in Today(n) : ~attendance[i].out}

\* (mutant) the id read back is that of the last row of the day, whoever's
Latest_AnyName(n) ==
    {i \in DOMAIN attendance : attendance[i].day = day /\
        \A j \in DOMAIN attendance :
            attendance[j].day = day => attendance[j].sec <= attendance[i].sec}
\* ORDER BY check_in_time DESC LIMIT 1: timestamps have seconds, ties are open
Latest(n) == {i \in Today(n) :
                \A j \in Today(n) : attendance[j].sec <= attendance[i].sec}

\* The table once the UPDATE has set check_out_time in these rows.
Closed(rows) ==
    [i \in DOMAIN attendance |->
        [attendance[i] EXCEPT !.out = @ \/ i \in rows]]

Answered(s) == {it \in Item : \E p \in responses :
                   p.student = s /\ p.item = it /\ p.due = day}

\* PendingSignoffItems: daily todos of the student without a response today
Pending(s) == {it \in Item : <<s, it>> \in todos} \ Answered(s)

-----------------------------------------------------------------------------
(* A handler's control flow. *)

At(r, pc) == req[r].pc = pc
\* continue at pc with the todos and the attendance id the handler now holds
Move(r, pc, items, row) ==
    req' = [req EXCEPT ![r] = [pc |-> pc, who |-> req[r].who,
                               items |-> items, row |-> row]]
Goto(r, pc) == Move(r, pc, req[r].items, req[r].row)
Return(r)   == req' = [req EXCEPT ![r] = Idle]
Begin(r, w, pc) ==
    /\ At(r, "idle")
    /\ req' = [req EXCEPT ![r] = [pc |-> pc, who |-> w,
                                  items |-> {}, row |-> 0]]
Posted(r) == NameOf[req[r].who]

CanFail  == "busy" \in Faults
Unlocked == tx.by = NoOne

-----------------------------------------------------------------------------
(* HandleCheckIn *)

\* The bound counts the check-ins still under way, so none is cut short.
BeginCheckIn(r, w) ==
    /\ Len(attendance) + Cardinality(
           {q \in Request : req[q].pc \in {"ci_probe", "ci_insert"}}) < MaxRows
    /\ Begin(r, w, "ci_probe")
    /\ UNCHANGED <<clock, tables, tx>>

\* (mutant) the duplicate check is gone
CheckInProbe_Always(r) ==
    /\ At(r, "ci_probe")
    /\ Goto(r, "ci_insert")
    /\ UNCHANGED <<clock, tables, tx>>

\* Any error of the SELECT, "no rows" or another, means: not checked in yet.
CheckInProbe(r) ==
    /\ At(r, "ci_probe")
    /\ \/ OpenToday(Posted(r)) # {} /\ Return(r)
       \/ (OpenToday(Posted(r)) = {} \/ CanFail) /\ Goto(r, "ci_insert")
    /\ UNCHANGED <<clock, tables, tx>>

CheckInInsert(r) ==
    /\ At(r, "ci_insert")
    /\ \/ /\ Unlocked
          /\ attendance' = Append(attendance, [who |-> req[r].who,
                               day |-> day, sec |-> sec, out |-> FALSE])
          /\ Move(r, "ci_meta", {}, Len(attendance) + 1)
       \/ CanFail /\ Return(r) /\ UNCHANGED attendance
    /\ UNCHANGED <<clock, meta, audit, todos, responses, tx>>

\* linkAttendanceMetaByID: an error is logged and the handler goes on
CheckInMeta(r) ==
    /\ At(r, "ci_meta")
    /\ \/ Unlocked /\ meta' = meta \cup {req[r].row}
       \/ CanFail /\ meta' = meta
    /\ Goto(r, "ci_audit")
    /\ UNCHANGED <<clock, attendance, audit, todos, responses, tx>>

\* InsertAudit: its error is discarded
WriteAudit(r, action) ==
    \/ /\ Unlocked
       /\ audit' = audit \cup {[action |-> action, row |-> req[r].row,
                                who |-> req[r].who]}
    \/ CanFail /\ audit' = audit

CheckInAudit(r) ==
    /\ At(r, "ci_audit")
    /\ WriteAudit(r, "checkin")
    /\ Return(r)
    /\ UNCHANGED <<clock, attendance, meta, todos, responses, tx>>

-----------------------------------------------------------------------------
(* HandleCheckOut *)

BeginCheckOut(r, w) ==
    /\ Begin(r, w, "co_gate")
    /\ UNCHANGED <<clock, tables, tx>>

\* A blocked check-out returns the todos, and the page lists them.  The error
\* of PendingSignoffItems is discarded: a failed query finds nothing pending.
CheckOutGate(r) ==
    LET pending == Pending(StudentOf[req[r].who]) IN
    /\ At(r, "co_gate")
    /\ \/ /\ pending # {}
          /\ Move(r, "listed", pending, 0)
       \/ (pending = {} \/ CanFail) /\ Goto(r, "co_update")
    /\ UNCHANGED <<clock, tables, tx>>

CheckOutUpdate(r) ==
    LET open == OpenToday(Posted(r)) IN
    /\ At(r, "co_update")
    /\ \/ /\ open # {} /\ Unlocked
          /\ attendance' = Closed(open)
          /\ Goto(r, "co_lookup")
       \/ /\ open = {} \/ CanFail
          /\ Return(r)
          /\ UNCHANGED attendance
    /\ UNCHANGED <<clock, meta, audit, todos, responses, tx>>

\* The id for the audit entry is read back by a query of its own.
CheckOutLookup(r) ==
    LET latest == Latest(Posted(r)) IN
    /\ At(r, "co_lookup")
    /\ \/ \E i \in latest : Move(r, "co_audit", {}, i)
       \/ (latest = {} \/ CanFail) /\ Goto(r, "co_audit")
    /\ UNCHANGED <<clock, tables, tx>>

CheckOutAudit(r) ==
    /\ At(r, "co_audit")
    /\ WriteAudit(r, "checkout")
    /\ Return(r)
    /\ UNCHANGED <<clock, attendance, meta, todos, responses, tx>>

-----------------------------------------------------------------------------
(* The check-out page and HandleTrackerRespond *)

\* The page's button is enabled once every listed item has an answer.
Submit(r) ==
    /\ At(r, "listed")
    /\ Goto(r, "tr_update")
    /\ UNCHANGED <<clock, tables, tx>>

GiveUp(r) ==
    /\ At(r, "listed")
    /\ Return(r)
    /\ UNCHANGED <<clock, tables, tx>>

(***************************************************************************)
(* SaveTrackerResponses.  Every statement reads the clock for itself: the  *)
(* rows to close are those of the day of the UPDATE, and an answer has the *)
(* date of its own INSERT (response_date DEFAULT date('now')).             *)
(***************************************************************************)
Rollback(r) == Return(r) /\ tx' = NoTx /\ UNCHANGED <<attendance, responses>>

\* (mutant) an error of the UPDATE is not looked at
RespondUpdate_ErrorIgnored(r) ==
    LET open == OpenToday(Posted(r)) IN
    /\ At(r, "tr_update")
    /\ \/ /\ Unlocked
          /\ \E done \in {{}, open} :
                tx' = [by |-> r, closed |-> done, answers |-> {}]
          /\ Goto(r, "tr_lookup")
       \/ open = {} /\ Return(r) /\ UNCHANGED tx
    /\ UNCHANGED <<clock, tables>>

RespondUpdate(r) ==
    LET open == OpenToday(Posted(r)) IN
    /\ At(r, "tr_update")
    /\ \/ /\ open # {} /\ Unlocked
          /\ tx' = [by |-> r, closed |-> open, answers |-> {}]
          /\ Goto(r, "tr_lookup")
       \/ (open = {} \/ CanFail) /\ Return(r) /\ UNCHANGED tx
    /\ UNCHANGED <<clock, tables>>

RespondLookup(r) ==
    LET latest == Latest(Posted(r)) IN
    /\ At(r, "tr_lookup")
    /\ \/ /\ \E i \in latest : Move(r, "tr_answer", req[r].items, i)
          /\ UNCHANGED <<attendance, responses, tx>>
       \/ (latest = {} \/ CanFail) /\ Rollback(r)
    /\ UNCHANGED <<clock, meta, audit, todos>>

Answer(r, it) == [student |-> StudentOf[req[r].who], item |-> it,
                  due |-> day, row |-> req[r].row]

RespondAnswer(r, it) ==
    /\ At(r, "tr_answer") /\ it \in req[r].items
    /\ \/ /\ tx' = [tx EXCEPT !.answers = @ \cup {Answer(r, it)}]
          /\ Move(r, "tr_answer", req[r].items \ {it}, req[r].row)
          /\ UNCHANGED <<attendance, responses>>
       \/ CanFail /\ Rollback(r)
    /\ UNCHANGED <<clock, meta, audit, todos>>

\* (mutant) the transaction is never committed
RespondCommit_Rollback(r) ==
    /\ At(r, "tr_answer") /\ req[r].items = {}
    /\ Rollback(r)
    /\ UNCHANGED <<clock, meta, audit, todos>>

RespondCommit(r) ==
    /\ At(r, "tr_answer") /\ req[r].items = {}
    /\ \/ /\ attendance' = Closed(tx.closed)
          /\ responses' = responses \cup tx.answers
          /\ tx' = NoTx
          /\ Return(r)
       \/ CanFail /\ Rollback(r)
    /\ UNCHANGED <<clock, meta, audit, todos>>

-----------------------------------------------------------------------------
(* Everybody else: staff, the calendar, the operating system. *)

\* HandleLateSignoff: a teacher records an answer for the day d it was due
LateSignoff(s, it, d) ==
    /\ Unlocked
    /\ responses' = responses \cup
          {[student |-> s, item |-> it, due |-> d, row |-> 0]}
    /\ UNCHANGED <<clock, attendance, meta, audit, todos, tx, req>>

\* SaveTaskItem and DeleteTaskItem, seen from the student
Reassign(s, it) ==
    /\ "reassign" \in Faults
    /\ Unlocked
    /\ \/ todos' = todos \cup {<<s, it>>}
       \/ todos' = todos \ {<<s, it>>}
    /\ UNCHANGED <<clock, attendance, meta, audit, responses, tx, req>>

Tick ==
    /\ sec < MaxSec
    /\ sec' = sec + 1
    /\ UNCHANGED <<day, tables, tx, req>>

Midnight ==
    /\ day < MaxDay
    /\ "midnight" \in Faults \/ \A r \in Request : At(r, "idle")
    /\ day' = day + 1
    /\ sec' = 0
    /\ UNCHANGED <<tables, tx, req>>

\* Every goroutine and the open transaction are lost, what was committed stays.
Crash ==
    /\ "crash" \in Faults
    /\ \E r \in Request : ~At(r, "idle")
    /\ req' = [r \in Request |-> Idle]
    /\ tx' = NoTx
    /\ UNCHANGED <<clock, tables>>

-----------------------------------------------------------------------------
Init ==
    /\ day = 0 /\ sec = 0
    /\ attendance = <<>> /\ meta = {} /\ audit = {} /\ responses = {}
    /\ todos \in SUBSET (Student \X Item)
    /\ tx = NoTx
    /\ req = [r \in Request |-> Idle]

CheckInStep(r) ==
    CheckInProbe(r) \/ CheckInInsert(r) \/ CheckInMeta(r) \/ CheckInAudit(r)
CheckOutStep(r) ==
    \/ CheckOutGate(r) \/ CheckOutUpdate(r)
    \/ CheckOutLookup(r) \/ CheckOutAudit(r)
RespondStep(r) ==
    \/ RespondUpdate(r) \/ RespondLookup(r) \/ RespondCommit(r)
    \/ \E it \in Item : RespondAnswer(r, it)
HandlerStep(r) == CheckInStep(r) \/ CheckOutStep(r) \/ RespondStep(r)
PageStep(r)    == Submit(r) \/ GiveUp(r)
ClientStep(r)  == \E w \in Person : BeginCheckIn(r, w) \/ BeginCheckOut(r, w)
StaffStep      == \E s \in Student, it \in Item :
                     \/ \E d \in LateDays : LateSignoff(s, it, d)
                     \/ Reassign(s, it)

Next ==
    \/ \E r \in Request : HandlerStep(r) \/ PageStep(r) \/ ClientStep(r)
    \/ StaffStep
    \/ Tick \/ Midnight \/ Crash

Spec == Init /\ [][Next]_vars

(***************************************************************************)
(* The Go scheduler runs every goroutine to its end; a student who wants   *)
(* to leave keeps asking, and answers the list the page shows.             *)
(***************************************************************************)
LiveSpec ==
    /\ Spec
    /\ \A r \in Request : WF_vars(HandlerStep(r))
    /\ \A w \in Person :
          /\ SF_vars(\E r \in Request : BeginCheckOut(r, w))
          /\ SF_vars(\E r \in Request : req[r].who = w /\ Submit(r))

-----------------------------------------------------------------------------
(* Properties *)

\* The answers of a check-out hang on a session that it ended, and none that
\* began before it is left open: HandleTrackerRespond "submits tracker responses
\* and completes checkout atomically", whatever runs, fails or crashes beside.
\* They are of a student posted with the session's name, and not dated before
\* the session (midnight may fall between two statements of the transaction).
AnswersFollowCheckout ==
    \A p \in responses : p.row # 0 =>
        /\ p.row \in DOMAIN attendance
        /\ attendance[p.row].day <= p.due
        /\ \E w \in Person : StudentOf[w] = p.student /\ NameOf[w] = NameAt(p.row)
        /\ \A i \in 1..p.row :
              (/\ NameAt(i) = NameAt(p.row)
               /\ attendance[i].day = attendance[p.row].day) => attendance[i].out

\* An audit entry names a session of the posted name, although HandleCheckIn and
\* HandleCheckOut write it statements after the row, with an id carried along or
\* looked up among the rows of everybody.
AuditOwnRow ==
    \A a \in audit :
        \/ a.row = 0 /\ a.action = "checkout"
        \/ a.row \in DOMAIN attendance /\ NameAt(a.row) = NameOf[a.who]

\* Without failing statements every session is linked to its student, or its
\* HandleCheckIn is still about to link it: the teacher's and parent's views
\* find sessions through attendance_meta only.
MetaComplete ==
    \A i \in DOMAIN attendance : i \in meta
        \/ \E r \in Request : At(r, "ci_meta") /\ req[r].row = i

\* A name whose sessions of today are all closed has left nothing unanswered:
\* todos "block checkout" (docs/unified-task-items.md), across both ways out.
GateHolds ==
    \A w \in Person :
        (Today(NameOf[w]) # {} /\ OpenToday(NameOf[w]) = {}) =>
            Pending(StudentOf[w]) = {}

\* Check-out closes every session of the name and day that was open, or that
\* the transaction found open, in one step; nothing else ends or alters one.
SessionSteps ==
    \A i \in DOMAIN attendance :
        attendance'[i] # attendance[i] =>
            /\ attendance'[i] = [attendance[i] EXCEPT !.out = TRUE]
            /\ \A j \in DOMAIN attendance :
                  (/\ NameAt(j) = NameAt(i)
                   /\ attendance[j].day = attendance[i].day) => attendance'[j].out
SessionsEndTogether == [][SessionSteps]_vars

OpenNow(i) == i \in DOMAIN attendance /\ i \in OpenToday(NameAt(i))

\* A student who keeps trying to check out gets out, or the day ends: answers
\* are remembered, so new todos can block a student only finitely often.
LeaversGetOut == \A i \in 1..MaxRows : OpenNow(i) ~> ~OpenNow(i)

-----------------------------------------------------------------------------
(* What the three handlers amount to, for a reader of the tables. *)
Ledger        == INSTANCE AttendanceLedger
                     WITH Limited <- FALSE, Limit <- 0, DueDate <- LateDays
LimitedLedger == INSTANCE AttendanceLedger
                     WITH Limited <- TRUE, Limit <- Cardinality(Request),
                          DueDate <- LateDays

\* Interleaved handlers implement a ledger of sessions and responses in which
\* arrivals, departures with their answers, and late sign-offs are atomic.
LedgerImplemented == Ledger!Spec
\* HandleCheckIn refuses a second open session of a name (docs/implementation.md
\* "Duplicate prevention").  Check-ins that overlap between the SELECT and the
\* INSERT get past it, but never more of them than run at a time: as long as no
\* statement fails, a name has fewer open sessions than that when it arrives.
LimitedLedgerImplemented == LimitedLedger!Spec
=============================================================================
