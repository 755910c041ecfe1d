-------------------------------- MODULE Tracker --------------------------------
(***************************************************************************)
(* Task items and their answers: internal/database/tracker.go and          *)
(* internal/handlers/tracker.go.                                           *)
(*                                                                         *)
(* An item belongs to the center, to one student, or (a library template)  *)
(* to nobody.  A student is asked at checkout for every sign-off item that *)
(* is due; answers are rows of tracker_responses, and what is due is       *)
(* computed from those rows alone.  Of the order of those rows only that   *)
(* of the transactions is kept: the answers that one of them stores are to *)
(* different items.                                                        *)
(*                                                                         *)
(* Handlers that run one statement or one transaction are one action;      *)
(* assigning a template and filling profile gaps take several and are      *)
(* modelled as requests, a statement at a time.                            *)
(***************************************************************************)
EXTENDS Naturals, FiniteSets, Functions

CONSTANTS
    Request,    \* handler invocations of several statements, in flight at once
    Student,
    Name,
    Draft,      \* what an item form may post
    None,       \* no student (a template or a center item); no row; no form
    WeekLen, MonthLen,  \* days of a week and of a month
    MaxItem,    \* bound: rows of task_items
    MaxResp,    \* bound: rows of tracker_responses
    MaxDay,     \* bound: days that pass
    MaxOp       \* bound: operations that write

Id  == 1..MaxItem
Day == 1..MaxDay

\* fits: the students the criteria match; gap: those for whom
\* AutoAssignProfileTasks accepts the criteria, or the name and category.
DraftType == [name : Name, type : {"todo", "task"},
              rec : {"daily", "weekly", "monthly", "none"},
              start : Day, until : Day,
              fits : SUBSET Student, gap : SUBSET Student]

ItemRow == [draft : DraftType, center : BOOLEAN, student : Student \cup {None},
            active : BOOLEAN, deleted : BOOLEAN, completed : BOOLEAN,
            from : Id \cup {0}]     \* history: the item this one was made from

\* via: "checkout" has an attendance id, "board" and "late" have 0, "profile" NULL.
Answer == [student : Student, item : Id, status : {"done", "not_done"},
           via : {"checkout", "board", "late", "profile"},
           noted : BOOLEAN,         \* notes are not empty
           at : 1..MaxOp,           \* the transaction that stored it
           day : Day,               \* response_date
           due : Day \cup {0}]      \* due_date; 0: NULL

ASSUME BoundsAssumption   == {MaxItem, MaxResp, MaxDay, MaxOp} \subseteq Nat \ {0}
ASSUME CalendarAssumption == {WeekLen, MonthLen} \subseteq Nat \ {0}
ASSUME DraftAssumption    == Draft \subseteq DraftType
ASSUME NoneAssumption     == /\ None \notin Student \cup ItemRow \cup DraftType
                             /\ \A S \in SUBSET Id : None # S

VARIABLES
    item,   \* task_items
    resp,   \* tracker_responses
    day,    \* the server's date
    here,   \* students with an open session (module Attendance)
    form,   \* the sign-off list a kiosk shows for each student
    req,    \* the local state of every request
    met,    \* history: "overlap" of a request, "failure" of a statement,
            \* "twins": two live center items of one name
    ops     \* operations begun (bounded by MaxOp)

vars == <<item, resp, day, here, form, req, met, ops>>

-----------------------------------------------------------------------------
Local == [pc : {"idle", "as_copy", "as_remove", "pr_values", "pr_names",
                "pr_insert"},
          id : Id \cup {0}, to : SUBSET Student,
          draft : DraftType \cup {None},
          gaps : [Id -> DraftType \cup {None}]]

NoGaps == [i \in Id |-> None]
Idle == [pc |-> "idle", id |-> 0, to |-> {}, draft |-> None, gaps |-> NoGaps]

\* One type invariant: rows, forms, requests.
TypeOK ==
    /\ item \in [Id -> ItemRow \cup {None}]
    /\ resp \subseteq Answer
    /\ day \in Day
    /\ here \subseteq Student
    /\ form \in [Student -> (SUBSET Id) \cup {None}]
    /\ req \in [Request -> Local]
    /\ met \subseteq {"overlap", "failure", "twins"}
    /\ ops \in 0..MaxOp

Exists(i) == item[i] # None
Live(i)   == Exists(i) /\ ~item[i].deleted
Center(i) == Live(i) /\ item[i].center /\ item[i].active
Owned(s)  == {i \in Id : Live(i) /\ item[i].student = s}
Free      == {i \in Id : ~Exists(i)}

At(r, pc)   == req[r].pc = pc
Busy(R)     == \E r \in R : ~At(r, "idle")
\* Something happens while a request of R is in flight.
Overlap(R)  == IF Busy(R) THEN {"overlap"} ELSE {}
Operation(R, h) == ops < MaxOp /\ ops' = ops + 1 /\ met' = met \cup Overlap(R) \cup h
Step(R, h)      == UNCHANGED ops /\ met' = met \cup Overlap(R) \cup h
Return(r)   == req' = [req EXCEPT ![r] = Idle]
Others(r)   == Request \ {r}

Row(d, s, i) == [draft |-> d, center |-> FALSE, student |-> s, active |-> TRUE,
                 deleted |-> FALSE, completed |-> FALSE, from |-> i]

\* AUTOINCREMENT: new rows take the next ids.
NextIds(I) == I \subseteq Free /\ \A i \in I, j \in Free \ I : i < j

\* The new rows I are for the students S, at least one for each.
InsertRows(I, S, d, i) ==
    /\ NextIds(I)
    /\ \E who \in Surjection(I, S) :
          item' = [k \in Id |-> IF k \in I THEN Row(d, who[k], i) ELSE item[k]]

\* One row for each student.
Insert(S, d, i) ==
    \E I \in SUBSET Free : Cardinality(I) = Cardinality(S) /\ InsertRows(I, S, d, i)

\* BulkCreateTaskItems: one row for each entry of the list that was posted,
\* which may name a student of S more than once.
InsertList(S, d, i) == \E I \in SUBSET Free : InsertRows(I, S, d, i)

Reply(s, i, status, via, noted, due) ==
    [student |-> s, item |-> i, status |-> status, via |-> via,
     noted |-> noted, at |-> ops + 1, day |-> day, due |-> due]

AddAnswers(rows) ==
    /\ Cardinality(resp \cup rows) <= MaxResp
    /\ resp' = resp \cup rows

-----------------------------------------------------------------------------
(* GetDueItems *)

WeekStart(d) == d - ((d - 1) % WeekLen)
Month(d)     == (d - 1) \div MonthLen

\* (mutant) the date of the answer instead of the date it is for
When_Answered(a) == a.day

\* COALESCE(due_date, response_date)
When(a) == IF a.due # 0 THEN a.due ELSE a.day

Answers(s, i) == {a \in resp : a.student = s /\ a.item = i}

\* (mutant) an answer "not done" settles nothing
Settles_DoneOnly(a, i, d) ==
    CASE item[i].draft.rec = "daily"   -> a.status = "done" /\ When(a) = d
      [] item[i].draft.rec = "weekly"  -> a.status = "done" /\ When(a) >= WeekStart(d)
      [] item[i].draft.rec = "monthly" -> a.status = "done" /\ Month(When(a)) = Month(d)
      [] OTHER                         -> a.status = "done"

\* The recurrence rule: does answer a settle item i on day d?
Settles(a, i, d) ==
    CASE item[i].draft.rec = "daily"   -> When(a) = d
      [] item[i].draft.rec = "weekly"  -> When(a) >= WeekStart(d)
      [] item[i].draft.rec = "monthly" -> Month(When(a)) = Month(d)
      [] OTHER                         -> a.status = "done"

Applies(s, i) ==
    IF item[i].center THEN s \in item[i].draft.fits
                      ELSE item[i].student = s /\ ~item[i].completed

Due(s, d) == {i \in Id : /\ Live(i) /\ item[i].active
                         /\ item[i].draft.start <= d /\ d <= item[i].draft.until
                         /\ Applies(s, i)
                         /\ \A a \in Answers(s, i) : ~Settles(a, i, d)}

\* PendingSignoffItems
Pending(s) == {i \in Due(s, day) : item[i].draft.type = "todo"}

-----------------------------------------------------------------------------
(* HandleTrackerItems, HandleStudentTrackerItems and their deletes *)

\* Another center item has the name of draft d.
Twins(d, i) ==
    \E j \in Id \ {i} : Live(j) /\ item[j].center /\ item[j].draft.name = d.name

CreateCenter(d, active) ==
    /\ Operation(Request, IF Twins(d, 0) THEN {"twins"} ELSE {})
    /\ \E i \in Free :
          /\ NextIds({i})
          /\ item' = [item EXCEPT ![i] = [Row(d, None, 0) EXCEPT !.center = TRUE,
                                                                 !.active = active]]
    /\ UNCHANGED <<resp, day, here, form, req>>

\* For a student, or a library template for nobody.
CreatePersonal(d, s) ==
    /\ Operation(Request, {})
    /\ Insert({s}, d, 0)
    /\ UNCHANGED <<resp, day, here, form, req>>

\* UPDATE ... WHERE id: neither scope, student nor completed is written.
UpdateItem(i, d, active) ==
    /\ Exists(i)
    /\ Operation(Request, IF item[i].center /\ Twins(d, i) THEN {"twins"} ELSE {})
    /\ item' = [item EXCEPT ![i].draft = d, ![i].active = active]
    /\ UNCHANGED <<resp, day, here, form, req>>

DeleteItem(i) ==
    /\ Exists(i)
    /\ Operation(Request, {})
    /\ item' = [item EXCEPT ![i].deleted = TRUE]
    /\ UNCHANGED <<resp, day, here, form, req>>

\* HandleTrackerBulkAssign: one transaction.
BulkAssign(d, S) ==
    /\ S # {}
    /\ Operation(Request, {})
    /\ InsertList(S, d, 0)
    /\ UNCHANGED <<resp, day, here, form, req>>

-----------------------------------------------------------------------------
(* HandleTrackerComplete: one transaction each way *)

\* (mutant) the flag without the answer
CompleteItem_FlagOnly(i) ==
    /\ Exists(i) /\ item[i].student # None
    /\ Operation(Request, {})
    /\ item' = [item EXCEPT ![i].completed = TRUE]
    /\ UNCHANGED resp
    /\ UNCHANGED <<day, here, form, req>>

\* An item of nobody fails on its NULL student_id and is rolled back.
CompleteItem(i) ==
    /\ Exists(i) /\ item[i].student # None
    /\ Operation(Request, {})
    /\ item' = [item EXCEPT ![i].completed = TRUE]
    /\ AddAnswers({Reply(item[i].student, i, "done", "board", FALSE, 0)})
    /\ UNCHANGED <<day, here, form, req>>

\* (mutant) every answer of the item is removed
UncompleteItem_All(i) ==
    /\ Exists(i)
    /\ Operation(Request, {})
    /\ item' = [item EXCEPT ![i].completed = FALSE]
    /\ resp' = {a \in resp : a.item # i}
    /\ UNCHANGED <<day, here, form, req>>

\* attendance_id = 0: answers given on a dashboard, and late sign-offs.
UncompleteItem(i) ==
    /\ Exists(i)
    /\ Operation(Request, {})
    /\ item' = [item EXCEPT ![i].completed = FALSE]
    /\ resp' = {a \in resp :
                  ~(a.item = i /\ a.status = "done" /\ a.via \in {"board", "late"})}
    /\ UNCHANGED <<day, here, form, req>>

-----------------------------------------------------------------------------
(* Checkout and late sign-off *)

\* The kiosk reads the sign-off list (HandleTrackerDue).
ShowForm(s) ==
    /\ s \in here
    /\ form' = [form EXCEPT ![s] = Pending(s)]
    /\ Step(Request, {})
    /\ UNCHANGED <<item, resp, day, here, req>>

\* SaveTrackerResponses: the checkout and every answer in one transaction;
\* nothing is stored for a student who has left.  The page sends notes only
\* with "not done".
Respond(s, status, noted) ==
    /\ form[s] # None
    /\ Operation(Request, {})
    /\ form' = [form EXCEPT ![s] = None]
    /\ IF s \in here
       THEN /\ AddAnswers({Reply(s, i, status[i], "checkout", noted[i], 0) : i \in form[s]})
            /\ here' = here \ {s}
       ELSE UNCHANGED <<resp, here>>
    /\ UNCHANGED <<item, day, req>>

\* Any item id and any date are accepted; an unknown item is not modelled.
LateSignoff(s, i, d, status, noted) ==
    /\ Exists(i)
    /\ Operation(Request, {})
    /\ AddAnswers({Reply(s, i, status, "late", noted, d)})
    /\ UNCHANGED <<item, day, here, form, req>>

-----------------------------------------------------------------------------
(* HandleAssignLibraryItem: S are the students its list names *)

BeginAssign(r, i, S) ==
    /\ At(r, "idle") /\ Live(i) /\ S # {}
    /\ Operation(Others(r), {})
    /\ req' = [req EXCEPT ![r] = [Idle EXCEPT !.pc = "as_copy", !.id = i,
                                              !.to = S, !.draft = item[i].draft]]
    /\ UNCHANGED <<item, resp, day, here, form>>

\* A copy for each entry of the list; an item that already had a student stays.
AssignCopy(r) ==
    /\ At(r, "as_copy")
    /\ InsertList(req[r].to, req[r].draft, req[r].id)
    /\ IF item[req[r].id].student = None
       THEN req' = [req EXCEPT ![r].pc = "as_remove"]
       ELSE Return(r)
    /\ Step(Others(r), {})
    /\ UNCHANGED <<resp, day, here, form>>

\* (mutant) the template stays in the library
AssignRemove_Kept(r) ==
    /\ At(r, "as_remove")
    /\ Return(r)
    /\ Step(Others(r), {})
    /\ UNCHANGED <<item, resp, day, here, form>>

AssignRemove(r) ==
    /\ At(r, "as_remove")
    /\ item' = [item EXCEPT ![req[r].id].deleted = TRUE]
    /\ Return(r)
    /\ Step(Others(r), {})
    /\ UNCHANGED <<resp, day, here, form>>

\* The copy is rolled back and reported; the error of the removal is ignored.
AssignFails(r) ==
    /\ req[r].pc \in {"as_copy", "as_remove"}
    /\ Return(r)
    /\ Step(Others(r), {"failure"})
    /\ UNCHANGED <<item, resp, day, here, form>>

-----------------------------------------------------------------------------
(* HandleProfileSave: SaveProfileTrackerValues, AutoAssignProfileTasks *)

\* The values of the profile form in one transaction (a failure is logged and
\* leaves V empty), then the center items: nothing that a property speaks of
\* is read between the two.
BeginProfile(r, s, V) ==
    /\ At(r, "idle")
    /\ Operation(Others(r), {})
    /\ \A i \in V : Center(i)
    /\ AddAnswers({Reply(s, i, "done", "profile", TRUE, 0) : i \in V})
    /\ req' = [req EXCEPT ![r] = [Idle EXCEPT
                 !.pc = "pr_values", !.to = {s},
                 !.gaps = [i \in Id |-> IF Center(i) THEN item[i].draft ELSE None]]]
    /\ UNCHANGED <<item, day, here, form>>

\* GetLatestTrackerValues: the latest answer to the item has notes.
Valued(s, i) ==
    \E a \in Answers(s, i) : a.noted /\ \A b \in Answers(s, i) : b.at <= a.at

ProfileValues(r) ==
    /\ At(r, "pr_values")
    /\ req' = [req EXCEPT ![r].pc = "pr_names",
                 ![r].gaps = [i \in Id |-> IF \E s \in req[r].to : Valued(s, i)
                                           THEN None ELSE @[i]]]
    /\ Step(Others(r), {})
    /\ UNCHANGED <<item, resp, day, here, form>>

\* (mutant) names of the student's items are not compared
ProfileNames_Skip(r) ==
    /\ At(r, "pr_names")
    /\ req' = [req EXCEPT ![r].pc = "pr_insert",
                 ![r].gaps = [i \in Id |->
                    IF @[i] # None /\ req[r].to \subseteq @[i].gap
                    THEN @[i] ELSE None]]
    /\ Step(Others(r), {})
    /\ UNCHANGED <<item, resp, day, here, form>>

ProfileNames(r) ==
    LET taken == {item[j].draft.name : j \in UNION {Owned(s) : s \in req[r].to}} IN
    /\ At(r, "pr_names")
    /\ req' = [req EXCEPT ![r].pc = "pr_insert",
                 ![r].gaps = [i \in Id |->
                    IF @[i] # None /\ @[i].name \notin taken
                                   /\ req[r].to \subseteq @[i].gap
                    THEN @[i] ELSE None]]
    /\ Step(Others(r), {})
    /\ UNCHANGED <<item, resp, day, here, form>>

Gaps(r) == {i \in Id : req[r].gaps[i] # None}

\* One INSERT for each gap, in the order of the items; its error is ignored.
ProfileInsert(r) ==
    /\ At(r, "pr_insert")
    /\ \E i \in Gaps(r) :
          LET task == [req[r].gaps[i] EXCEPT !.type = "task", !.rec = "none",
                                             !.start = 1, !.until = MaxDay] IN
          /\ \A j \in Gaps(r) : i <= j
          /\ req' = [req EXCEPT ![r].gaps[i] = None]
          /\ \/ Insert(req[r].to, task, i) /\ Step(Others(r), {})
             \/ UNCHANGED item /\ Step(Others(r), {"failure"})
    /\ UNCHANGED <<resp, day, here, form>>

ProfileDone(r) ==
    /\ At(r, "pr_insert") /\ Gaps(r) = {}
    /\ Return(r)
    /\ Step(Others(r), {})
    /\ UNCHANGED <<item, resp, day, here, form>>

-----------------------------------------------------------------------------
(* The world outside *)

CheckIn(s) ==
    /\ here' = here \cup {s}
    /\ s \notin here
    /\ UNCHANGED <<item, resp, day, form, req, met, ops>>

\* Sessions left open are of yesterday: no checkout finds them.
NextDay ==
    /\ day < MaxDay
    /\ day' = day + 1
    /\ here' = {}
    /\ UNCHANGED <<item, resp, form, req, met, ops>>

-----------------------------------------------------------------------------
Init ==
    /\ item = [i \in Id |-> None]
    /\ resp = {}
    /\ day = 1
    /\ here = {}
    /\ form = [s \in Student |-> None]
    /\ req = [r \in Request |-> Idle]
    /\ met = {}
    /\ ops = 0

Next ==
    \/ \E d \in Draft, b \in BOOLEAN : CreateCenter(d, b)
    \/ \E d \in Draft, s \in Student \cup {None} : CreatePersonal(d, s)
    \/ \E i \in Id, d \in Draft, b \in BOOLEAN : UpdateItem(i, d, b)
    \/ \E i \in Id : DeleteItem(i)
    \/ \E d \in Draft, S \in SUBSET Student : BulkAssign(d, S)
    \/ \E i \in Id : CompleteItem(i)
    \/ \E i \in Id : UncompleteItem(i)
    \/ \E s \in Student : ShowForm(s)
    \/ \E s \in Student : form[s] # None /\
         \E status \in [form[s] -> {"done", "not_done"}], b \in BOOLEAN :
           Respond(s, status, [i \in form[s] |-> b /\ status[i] = "not_done"])
    \/ \E s \in Student, i \in Id, d \in Day, st \in {"done", "not_done"},
         b \in BOOLEAN : LateSignoff(s, i, d, st, b)
    \/ \E r \in Request :
        \/ \E i \in Id, S \in SUBSET Student : BeginAssign(r, i, S)
        \/ AssignCopy(r) \/ AssignRemove(r) \/ AssignFails(r)
        \/ \E s \in Student, V \in SUBSET Id : BeginProfile(r, s, V)
        \/ ProfileValues(r) \/ ProfileNames(r)
        \/ ProfileInsert(r) \/ ProfileDone(r)
    \/ \E s \in Student : CheckIn(s)
    \/ NextDay

Spec == Init /\ [][Next]_vars

-----------------------------------------------------------------------------
(* Properties *)

\* CompleteTaskItem and UncompleteTaskItem keep the flag of the item and the
\* answer it stands for together, whatever happens to the item in between.
CompletionRecorded ==
    \A i \in Id : Exists(i) =>
        (item[i].completed <=>
            \E a \in resp : a.item = i /\ a.via = "board")

\* SaveTrackerResponses and GetDueItems: what a student has answered at
\* checkout is not asked again that day, except for a one-time item that has
\* only been answered "not done".
NotAskedAgain ==
    \A a \in resp :
        (a.via = "checkout" /\ a.day = day /\ a.item \in Due(a.student, day)) =>
            /\ item[a.item].draft.rec = "none"
            /\ a.status = "not_done"

Given(a) == a.via \in {"checkout", "profile"}

\* UncompleteTaskItem: answers of a checkout and of a profile are never
\* removed, and a late sign-off only together with the completion of its item.
AnswersKept ==
    [][\A a \in resp \ resp' :
          ~Given(a) /\ a.status = "done" /\ ~item'[a.item].completed]_vars

\* SaveLateSignoff and GetDueItems: an answer for a day of an earlier week and
\* month does not answer for today.
LateForItsDay ==
    [][\A a \in resp' \ resp :
          (/\ item' = item /\ day' = day
           /\ a.via = "late"
           /\ a.due < WeekStart(day) /\ Month(a.due) < Month(day)
           /\ item[a.item].draft.rec # "none")
          => \A s \in Student : Due(s, day)' = Due(s, day)]_vars

Copies(t, s) == {i \in Id : Exists(i) /\ item[i].from = t /\ item[i].student = s}
Template(t)  == Exists(t) /\ item[t].student = None /\ ~item[t].center

\* HandleAssignLibraryItem: a template is handed out by one request, so that a
\* student has as many copies of it as that request's list names him, as long
\* as requests do not overlap and the removal of the template succeeds.
AssignedOnce ==
    [][\A t \in Id :
        (/\ Template(t) /\ met' \cap {"overlap", "failure"} = {}
         /\ \E k \in Id : ~Exists(k) /\ item'[k] # None /\ item'[k].from = t)
        => \A s \in Student : Copies(t, s) = {}]_vars

\* AutoAssignProfileTasks does not give a student a second live item of a
\* name, as long as requests do not overlap and center items differ in name.
NoSecondCopy ==
    [][\A i \in Id :
        (/\ \E r \in Request : At(r, "pr_insert") /\ req'[r] # req[r]
         /\ ~Exists(i) /\ item'[i] # None
         /\ met' \cap {"overlap", "twins"} = {})
        => \A j \in Owned(item'[i].student) :
              item[j].draft.name # item'[i].draft.name]_vars

\* The two tables at every moment: well formed, and of one mind about what is
\* completed (database/tracker.go:204).
BoardIsSound == TypeOK /\ CompletionRecorded
=============================================================================
