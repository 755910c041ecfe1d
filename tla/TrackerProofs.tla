----------------------------- MODULE TrackerProofs -----------------------------
(***************************************************************************)
(* Theorems about Tracker, for any number of requests, students, drafts,   *)
(* rows, days and operations.                                              *)
(***************************************************************************)
EXTENDS Tracker, TLAPS

-----------------------------------------------------------------------------
(* The inductive invariant *)

\* What refers to an item refers to one that is there: rows are never removed.
\* A request that is over leaves nothing.
Anchored ==
    /\ \A a \in resp : Exists(a.item)
    /\ \A i \in Id : Exists(i) /\ item[i].from # 0 => Exists(item[i].from)
    /\ \A s \in Student : form[s] # None => \A i \in form[s] : Exists(i)
    /\ \A r \in Request :
          /\ req[r].pc \in {"as_copy", "as_remove"} =>
                req[r].id \in Id /\ Exists(req[r].id)
          /\ At(r, "as_copy") => req[r].draft # None
          /\ At(r, "idle") => req[r] = Idle
          /\ \A i \in Gaps(r) : Exists(i) /\ item[i].center

\* How an answer was stored tells its status and whether it has a due date.
AnswersTell ==
    \A a \in resp : /\ a.via = "board" => a.status = "done"
                    /\ a.via = "checkout" => a.due = 0

\* Requests that have not overlapped run one at a time.
Alone ==
    "overlap" \notin met =>
        \A p, q \in Request : p # q => At(p, "idle") \/ At(q, "idle")

\* A template that can still be assigned has no copies, except between the
\* statement that makes them and the one that removes it.
AssignInv ==
    met \cap {"overlap", "failure"} = {} =>
        /\ \A r \in Request : At(r, "as_copy") => Live(req[r].id)
        /\ \A t \in Id : Template(t) /\ Live(t) =>
              \/ \A s \in Student : Copies(t, s) = {}
              \/ \E r \in Request : At(r, "as_remove") /\ req[r].id = t

\* The live center items differ in name.
NoTwins ==
    "twins" \notin met =>
        \A i, j \in Id : /\ i # j
                         /\ Live(i) /\ item[i].center
                         /\ Live(j) /\ item[j].center
                         => item[i].draft.name # item[j].draft.name

\* The gaps that a save of a profile goes on to fill differ in name from each
\* other and from what the student has.
GapsInv ==
    met \cap {"overlap", "twins"} = {} =>
        \A r \in Request :
            /\ ~At(r, "idle") => \A i, j \in Gaps(r) :
                  i # j => req[r].gaps[i].name # req[r].gaps[j].name
            /\ At(r, "pr_insert") =>
                  \A i \in Gaps(r) : \A s \in req[r].to : \A j \in Owned(s) :
                      item[j].draft.name # req[r].gaps[i].name

IInv == /\ TypeOK /\ Anchored /\ AnswersTell /\ CompletionRecorded
        /\ Alone /\ AssignInv /\ NoTwins /\ GapsInv

-----------------------------------------------------------------------------
(* What the operators return *)

LEMMA Bounds ==
    /\ MaxItem \in Nat /\ MaxItem > 0 /\ MaxDay \in Nat /\ MaxDay > 0
    /\ MaxOp \in Nat /\ WeekLen \in Nat /\ WeekLen > 0 /\ MonthLen \in Nat /\ MonthLen > 0
BY BoundsAssumption, CalendarAssumption

LEMMA NoneIsNone ==
    /\ None \notin Student /\ None \notin ItemRow /\ None \notin DraftType
    /\ \A S \in SUBSET Id : S # None
BY NoneAssumption

LEMMA RowType ==
    ASSUME NEW d \in DraftType, NEW s \in Student \cup {None}, NEW i \in Id \cup {0}
    PROVE  /\ Row(d, s, i) \in ItemRow
           /\ Row(d, s, i) # None
           /\ \A c, b \in BOOLEAN : [Row(d, s, i) EXCEPT !.center = c, !.active = b] \in ItemRow
<1>1. Row(d, s, i) \in ItemRow
  BY DEF Row, ItemRow
<1>2. ASSUME NEW c \in BOOLEAN, NEW b \in BOOLEAN, NEW x \in ItemRow
      PROVE  [x EXCEPT !.center = c, !.active = b] \in ItemRow
  BY DEF ItemRow
<1> QED  BY <1>1, <1>2, NoneIsNone

LEMMA ReplyType ==
    ASSUME ops \in 0..MaxOp, ops < MaxOp, day \in Day,
           NEW s \in Student, NEW i \in Id, NEW status \in {"done", "not_done"},
           NEW via \in {"checkout", "board", "late", "profile"}, NEW noted \in BOOLEAN,
           NEW due \in Day \cup {0}
    PROVE  Reply(s, i, status, via, noted, due) \in Answer
<1>1. ops + 1 \in 1..MaxOp
  BY Bounds
<1> QED  BY <1>1 DEF Reply, Answer

LEMMA ItemExists ==
    ASSUME TypeOK, NEW i \in Id, Exists(i)
    PROVE  /\ item[i] \in ItemRow
           /\ item[i].draft \in DraftType /\ item[i].student \in Student \cup {None}
           /\ item[i].center \in BOOLEAN /\ item[i].from \in Id \cup {0}
           /\ item[i].active \in BOOLEAN /\ item[i].deleted \in BOOLEAN
           /\ item[i].completed \in BOOLEAN
BY DEF TypeOK, Exists, ItemRow

\* Inserting rows, one for each student or one for each entry of a list: the
\* rows that are there stay, and the new ones are the draft's.
Inserts(S, d, i) == Insert(S, d, i) \/ InsertList(S, d, i)

Fresh(k) == ~Exists(k) /\ item'[k] # None

Added(S, d, i) ==
    /\ item' \in [Id -> ItemRow \cup {None}]
    /\ \A k \in Id : Exists(k) => item'[k] = item[k]
    /\ \A k \in Id : Fresh(k) =>
          /\ item'[k].draft = d /\ item'[k].student \in S /\ item'[k].from = i
          /\ ~item'[k].center /\ ~item'[k].completed

LEMMA Inserted ==
    ASSUME TypeOK, NEW S \in SUBSET (Student \cup {None}), NEW d \in DraftType,
           NEW i \in Id \cup {0}, Inserts(S, d, i)
    PROVE  Added(S, d, i)
<1>1. PICK I \in SUBSET Free : InsertRows(I, S, d, i)
  BY DEF Inserts, Insert, InsertList
<1>2. PICK who \in Surjection(I, S) :
          item' = [k \in Id |-> IF k \in I THEN Row(d, who[k], i) ELSE item[k]]
  BY <1>1 DEF InsertRows
<1>3. who \in [I -> S]
  BY DEF Surjection
<1>4. I \subseteq Id /\ \A k \in I : ~Exists(k)
  BY DEF Free
<1>5. \A k \in I : Row(d, who[k], i) \in ItemRow
  BY <1>3, RowType
<1>6. /\ \A k \in I : item'[k] = Row(d, who[k], i)
      /\ \A k \in Id \ I : item'[k] = item[k]
  BY <1>2, <1>4
<1>7. item' \in [Id -> ItemRow \cup {None}]
  BY <1>2, <1>5 DEF TypeOK
<1>8. \A k \in Id : Exists(k) => item'[k] = item[k]
  BY <1>4, <1>6
<1>9. \A k \in Id : Fresh(k) => k \in I
  BY <1>6 DEF Fresh, Exists
<1>10. \A k \in I : item'[k] = Row(d, who[k], i) /\ who[k] \in S
  BY <1>3, <1>6
<1>11. \A s : LET x == Row(d, s, i) IN
          x.draft = d /\ x.student = s /\ x.from = i /\ ~x.center /\ ~x.completed
  BY DEF Row
<1>12. ASSUME NEW k \in Id, Fresh(k)
       PROVE  /\ item'[k].draft = d /\ item'[k].student \in S /\ item'[k].from = i
              /\ ~item'[k].center /\ ~item'[k].completed
  BY <1>9, <1>10, <1>11, <1>12
<1> QED  BY <1>7, <1>8, <1>12 DEF Added

\* A draft that fills a gap.
LEMMA TaskType ==
    ASSUME NEW d \in DraftType
    PROVE  LET task == [d EXCEPT !.type = "task", !.rec = "none",
                                 !.start = 1, !.until = MaxDay] IN
           task \in DraftType /\ task.name = d.name
<1>1. 1 \in Day /\ MaxDay \in Day
  BY Bounds DEF Day
<1> QED  BY <1>1 DEF DraftType

\* The bookkeeping of an action: what it adds to the history, and that an
\* overlap with a request of R is noted.
LEMMA Noted ==
    ASSUME TypeOK, NEW R \in SUBSET Request, NEW h \in SUBSET {"failure", "twins"},
           Operation(R, h) \/ Step(R, h)
    PROVE  /\ ops' \in 0..MaxOp
           /\ met' \subseteq {"overlap", "failure", "twins"}
           /\ met \subseteq met' /\ h \subseteq met' /\ met' \subseteq met \cup h \cup {"overlap"}
           /\ "overlap" \notin met' => \A r \in R : At(r, "idle")
<1>1. ops' \in 0..MaxOp
  BY Bounds DEF Operation, Step, TypeOK
<1>2. met' = met \cup Overlap(R) \cup h
  BY DEF Operation, Step
<1>3. Overlap(R) \subseteq {"overlap"} /\ ("overlap" \notin Overlap(R) => ~Busy(R))
  BY DEF Overlap
<1>4. ~Busy(R) => \A r \in R : At(r, "idle")
  BY DEF Busy
<1>5. met \subseteq {"overlap", "failure", "twins"}
  BY DEF TypeOK
<1> QED  BY <1>1, <1>2, <1>3, <1>4, <1>5

\* Rows are never removed, and keep their scope, student and origin; no row
\* comes back from its deletion.
Grown ==
    \A i \in Id : Exists(i) =>
        /\ Exists(i)'
        /\ item'[i].center = item[i].center /\ item'[i].student = item[i].student
        /\ item'[i].from = item[i].from
        /\ item[i].deleted => item'[i].deleted

LEMMA InsertGrows ==
    ASSUME TypeOK, NEW S \in SUBSET (Student \cup {None}), NEW d \in DraftType,
           NEW i \in Id \cup {0}, Inserts(S, d, i)
    PROVE  item' \in [Id -> ItemRow \cup {None}] /\ Grown
<1>1. Added(S, d, i)
  BY Inserted
<1> QED  BY <1>1 DEF Added, Grown, Exists

\* Changing one row that is there.
LEMMA RowGrows ==
    ASSUME TypeOK, NEW i \in Id, Exists(i), NEW x \in ItemRow, item' = [item EXCEPT ![i] = x],
           x.center = item[i].center, x.student = item[i].student, x.from = item[i].from,
           item[i].deleted => x.deleted
    PROVE  /\ item' \in [Id -> ItemRow \cup {None}] /\ Grown
           /\ item'[i] = x /\ \A j \in Id : j # i => item'[j] = item[j]
<1>1. /\ item' \in [Id -> ItemRow \cup {None}]
      /\ item'[i] = x /\ \A j \in Id : j # i => item'[j] = item[j]
  BY DEF TypeOK
<1>2. x # None
  BY NoneIsNone
<1>3. Grown
  BY <1>1, <1>2 DEF Grown, Exists
<1> QED  BY <1>1, <1>3

\* The fields an action writes.
LEMMA Fields ==
    ASSUME TypeOK, NEW i \in Id, Exists(i), NEW d \in DraftType, NEW a \in BOOLEAN, NEW c \in BOOLEAN
    PROVE  /\ [item EXCEPT ![i].draft = d, ![i].active = a] =
                  [item EXCEPT ![i] = [item[i] EXCEPT !.draft = d, !.active = a]]
           /\ [item EXCEPT ![i].deleted = TRUE] =
                  [item EXCEPT ![i] = [item[i] EXCEPT !.deleted = TRUE]]
           /\ [item EXCEPT ![i].completed = c] =
                  [item EXCEPT ![i] = [item[i] EXCEPT !.completed = c]]
           /\ [item[i] EXCEPT !.draft = d, !.active = a] \in ItemRow
           /\ [item[i] EXCEPT !.deleted = TRUE] \in ItemRow
           /\ [item[i] EXCEPT !.completed = c] \in ItemRow
<1>1. item[i] \in ItemRow /\ item \in [Id -> ItemRow \cup {None}]
  BY ItemExists DEF TypeOK
<1>2. /\ [item[i] EXCEPT !.draft = d, !.active = a] \in ItemRow
      /\ [item[i] EXCEPT !.deleted = TRUE] \in ItemRow
      /\ [item[i] EXCEPT !.completed = c] \in ItemRow
  BY <1>1 DEF ItemRow
<1>3. [item EXCEPT ![i].draft = d, ![i].active = a] =
          [item EXCEPT ![i] = [item[i] EXCEPT !.draft = d, !.active = a]]
  BY <1>1 DEF ItemRow
<1>4. [item EXCEPT ![i].deleted = TRUE] = [item EXCEPT ![i] = [item[i] EXCEPT !.deleted = TRUE]]
  OBVIOUS
<1>5. [item EXCEPT ![i].completed = c] = [item EXCEPT ![i] = [item[i] EXCEPT !.completed = c]]
  OBVIOUS
<1> QED  BY <1>2, <1>3, <1>4, <1>5

-----------------------------------------------------------------------------
(* Types *)

LEMMA IdleType == Idle \in Local /\ Idle.pc = "idle" /\ Idle.gaps = NoGaps
                  /\ \A i \in Id : NoGaps[i] = None
BY DEF Idle, NoGaps, Local

\* A step that writes neither items nor answers nor forms.
LEMMA ReqTypes ==
    ASSUME TypeOK, NEW r \in Request, NEW x \in Local, req' = [req EXCEPT ![r] = x]
    PROVE  /\ req' \in [Request -> Local]
           /\ req'[r] = x /\ \A q \in Request : q # r => req'[q] = req[q]
BY DEF TypeOK

LEMMA ReqType ==
    ASSUME TypeOK, NEW r \in Request
    PROVE  /\ req[r] \in Local
           /\ req[r].pc \in {"idle", "as_copy", "as_remove", "pr_values", "pr_names", "pr_insert"}
           /\ req[r].id \in Id \cup {0} /\ req[r].to \in SUBSET Student
           /\ req[r].draft \in DraftType \cup {None}
           /\ req[r].gaps \in [Id -> DraftType \cup {None}]
BY DEF TypeOK, Local

\* The local state after each step of a request.
LEMMA Begun ==
    ASSUME TypeOK, NEW r \in Request, NEW i \in Id, Exists(i), NEW S \in SUBSET Student
    PROVE  LET x == [Idle EXCEPT !.pc = "as_copy", !.id = i, !.to = S, !.draft = item[i].draft] IN
           /\ x \in Local /\ x.pc = "as_copy" /\ x.id = i /\ x.to = S
           /\ x.draft = item[i].draft /\ x.gaps = NoGaps
BY ItemExists, IdleType DEF Local, Idle

LEMMA ProfileBegun ==
    ASSUME TypeOK, NEW s \in Student
    PROVE  LET g == [i \in Id |-> IF Center(i) THEN item[i].draft ELSE None]
               x == [Idle EXCEPT !.pc = "pr_values", !.to = {s}, !.gaps = g] IN
           /\ x \in Local /\ x.pc = "pr_values" /\ x.to = {s} /\ x.gaps = g
<1> DEFINE g == [i \in Id |-> IF Center(i) THEN item[i].draft ELSE None]
<1>1. g \in [Id -> DraftType \cup {None}]
  BY ItemExists DEF Center, Live
<1> HIDE DEF g
<1>2. [Idle EXCEPT !.pc = "pr_values", !.to = {s}, !.gaps = g] \in Local
  BY <1>1 DEF Local, Idle
<1>3. LET x == [Idle EXCEPT !.pc = "pr_values", !.to = {s}, !.gaps = g] IN
      x.pc = "pr_values" /\ x.to = {s} /\ x.gaps = g
  BY DEF Idle
<1> QED  BY <1>2, <1>3 DEF g

\* The gaps that pass a check.
Kept(r, g) == \A i \in Id : g[i] # None => g[i] = req[r].gaps[i]

LEMMA Passed ==
    ASSUME TypeOK, NEW r \in Request, ProfileValues(r) \/ ProfileNames(r)
    PROVE  \E g \in [Id -> DraftType \cup {None}], pc \in {"pr_names", "pr_insert"} :
              /\ Kept(r, g)
              /\ \/ ProfileValues(r) /\ At(r, "pr_values") /\ pc = "pr_names"
                 \/ ProfileNames(r) /\ At(r, "pr_names") /\ pc = "pr_insert"
              /\ [req[r] EXCEPT !.pc = pc, !.gaps = g] \in Local
              /\ req' = [req EXCEPT ![r] = [req[r] EXCEPT !.pc = pc, !.gaps = g]]
<1>1. req[r] \in Local /\ req \in [Request -> Local] /\ req[r].gaps \in [Id -> DraftType \cup {None}]
  BY ReqType DEF TypeOK
<1>2. ASSUME NEW g \in [Id -> DraftType \cup {None}], NEW pc \in {"pr_names", "pr_insert"}
      PROVE  [req[r] EXCEPT !.pc = pc, !.gaps = g] \in Local
  BY <1>1 DEF Local
<1>3. CASE ProfileValues(r)
  <2> DEFINE g == [i \in Id |-> IF \E s \in req[r].to : Valued(s, i) THEN None ELSE req[r].gaps[i]]
  <2>1. g \in [Id -> DraftType \cup {None}] /\ Kept(r, g)
    BY <1>1 DEF Kept
  <2>2. At(r, "pr_values") /\ req' = [req EXCEPT ![r] = [req[r] EXCEPT !.pc = "pr_names", !.gaps = g]]
    BY <1>1, <1>3 DEF ProfileValues
  <2> QED  BY <2>1, <2>2, <1>2, <1>3
<1>4. CASE ProfileNames(r)
  <2> DEFINE taken == {item[j].draft.name : j \in UNION {Owned(s) : s \in req[r].to}}
             g == [i \in Id |-> IF req[r].gaps[i] # None /\ req[r].gaps[i].name \notin taken
                                   /\ req[r].to \subseteq req[r].gaps[i].gap
                                THEN req[r].gaps[i] ELSE None]
  <2>1. g \in [Id -> DraftType \cup {None}] /\ Kept(r, g)
    BY <1>1 DEF Kept
  <2>2. At(r, "pr_names") /\ req' = [req EXCEPT ![r] = [req[r] EXCEPT !.pc = "pr_insert", !.gaps = g]]
    BY <1>1, <1>4 DEF ProfileNames
  <2> QED  BY <2>1, <2>2, <1>2, <1>4
<1> QED  BY <1>3, <1>4

\* A row that a step writes.
LEMMA RowWritten ==
    ASSUME TypeOK, NEW i \in Id,
           \/ \E d \in Draft, b \in BOOLEAN : UpdateItem(i, d, b)
           \/ DeleteItem(i) \/ CompleteItem(i) \/ UncompleteItem(i)
    PROVE  /\ Exists(i) /\ item' \in [Id -> ItemRow \cup {None}] /\ Grown
           /\ \A j \in Id : j # i => item'[j] = item[j]
<1> USE Fields, ItemExists
<1>1. ASSUME NEW d \in Draft, NEW b \in BOOLEAN, UpdateItem(i, d, b)
      PROVE  item' \in [Id -> ItemRow \cup {None}] /\ Grown /\ \A j \in Id : j # i => item'[j] = item[j]
  <2>1. Exists(i) /\ d \in DraftType
    BY <1>1, DraftAssumption DEF UpdateItem
  <2>2. [item[i] EXCEPT !.draft = d, !.active = b] \in ItemRow
    BY <2>1
  <2>3. item' = [item EXCEPT ![i] = [item[i] EXCEPT !.draft = d, !.active = b]]
    BY <2>1, <1>1 DEF UpdateItem
  <2> DEFINE x == [item[i] EXCEPT !.draft = d, !.active = b]
  <2>4. x.center = item[i].center /\ x.student = item[i].student /\ x.from = item[i].from
        /\ x.deleted = item[i].deleted
    BY <2>1 DEF ItemRow
  <2> HIDE DEF x
  <2> QED  BY <2>1, <2>2, <2>3, <2>4, RowGrows DEF x
<1>2. ASSUME DeleteItem(i)
      PROVE  item' \in [Id -> ItemRow \cup {None}] /\ Grown /\ \A j \in Id : j # i => item'[j] = item[j]
  <2>1. Exists(i)
    BY <1>2 DEF DeleteItem
  <2> DEFINE x == [item[i] EXCEPT !.deleted = TRUE]
  <2>2. x \in ItemRow /\ item' = [item EXCEPT ![i] = x]
    BY <2>1, <1>2 DEF DeleteItem
  <2>3. x.center = item[i].center /\ x.student = item[i].student /\ x.from = item[i].from /\ x.deleted
    BY <2>1 DEF ItemRow
  <2> HIDE DEF x
  <2> QED  BY <2>1, <2>2, <2>3, RowGrows
<1>3. ASSUME NEW c \in BOOLEAN, Exists(i), item' = [item EXCEPT ![i].completed = c]
      PROVE  item' \in [Id -> ItemRow \cup {None}] /\ Grown /\ \A j \in Id : j # i => item'[j] = item[j]
  <2> DEFINE x == [item[i] EXCEPT !.completed = c]
  <2>2. x \in ItemRow /\ item' = [item EXCEPT ![i] = x]
    BY <1>3
  <2>3. x.center = item[i].center /\ x.student = item[i].student /\ x.from = item[i].from
        /\ x.deleted = item[i].deleted
    BY <1>3 DEF ItemRow
  <2> HIDE DEF x
  <2> QED  BY <1>3, <2>2, <2>3, RowGrows
<1> QED  BY <1>1, <1>2, <1>3 DEF UpdateItem, DeleteItem, CompleteItem, UncompleteItem

\* A new item of the center.
LEMMA CenterCreated ==
    ASSUME TypeOK, NEW d \in Draft, NEW b \in BOOLEAN, CreateCenter(d, b)
    PROVE  \E i \in Free :
              /\ item'[i].center /\ item'[i].draft = d /\ item'[i].student = None
              /\ item'[i].from = 0 /\ ~item'[i].completed /\ item'[i] # None
              /\ item' \in [Id -> ItemRow \cup {None}]
              /\ \A j \in Id : j # i => item'[j] = item[j]
<1> DEFINE x == [Row(d, None, 0) EXCEPT !.center = TRUE, !.active = b]
<1>1. PICK i \in Free : item' = [item EXCEPT ![i] = x]
  BY DEF CreateCenter
<1>2. x \in ItemRow
  BY DraftAssumption, RowType
<1>3. x.center /\ x.draft = d /\ x.student = None /\ x.from = 0 /\ ~x.completed
  BY DEF Row
<1> HIDE DEF x
<1>4. /\ item' \in [Id -> ItemRow \cup {None}] /\ item'[i] = x
      /\ \A j \in Id : j # i => item'[j] = item[j]
  BY <1>1, <1>2 DEF TypeOK, Free
<1> QED  BY <1>2, <1>3, <1>4, NoneIsNone

LEMMA CenterGrows ==
    ASSUME TypeOK, NEW d \in Draft, NEW b \in BOOLEAN, CreateCenter(d, b)
    PROVE  item' \in [Id -> ItemRow \cup {None}] /\ Grown
BY CenterCreated DEF Grown, Free, Exists

\* A gap that ProfileInsert fills or fails to fill.
LEMMA GapTaken ==
    ASSUME TypeOK, NEW r \in Request, ProfileInsert(r)
    PROVE  \E i \in Gaps(r), task \in DraftType :
              /\ task.name = req[r].gaps[i].name
              /\ req[r].gaps[i] \in DraftType
              /\ [req[r] EXCEPT !.gaps[i] = None] \in Local
              /\ req' = [req EXCEPT ![r] = [req[r] EXCEPT !.gaps[i] = None]]
              /\ \/ Insert(req[r].to, task, i) /\ Step(Others(r), {})
                 \/ UNCHANGED item /\ Step(Others(r), {"failure"})
<1> DEFINE task(i) == [req[r].gaps[i] EXCEPT !.type = "task", !.rec = "none",
                                             !.start = 1, !.until = MaxDay]
<1>1. PICK i \in Gaps(r) :
          /\ req' = [req EXCEPT ![r].gaps[i] = None]
          /\ \/ Insert(req[r].to, task(i), i) /\ Step(Others(r), {})
             \/ UNCHANGED item /\ Step(Others(r), {"failure"})
  BY DEF ProfileInsert
<1>2. req[r].gaps[i] \in DraftType
  BY ReqType DEF Gaps
<1>3. task(i) \in DraftType /\ task(i).name = req[r].gaps[i].name
  BY <1>2, TaskType
<1>4. [req[r] EXCEPT !.gaps[i] = None] \in Local
  BY ReqType DEF Local
<1>5. req' = [req EXCEPT ![r] = [req[r] EXCEPT !.gaps[i] = None]]
  BY <1>1
<1> HIDE DEF task
<1> QED  BY <1>1, <1>2, <1>3, <1>4, <1>5

\* An operation adds answers of the present day about items that are there.
LEMMA Answered ==
    ASSUME TypeOK, NEW s \in Student, NEW status \in [form[s] -> {"done", "not_done"}], NEW b \in BOOLEAN,
           form[s] # None,
           Respond(s, status, [i \in form[s] |-> b /\ status[i] = "not_done"])
    PROVE  /\ resp' \subseteq Answer /\ resp \subseteq resp'
           /\ \A a \in resp' \ resp : /\ a.item \in form[s] /\ a.student = s
                                      /\ a.via = "checkout" /\ a.due = 0 /\ a.day = day
           /\ form' \in [Student -> (SUBSET Id) \cup {None}]
           /\ form'[s] = None /\ \A t \in Student : t # s => form'[t] = form[t]
<1>1. form[s] \in SUBSET Id /\ form' \in [Student -> (SUBSET Id) \cup {None}]
      /\ form'[s] = None /\ \A t \in Student : t # s => form'[t] = form[t]
  BY DEF TypeOK, Respond
<1>2. ops \in 0..MaxOp /\ ops < MaxOp /\ day \in Day
  BY DEF TypeOK, Respond, Operation
<1> DEFINE noted == [i \in form[s] |-> b /\ status[i] = "not_done"]
           A(i) == Reply(s, i, status[i], "checkout", noted[i], 0)
<1>3. ASSUME NEW i \in form[s]
      PROVE  A(i) \in Answer
  <2>1. status[i] \in {"done", "not_done"} /\ noted[i] \in BOOLEAN /\ i \in Id
    BY <1>1, <1>3
  <2> HIDE DEF noted
  <2> QED  BY <2>1, <1>2, ReplyType
<1>4. ASSUME NEW i \in form[s]
      PROVE  A(i).item = i /\ A(i).student = s /\ A(i).via = "checkout" /\ A(i).due = 0 /\ A(i).day = day
  BY DEF Reply
<1>5. resp' = resp \/ resp' = resp \cup {A(i) : i \in form[s]}
  BY DEF Respond, AddAnswers
<1>6. resp \subseteq Answer
  BY DEF TypeOK
<1> HIDE DEF A
<1> QED  BY <1>1, <1>3, <1>4, <1>5, <1>6

LEMMA OneAnswered ==
    ASSUME TypeOK, NEW s \in Student, NEW i \in Id, NEW status \in {"done", "not_done"},
           NEW via \in {"checkout", "board", "late", "profile"}, NEW b \in BOOLEAN,
           NEW due \in Day \cup {0}, ops < MaxOp,
           resp' = resp \cup {Reply(s, i, status, via, b, due)}
    PROVE  /\ resp' \subseteq Answer
           /\ LET a == Reply(s, i, status, via, b, due) IN
              a.item = i /\ a.student = s /\ a.via = via /\ a.due = due /\ a.status = status
<1>1. Reply(s, i, status, via, b, due) \in Answer
  BY ReplyType DEF TypeOK
<1>2. LET a == Reply(s, i, status, via, b, due) IN
      a.item = i /\ a.student = s /\ a.via = via /\ a.due = due /\ a.status = status
  BY DEF Reply
<1> QED  BY <1>1, <1>2 DEF TypeOK

LEMMA Profiled ==
    ASSUME TypeOK, NEW s \in Student, NEW r \in Request, NEW V \in SUBSET Id, BeginProfile(r, s, V)
    PROVE  /\ resp' \subseteq Answer /\ resp \subseteq resp'
           /\ \A a \in resp' \ resp : a.item \in V /\ a.via = "profile" /\ a.status = "done"
<1> DEFINE A(i) == Reply(s, i, "done", "profile", TRUE, 0)
<1>1. \A i \in V : A(i) \in Answer
  BY ReplyType DEF TypeOK, BeginProfile, Operation
<1>2. \A i \in V : A(i).item = i /\ A(i).via = "profile" /\ A(i).status = "done"
  BY DEF Reply
<1>3. resp' = resp \cup {A(i) : i \in V}
  BY DEF BeginProfile, AddAnswers
<1>4. resp \subseteq Answer
  BY DEF TypeOK
<1> HIDE DEF A
<1> QED  BY <1>1, <1>2, <1>3, <1>4

LEMMA SameGrows == ASSUME UNCHANGED item PROVE Grown
BY DEF Grown, Exists

\* The same for a step of one request.
LEMMA OthersNoted ==
    ASSUME TypeOK, NEW r \in Request, NEW h \in SUBSET {"failure", "twins"},
           Operation(Others(r), h) \/ Step(Others(r), h)
    PROVE  /\ ops' \in 0..MaxOp
           /\ met' \subseteq {"overlap", "failure", "twins"}
           /\ met \subseteq met' /\ h \subseteq met' /\ met' \subseteq met \cup h \cup {"overlap"}
           /\ "overlap" \notin met' => \A q \in Request : q # r => At(q, "idle")
<1>1. Others(r) \in SUBSET Request
  BY DEF Others
<1>2. /\ ops' \in 0..MaxOp
      /\ met' \subseteq {"overlap", "failure", "twins"}
      /\ met \subseteq met' /\ h \subseteq met' /\ met' \subseteq met \cup h \cup {"overlap"}
      /\ "overlap" \notin met' => \A q \in Others(r) : At(q, "idle")
  BY <1>1, Noted
<1> QED  BY <1>2 DEF Others

\* Every step keeps the types, and the rows that are there.
LEMMA TypeStep ==
    ASSUME TypeOK, Anchored, [Next]_vars
    PROVE  TypeOK' /\ Grown
<1>1. ASSUME NEW d \in Draft, NEW b \in BOOLEAN, CreateCenter(d, b)
      PROVE  TypeOK' /\ Grown
  <2>1. item' \in [Id -> ItemRow \cup {None}] /\ Grown
    BY DraftAssumption, <1>1, CenterGrows
  <2> QED  BY <1>1, <2>1, Noted, DraftAssumption DEF TypeOK, CreateCenter
<1>2. ASSUME NEW d \in Draft, NEW s \in Student \cup {None}, CreatePersonal(d, s)
      PROVE  TypeOK' /\ Grown
  <2>1. item' \in [Id -> ItemRow \cup {None}] /\ Grown
    BY DraftAssumption, <1>2, InsertGrows DEF CreatePersonal, Inserts
  <2> QED  BY <1>2, <2>1, Noted, DraftAssumption DEF TypeOK, CreatePersonal
<1>3. ASSUME NEW d \in Draft, NEW i \in Id, NEW b \in BOOLEAN, UpdateItem(i, d, b)
      PROVE  TypeOK' /\ Grown
  <2>1. item' \in [Id -> ItemRow \cup {None}] /\ Grown
    BY DraftAssumption, <1>3, RowWritten
  <2> QED  BY <1>3, <2>1, Noted, DraftAssumption DEF TypeOK, UpdateItem
<1>4. ASSUME NEW i \in Id, DeleteItem(i)
      PROVE  TypeOK' /\ Grown
  <2>1. item' \in [Id -> ItemRow \cup {None}] /\ Grown
    BY <1>4, RowWritten
  <2> QED  BY <1>4, <2>1, Noted DEF TypeOK, DeleteItem
<1>5. ASSUME NEW d \in Draft, NEW S \in SUBSET Student, BulkAssign(d, S)
      PROVE  TypeOK' /\ Grown
  <2>1. item' \in [Id -> ItemRow \cup {None}] /\ Grown
    BY DraftAssumption, <1>5, InsertGrows DEF BulkAssign, Inserts
  <2> QED  BY <1>5, <2>1, Noted, DraftAssumption DEF TypeOK, BulkAssign
<1>6. ASSUME NEW i \in Id, CompleteItem(i)
      PROVE  TypeOK' /\ Grown
  <2>1. item' \in [Id -> ItemRow \cup {None}] /\ Grown
    BY <1>6, RowWritten
  <2>2. item[i].student \in Student
    BY <1>6, ItemExists DEF CompleteItem
  <2>3. resp' \subseteq Answer
    BY <1>6, <2>2, OneAnswered DEF CompleteItem, AddAnswers, Operation
  <2> QED  BY <1>6, <2>1, <2>3, Noted DEF TypeOK, CompleteItem
<1>7. ASSUME NEW i \in Id, UncompleteItem(i)
      PROVE  TypeOK' /\ Grown
  <2>1. item' \in [Id -> ItemRow \cup {None}] /\ Grown
    BY <1>7, RowWritten
  <2>2. resp' \subseteq Answer
    BY <1>7 DEF UncompleteItem, TypeOK
  <2> QED  BY <1>7, <2>1, <2>2, Noted DEF TypeOK, UncompleteItem
<1>8. ASSUME NEW s \in Student, ShowForm(s)
      PROVE  TypeOK' /\ Grown
  <2>1. Pending(s) \in SUBSET Id
    BY DEF Pending, Due
  <2>2. form' \in [Student -> (SUBSET Id) \cup {None}]
    BY <1>8, <2>1 DEF ShowForm, TypeOK
  <2> QED  BY <1>8, <2>2, Noted, SameGrows DEF TypeOK, ShowForm
<1>9. ASSUME NEW s \in Student, NEW status \in [form[s] -> {"done", "not_done"}], NEW b \in BOOLEAN,
             form[s] # None,
             Respond(s, status, [i \in form[s] |-> b /\ status[i] = "not_done"])
      PROVE  TypeOK' /\ Grown
  <2>1. resp' \subseteq Answer /\ form' \in [Student -> (SUBSET Id) \cup {None}]
    BY <1>9, Answered
  <2>2. here' \subseteq Student
    BY <1>9 DEF TypeOK, Respond
  <2> QED  BY <1>9, <2>1, <2>2, Noted, SameGrows DEF TypeOK, Respond
<1>10. ASSUME NEW s \in Student, NEW i \in Id, NEW d \in Day, NEW st \in {"done", "not_done"},
              NEW b \in BOOLEAN, LateSignoff(s, i, d, st, b)
       PROVE  TypeOK' /\ Grown
  <2>1. resp' \subseteq Answer
    BY <1>10, OneAnswered DEF LateSignoff, AddAnswers, Operation
  <2> QED  BY <1>10, <2>1, Noted, SameGrows DEF TypeOK, LateSignoff
<1>11. ASSUME NEW r \in Request, NEW i \in Id, NEW S \in SUBSET Student, BeginAssign(r, i, S)
       PROVE  TypeOK' /\ Grown
  <2> DEFINE x == [Idle EXCEPT !.pc = "as_copy", !.id = i, !.to = S, !.draft = item[i].draft]
  <2>0. x \in Local
    BY <1>11, Begun DEF BeginAssign, Live
  <2>1. req' \in [Request -> Local]
    BY <1>11, <2>0, ReqTypes DEF BeginAssign
  <2> QED  BY <1>11, <2>1, OthersNoted, SameGrows DEF TypeOK, BeginAssign
<1>12. ASSUME NEW r \in Request, AssignCopy(r)
       PROVE  TypeOK' /\ Grown
  <2>1. req[r].draft \in DraftType /\ req[r].id \in Id
    BY <1>12, ReqType DEF Anchored, AssignCopy, At
  <2>2. item' \in [Id -> ItemRow \cup {None}] /\ Grown
    BY <1>12, <2>1, ReqType, InsertGrows DEF AssignCopy, Inserts
  <2>3. [req[r] EXCEPT !.pc = "as_remove"] \in Local
    BY ReqType DEF Local
  <2>4. req' \in [Request -> Local]
    BY <1>12, <2>3, IdleType DEF AssignCopy, Return, TypeOK
  <2> QED  BY <1>12, <2>2, <2>4, OthersNoted DEF TypeOK, AssignCopy
<1>13. ASSUME NEW r \in Request, AssignRemove(r)
       PROVE  TypeOK' /\ Grown
  <2>1. req[r].id \in Id /\ Exists(req[r].id)
    BY <1>13 DEF Anchored, AssignRemove, At
  <2> DEFINE i == req[r].id
             x == [item[i] EXCEPT !.deleted = TRUE]
  <2>6. i \in Id /\ Exists(i)
    BY <2>1
  <2> HIDE DEF i
  <2>2. x \in ItemRow /\ [item EXCEPT ![i].deleted = TRUE] = [item EXCEPT ![i] = x]
    BY <2>6, Fields, ItemExists
  <2>7. item' = [item EXCEPT ![i] = x]
    BY <1>13, <2>2 DEF AssignRemove, i
  <2>3. x.center = item[i].center /\ x.student = item[i].student /\ x.from = item[i].from /\ x.deleted
    BY <2>6, ItemExists DEF ItemRow
  <2> HIDE DEF x
  <2>4. item' \in [Id -> ItemRow \cup {None}] /\ Grown
    BY <2>6, <2>2, <2>3, <2>7, RowGrows
  <2>5. req' \in [Request -> Local]
    BY <1>13, ReqTypes, IdleType DEF AssignRemove, Return
  <2> QED  BY <1>13, <2>4, <2>5, OthersNoted DEF TypeOK, AssignRemove
<1>14. ASSUME NEW r \in Request, AssignFails(r)
       PROVE  TypeOK' /\ Grown
  <2>1. req' \in [Request -> Local]
    BY <1>14, ReqTypes, IdleType DEF AssignFails, Return
  <2> QED  BY <1>14, <2>1, OthersNoted, SameGrows DEF TypeOK, AssignFails
<1>15. ASSUME NEW r \in Request, NEW s \in Student, NEW V \in SUBSET Id, BeginProfile(r, s, V)
       PROVE  TypeOK' /\ Grown
  <2> DEFINE g == [i \in Id |-> IF Center(i) THEN item[i].draft ELSE None]
             x == [Idle EXCEPT !.pc = "pr_values", !.to = {s}, !.gaps = g]
  <2>0. x \in Local
    BY ProfileBegun
  <2>1. req' \in [Request -> Local]
    BY <1>15, <2>0, ReqTypes DEF BeginProfile
  <2>2. resp' \subseteq Answer
    BY <1>15, Profiled
  <2> QED  BY <1>15, <2>1, <2>2, OthersNoted, SameGrows DEF TypeOK, BeginProfile
<1>16. ASSUME NEW r \in Request, ProfileValues(r) \/ ProfileNames(r)
       PROVE  TypeOK' /\ Grown
  <2>1. req' \in [Request -> Local]
    BY <1>16, Passed, ReqTypes
  <2> QED  BY <1>16, <2>1, OthersNoted, SameGrows DEF TypeOK, ProfileValues, ProfileNames
<1>17. ASSUME NEW r \in Request, ProfileInsert(r)
       PROVE  TypeOK' /\ Grown
  <2>1. PICK i \in Gaps(r), task \in DraftType :
              /\ [req[r] EXCEPT !.gaps[i] = None] \in Local
              /\ req' = [req EXCEPT ![r] = [req[r] EXCEPT !.gaps[i] = None]]
              /\ \/ Insert(req[r].to, task, i) /\ Step(Others(r), {})
                 \/ UNCHANGED item /\ Step(Others(r), {"failure"})
    BY <1>17, GapTaken
  <2>2. req' \in [Request -> Local]
    BY <2>1, ReqTypes
  <2>3. i \in Id
    BY DEF Gaps
  <2>5. ASSUME Insert(req[r].to, task, i)
        PROVE  item' \in [Id -> ItemRow \cup {None}] /\ Grown
    BY <2>3, <2>5, InsertGrows, ReqType DEF Inserts
  <2>4. item' \in [Id -> ItemRow \cup {None}] /\ Grown
    BY <2>1, <2>5, SameGrows DEF TypeOK
  <2> QED  BY <1>17, <2>1, <2>2, <2>4, OthersNoted DEF TypeOK, ProfileInsert
<1>18. ASSUME NEW r \in Request, ProfileDone(r)
       PROVE  TypeOK' /\ Grown
  <2>1. req' \in [Request -> Local]
    BY <1>18, ReqTypes, IdleType DEF ProfileDone, Return
  <2> QED  BY <1>18, <2>1, OthersNoted, SameGrows DEF TypeOK, ProfileDone
<1>19. ASSUME NEW s \in Student, CheckIn(s)
       PROVE  TypeOK' /\ Grown
  BY <1>19, Noted, SameGrows DEF CheckIn, TypeOK
<1>20. CASE NextDay
  <2>1. day' \in Day
    BY <1>20, Bounds DEF NextDay, TypeOK, Day
  <2> QED  BY <1>20, <2>1, Noted, SameGrows DEF NextDay, TypeOK
<1>21. CASE UNCHANGED vars
  BY <1>21, Noted, SameGrows DEF vars, TypeOK
<1> QED  BY <1>1, <1>2, <1>3, <1>4, <1>5, <1>6, <1>7, <1>8, <1>9, <1>10, <1>11, <1>12, <1>13,
            <1>14, <1>15, <1>16, <1>17, <1>18, <1>19, <1>20, <1>21 DEF Next

\* What becomes of the row that a step writes.
LEMMA RowFields ==
    ASSUME TypeOK, NEW i \in Id
    PROVE  /\ \A d \in Draft, b \in BOOLEAN : UpdateItem(i, d, b) =>
                 item'[i].draft = d /\ item'[i].completed = item[i].completed
           /\ DeleteItem(i) =>
                 item'[i].draft = item[i].draft /\ item'[i].completed = item[i].completed
           /\ CompleteItem(i) => item'[i].draft = item[i].draft /\ item'[i].completed
           /\ UncompleteItem(i) => item'[i].draft = item[i].draft /\ ~item'[i].completed
<1> USE Fields, ItemExists
<1>0. item \in [Id -> ItemRow \cup {None}]
  BY DEF TypeOK
<1>1. ASSUME NEW d \in Draft, NEW b \in BOOLEAN, UpdateItem(i, d, b)
      PROVE  item'[i].draft = d /\ item'[i].completed = item[i].completed
  <2>1. item[i] \in ItemRow
    BY <1>1 DEF UpdateItem
  <2>2. item'[i] = [item[i] EXCEPT !.draft = d, !.active = b]
    BY <1>0, <1>1, DraftAssumption DEF UpdateItem
  <2> QED  BY <2>1, <2>2 DEF ItemRow
<1>2. ASSUME DeleteItem(i)
      PROVE  item'[i].draft = item[i].draft /\ item'[i].completed = item[i].completed
  BY <1>0, <1>2 DEF DeleteItem, ItemRow
<1>3. ASSUME CompleteItem(i)
      PROVE  item'[i].draft = item[i].draft /\ item'[i].completed
  BY <1>0, <1>3 DEF CompleteItem, ItemRow
<1>4. ASSUME UncompleteItem(i)
      PROVE  item'[i].draft = item[i].draft /\ ~item'[i].completed
  BY <1>0, <1>4 DEF UncompleteItem, ItemRow
<1> QED  BY <1>1, <1>2, <1>3, <1>4

\* Where a row comes from: a form, or a copy of an item that is there.
LEMMA RowMade ==
    ASSUME TypeOK, Anchored, [Next]_vars, NEW k \in Id, ~Exists(k), Exists(k)'
    PROVE  /\ ~item'[k].completed
           /\ \/ item'[k].from = 0
              \/ \E r \in Request : /\ AssignCopy(r) /\ item'[k].from = req[r].id
                                    /\ req[r].id \in Id /\ Exists(req[r].id)
              \/ \E r \in Request : /\ ProfileInsert(r) /\ item'[k].from \in Gaps(r)
<1>1. ASSUME NEW S \in SUBSET (Student \cup {None}), NEW d \in DraftType, NEW i \in Id \cup {0},
             Inserts(S, d, i)
      PROVE  item'[k].from = i /\ ~item'[k].completed
  <2>1. Added(S, d, i)
    BY <1>1, Inserted
  <2> QED  BY <2>1 DEF Added, Fresh, Exists
<1>2. ASSUME NEW d \in Draft, NEW b \in BOOLEAN, CreateCenter(d, b)
      PROVE  item'[k].from = 0 /\ ~item'[k].completed
  BY <1>2, CenterCreated DEF Exists
<1>3. ASSUME NEW r \in Request, ProfileInsert(r)
      PROVE  item'[k].from \in Gaps(r) /\ ~item'[k].completed
  <2>1. PICK i \in Gaps(r), task \in DraftType : Insert(req[r].to, task, i) \/ UNCHANGED item
    BY <1>3, GapTaken
  <2>2. Insert(req[r].to, task, i) /\ i \in Id
    BY <2>1 DEF Exists, Gaps
  <2> QED  BY <1>1, <2>2, ReqType DEF Inserts
<1>4. ASSUME NEW r \in Request, AssignCopy(r)
      PROVE  /\ item'[k].from = req[r].id /\ ~item'[k].completed
             /\ req[r].id \in Id /\ Exists(req[r].id)
  <2>1. req[r].draft \in DraftType /\ req[r].id \in Id /\ Exists(req[r].id)
    BY <1>4, ReqType DEF Anchored, AssignCopy, At
  <2> QED  BY <1>1, <1>4, <2>1, ReqType DEF AssignCopy, Inserts
<1>5. ASSUME NEW r \in Request, AssignRemove(r)
      PROVE  FALSE
  <2>1. req[r].id \in Id /\ Exists(req[r].id)
    BY <1>5 DEF Anchored, AssignRemove, At
  <2> QED  BY <1>5, <2>1 DEF AssignRemove, Exists, TypeOK
<1>6. ASSUME NEW d \in Draft, NEW S \in SUBSET (Student \cup {None}), Inserts(S, d, 0)
      PROVE  item'[k].from = 0 /\ ~item'[k].completed
  BY <1>1, <1>6, DraftAssumption
<1>6a. ASSUME NEW d \in Draft, NEW S \in SUBSET (Student \cup {None}), Insert(S, d, 0)
      PROVE  item'[k].from = 0 /\ ~item'[k].completed
  BY <1>6, <1>6a DEF Inserts
<1>6b. ASSUME NEW d \in Draft, NEW S \in SUBSET (Student \cup {None}), InsertList(S, d, 0)
      PROVE  item'[k].from = 0 /\ ~item'[k].completed
  BY <1>6, <1>6b DEF Inserts
<1>7. ASSUME NEW i \in Id,
             \/ \E d \in Draft, b \in BOOLEAN : UpdateItem(i, d, b)
             \/ DeleteItem(i) \/ CompleteItem(i) \/ UncompleteItem(i)
      PROVE  FALSE
  BY <1>7, RowWritten DEF Exists
<1>8. CASE UNCHANGED item
  BY <1>8 DEF Exists
<1>9. CASE Next
  BY <1>2, <1>3, <1>4, <1>5, <1>6a, <1>6b, <1>7, <1>8, <1>9
     DEF Next, CreatePersonal, BulkAssign, ShowForm, Respond, LateSignoff, BeginAssign, AssignFails,
         BeginProfile, ProfileValues, ProfileNames, ProfileDone, CheckIn, NextDay
<1> QED  BY <1>8, <1>9 DEF vars

\* Which answers a step adds.
LEMMA AnswerMade ==
    ASSUME TypeOK, Anchored, [Next]_vars, NEW a \in resp', a \notin resp
    PROVE  /\ Exists(a.item)
           /\ \/ a.via = "profile" /\ \E r \in Request : req'[r] # req[r]
              \/ /\ a.via = "checkout" /\ a.due = 0 /\ a.day = day
                 /\ form'[a.student] = None /\ form[a.student] # None
              \/ a.via = "board" /\ a.status = "done" /\ CompleteItem(a.item)
              \/ a.via = "late" /\ UNCHANGED <<item, req>>
<1>1. ASSUME NEW i \in Id, CompleteItem(i)
      PROVE  Exists(a.item) /\ a.via = "board" /\ a.status = "done" /\ CompleteItem(a.item)
  <2>1. item[i].student \in Student /\ Exists(i)
    BY <1>1, ItemExists DEF CompleteItem
  <2>2. a = Reply(item[i].student, i, "done", "board", FALSE, 0)
    BY <1>1 DEF CompleteItem, AddAnswers
  <2> QED  BY <1>1, <2>1, <2>2 DEF Reply
<1>2. ASSUME NEW s \in Student, NEW status \in [form[s] -> {"done", "not_done"}], NEW b \in BOOLEAN,
             form[s] # None,
             Respond(s, status, [i \in form[s] |-> b /\ status[i] = "not_done"])
      PROVE  /\ Exists(a.item) /\ a.via = "checkout" /\ a.due = 0 /\ a.day = day
             /\ form'[a.student] = None /\ form[a.student] # None
  BY <1>2, Answered DEF Anchored
<1>3. ASSUME NEW s \in Student, NEW i \in Id, NEW d \in Day, NEW st \in {"done", "not_done"},
             NEW b \in BOOLEAN, LateSignoff(s, i, d, st, b)
      PROVE  Exists(a.item) /\ a.via = "late" /\ UNCHANGED <<item, req>>
  <2>1. a = Reply(s, i, st, "late", b, d) /\ Exists(i)
    BY <1>3 DEF LateSignoff, AddAnswers
  <2> QED  BY <1>3, <2>1 DEF Reply, LateSignoff
<1>4. ASSUME NEW r \in Request, NEW s \in Student, NEW V \in SUBSET Id, BeginProfile(r, s, V)
      PROVE  Exists(a.item) /\ a.via = "profile" /\ \E q \in Request : req'[q] # req[q]
  <2>1. a.item \in V /\ a.via = "profile"
    BY <1>4, Profiled
  <2>2. Exists(a.item)
    BY <1>4, <2>1 DEF BeginProfile, Center, Live
  <2> DEFINE g == [i \in Id |-> IF Center(i) THEN item[i].draft ELSE None]
             x == [Idle EXCEPT !.pc = "pr_values", !.to = {s}, !.gaps = g]
  <2>3. x \in Local /\ x.pc = "pr_values"
    BY ProfileBegun
  <2>4. req'[r] # req[r]
    BY <1>4, <2>3, ReqTypes DEF BeginProfile, At
  <2> QED  BY <2>1, <2>2, <2>4
<1>5. CASE resp' \subseteq resp
  BY <1>5
<1>6. ASSUME NEW i \in Id, UncompleteItem(i)
      PROVE  resp' \subseteq resp
  BY <1>6 DEF UncompleteItem
<1>7. CASE Next
  BY <1>1, <1>2, <1>3, <1>4, <1>5, <1>6, <1>7
     DEF Next, CreateCenter, CreatePersonal, UpdateItem, DeleteItem, BulkAssign, ShowForm, BeginAssign,
         AssignCopy, AssignRemove, AssignFails, ProfileValues, ProfileNames, ProfileInsert, ProfileDone,
         CheckIn, NextDay
<1> QED  BY <1>5, <1>7 DEF vars

-----------------------------------------------------------------------------
(* The parts of the invariant, one by one *)

\* The gaps of a request after a step.
LEMMA GapsStep ==
    ASSUME TypeOK, [Next]_vars, NEW r \in Request, NEW i \in Id, req'[r].gaps[i] # None
    PROVE  \/ req'[r].gaps[i] = req[r].gaps[i]
           \/ /\ req[r].pc = "idle" /\ req'[r].pc = "pr_values"
              /\ Center(i) /\ req'[r].gaps[i] = item[i].draft
<1> DEFINE Q == \/ req'[r].gaps[i] = req[r].gaps[i]
                \/ /\ req[r].pc = "idle" /\ req'[r].pc = "pr_values"
                   /\ Center(i) /\ req'[r].gaps[i] = item[i].draft
<1>0. ASSUME NEW q \in Request, NEW x \in Local, req' = [req EXCEPT ![q] = x],
             q = r => x.gaps[i] = None \/ x.gaps[i] = req[r].gaps[i]
      PROVE  Q
  BY <1>0, ReqTypes
<1>1. ASSUME NEW q \in Request, NEW j \in Id, NEW S \in SUBSET Student, BeginAssign(q, j, S)
      PROVE  Q
  <2> DEFINE x == [Idle EXCEPT !.pc = "as_copy", !.id = j, !.to = S, !.draft = item[j].draft]
  <2>1. x \in Local /\ x.gaps = NoGaps /\ req' = [req EXCEPT ![q] = x]
    BY <1>1, Begun DEF BeginAssign, Live
  <2> HIDE DEF x
  <2> QED  BY <1>0, <2>1, IdleType
<1>2. ASSUME NEW q \in Request, AssignCopy(q)
      PROVE  Q
  <2>1. [req[q] EXCEPT !.pc = "as_remove"] \in Local /\ [req[q] EXCEPT !.pc = "as_remove"].gaps = req[q].gaps
    BY ReqType DEF Local
  <2>2. \/ req' = [req EXCEPT ![q] = [req[q] EXCEPT !.pc = "as_remove"]]
        \/ req' = [req EXCEPT ![q] = Idle]
    BY <1>2 DEF AssignCopy, Return, TypeOK
  <2> QED  BY <1>0, <2>1, <2>2, IdleType
<1>3. ASSUME NEW q \in Request, Return(q)
      PROVE  Q
  BY <1>0, <1>3, IdleType DEF Return
<1>4. ASSUME NEW q \in Request, NEW s \in Student, NEW V \in SUBSET Id, BeginProfile(q, s, V)
      PROVE  Q
  <2> DEFINE g == [k \in Id |-> IF Center(k) THEN item[k].draft ELSE None]
             x == [Idle EXCEPT !.pc = "pr_values", !.to = {s}, !.gaps = g]
  <2>1. x \in Local /\ x.gaps = g /\ x.pc = "pr_values" /\ req' = [req EXCEPT ![q] = x] /\ req[q].pc = "idle"
    BY <1>4, ProfileBegun DEF BeginProfile, At
  <2>2. g[i] = (IF Center(i) THEN item[i].draft ELSE None)
    OBVIOUS
  <2> HIDE DEF x, g
  <2>3. req'[q] = x /\ (q # r => req'[r] = req[r])
    BY <2>1, ReqTypes
  <2>4. CASE q = r
    <3>1. req'[r].gaps[i] = g[i] /\ req'[r].pc = "pr_values"
      BY <2>1, <2>3, <2>4
    <3> QED  BY <2>1, <2>2, <2>4, <3>1
  <2> QED  BY <2>3, <2>4
<1>5. ASSUME NEW q \in Request, ProfileValues(q) \/ ProfileNames(q)
      PROVE  Q
  <2>1. PICK g \in [Id -> DraftType \cup {None}], pc \in {"pr_names", "pr_insert"} :
              /\ Kept(q, g)
              /\ [req[q] EXCEPT !.pc = pc, !.gaps = g] \in Local
              /\ req' = [req EXCEPT ![q] = [req[q] EXCEPT !.pc = pc, !.gaps = g]]
    BY <1>5, Passed
  <2>2. [req[q] EXCEPT !.pc = pc, !.gaps = g].gaps = g
    BY ReqType DEF Local
  <2> QED  BY <1>0, <2>1, <2>2 DEF Kept
<1>6. ASSUME NEW q \in Request, ProfileInsert(q)
      PROVE  Q
  <2>1. PICK j \in Gaps(q) :
              /\ [req[q] EXCEPT !.gaps[j] = None] \in Local
              /\ req' = [req EXCEPT ![q] = [req[q] EXCEPT !.gaps[j] = None]]
    BY <1>6, GapTaken
  <2>2. [req[q] EXCEPT !.gaps[j] = None].gaps = [req[q].gaps EXCEPT ![j] = None]
    BY ReqType DEF Local
  <2>3. [req[q].gaps EXCEPT ![j] = None][i] \in {None, req[q].gaps[i]}
    BY ReqType
  <2> QED  BY <1>0, <2>1, <2>2, <2>3
<1>7. CASE UNCHANGED req
  BY <1>7
<1>8. CASE Next
  BY <1>1, <1>2, <1>3, <1>4, <1>5, <1>6, <1>7, <1>8
     DEF Next, CreateCenter, CreatePersonal, UpdateItem, DeleteItem, BulkAssign, CompleteItem, UncompleteItem,
         ShowForm, Respond, LateSignoff, AssignRemove, AssignFails, ProfileDone, CheckIn, NextDay
<1> QED  BY <1>7, <1>8 DEF vars

\* Where a request is after a step, and which action took it there.
LEMMA Advance ==
    ASSUME TypeOK, [Next]_vars, NEW r \in Request, req'[r] # req[r]
    PROVE  \/ req'[r] = Idle
           \/ \E i \in Id, S \in SUBSET Student :
                 /\ BeginAssign(r, i, S) /\ At(r, "idle")
                 /\ req'[r].pc = "as_copy" /\ req'[r].id = i /\ req'[r].draft = item[i].draft
           \/ AssignCopy(r) /\ At(r, "as_copy") /\ req'[r].pc = "as_remove" /\ req'[r].id = req[r].id
           \/ At(r, "idle") /\ req'[r].pc = "pr_values"
           \/ ProfileValues(r) /\ At(r, "pr_values") /\ req'[r].pc = "pr_names" /\ req'[r].to = req[r].to
           \/ ProfileNames(r) /\ At(r, "pr_names") /\ req'[r].pc = "pr_insert" /\ req'[r].to = req[r].to
           \/ ProfileInsert(r) /\ At(r, "pr_insert") /\ req'[r].pc = "pr_insert" /\ req'[r].to = req[r].to
<1>0. ASSUME NEW q \in Request, NEW x \in Local, req' = [req EXCEPT ![q] = x]
      PROVE  q = r /\ req'[r] = x
  BY <1>0, ReqTypes
<1>1. ASSUME NEW q \in Request, NEW i \in Id, NEW S \in SUBSET Student, BeginAssign(q, i, S)
      PROVE  /\ BeginAssign(r, i, S) /\ At(r, "idle")
             /\ req'[r].pc = "as_copy" /\ req'[r].id = i /\ req'[r].draft = item[i].draft
  <2> DEFINE x == [Idle EXCEPT !.pc = "as_copy", !.id = i, !.to = S, !.draft = item[i].draft]
  <2>1. /\ x \in Local /\ x.pc = "as_copy" /\ x.id = i /\ x.draft = item[i].draft
        /\ req' = [req EXCEPT ![q] = x] /\ At(q, "idle")
    BY <1>1, Begun DEF BeginAssign, Live
  <2> HIDE DEF x
  <2> QED  BY <1>0, <1>1, <2>1
<1>2. ASSUME NEW q \in Request, AssignCopy(q)
      PROVE  \/ req'[r] = Idle
             \/ AssignCopy(r) /\ At(r, "as_copy") /\ req'[r].pc = "as_remove" /\ req'[r].id = req[r].id
  <2> DEFINE x == [req[q] EXCEPT !.pc = "as_remove"]
  <2>1. x \in Local /\ x.pc = "as_remove" /\ x.id = req[q].id
    BY ReqType DEF Local
  <2>2. At(q, "as_copy") /\ (req' = [req EXCEPT ![q] = x] \/ req' = [req EXCEPT ![q] = Idle])
    BY <1>2 DEF AssignCopy, Return, TypeOK
  <2> HIDE DEF x
  <2> QED  BY <1>0, <1>2, <2>1, <2>2, IdleType
<1>3. ASSUME NEW q \in Request, Return(q)
      PROVE  req'[r] = Idle
  BY <1>0, <1>3, IdleType DEF Return
<1>4. ASSUME NEW q \in Request, NEW s \in Student, NEW V \in SUBSET Id, BeginProfile(q, s, V)
      PROVE  At(r, "idle") /\ req'[r].pc = "pr_values"
  <2> DEFINE g == [k \in Id |-> IF Center(k) THEN item[k].draft ELSE None]
             x == [Idle EXCEPT !.pc = "pr_values", !.to = {s}, !.gaps = g]
  <2>1. x \in Local /\ x.pc = "pr_values" /\ req' = [req EXCEPT ![q] = x] /\ At(q, "idle")
    BY <1>4, ProfileBegun DEF BeginProfile
  <2> HIDE DEF x
  <2> QED  BY <1>0, <2>1
<1>5. ASSUME NEW q \in Request, ProfileValues(q) \/ ProfileNames(q)
      PROVE  \/ ProfileValues(r) /\ At(r, "pr_values") /\ req'[r].pc = "pr_names" /\ req'[r].to = req[r].to
             \/ ProfileNames(r) /\ At(r, "pr_names") /\ req'[r].pc = "pr_insert" /\ req'[r].to = req[r].to
  <2>1. PICK g \in [Id -> DraftType \cup {None}], pc \in {"pr_names", "pr_insert"} :
              /\ \/ ProfileValues(q) /\ At(q, "pr_values") /\ pc = "pr_names"
                 \/ ProfileNames(q) /\ At(q, "pr_names") /\ pc = "pr_insert"
              /\ [req[q] EXCEPT !.pc = pc, !.gaps = g] \in Local
              /\ req' = [req EXCEPT ![q] = [req[q] EXCEPT !.pc = pc, !.gaps = g]]
    BY <1>5, Passed
  <2> DEFINE x == [req[q] EXCEPT !.pc = pc, !.gaps = g]
  <2>2. x.pc = pc /\ x.to = req[q].to
    BY ReqType DEF Local
  <2>3. q = r /\ req'[r] = x
    BY <1>0, <2>1
  <2> HIDE DEF x
  <2> QED  BY <2>1, <2>2, <2>3
<1>6. ASSUME NEW q \in Request, ProfileInsert(q)
      PROVE  ProfileInsert(r) /\ At(r, "pr_insert") /\ req'[r].pc = "pr_insert" /\ req'[r].to = req[r].to
  <2>1. PICK j \in Gaps(q) :
              /\ [req[q] EXCEPT !.gaps[j] = None] \in Local
              /\ req' = [req EXCEPT ![q] = [req[q] EXCEPT !.gaps[j] = None]]
    BY <1>6, GapTaken
  <2> DEFINE x == [req[q] EXCEPT !.gaps[j] = None]
  <2>2. x.pc = req[q].pc /\ x.to = req[q].to
    BY ReqType DEF Local
  <2>3. q = r /\ req'[r] = x
    BY <1>0, <2>1
  <2> HIDE DEF x
  <2> QED  BY <1>6, <2>1, <2>2, <2>3 DEF ProfileInsert, At
<1>7. CASE UNCHANGED req
  BY <1>7
<1>8. CASE Next
  BY <1>1, <1>2, <1>3, <1>4, <1>5, <1>6, <1>7, <1>8
     DEF Next, CreateCenter, CreatePersonal, UpdateItem, DeleteItem, BulkAssign, CompleteItem, UncompleteItem,
         ShowForm, Respond, LateSignoff, AssignRemove, AssignFails, ProfileDone, CheckIn, NextDay
<1> QED  BY <1>7, <1>8 DEF vars

LEMMA AnchoredStep ==
    ASSUME TypeOK, TypeOK', Grown, Anchored, [Next]_vars
    PROVE  Anchored'
<1>1. ASSUME NEW a \in resp'
      PROVE  Exists(a.item)'
  <2>1. a.item \in Id
    BY DEF TypeOK, Answer
  <2>2. Exists(a.item)
    BY AnswerMade DEF Anchored
  <2> QED  BY <2>1, <2>2 DEF Grown
<1>2. ASSUME NEW k \in Id, Exists(k)', item'[k].from # 0
      PROVE  item'[item'[k].from] # None
  <2>1. item'[k].from \in Id
    BY <1>2 DEF TypeOK, Exists, ItemRow
  <2>2. Exists(item'[k].from)
    <3>1. CASE Exists(k)
      BY <1>2, <3>1 DEF Grown, Anchored
    <3>2. CASE ~Exists(k)
      BY <1>2, <3>2, RowMade DEF Anchored
    <3> QED  BY <3>1, <3>2
  <2> QED  BY <2>1, <2>2 DEF Grown, Exists
<1>3. ASSUME NEW s \in Student, form'[s] # None, NEW i \in form'[s]
      PROVE  Exists(i)'
  <2>1. i \in Id
    BY <1>3 DEF TypeOK
  <2>2. form'[s] = form[s] \/ form'[s] = Pending(s)
    <3>1. ASSUME NEW t \in Student, ShowForm(t)
          PROVE  form'[s] = form[s] \/ form'[s] = Pending(s)
      BY <3>1 DEF ShowForm, TypeOK
    <3>2. ASSUME NEW t \in Student, NEW status \in [form[t] -> {"done", "not_done"}], NEW b \in BOOLEAN,
                 form[t] # None, Respond(t, status, [j \in form[t] |-> b /\ status[j] = "not_done"])
          PROVE  form'[s] = form[s]
      BY <1>3, <3>2, Answered
    <3>3. CASE UNCHANGED form
      BY <3>3
    <3>4. CASE Next
      BY <3>1, <3>2, <3>3, <3>4
         DEF Next, CreateCenter, CreatePersonal, UpdateItem, DeleteItem, BulkAssign, CompleteItem,
             UncompleteItem, LateSignoff, BeginAssign, AssignCopy, AssignRemove, AssignFails, BeginProfile,
             ProfileValues, ProfileNames, ProfileInsert, ProfileDone, CheckIn, NextDay
    <3> QED  BY <3>3, <3>4 DEF vars
  <2>3. Exists(i)
    BY <1>3, <2>2 DEF Anchored, Pending, Due, Live
  <2> QED  BY <2>1, <2>3 DEF Grown
<1>4. ASSUME NEW r \in Request, req'[r].pc \in {"as_copy", "as_remove"}
      PROVE  req'[r].id \in Id /\ item'[req'[r].id] # None /\ (req'[r].pc = "as_copy" => req'[r].draft # None)
  <2>1. /\ req'[r].id \in Id /\ Exists(req'[r].id)
        /\ req'[r].pc = "as_copy" => req'[r].draft # None
    <3>1. CASE req'[r] = req[r]
      BY <1>4, <3>1 DEF Anchored, At
    <3>2. ASSUME NEW i \in Id, NEW S \in SUBSET Student, BeginAssign(r, i, S),
                 req'[r].id = i, req'[r].draft = item[i].draft
          PROVE  req'[r].id \in Id /\ Exists(req'[r].id) /\ req'[r].draft # None
      <4>1. Exists(i)
        BY <3>2 DEF BeginAssign, Live
      <4> QED  BY <3>2, <4>1, ItemExists, NoneIsNone
    <3>3. ASSUME At(r, "as_copy"), req'[r].pc = "as_remove", req'[r].id = req[r].id
          PROVE  req'[r].id \in Id /\ Exists(req'[r].id)
      BY <3>3 DEF Anchored, At
    <3> QED  BY <1>4, <3>1, <3>2, <3>3, Advance, IdleType
  <2> QED  BY <2>1 DEF Grown, Exists
<1>5. ASSUME NEW r \in Request, NEW i \in Id, req'[r].gaps[i] # None
      PROVE  Exists(i)' /\ item'[i].center
  <2>1. Exists(i) /\ item[i].center
    BY <1>5, GapsStep DEF Anchored, Gaps, Center, Live
  <2> QED  BY <2>1 DEF Grown
<1>6. ASSUME NEW r \in Request, req'[r].pc = "idle"
      PROVE  req'[r] = Idle
  BY <1>6, Advance DEF Anchored, At
<1> QED  BY <1>1, <1>2, <1>3, <1>4, <1>5, <1>6 DEF Exists, Anchored, At, Gaps

LEMMA TellStep ==
    ASSUME TypeOK, Anchored, AnswersTell, [Next]_vars
    PROVE  AnswersTell'
BY AnswerMade DEF AnswersTell

\* Only taking a completion back removes answers, and only those it may.
LEMMA Removed ==
    ASSUME [Next]_vars, NEW a \in resp, a \notin resp'
    PROVE  /\ UncompleteItem(a.item) /\ a.item \in Id
           /\ a.status = "done" /\ a.via \in {"board", "late"}
<1>1. ASSUME NEW i \in Id, UncompleteItem(i)
      PROVE  a.item = i /\ a.status = "done" /\ a.via \in {"board", "late"}
  BY <1>1 DEF UncompleteItem
<1>2. CASE resp \subseteq resp'
  BY <1>2
<1>3. CASE Next
  BY <1>1, <1>2, <1>3
     DEF Next, CreateCenter, CreatePersonal, UpdateItem, DeleteItem, BulkAssign, CompleteItem, ShowForm,
         Respond, LateSignoff, AddAnswers, BeginAssign, AssignCopy, AssignRemove, AssignFails, BeginProfile,
         ProfileValues, ProfileNames, ProfileInsert, ProfileDone, CheckIn, NextDay
<1> QED  BY <1>2, <1>3 DEF vars

\* Only two handlers touch the flag of an item that is there.
LEMMA FlagKept ==
    ASSUME TypeOK, Anchored, [Next]_vars, NEW i \in Id, Exists(i)
    PROVE  \/ CompleteItem(i) \/ UncompleteItem(i)
           \/ item'[i].completed = item[i].completed
<1> DEFINE Q == \/ CompleteItem(i) \/ UncompleteItem(i)
                \/ item'[i].completed = item[i].completed
<1>1. ASSUME NEW d \in Draft, NEW b \in BOOLEAN, CreateCenter(d, b)
      PROVE  Q
  <2>1. item'[i] = item[i]
    BY <1>1, CenterCreated DEF Free
  <2> QED  BY <2>1
<1>2. ASSUME NEW S \in SUBSET (Student \cup {None}), NEW d \in DraftType, NEW k \in Id \cup {0},
             Inserts(S, d, k)
      PROVE  Q
  <2>1. Added(S, d, k)
    BY <1>2, Inserted
  <2>2. item'[i] = item[i]
    BY <2>1 DEF Added
  <2> QED  BY <2>2
<1>3. ASSUME NEW d \in Draft, NEW S \in SUBSET (Student \cup {None}), Inserts(S, d, 0)
      PROVE  Q
  BY <1>2, <1>3, DraftAssumption
<1>3a. ASSUME NEW d \in Draft, NEW S \in SUBSET (Student \cup {None}), Insert(S, d, 0)
      PROVE  Q
  BY <1>3, <1>3a DEF Inserts
<1>3b. ASSUME NEW d \in Draft, NEW S \in SUBSET (Student \cup {None}), InsertList(S, d, 0)
      PROVE  Q
  BY <1>3, <1>3b DEF Inserts
<1>4. ASSUME NEW j \in Id,
             \/ \E d \in Draft, b \in BOOLEAN : UpdateItem(j, d, b)
             \/ DeleteItem(j) \/ CompleteItem(j) \/ UncompleteItem(j)
      PROVE  Q
  <2>1. CASE j = i
    BY <1>4, <2>1, RowFields
  <2>2. CASE j # i
    BY <1>4, <2>2, RowWritten
  <2> QED  BY <2>1, <2>2
<1>5. ASSUME NEW r \in Request, AssignCopy(r)
      PROVE  Q
  <2>1. req[r].draft \in DraftType /\ req[r].id \in Id
    BY <1>5, ReqType DEF Anchored, AssignCopy, At
  <2> QED  BY <1>2, <1>5, <2>1, ReqType DEF AssignCopy, Inserts
<1>6. ASSUME NEW r \in Request, AssignRemove(r)
      PROVE  Q
  BY <1>6, ItemExists DEF AssignRemove, TypeOK, ItemRow
<1>7. ASSUME NEW r \in Request, ProfileInsert(r)
      PROVE  Q
  <2>1. PICK k \in Gaps(r), task \in DraftType : Insert(req[r].to, task, k) \/ UNCHANGED item
    BY <1>7, GapTaken
  <2> QED  BY <1>2, <2>1, ReqType DEF Gaps, Inserts
<1>8. CASE UNCHANGED item
  BY <1>8
<1>9. CASE Next
  BY <1>1, <1>3a, <1>3b, <1>4, <1>5, <1>6, <1>7, <1>8, <1>9
     DEF Next, CreatePersonal, BulkAssign, ShowForm, Respond, LateSignoff, BeginAssign, AssignFails,
         BeginProfile, ProfileValues, ProfileNames, ProfileDone, CheckIn, NextDay
<1> QED  BY <1>8, <1>9 DEF vars

\* The flag of an item and its answer from a dashboard come and go together.
LEMMA CompletionStep ==
    ASSUME TypeOK, Anchored, AnswersTell, CompletionRecorded, [Next]_vars
    PROVE  CompletionRecorded'
<1> SUFFICES ASSUME NEW i \in Id, item'[i] # None
             PROVE  item'[i].completed <=> \E a \in resp' : a.item = i /\ a.via = "board"
  BY DEF CompletionRecorded, Exists
<1>1. CASE ~Exists(i)
  <2>1. ~item'[i].completed
    BY <1>1, RowMade DEF Exists
  <2>2. \A a \in resp' : a.item # i
    BY <1>1, AnswerMade DEF Anchored
  <2> QED  BY <2>1, <2>2
<1>2. CASE CompleteItem(i)
  <2>1. item'[i].completed
    BY <1>2, RowFields
  <2> DEFINE a == Reply(item[i].student, i, "done", "board", FALSE, 0)
  <2>2. a \in resp' /\ a.item = i /\ a.via = "board"
    BY <1>2 DEF CompleteItem, AddAnswers, Reply
  <2> QED  BY <2>1, <2>2
<1>3. CASE UncompleteItem(i)
  <2>1. ~item'[i].completed
    BY <1>3, RowFields
  <2>2. \A a \in resp' : ~(a.item = i /\ a.via = "board")
    BY <1>3 DEF UncompleteItem, AnswersTell
  <2> QED  BY <2>1, <2>2
<1>4. CASE Exists(i) /\ ~CompleteItem(i) /\ ~UncompleteItem(i)
  <2>1. item'[i].completed = item[i].completed
    BY <1>4, FlagKept
  <2>2. item[i].completed <=> \E a \in resp : a.item = i /\ a.via = "board"
    BY <1>4 DEF CompletionRecorded
  <2>3. \A a \in resp : a.item = i => a \in resp'
    BY <1>4, Removed
  <2>4. \A a \in resp' : a.item = i /\ a.via = "board" => a \in resp
    BY <1>4, AnswerMade
  <2> QED  BY <2>1, <2>2, <2>3, <2>4
<1> QED  BY <1>1, <1>2, <1>3, <1>4

\* The statements of one request.
Moves(r) ==
    \/ \E i \in Id, S \in SUBSET Student : BeginAssign(r, i, S)
    \/ AssignCopy(r) \/ AssignRemove(r) \/ AssignFails(r)
    \/ \E s \in Student, V \in SUBSET Id : BeginProfile(r, s, V)
    \/ ProfileValues(r) \/ ProfileNames(r)
    \/ ProfileInsert(r) \/ ProfileDone(r)

\* A statement changes the local state of its request and of no other.
LEMMA MovesOne ==
    ASSUME TypeOK, NEW r \in Request, Moves(r)
    PROVE  req'[r] # req[r] /\ \A q \in Request : q # r => req'[q] = req[q]
<1>1. ASSUME NEW x \in Local, req' = [req EXCEPT ![r] = x], x.pc # req[r].pc \/ x.gaps # req[r].gaps
      PROVE  req'[r] # req[r] /\ \A q \in Request : q # r => req'[q] = req[q]
  BY <1>1, ReqTypes
<1>2. ASSUME NEW i \in Id, NEW S \in SUBSET Student, BeginAssign(r, i, S)
      PROVE  req'[r] # req[r] /\ \A q \in Request : q # r => req'[q] = req[q]
  <2> DEFINE x == [Idle EXCEPT !.pc = "as_copy", !.id = i, !.to = S, !.draft = item[i].draft]
  <2>1. x \in Local /\ x.pc = "as_copy" /\ req' = [req EXCEPT ![r] = x] /\ At(r, "idle")
    BY <1>2, Begun DEF BeginAssign, Live
  <2> HIDE DEF x
  <2> QED  BY <1>1, <2>1 DEF At
<1>3. ASSUME AssignCopy(r)
      PROVE  req'[r] # req[r] /\ \A q \in Request : q # r => req'[q] = req[q]
  <2> DEFINE x == [req[r] EXCEPT !.pc = "as_remove"]
  <2>1. x \in Local /\ x.pc = "as_remove"
    BY ReqType DEF Local
  <2>2. req[r].pc = "as_copy" /\ (req' = [req EXCEPT ![r] = x] \/ req' = [req EXCEPT ![r] = Idle])
    BY <1>3 DEF AssignCopy, Return, TypeOK, At
  <2> HIDE DEF x
  <2> QED  BY <1>1, <2>1, <2>2, IdleType
<1>4. ASSUME Return(r), req[r].pc # "idle"
      PROVE  req'[r] # req[r] /\ \A q \in Request : q # r => req'[q] = req[q]
  BY <1>1, <1>4, IdleType DEF Return
<1>5. ASSUME NEW s \in Student, NEW V \in SUBSET Id, BeginProfile(r, s, V)
      PROVE  req'[r] # req[r] /\ \A q \in Request : q # r => req'[q] = req[q]
  <2> DEFINE g == [k \in Id |-> IF Center(k) THEN item[k].draft ELSE None]
             x == [Idle EXCEPT !.pc = "pr_values", !.to = {s}, !.gaps = g]
  <2>1. x \in Local /\ x.pc = "pr_values" /\ req' = [req EXCEPT ![r] = x] /\ At(r, "idle")
    BY <1>5, ProfileBegun DEF BeginProfile
  <2> HIDE DEF x
  <2> QED  BY <1>1, <2>1 DEF At
<1>6. ASSUME ProfileValues(r) \/ ProfileNames(r)
      PROVE  req'[r] # req[r] /\ \A q \in Request : q # r => req'[q] = req[q]
  <2>1. PICK g \in [Id -> DraftType \cup {None}], pc \in {"pr_names", "pr_insert"} :
              /\ \/ ProfileValues(r) /\ At(r, "pr_values") /\ pc = "pr_names"
                 \/ ProfileNames(r) /\ At(r, "pr_names") /\ pc = "pr_insert"
              /\ [req[r] EXCEPT !.pc = pc, !.gaps = g] \in Local
              /\ req' = [req EXCEPT ![r] = [req[r] EXCEPT !.pc = pc, !.gaps = g]]
    BY <1>6, Passed
  <2> DEFINE x == [req[r] EXCEPT !.pc = pc, !.gaps = g]
  <2>2. x.pc = pc
    BY ReqType DEF Local
  <2> HIDE DEF x
  <2> QED  BY <1>1, <2>1, <2>2 DEF At, x
<1>7. ASSUME ProfileInsert(r)
      PROVE  req'[r] # req[r] /\ \A q \in Request : q # r => req'[q] = req[q]
  <2>1. PICK j \in Gaps(r) :
              /\ [req[r] EXCEPT !.gaps[j] = None] \in Local
              /\ req' = [req EXCEPT ![r] = [req[r] EXCEPT !.gaps[j] = None]]
    BY <1>7, GapTaken
  <2> DEFINE x == [req[r] EXCEPT !.gaps[j] = None]
  <2>2. x.gaps[j] = None /\ req[r].gaps[j] # None
    BY ReqType DEF Local, Gaps
  <2> HIDE DEF x
  <2> QED  BY <1>1, <2>1, <2>2 DEF x
<1> QED  BY <1>2, <1>3, <1>4, <1>5, <1>6, <1>7 DEF Moves, AssignRemove, AssignFails, ProfileDone, At

\* Without an overlap nothing is in flight but the request that moves.
LEMMA NoOverlap ==
    ASSUME TypeOK, [Next]_vars, "overlap" \notin met'
    PROVE  /\ "overlap" \notin met
           /\ \/ UNCHANGED <<item, req>>
              \/ UNCHANGED req /\ \A q \in Request : At(q, "idle")
              \/ \E r \in Request : Moves(r) /\ \A q \in Request : q # r => At(q, "idle")
<1>1. ASSUME NEW h \in SUBSET {"failure", "twins"}, Operation(Request, h) \/ Step(Request, h)
      PROVE  "overlap" \notin met /\ \A q \in Request : At(q, "idle")
  <2>1. Request \in SUBSET Request
    OBVIOUS
  <2> QED  BY <1>1, <2>1, Noted
<1>2. ASSUME NEW r \in Request, NEW h \in SUBSET {"failure", "twins"},
             Operation(Others(r), h) \/ Step(Others(r), h)
      PROVE  "overlap" \notin met /\ \A q \in Request : q # r => At(q, "idle")
  BY <1>2, OthersNoted
<1>3. ASSUME NEW r \in Request, Moves(r)
      PROVE  "overlap" \notin met /\ \A q \in Request : q # r => At(q, "idle")
  <2>1. \E h \in {{}, {"failure"}} : Operation(Others(r), h) \/ Step(Others(r), h)
    BY <1>3 DEF Moves, BeginAssign, AssignCopy, AssignRemove, AssignFails, BeginProfile,
                ProfileValues, ProfileNames, ProfileInsert, ProfileDone
  <2> QED  BY <1>2, <2>1
<1>4. ASSUME NEW h \in {{}, {"twins"}}, Operation(Request, h) \/ Step(Request, h), UNCHANGED req
      PROVE  "overlap" \notin met /\ UNCHANGED req /\ \A q \in Request : At(q, "idle")
  BY <1>1, <1>4
<1>5. CASE UNCHANGED <<item, req, met>>
  BY <1>5
<1>6. CASE Next
  <2>1. \/ \E h \in {{}, {"twins"}} : (Operation(Request, h) \/ Step(Request, h)) /\ UNCHANGED req
        \/ \E r \in Request : Moves(r)
        \/ UNCHANGED <<item, req, met>>
    BY <1>6 DEF Next, Moves, CreateCenter, CreatePersonal, UpdateItem, DeleteItem, BulkAssign, CompleteItem,
                UncompleteItem, ShowForm, Respond, LateSignoff, CheckIn, NextDay
  <2> QED  BY <1>3, <1>4, <1>5, <2>1
<1> QED  BY <1>5, <1>6 DEF vars

\* The history only grows.
LEMMA MetGrows ==
    ASSUME TypeOK, [Next]_vars
    PROVE  met \subseteq met'
<1>1. ASSUME NEW h \in SUBSET {"failure", "twins"}, NEW R \in SUBSET Request,
             Operation(R, h) \/ Step(R, h)
      PROVE  met \subseteq met'
  BY <1>1, Noted
<1>2. CASE Next
  <2>1. \/ \E h \in {{}, {"failure"}, {"twins"}}, R \in SUBSET Request : Operation(R, h) \/ Step(R, h)
        \/ met' = met
    BY <1>2 DEF Next, CreateCenter, CreatePersonal, UpdateItem, DeleteItem, BulkAssign, CompleteItem,
                UncompleteItem, ShowForm, Respond, LateSignoff, CheckIn, NextDay, Others,
                BeginAssign, AssignCopy, AssignRemove, AssignFails, BeginProfile,
                ProfileValues, ProfileNames, ProfileInsert, ProfileDone
  <2> QED  BY <1>1, <2>1
<1> QED  BY <1>2 DEF vars

LEMMA AloneStep ==
    ASSUME TypeOK, Alone, [Next]_vars
    PROVE  Alone'
<1> SUFFICES ASSUME "overlap" \notin met', NEW p \in Request, NEW q \in Request, p # q
             PROVE  req'[p].pc = "idle" \/ req'[q].pc = "idle"
  BY DEF Alone, At
<1>1. CASE UNCHANGED req
  BY <1>1, NoOverlap DEF Alone, At
<1>2. ASSUME NEW r \in Request, Moves(r), \A k \in Request : k # r => At(k, "idle")
      PROVE  req'[p].pc = "idle" \/ req'[q].pc = "idle"
  BY <1>2, MovesOne DEF At
<1> QED  BY <1>1, <1>2, NoOverlap

\* A copy of a template is new, and made by the statement that copies it.
LEMMA CopyMade ==
    ASSUME TypeOK, Anchored, Grown, [Next]_vars, NEW t \in Id, Exists(t), item[t].student = None,
           ~item[t].center, NEW k \in Id, item'[k] # None, item'[k].from = t
    PROVE  \/ Exists(k) /\ item[k].from = t /\ item'[k].student = item[k].student
           \/ ~Exists(k) /\ \E r \in Request : AssignCopy(r) /\ req[r].id = t
<1>1. CASE Exists(k)
  BY <1>1 DEF Grown
<1>2. CASE ~Exists(k)
  <2>1. Exists(k)'
    BY DEF Exists
  <2>2. t # 0
    BY DEF Id
  <2>3. \/ \E r \in Request : AssignCopy(r) /\ t = req[r].id
        \/ \E r \in Request : t \in Gaps(r)
    BY <1>2, <2>1, <2>2, RowMade
  <2> QED  BY <1>2, <2>3 DEF Anchored
<1> QED  BY <1>1, <1>2

\* Nothing is a copy of a row that has just been made.
LEMMA NewHasNoCopies ==
    ASSUME TypeOK, Anchored, Grown, [Next]_vars, NEW t \in Id, ~Exists(t), NEW k \in Id, item'[k] # None
    PROVE  item'[k].from # t
<1>1. Exists(k)' /\ t # 0
  BY DEF Exists, Id
<1>2. CASE Exists(k)
  BY <1>1, <1>2 DEF Grown, Anchored
<1>3. CASE ~Exists(k)
  BY <1>1, <1>3, RowMade DEF Anchored
<1> QED  BY <1>2, <1>3

\* A template that has been copied is about to be removed.
LEMMA CopyThenRemove ==
    ASSUME TypeOK, Anchored, NEW r \in Request, AssignCopy(r), item[req[r].id].student = None
    PROVE  req'[r].pc = "as_remove" /\ req'[r].id = req[r].id
<1> DEFINE x == [req[r] EXCEPT !.pc = "as_remove"]
<1>1. x \in Local /\ x.pc = "as_remove" /\ x.id = req[r].id
  BY ReqType DEF Local
<1>2. req' = [req EXCEPT ![r] = x]
  BY DEF AssignCopy, TypeOK
<1> HIDE DEF x
<1> QED  BY <1>1, <1>2, ReqTypes

\* Rows a template's life depends on, before and after.
LEMMA TemplateBefore ==
    ASSUME Grown, NEW t \in Id, Exists(t)
    PROVE  /\ Template(t)' => Template(t)
           /\ Live(t)' => Live(t)
BY DEF Grown, Template, Live

LEMMA AssignStep ==
    ASSUME TypeOK, TypeOK', Anchored, Grown, AssignInv, [Next]_vars
    PROVE  AssignInv'
<1> SUFFICES ASSUME met' \cap {"overlap", "failure"} = {}
             PROVE  /\ \A r \in Request : req'[r].pc = "as_copy" => Live(req[r].id)'
                    /\ \A t \in Id : Template(t)' /\ Live(t)' =>
                          \/ \A s \in Student : Copies(t, s)' = {}
                          \/ \E r \in Request : req'[r].pc = "as_remove" /\ req'[r].id = t
  BY DEF AssignInv, At
<1>0. met \subseteq met'
  BY MetGrows
<1>1. /\ \A r \in Request : At(r, "as_copy") => Live(req[r].id)
      /\ \A t \in Id : Template(t) /\ Live(t) =>
            \/ \A s \in Student : Copies(t, s) = {}
            \/ \E r \in Request : At(r, "as_remove") /\ req[r].id = t
  BY <1>0 DEF AssignInv
<1>2. /\ "overlap" \notin met' /\ "failure" \notin met'
  OBVIOUS
<1>3. ASSUME NEW r \in Request, req'[r].pc = "as_copy"
      PROVE  Live(req[r].id)'
  <2>1. CASE UNCHANGED <<item, req>>
    BY <1>1, <1>3, <2>1 DEF At, Live, Exists
  <2>2. CASE UNCHANGED req /\ \A q \in Request : At(q, "idle")
    BY <1>3, <2>2 DEF At
  <2>3. ASSUME NEW p \in Request, Moves(p), \A q \in Request : q # p => At(q, "idle")
        PROVE  Live(req[r].id)'
    <3>1. r = p
      BY <1>3, <2>3, MovesOne DEF At
    <3>2. PICK i \in Id, S \in SUBSET Student : BeginAssign(r, i, S) /\ req'[r].id = i
      BY <1>3, <2>3, <3>1, MovesOne, Advance, IdleType
    <3> QED  BY <3>2 DEF BeginAssign, Live, Exists
  <2> QED  BY <1>2, <2>1, <2>2, <2>3, NoOverlap
<1>4. ASSUME NEW t \in Id, Template(t)', Live(t)', NEW s \in Student, Copies(t, s)' # {}
      PROVE  \E r \in Request : req'[r].pc = "as_remove" /\ req'[r].id = t
  <2>1. PICK k \in Id : item'[k] # None /\ item'[k].from = t /\ item'[k].student = s
    BY <1>4 DEF Copies, Exists
  <2>2. Exists(t)
    BY <2>1, NewHasNoCopies
  <2>3. Template(t) /\ Live(t)
    BY <1>4, <2>2, TemplateBefore
  <2>4. CASE \E r \in Request : AssignCopy(r) /\ req[r].id = t
    BY <2>3, <2>4, CopyThenRemove DEF Template
  <2>5. CASE Exists(k) /\ item[k].from = t /\ item'[k].student = item[k].student
    <3>1. k \in Copies(t, s)
      BY <2>1, <2>5 DEF Copies
    <3>2. PICK r \in Request : At(r, "as_remove") /\ req[r].id = t
      BY <1>1, <2>3, <3>1
    <3>3. UNCHANGED req
      <4>1. ASSUME NEW p \in Request, Moves(p), \A q \in Request : q # p => At(q, "idle")
            PROVE  FALSE
        <5>1. r = p
          BY <3>2, <4>1 DEF At
        <5>2. AssignRemove(r) \/ AssignFails(r)
          BY <3>2, <4>1, <5>1 DEF Moves, BeginAssign, AssignCopy, BeginProfile, ProfileValues,
                                  ProfileNames, ProfileInsert, ProfileDone, At
        <5>3. CASE AssignRemove(r)
          <6>1. item' = [item EXCEPT ![t].deleted = TRUE]
            BY <3>2, <5>3 DEF AssignRemove
          <6>2. item'[t].deleted
            BY <2>2, <6>1, ItemExists DEF TypeOK, ItemRow
          <6> QED  BY <1>4, <6>2 DEF Live
        <5>4. CASE AssignFails(r)
          <6>1. Step(Others(r), {"failure"})
            BY <5>4 DEF AssignFails
          <6> QED  BY <1>2, <6>1 DEF Step
        <5> QED  BY <5>2, <5>3, <5>4
      <4>2. ~(\A q \in Request : At(q, "idle"))
        BY <3>2 DEF At
      <4> QED  BY <1>2, <4>1, <4>2, NoOverlap
    <3> QED  BY <3>2, <3>3 DEF At
  <2> QED  BY <2>1, <2>3, <2>4, <2>5, <2>2, CopyMade DEF Template
<1> QED  BY <1>3, <1>4

\* The request that copies a template finds no copies of it.
LEMMA FirstCopies ==
    ASSUME TypeOK, Anchored, Grown, Alone, AssignInv, [Next]_vars,
           met' \cap {"overlap", "failure"} = {}, NEW t \in Id, Template(t),
           NEW k \in Id, ~Exists(k), item'[k] # None, item'[k].from = t
    PROVE  \A s \in Student : Copies(t, s) = {}
<1>1. met \cap {"overlap", "failure"} = {}
  BY MetGrows
<1>2. PICK r \in Request : AssignCopy(r) /\ req[r].id = t
  BY CopyMade DEF Template
<1>3. At(r, "as_copy") /\ Live(t)
  BY <1>1, <1>2 DEF AssignCopy, AssignInv
<1>4. \A q \in Request : ~At(q, "as_remove")
  BY <1>1, <1>3 DEF Alone, At
<1> QED  BY <1>1, <1>3, <1>4 DEF AssignInv

\* The live items of the center are written by their two handlers only.
LEMMA CenterRows ==
    ASSUME TypeOK, Anchored, [Next]_vars, NEW k \in Id, item'[k] # None, ~item'[k].deleted, item'[k].center
    PROVE  \/ /\ Live(k) /\ item[k].center /\ item'[k].draft = item[k].draft
           \/ \E d \in Draft, b \in BOOLEAN :
                 CreateCenter(d, b) /\ item'[k].draft = d /\ ~Exists(k)
           \/ \E d \in Draft, b \in BOOLEAN :
                 UpdateItem(k, d, b) /\ item'[k].draft = d /\ item[k].center
<1> DEFINE Q == \/ /\ Live(k) /\ item[k].center /\ item'[k].draft = item[k].draft
                \/ \E d \in Draft, b \in BOOLEAN :
                      CreateCenter(d, b) /\ item'[k].draft = d /\ ~Exists(k)
                \/ \E d \in Draft, b \in BOOLEAN :
                      UpdateItem(k, d, b) /\ item'[k].draft = d /\ item[k].center
<1>0. ASSUME item'[k] = item[k]
      PROVE  Q
  BY <1>0 DEF Live, Exists
<1>1. ASSUME NEW d \in Draft, NEW b \in BOOLEAN, CreateCenter(d, b)
      PROVE  Q
  <2>1. PICK i \in Free : item'[i].draft = d /\ \A j \in Id : j # i => item'[j] = item[j]
    BY <1>1, CenterCreated
  <2> QED  BY <1>0, <1>1, <2>1 DEF Free
<1>2. ASSUME NEW S \in SUBSET (Student \cup {None}), NEW d \in DraftType, NEW i \in Id \cup {0},
             Inserts(S, d, i)
      PROVE  Q
  <2>1. Added(S, d, i)
    BY <1>2, Inserted
  <2>2. CASE Exists(k)
    BY <1>0, <2>1, <2>2 DEF Added
  <2>3. CASE ~Exists(k)
    BY <2>1, <2>3 DEF Added, Fresh
  <2> QED  BY <2>2, <2>3
<1>3. ASSUME NEW d \in Draft, NEW S \in SUBSET (Student \cup {None}), Inserts(S, d, 0)
      PROVE  Q
  BY <1>2, <1>3, DraftAssumption
<1>3a. ASSUME NEW d \in Draft, NEW S \in SUBSET (Student \cup {None}), Insert(S, d, 0)
      PROVE  Q
  BY <1>3, <1>3a DEF Inserts
<1>3b. ASSUME NEW d \in Draft, NEW S \in SUBSET (Student \cup {None}), InsertList(S, d, 0)
      PROVE  Q
  BY <1>3, <1>3b DEF Inserts
<1>4. ASSUME NEW j \in Id,
             \/ \E d \in Draft, b \in BOOLEAN : UpdateItem(j, d, b)
             \/ DeleteItem(j) \/ CompleteItem(j) \/ UncompleteItem(j)
      PROVE  Q
  <2>1. CASE j # k
    BY <1>0, <1>4, <2>1, RowWritten
  <2>2. CASE j = k
    <3>1. Exists(k) /\ Grown
      BY <1>4, <2>2, RowWritten
    <3>2. item[k].center /\ Live(k)
      BY <3>1 DEF Grown, Live
    <3>3. ASSUME NEW d \in Draft, NEW b \in BOOLEAN, UpdateItem(k, d, b)
          PROVE  Q
      BY <3>2, <3>3, RowFields
    <3> QED  BY <1>4, <2>2, <3>2, <3>3, RowFields
  <2> QED  BY <2>1, <2>2
<1>5. ASSUME NEW r \in Request, AssignCopy(r)
      PROVE  Q
  <2>1. req[r].draft \in DraftType /\ req[r].id \in Id
    BY <1>5, ReqType DEF Anchored, AssignCopy, At
  <2> QED  BY <1>2, <1>5, <2>1, ReqType DEF AssignCopy, Inserts
<1>6. ASSUME NEW r \in Request, AssignRemove(r)
      PROVE  Q
  <2> DEFINE i == req[r].id
  <2>1. i \in Id /\ Exists(i) /\ item' = [item EXCEPT ![i].deleted = TRUE]
    BY <1>6 DEF Anchored, AssignRemove, At
  <2> HIDE DEF i
  <2>2. CASE k = i
    BY <2>1, <2>2, ItemExists DEF TypeOK, ItemRow
  <2>3. CASE k # i
    BY <1>0, <2>1, <2>3 DEF TypeOK
  <2> QED  BY <2>2, <2>3
<1>7. ASSUME NEW r \in Request, ProfileInsert(r)
      PROVE  Q
  <2>1. PICK i \in Gaps(r), task \in DraftType : Insert(req[r].to, task, i) \/ UNCHANGED item
    BY <1>7, GapTaken
  <2> QED  BY <1>0, <1>2, <2>1, ReqType DEF Gaps, Inserts
<1>8. CASE UNCHANGED item
  BY <1>0, <1>8
<1>9. CASE Next
  BY <1>1, <1>3a, <1>3b, <1>4, <1>5, <1>6, <1>7, <1>8, <1>9
     DEF Next, CreatePersonal, BulkAssign, ShowForm, Respond, LateSignoff, BeginAssign, AssignFails,
         BeginProfile, ProfileValues, ProfileNames, ProfileDone, CheckIn, NextDay
<1> QED  BY <1>8, <1>9 DEF vars

LEMMA TwinsStep ==
    ASSUME TypeOK, Anchored, NoTwins, [Next]_vars
    PROVE  NoTwins'
<1> SUFFICES ASSUME "twins" \notin met', NEW i \in Id, NEW j \in Id, i # j,
                    item'[i] # None, ~item'[i].deleted, item'[i].center,
                    item'[j] # None, ~item'[j].deleted, item'[j].center
             PROVE  item'[i].draft.name # item'[j].draft.name
  BY DEF NoTwins, Live, Exists
<1>1. "twins" \notin met
  BY MetGrows
<1>2. ASSUME NEW h, Operation(Request, h)
      PROVE  h \subseteq met'
  BY <1>2 DEF Operation
<1>3. ASSUME NEW d \in Draft, NEW b \in BOOLEAN, CreateCenter(d, b),
             NEW k \in Id, Live(k), item[k].center
      PROVE  item[k].draft.name # d.name
  <2>1. ~Twins(d, 0)
    BY <1>2, <1>3 DEF CreateCenter
  <2>2. k # 0
    BY DEF Id
  <2> QED  BY <1>3, <2>1, <2>2 DEF Twins
<1>4. ASSUME NEW n \in Id, NEW d \in Draft, NEW b \in BOOLEAN, UpdateItem(n, d, b), item[n].center,
             NEW k \in Id, k # n, Live(k), item[k].center
      PROVE  item[k].draft.name # d.name
  <2>1. ~Twins(d, n)
    BY <1>2, <1>4 DEF UpdateItem
  <2> QED  BY <1>4, <2>1 DEF Twins
<1>5. ASSUME NEW n \in Id, NEW k \in Id, n # k, item'[n].draft = item[n].draft, Live(n), item[n].center,
             item'[k] # None, ~item'[k].deleted, item'[k].center
      PROVE  item'[n].draft.name # item'[k].draft.name
  <2>1. CASE Live(k) /\ item[k].center /\ item'[k].draft = item[k].draft
    BY <1>1, <1>5, <2>1 DEF NoTwins
  <2> QED  BY <1>3, <1>4, <1>5, <2>1, CenterRows
<1>6. CASE Live(i) /\ item[i].center /\ item'[i].draft = item[i].draft
  BY <1>5, <1>6
<1>7. CASE Live(j) /\ item[j].center /\ item'[j].draft = item[j].draft
  BY <1>5, <1>7
<1>8. ASSUME NEW d \in Draft, NEW b \in BOOLEAN, CreateCenter(d, b), ~Exists(i), ~Exists(j)
      PROVE  FALSE
  BY <1>8, CenterCreated DEF Exists
<1>9. ASSUME NEW n \in Id, NEW d \in Draft, NEW b \in BOOLEAN, UpdateItem(n, d, b), NEW k \in Id, k # n,
             item'[k] # None, ~item'[k].deleted, item'[k].center
      PROVE  Live(k) /\ item[k].center /\ item'[k].draft = item[k].draft
  <2>1. item'[k] = item[k]
    BY <1>9, RowWritten
  <2> QED  BY <1>9, <2>1 DEF Live, Exists
<1>10. \/ Live(i) /\ item[i].center /\ item'[i].draft = item[i].draft
       \/ \E d \in Draft, b \in BOOLEAN : CreateCenter(d, b) /\ ~Exists(i)
       \/ \E d \in Draft, b \in BOOLEAN : UpdateItem(i, d, b)
  BY CenterRows
<1>11. \/ Live(j) /\ item[j].center /\ item'[j].draft = item[j].draft
       \/ \E d \in Draft, b \in BOOLEAN : CreateCenter(d, b) /\ ~Exists(j)
       \/ \E d \in Draft, b \in BOOLEAN : UpdateItem(j, d, b)
  BY CenterRows
<1> QED  BY <1>6, <1>7, <1>8, <1>9, <1>10, <1>11

\* A gap whose name the student has is dropped.
LEMMA NamesChecked ==
    ASSUME TypeOK, NEW r \in Request, ProfileNames(r), NEW i \in Id, req'[r].gaps[i] # None,
           NEW s \in req[r].to, NEW j \in Owned(s)
    PROVE  item[j].draft.name # req'[r].gaps[i].name
<1> DEFINE taken == {item[k].draft.name : k \in UNION {Owned(t) : t \in req[r].to}}
           g == [k \in Id |-> IF req[r].gaps[k] # None /\ req[r].gaps[k].name \notin taken
                                 /\ req[r].to \subseteq req[r].gaps[k].gap
                              THEN req[r].gaps[k] ELSE None]
<1>1. req' = [req EXCEPT ![r] = [req[r] EXCEPT !.pc = "pr_insert", !.gaps = g]]
  BY DEF ProfileNames, TypeOK
<1>2. g \in [Id -> DraftType \cup {None}]
  BY ReqType
<1>3. g[i] # None => g[i].name \notin taken
  OBVIOUS
<1>4. item[j].draft.name \in taken
  OBVIOUS
<1> HIDE DEF g, taken
<1>5. [req[r] EXCEPT !.pc = "pr_insert", !.gaps = g] \in Local
      /\ [req[r] EXCEPT !.pc = "pr_insert", !.gaps = g].gaps = g
  BY <1>2, ReqType DEF Local
<1>6. req'[r].gaps = g
  BY <1>1, <1>5, ReqTypes
<1> QED  BY <1>3, <1>4, <1>6

\* What ProfileInsert gives the student differs in name from what he has, and
\* from the gaps that are left.
LEMMA GapFilled ==
    ASSUME TypeOK, Anchored, GapsInv, met \cap {"overlap", "twins"} = {},
           NEW r \in Request, ProfileInsert(r)
    PROVE  /\ \A k \in Id : ~Exists(k) /\ item'[k] # None =>
                 /\ item'[k].student \in req[r].to
                 /\ \A j \in Owned(item'[k].student) : item[j].draft.name # item'[k].draft.name
                 /\ \A i \in Id : req'[r].gaps[i] # None => req'[r].gaps[i].name # item'[k].draft.name
           /\ \A k \in Id : Exists(k) => item'[k] = item[k]
<1>1. PICK i \in Gaps(r), task \in DraftType :
              /\ task.name = req[r].gaps[i].name
              /\ [req[r] EXCEPT !.gaps[i] = None] \in Local
              /\ req' = [req EXCEPT ![r] = [req[r] EXCEPT !.gaps[i] = None]]
              /\ Insert(req[r].to, task, i) \/ UNCHANGED item
  BY GapTaken
<1>2. i \in Id /\ At(r, "pr_insert") /\ ~At(r, "idle")
  BY DEF Gaps, ProfileInsert, At
<1>3. CASE UNCHANGED item
  BY <1>3 DEF Exists
<1>4. CASE Insert(req[r].to, task, i)
  <2>1. Added(req[r].to, task, i)
    BY <1>2, <1>4, ReqType, Inserted DEF Inserts
  <2>2. ASSUME NEW k \in Id, ~Exists(k), item'[k] # None
        PROVE  item'[k].draft = task /\ item'[k].student \in req[r].to
    BY <2>1, <2>2 DEF Added, Fresh
  <2>3. \A s \in req[r].to : \A j \in Owned(s) : item[j].draft.name # task.name
    BY <1>1, <1>2 DEF GapsInv
  <2>4. ASSUME NEW n \in Id, req'[r].gaps[n] # None
        PROVE  req'[r].gaps[n].name # task.name
    <3>1. [req[r] EXCEPT !.gaps[i] = None].gaps = [req[r].gaps EXCEPT ![i] = None]
      BY ReqType DEF Local
    <3>2. req'[r].gaps = [req[r].gaps EXCEPT ![i] = None]
      BY <1>1, <3>1, ReqTypes
    <3>3. n # i /\ req'[r].gaps[n] = req[r].gaps[n]
      BY <1>2, <2>4, <3>2, ReqType
    <3> QED  BY <1>1, <1>2, <2>4, <3>3 DEF GapsInv, Gaps
  <2> QED  BY <2>1, <2>2, <2>3, <2>4 DEF Added
<1> QED  BY <1>1, <1>3, <1>4

LEMMA GapsInvStep ==
    ASSUME TypeOK, TypeOK', Anchored, Grown, NoTwins, GapsInv, [Next]_vars
    PROVE  GapsInv'
<1> SUFFICES ASSUME met' \cap {"overlap", "twins"} = {}, NEW r \in Request
             PROVE  /\ req'[r].pc # "idle" => \A i, j \in Id :
                          i # j /\ req'[r].gaps[i] # None /\ req'[r].gaps[j] # None =>
                             req'[r].gaps[i].name # req'[r].gaps[j].name
                    /\ req'[r].pc = "pr_insert" =>
                          \A i \in Id : req'[r].gaps[i] # None =>
                             \A s \in req'[r].to : \A j \in Owned(s)' :
                                item'[j].draft.name # req'[r].gaps[i].name
  BY DEF GapsInv, Gaps, At
<1>1. met \cap {"overlap", "twins"} = {}
  BY MetGrows
<1>2. ASSUME NEW i \in Id, NEW j \in Id, i # j, req'[r].gaps[i] # None, req'[r].gaps[j] # None,
             req'[r].pc # "idle"
      PROVE  req'[r].gaps[i].name # req'[r].gaps[j].name
  <2>1. CASE At(r, "idle")
    <3>1. \A k \in Id : req[r].gaps[k] = None
      BY <2>1, IdleType DEF Anchored
    <3>2. /\ Center(i) /\ req'[r].gaps[i] = item[i].draft
          /\ Center(j) /\ req'[r].gaps[j] = item[j].draft
      BY <1>2, <3>1, GapsStep
    <3> QED  BY <1>1, <1>2, <3>2 DEF NoTwins, Center
  <2>2. CASE ~At(r, "idle")
    <3>1. req'[r].gaps[i] = req[r].gaps[i] /\ req'[r].gaps[j] = req[r].gaps[j]
      BY <1>2, <2>2, GapsStep DEF At
    <3> QED  BY <1>1, <1>2, <2>2, <3>1 DEF GapsInv, Gaps
  <2> QED  BY <2>1, <2>2
<1>3. ASSUME req'[r].pc = "pr_insert", NEW i \in Id, req'[r].gaps[i] # None,
             NEW s \in req'[r].to, NEW j \in Owned(s)'
      PROVE  item'[j].draft.name # req'[r].gaps[i].name
  <2>0. j \in Id /\ item'[j] # None /\ item'[j].student = s /\ Live(j)'
    BY DEF Owned, Live, Exists
  <2>1. CASE UNCHANGED <<item, req>>
    <3>1. j \in Owned(s)
      BY <2>1 DEF Owned, Live, Exists
    <3> QED  BY <1>1, <1>3, <2>1, <3>1 DEF GapsInv, Gaps, At
  <2>2. CASE UNCHANGED req /\ \A q \in Request : At(q, "idle")
    BY <1>3, <2>2 DEF At
  <2>3. ASSUME NEW p \in Request, Moves(p), \A q \in Request : q # p => At(q, "idle")
        PROVE  item'[j].draft.name # req'[r].gaps[i].name
    <3>1. r = p
      BY <1>3, <2>3, MovesOne DEF At
    <3>2. \/ ProfileNames(r) /\ req'[r].to = req[r].to
          \/ ProfileInsert(r) /\ req'[r].to = req[r].to /\ At(r, "pr_insert")
      BY <1>3, <2>3, <3>1, MovesOne, Advance, IdleType
    <3>3. CASE ProfileNames(r)
      <4>1. UNCHANGED item
        BY <3>3 DEF ProfileNames
      <4>2. j \in Owned(s)
        BY <4>1 DEF Owned, Live, Exists
      <4> QED  BY <1>3, <3>2, <3>3, <4>1, <4>2, NamesChecked
    <3>4. CASE ProfileInsert(r) /\ At(r, "pr_insert")
      <4>1. CASE Exists(j)
        <5>1. item'[j] = item[j]
          BY <1>1, <3>4, <4>1, <2>0, GapFilled
        <5>2. j \in Owned(s)
          BY <2>0, <4>1, <5>1, TemplateBefore DEF Owned
        <5>3. req'[r].gaps[i] = req[r].gaps[i]
          BY <1>3, <3>4, GapsStep DEF At
        <5> QED  BY <1>1, <1>3, <3>2, <3>4, <5>1, <5>2, <5>3 DEF GapsInv, Gaps
      <4>2. CASE ~Exists(j)
        BY <1>1, <1>3, <2>0, <3>4, <4>2, GapFilled
      <4> QED  BY <4>1, <4>2
    <3> QED  BY <3>2, <3>3, <3>4 DEF ProfileInsert
  <2>4. "overlap" \notin met'
    OBVIOUS
  <2> QED  BY <2>1, <2>2, <2>3, <2>4, NoOverlap
<1> QED  BY <1>2, <1>3

-----------------------------------------------------------------------------
(* The theorems *)

LEMMA InitHolds == Init => IInv
<1> SUFFICES ASSUME Init PROVE IInv
  OBVIOUS
<1> USE DEF Init
<1>1. TypeOK
  BY Bounds, IdleType DEF TypeOK, Day
<1>2. \A i \in Id : ~Exists(i)
  BY DEF Exists
<1>3. Anchored
  BY <1>2, IdleType DEF Anchored, At, Gaps
<1>4. AnswersTell /\ CompletionRecorded /\ NoTwins
  BY <1>2 DEF AnswersTell, CompletionRecorded, NoTwins, Live
<1>5. Alone /\ AssignInv /\ GapsInv
  BY <1>2, IdleType DEF Alone, AssignInv, GapsInv, At, Live
<1> QED  BY <1>1, <1>3, <1>4, <1>5 DEF IInv

LEMMA StepHolds == IInv /\ [Next]_vars => IInv'
<1> SUFFICES ASSUME IInv, [Next]_vars PROVE IInv'
  OBVIOUS
<1>1. TypeOK' /\ Grown
  BY TypeStep DEF IInv
<1>2. Anchored'
  BY <1>1, AnchoredStep DEF IInv
<1>3. AnswersTell'
  BY TellStep DEF IInv
<1>4. CompletionRecorded'
  BY CompletionStep DEF IInv
<1>5. Alone'
  BY AloneStep DEF IInv
<1>6. AssignInv'
  BY <1>1, AssignStep DEF IInv
<1>7. NoTwins'
  BY TwinsStep DEF IInv
<1>8. GapsInv'
  BY <1>1, GapsInvStep DEF IInv
<1> QED  BY <1>1, <1>2, <1>3, <1>4, <1>5, <1>6, <1>7, <1>8 DEF IInv

\* The inductive invariant holds in every state of the program.
THEOREM Invariant == Spec => []IInv
<1> QED  BY InitHolds, StepHolds, PTL DEF Spec

\* CompleteTaskItem and UncompleteTaskItem (database/tracker.go): at every
\* moment the rows are well formed, and the flag of an item and its answer
\* from a dashboard stand or fall together.
THEOREM BoardSound == Spec => []BoardIsSound
<1>1. IInv => BoardIsSound
  BY DEF IInv, BoardIsSound
<1> QED  BY <1>1, Invariant, PTL

\* HandleAssignLibraryItem: without overlapping requests and failed removals a
\* template is handed out by one request only, whatever its list repeats.
THEOREM OneRequestEach == Spec => AssignedOnce
<1>1. ASSUME IInv, [Next]_vars
      PROVE  [\A t \in Id :
                (/\ Template(t) /\ met' \cap {"overlap", "failure"} = {}
                 /\ \E k \in Id : ~Exists(k) /\ item'[k] # None /\ item'[k].from = t)
                => \A s \in Student : Copies(t, s) = {}]_vars
  BY <1>1, FirstCopies, TypeStep DEF IInv
<1> QED  BY <1>1, Invariant, PTL DEF Spec, AssignedOnce

\* The week of a day begins on that day or before.
LEMMA WeekBegins == ASSUME NEW d \in Day PROVE WeekStart(d) \in Int /\ WeekStart(d) <= d
<1>1. d \in Nat /\ d >= 1 /\ d - 1 \in Nat
  BY Bounds DEF Day
<1>2. (d - 1) % WeekLen \in Nat
  BY <1>1, Bounds
<1> QED  BY <1>1, <1>2 DEF WeekStart

\* GetDueItems and SaveTrackerResponses: an answer given at checkout settles
\* its item for the day, unless it says "not done" of a one-time item.
THEOREM NeverAskedAgain == Spec => []NotAskedAgain
<1>1. ASSUME IInv
      PROVE  NotAskedAgain
  <2> SUFFICES ASSUME NEW a \in resp, a.via = "checkout", a.day = day, a.item \in Due(a.student, day)
               PROVE  item[a.item].draft.rec = "none" /\ a.status = "not_done"
    BY DEF NotAskedAgain
  <2>1. day \in Day /\ a.due = 0 /\ When(a) = day /\ a.status \in {"done", "not_done"}
    BY <1>1 DEF IInv, AnswersTell, When, TypeOK, Answer
  <2>2. ~Settles(a, a.item, day)
    BY DEF Due, Answers
  <2>3. WeekStart(day) <= day /\ day \in Nat
    BY <2>1, WeekBegins DEF Day
  <2>4. item[a.item].draft.rec \in {"daily", "weekly", "monthly", "none"}
    <3>1. a.item \in Id /\ Exists(a.item)
      BY DEF Due, Live
    <3> QED  BY <1>1, <3>1, ItemExists DEF IInv, DraftType
  <2>5. CASE item[a.item].draft.rec = "daily"
    BY <2>1, <2>2, <2>5 DEF Settles
  <2>6. CASE item[a.item].draft.rec = "weekly"
    BY <2>1, <2>2, <2>3, <2>6 DEF Settles
  <2>7. CASE item[a.item].draft.rec = "monthly"
    BY <2>1, <2>2, <2>7 DEF Settles
  <2>8. CASE item[a.item].draft.rec = "none"
    BY <2>1, <2>2, <2>8 DEF Settles
  <2> QED  BY <2>4, <2>5, <2>6, <2>7, <2>8
<1> QED  BY <1>1, Invariant, PTL

\* UncompleteTaskItem: what a student said at checkout or on the profile is
\* kept for ever, and a late sign-off goes only with the completion of its item.
THEOREM NoAnswerLost == Spec => AnswersKept
<1>1. ASSUME IInv, [Next]_vars
      PROVE  [\A a \in resp \ resp' :
                 ~Given(a) /\ a.status = "done" /\ ~item'[a.item].completed]_vars
  <2>1. ASSUME NEW a \in resp \ resp'
        PROVE  ~Given(a) /\ a.status = "done" /\ ~item'[a.item].completed
    <3>1. /\ UncompleteItem(a.item) /\ a.item \in Id
          /\ a.status = "done" /\ a.via \in {"board", "late"}
      BY <1>1, <2>1, Removed
    <3> QED  BY <1>1, <3>1, RowFields DEF IInv, Given
  <2> QED  BY <2>1
<1> QED  BY <1>1, Invariant, PTL DEF Spec, AnswersKept

\* A late sign-off adds itself and nothing else.
LEMMA LateAlone ==
    ASSUME TypeOK, Anchored, [Next]_vars, NEW a \in resp', a \notin resp, a.via = "late"
    PROVE  resp' = resp \cup {a} /\ a.due \in Day /\ a.item \in Id
<1>1. ASSUME NEW s \in Student, NEW i \in Id, NEW d \in Day, NEW st \in {"done", "not_done"},
             NEW b \in BOOLEAN, LateSignoff(s, i, d, st, b)
      PROVE  resp' = resp \cup {a} /\ a.due \in Day /\ a.item \in Id
  <2>1. a = Reply(s, i, st, "late", b, d) /\ resp' = resp \cup {Reply(s, i, st, "late", b, d)}
    BY <1>1 DEF LateSignoff, AddAnswers
  <2> QED  BY <2>1 DEF Reply
<1>2. ASSUME NEW i \in Id, CompleteItem(i)
      PROVE  FALSE
  <2>1. a = Reply(item[i].student, i, "done", "board", FALSE, 0)
    BY <1>2 DEF CompleteItem, AddAnswers
  <2> QED  BY <2>1 DEF Reply
<1>3. ASSUME NEW s \in Student, NEW status \in [form[s] -> {"done", "not_done"}], NEW b \in BOOLEAN,
             form[s] # None,
             Respond(s, status, [i \in form[s] |-> b /\ status[i] = "not_done"])
      PROVE  FALSE
  BY <1>3, Answered
<1>4. ASSUME NEW r \in Request, NEW s \in Student, NEW V \in SUBSET Id, BeginProfile(r, s, V)
      PROVE  FALSE
  BY <1>4, Profiled
<1>5. CASE resp' \subseteq resp
  BY <1>5
<1>6. ASSUME NEW i \in Id, UncompleteItem(i)
      PROVE  resp' \subseteq resp
  BY <1>6 DEF UncompleteItem
<1>7. CASE Next
  BY <1>1, <1>2, <1>3, <1>4, <1>5, <1>6, <1>7
     DEF Next, CreateCenter, CreatePersonal, UpdateItem, DeleteItem, BulkAssign, ShowForm, BeginAssign,
         AssignCopy, AssignRemove, AssignFails, ProfileValues, ProfileNames, ProfileInsert, ProfileDone,
         CheckIn, NextDay
<1> QED  BY <1>5, <1>7 DEF vars

\* SaveLateSignoff and GetDueItems: signing off a day of an earlier week and
\* month leaves what is due today as it was, for every student.
THEOREM LateStaysLate == Spec => LateForItsDay
<1>1. ASSUME IInv, [Next]_vars, NEW a \in resp' \ resp, item' = item, day' = day, a.via = "late",
             a.due < WeekStart(day), Month(a.due) < Month(day), item[a.item].draft.rec # "none",
             NEW s \in Student
      PROVE  Due(s, day)' = Due(s, day)
  <2>1. resp' = resp \cup {a} /\ a.due \in Day /\ a.item \in Id /\ day \in Day
    BY <1>1, LateAlone DEF IInv, TypeOK
  <2>2. Exists(a.item)
    BY <1>1, AnswerMade DEF IInv
  <2>3. When(a) = a.due /\ a.due # day /\ Month(a.due) # Month(day)
    <3>1. a.due # 0 /\ a.due \in Nat /\ day \in Nat
      BY <2>1 DEF Day
    <3>2. Month(a.due) \in Int /\ Month(day) \in Int
      BY <3>1, Bounds DEF Month
    <3> QED  BY <1>1, <2>1, <3>1, <3>2, WeekBegins DEF When
  <2>4. item[a.item].draft.rec \in {"daily", "weekly", "monthly"}
    BY <1>1, <2>1, <2>2, ItemExists DEF IInv, DraftType
  <2>5. ~Settles(a, a.item, day)
    <3>1. a.due \in Nat /\ WeekStart(day) \in Int
      BY <2>1, WeekBegins DEF Day
    <3> QED  BY <1>1, <2>3, <2>4, <3>1 DEF Settles
  <2>6. ASSUME NEW i \in Id
        PROVE  (\A x \in Answers(s, i)' : ~Settles(x, i, day)) <=> (\A x \in Answers(s, i) : ~Settles(x, i, day))
    <3>1. Answers(s, i)' = Answers(s, i) \cup {x \in {a} : x.student = s /\ x.item = i}
      BY <2>1 DEF Answers
    <3> QED  BY <2>5, <3>1
  <2>7. Due(s, day)' = {i \in Id : /\ Live(i) /\ item[i].active
                                   /\ item[i].draft.start <= day /\ day <= item[i].draft.until
                                   /\ Applies(s, i)
                                   /\ \A x \in Answers(s, i)' : ~Settles(x, i, day)}
    BY <1>1 DEF Due, Live, Exists, Applies, Settles, When
  <2> QED  BY <2>6, <2>7 DEF Due
<1>2. ASSUME IInv, [Next]_vars
      PROVE  [\A a \in resp' \ resp :
                (/\ item' = item /\ day' = day
                 /\ a.via = "late"
                 /\ a.due < WeekStart(day) /\ Month(a.due) < Month(day)
                 /\ item[a.item].draft.rec # "none")
                => \A s \in Student : Due(s, day)' = Due(s, day)]_vars
  BY <1>1, <1>2
<1> QED  BY <1>2, Invariant, PTL DEF Spec, LateForItsDay

\* AutoAssignProfileTasks: without overlapping requests and center items of
\* one name, no student gets a second live item of a name.
THEOREM NoSecondItem == Spec => NoSecondCopy
<1>1. ASSUME IInv, [Next]_vars, NEW i \in Id, NEW r \in Request, At(r, "pr_insert"), req'[r] # req[r],
             ~Exists(i), item'[i] # None, met' \cap {"overlap", "twins"} = {},
             NEW j \in Owned(item'[i].student)
      PROVE  item[j].draft.name # item'[i].draft.name
  <2>1. met \cap {"overlap", "twins"} = {}
    BY <1>1, MetGrows DEF IInv
  <2>2. ProfileInsert(r) \/ ProfileDone(r)
    <3>1. PICK p \in Request : Moves(p) /\ \A q \in Request : q # p => At(q, "idle")
      BY <1>1, NoOverlap DEF IInv
    <3>2. p = r
      BY <1>1, <3>1, MovesOne DEF IInv
    <3> QED  BY <1>1, <3>1, <3>2 DEF Moves, BeginAssign, AssignCopy, AssignRemove, AssignFails, BeginProfile,
                                     ProfileValues, ProfileNames, At
  <2>3. CASE ProfileInsert(r)
    BY <1>1, <2>1, <2>3, GapFilled DEF IInv
  <2>4. CASE ProfileDone(r)
    BY <1>1, <2>4 DEF ProfileDone, Exists
  <2> QED  BY <2>2, <2>3, <2>4
<1>2. ASSUME IInv, [Next]_vars
      PROVE  [\A i \in Id :
                (/\ \E r \in Request : At(r, "pr_insert") /\ req'[r] # req[r]
                 /\ ~Exists(i) /\ item'[i] # None
                 /\ met' \cap {"overlap", "twins"} = {})
                => \A j \in Owned(item'[i].student) :
                      item[j].draft.name # item'[i].draft.name]_vars
  BY <1>1, <1>2
<1> QED  BY <1>2, Invariant, PTL DEF Spec, NoSecondCopy
=============================================================================
