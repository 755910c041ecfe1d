---------------------------- MODULE DatabaseProofs ----------------------------
(***************************************************************************)
(* Theorems about the database file from one start of the program to the   *)
(* next: what backups save and restores put back (Backup), for any number  *)
(* of students, sessions and files, and how a database of an earlier       *)
(* version is upgraded (Migration), for any number of starts that die and  *)
(* of statements that fail.                                                *)
(***************************************************************************)
EXTENDS Backup, Migration, SequenceTheorems, TLAPS

-----------------------------------------------------------------------------
(* The tables and what a step writes. *)

AnyRow   == UNION {Row(t) : t \in Table}
Contents == {f \in [Table -> SUBSET AnyRow] : Content(f)}
File     == [rows : Contents, closed : BOOLEAN]

\* The four tables, in the order in which they are written and read.
LEMMA FourTables ==
    /\ Len(Tables) = 4 /\ DOMAIN Tables = 1..4
    /\ Tables[1] = "attendance" /\ Tables[2] = "checkin_audit"
    /\ Tables[3] = "task_items" /\ Tables[4] = "timeoff"
    /\ Table = {"attendance", "checkin_audit", "task_items", "timeoff"}
<1>1. DOMAIN Tables = 1..4 /\ Len(Tables) = 4
  BY DEF Tables
<1>2. /\ Tables[1] = "attendance" /\ Tables[2] = "checkin_audit"
      /\ Tables[3] = "task_items" /\ Tables[4] = "timeoff"
  BY DEF Tables
<1>3. 1..4 = {1, 2, 3, 4}
  OBVIOUS
<1>4. Table = {Tables[k] : k \in {1, 2, 3, 4}}
  BY <1>1, <1>3 DEF Table
<1> QED  BY <1>1, <1>2, <1>4

\* The rows of each.
LEMMA RowsOf ==
    /\ Row("attendance") = Id \X Student
    /\ Row("checkin_audit") = Id \X Student
    /\ Row("task_items") = {"sample", "own"}
    /\ Row("timeoff") = {"all", "class"}
BY DEF Row, Record

\* No check-in is the absence of one.
LEMMA VisitsAreReal == NoVisit \notin Row("attendance")
BY RowsOf, BoundsAssumption DEF NoVisit, Id

LEMMA InContents ==
    ASSUME NEW f, f = [t \in Table |-> f[t]], \A t \in Table : f[t] \subseteq Row(t)
    PROVE  f \in Contents
<1>1. \A t \in Table : f[t] \in SUBSET AnyRow
  BY DEF AnyRow
<1>2. f \in [Table -> SUBSET AnyRow]
  BY <1>1
<1> QED  BY <1>2 DEF Contents, Content

\* Replacing the rows of one table.
LEMMA OneTable ==
    ASSUME NEW f \in Contents, NEW t \in Table, NEW R, R \subseteq Row(t)
    PROVE  /\ [f EXCEPT ![t] = R] \in Contents
           /\ [f EXCEPT ![t] = R][t] = R
           /\ \A u \in Table : u # t => [f EXCEPT ![t] = R][u] = f[u]
<1> DEFINE g == [f EXCEPT ![t] = R]
<1>1. f \in [Table -> SUBSET AnyRow] /\ \A u \in Table : f[u] \subseteq Row(u)
  BY DEF Contents, Content
<1>2. /\ g = [u \in Table |-> g[u]] /\ g[t] = R
      /\ \A u \in Table : u # t => g[u] = f[u]
  BY <1>1
<1>3. \A u \in Table : g[u] \subseteq Row(u)
  BY <1>1, <1>2
<1>4. g \in Contents
  BY <1>2, <1>3, InContents
<1> QED  BY <1>2, <1>4

LEMMA PutTable ==
    ASSUME db \in Contents, NEW t \in Table, NEW R, R \subseteq Row(t), Put(t, R)
    PROVE  /\ db' \in Contents /\ db'[t] = R
           /\ \A u \in Table : u # t => db'[u] = db[u]
<1>1. /\ [db EXCEPT ![t] = R] \in Contents
      /\ [db EXCEPT ![t] = R][t] = R
      /\ \A u \in Table : u # t => [db EXCEPT ![t] = R][u] = db[u]
  BY OneTable
<1>2. db' = [db EXCEPT ![t] = R]
  BY DEF Put
<1> QED  BY <1>1, <1>2

LEMMA EmptyContents == Empty \in Contents /\ \A t \in Table : Empty[t] = {}
<1>1. Empty = [t \in Table |-> Empty[t]] /\ \A t \in Table : Empty[t] = {}
  BY DEF Empty
<1> QED  BY <1>1, InContents

-----------------------------------------------------------------------------
(* The inductive invariant *)

Typed ==
    /\ db \in Contents
    /\ files \in Seq(File)
    /\ job \in [Slot -> [file : Nat, next : Nat]]
    /\ TypeOK

\* Who writes when, and how far a restore is.
Phases ==
    /\ \A w \in Slot : job[w] # NoJob => Serving
    /\ job["daily"] # NoJob /\ job["shutdown"] # NoJob =>
          job["daily"].file # job["shutdown"].file
    /\ checkin # NoVisit => Serving /\ checkin \in db["attendance"]
    /\ phase = "restoring" =>
          /\ files # <<>> /\ Newest.closed
          /\ "failed" \notin met =>
                /\ entry = 1 => db["attendance"] = {}
                /\ entry > 1 => db["attendance"] = Newest.rows["attendance"]

\* A file that is written holds, of the tables behind it, what the database
\* holds, and of those to come nothing.
SoFar(w) ==
    LET rows == files[job[w].file].rows  next == job[w].next IN
    /\ rows["attendance"] = IF next > 1 THEN db["attendance"] ELSE {}
    /\ rows["checkin_audit"] = IF next > 2 THEN db["checkin_audit"] ELSE {}

\* As long as each backup is of one moment, the audit entries of the database
\* and of every file name sessions that are there.
Momentary ==
    met \subseteq {"torn", "two", "boot"} =>
        /\ db["checkin_audit"] \subseteq db["attendance"]
        /\ \A i \in DOMAIN files :
              files[i].rows["checkin_audit"] \subseteq files[i].rows["attendance"]
        /\ \A w \in Slot : job[w] # NoJob => SoFar(w)
        /\ phase = "restoring" =>
              db["checkin_audit"] = IF entry > 2 THEN Newest.rows["checkin_audit"] ELSE {}

\* The sessions of the closed files are in S.
Holds(S) == \A i \in DOMAIN files : files[i].closed => files[i].rows["attendance"] \subseteq S

\* As long as backups come one at a time and are finished, the newest closed
\* one holds the sessions of all, and so does the database unless it is lost.
Growing ==
    met \subseteq {"beside", "boot"} =>
        /\ \A i \in DOMAIN files :
              ~files[i].closed => i = Len(files) /\ \E w \in Slot : job[w] # NoJob
        /\ files # <<>> /\ Newest.closed => Holds(Newest.rows["attendance"])
        /\ \A w \in Slot : job[w] # NoJob /\ job[w].next > 1 =>
              /\ Holds(files[job[w].file].rows["attendance"])
              /\ files[job[w].file].rows["attendance"] \subseteq db["attendance"]
        /\ Holds(db["attendance"]) \/ (~Serving /\ db["attendance"] = {})

IInv == Typed /\ Phases /\ Momentary /\ Growing

-----------------------------------------------------------------------------
(* What the invariant says of the parts *)

LEMMA Files ==
    ASSUME Typed
    PROVE  /\ DOMAIN files = 1..Len(files) /\ Len(files) \in Nat
           /\ \A i \in DOMAIN files :
                 /\ files[i] = [rows |-> files[i].rows, closed |-> files[i].closed]
                 /\ files[i].rows \in Contents /\ files[i].closed \in BOOLEAN
<1>1. DOMAIN files = 1..Len(files) /\ Len(files) \in Nat
  BY LenProperties DEF Typed
<1>2. \A i \in DOMAIN files : files[i] \in File
  BY <1>1, ElementOfSeq DEF Typed
<1> QED  BY <1>1, <1>2 DEF File

\* What TypeOK adds to the sets.
Ranges ==
    /\ \A w \in Slot : job[w] = NoJob \/ /\ job[w].file \in DOMAIN files
                                          /\ job[w].next \in 1..4
                                          /\ ~files[job[w].file].closed
    /\ phase \in {"down", "restoring", "up", "stopping"}
    /\ entry \in 0..4 /\ (phase = "restoring") = (entry # 0)
    /\ checkin = NoVisit \/ checkin \in Row("attendance")
    /\ met \subseteq {"beside", "failed", "torn", "two", "boot"}

LEMMA TypedRanges == Typed => Ranges
BY FourTables DEF Typed, TypeOK, Ranges

\* The sets and the ranges are the types.
LEMMA RangesTyped ==
    ASSUME db \in Contents, files \in Seq(File),
           job \in [Slot -> [file : Nat, next : Nat]], Ranges
    PROVE  Typed
<1>1. DOMAIN files = 1..Len(files) /\ \A i \in DOMAIN files : files[i] \in File
  BY LenProperties, ElementOfSeq
<1>2. Content(db) /\ \A i \in DOMAIN files :
                        Content(files[i].rows) /\ files[i].closed \in BOOLEAN
  BY <1>1 DEF File, Contents
<1> QED  BY <1>2, FourTables DEF Typed, TypeOK, Ranges

-----------------------------------------------------------------------------
(* Handlers *)

\* A handler adds rows: no restore is going on, and a write beside a backup is
\* noted.
LEMMA HandlerWrites ==
    ASSUME IInv, Serving, NEW t \in Table, NEW R, R \subseteq Row(t), db[t] \subseteq R,
           Put(t, R), NoteWrite, UNCHANGED <<files, job, phase, entry>>,
           checkin' = NoVisit \/ (checkin' \in Row("attendance") /\ checkin' \in db'["attendance"]),
           t = "checkin_audit" => R \subseteq db["checkin_audit"] \cup db["attendance"]
    PROVE  IInv'
<1> USE DEF IInv
<1>1. /\ db' \in Contents /\ db'[t] = R
      /\ \A u \in Table : u # t => db'[u] = db[u]
  BY PutTable DEF Typed
<1>2. \A u \in Table : db[u] \subseteq db'[u]
  BY <1>1
<1>3. Ranges
  BY TypedRanges
<1>4. met \subseteq met' /\ met' \subseteq met \cup {"beside"}
      /\ ("beside" \notin met' => Working = {})
  BY DEF NoteWrite, Note
<1>5. Typed'
  <2>1. Ranges'
    BY <1>3, <1>4, RowsOf DEF Ranges, Row
  <2>2. (db \in Contents)' /\ (files \in Seq(File))' /\
        (job \in [Slot -> [file : Nat, next : Nat]])'
    BY <1>1 DEF Typed
  <2>3. (db \in Contents /\ files \in Seq(File) /\
         job \in [Slot -> [file : Nat, next : Nat]] /\ Ranges => Typed)'
    BY RangesTyped, PTL
  <2> QED  BY <2>1, <2>2, <2>3
<1>6. phase # "restoring" /\ Serving'
  BY DEF Serving
<1>7. Phases'
  BY <1>6 DEF Phases, Serving
<1>8. Momentary'
  <2> SUFFICES ASSUME met' \subseteq {"torn", "two", "boot"}
               PROVE  (/\ db["checkin_audit"] \subseteq db["attendance"]
                       /\ \A i \in DOMAIN files :
                             files[i].rows["checkin_audit"] \subseteq files[i].rows["attendance"]
                       /\ \A w \in Slot : job[w] # NoJob => SoFar(w)
                       /\ phase # "restoring")'
    BY DEF Momentary
  <2>1. met \subseteq {"torn", "two", "boot"} /\ Working = {}
    BY <1>4
  <2>2. \A w \in Slot : job[w] = NoJob
    BY <2>1 DEF Working
  <2>3. db["checkin_audit"] \subseteq db["attendance"]
    BY <2>1 DEF Momentary
  <2>4. db'["checkin_audit"] \subseteq db'["attendance"]
    BY <2>3, <1>1, <1>2, FourTables
  <2> QED  BY <2>1, <2>2, <2>4, <1>6 DEF Momentary
<1>9. Growing'
  <2> SUFFICES ASSUME met' \subseteq {"beside", "boot"}
               PROVE  (/\ \A i \in DOMAIN files :
                             ~files[i].closed => i = Len(files) /\ \E w \in Slot : job[w] # NoJob
                       /\ files # <<>> /\ Newest.closed => Holds(Newest.rows["attendance"])
                       /\ \A w \in Slot : job[w] # NoJob /\ job[w].next > 1 =>
                             /\ Holds(files[job[w].file].rows["attendance"])
                             /\ files[job[w].file].rows["attendance"] \subseteq db["attendance"]
                       /\ Holds(db["attendance"]))'
    BY DEF Growing
  <2>1. met \subseteq {"beside", "boot"}
    BY <1>4
  <2>2. db["attendance"] \subseteq db'["attendance"]
    BY <1>2, FourTables
  <2> QED  BY <2>1, <2>2 DEF Growing, Holds, Newest
<1> QED  BY <1>5, <1>7, <1>8, <1>9

\* The two statements of a check-in, and a teacher's rows
LEMMA HandlersKeep ==
    ASSUME IInv,
           \/ \E s \in Student : CheckInInsert(s)
           \/ CheckInAudit
           \/ \E t \in Table \ Record : \E row \in Row(t) : Save(t, row)
    PROVE  IInv'
<1> USE DEF IInv
<1>0. \A t \in Table : db[t] \subseteq Row(t)
  BY DEF Typed, Contents, Content
<1>1. ASSUME NEW s \in Student, CheckInInsert(s)  PROVE IInv'
  <2>1. PICK i \in Id :
          /\ Put("attendance", db["attendance"] \cup {<<i, s>>})
          /\ checkin' = <<i, s>>
    BY <1>1 DEF CheckInInsert
  <2>2. <<i, s>> \in Row("attendance")
    BY RowsOf
  <2>3. db["attendance"] \cup {<<i, s>>} \subseteq Row("attendance")
    BY <1>0, <2>2, FourTables
  <2>4. db'["attendance"] = db["attendance"] \cup {<<i, s>>}
    BY <2>1, <2>3, FourTables, PutTable DEF Typed
  <2> HIDE DEF IInv
  <2> QED  BY <1>1, <2>1, <2>2, <2>3, <2>4, FourTables, HandlerWrites DEF CheckInInsert
<1>2. ASSUME CheckInAudit  PROVE IInv'
  <2>1. checkin \in db["attendance"]
    BY <1>2 DEF CheckInAudit, Phases
  <2>2. db["checkin_audit"] \cup {checkin} \subseteq Row("checkin_audit")
    BY <1>0, <2>1, FourTables, RowsOf
  <2> HIDE DEF IInv
  <2> QED  BY <1>2, <2>1, <2>2, FourTables, HandlerWrites DEF CheckInAudit
<1>3. ASSUME NEW t \in Table \ Record, NEW row \in Row(t), Save(t, row)  PROVE IInv'
  <2>1. db[t] \cup {row} \subseteq Row(t)
    BY <1>0
  <2>2. t # "attendance" /\ t # "checkin_audit"
    BY DEF Record
  <2>3. db'["attendance"] = db["attendance"]
    BY <1>3, <2>1, <2>2, FourTables, PutTable DEF Save, Typed
  <2>4. checkin' = checkin /\ (checkin = NoVisit \/
          (checkin \in Row("attendance") /\ checkin \in db'["attendance"]))
    BY <1>3, <2>3, TypedRanges DEF Save, Phases, Ranges
  <2> HIDE DEF IInv
  <2> QED  BY <1>3, <2>1, <2>2, <2>4, HandlerWrites DEF Save
<1> QED  BY <1>1, <1>2, <1>3

-----------------------------------------------------------------------------
(* Run *)

\* A new backup is an empty file behind the others.
LEMMA NewFile ==
    ASSUME Typed, NEW w \in Slot, Create(w)
    PROVE  /\ files' \in Seq(File) /\ Len(files') = Len(files) + 1
           /\ DOMAIN files' = 1..(Len(files) + 1)
           /\ \A i \in DOMAIN files : files'[i] = files[i]
           /\ files'[Len(files) + 1].rows = Empty /\ ~files'[Len(files) + 1].closed
           /\ job' \in [Slot -> [file : Nat, next : Nat]]
           /\ job'[w] = [file |-> Len(files) + 1, next |-> 1]
           /\ \A v \in Slot : v # w => job'[v] = job[v]
<1>1. DOMAIN files = 1..Len(files) /\ Len(files) \in Nat
  BY Files
<1>2. [rows |-> Empty, closed |-> FALSE] \in File
  BY EmptyContents DEF File
<1>3. files \in Seq(File) /\ files' = Append(files, [rows |-> Empty, closed |-> FALSE])
  BY DEF Create, Typed
<1>4. /\ files' \in Seq(File) /\ Len(files') = Len(files) + 1
      /\ \A i \in 1..Len(files) : files'[i] = files[i]
      /\ files'[Len(files) + 1] = [rows |-> Empty, closed |-> FALSE]
  BY <1>2, <1>3, AppendProperties
<1>5. DOMAIN files' = 1..(Len(files) + 1)
  BY <1>4, LenProperties
<1>6. /\ job' \in [Slot -> [file : Nat, next : Nat]]
      /\ job'[w] = [file |-> Len(files) + 1, next |-> 1]
      /\ \A v \in Slot : v # w => job'[v] = job[v]
  BY <1>1 DEF Create, Typed
<1> QED  BY <1>1, <1>4, <1>5, <1>6

\* A backup begins while the handlers serve.  One beside another is noted.
LEMMA CreateKeeps ==
    ASSUME IInv, NEW w \in Slot, Create(w), Serving, phase' = phase \/ phase' = "stopping"
    PROVE  IInv'
<1> USE DEF IInv
<1>1. /\ files' \in Seq(File) /\ Len(files') = Len(files) + 1
      /\ DOMAIN files' = 1..(Len(files) + 1)
      /\ \A i \in DOMAIN files : files'[i] = files[i]
      /\ files'[Len(files) + 1].rows = Empty /\ ~files'[Len(files) + 1].closed
      /\ job' \in [Slot -> [file : Nat, next : Nat]]
      /\ job'[w] = [file |-> Len(files) + 1, next |-> 1]
      /\ \A v \in Slot : v # w => job'[v] = job[v]
  BY NewFile
<1>2. DOMAIN files = 1..Len(files) /\ Len(files) \in Nat
  BY Files
<1>3. Ranges
  BY TypedRanges
<1>4. UNCHANGED <<db, entry, checkin>> /\ Serving'
      /\ phase # "restoring" /\ phase' # "restoring"
  BY DEF Create, Serving
<1>5. met \subseteq met' /\ met' \subseteq met \cup {"two"}
      /\ ("two" \notin met' => Working = {})
  BY DEF Create, Note
<1>6. Typed'
  <2>1. \A v \in Slot : job'[v] = NoJob \/ /\ job'[v].file \in DOMAIN files'
                                           /\ job'[v].next \in 1..4
                                           /\ ~files'[job'[v].file].closed
    BY <1>1, <1>2, <1>3 DEF Ranges
  <2>2. Ranges'
    BY <2>1, <1>3, <1>4, <1>5 DEF Ranges, Serving
  <2>3. (db \in Contents)' /\ (files \in Seq(File))' /\
        (job \in [Slot -> [file : Nat, next : Nat]])'
    BY <1>1, <1>4 DEF Typed
  <2>4. (db \in Contents /\ files \in Seq(File) /\
         job \in [Slot -> [file : Nat, next : Nat]] /\ Ranges => Typed)'
    BY RangesTyped, PTL
  <2> QED  BY <2>2, <2>3, <2>4
<1>7. Phases'
  <2>1. \A v \in Slot : v # w /\ job[v] # NoJob => job[v].file # Len(files) + 1
    BY <1>2, <1>3 DEF Ranges
  <2>2. job'["daily"] # NoJob /\ job'["shutdown"] # NoJob =>
          job'["daily"].file # job'["shutdown"].file
    BY <2>1, <1>1 DEF Slot
  <2> QED  BY <2>2, <1>4 DEF Phases
<1>8. Momentary'
  <2> SUFFICES ASSUME met' \subseteq {"torn", "two", "boot"}
               PROVE  (/\ db["checkin_audit"] \subseteq db["attendance"]
                       /\ \A i \in DOMAIN files :
                             files[i].rows["checkin_audit"] \subseteq files[i].rows["attendance"]
                       /\ \A v \in Slot : job[v] # NoJob => SoFar(v))'
    BY <1>4 DEF Momentary
  <2>1. /\ db["checkin_audit"] \subseteq db["attendance"]
        /\ \A i \in DOMAIN files :
              files[i].rows["checkin_audit"] \subseteq files[i].rows["attendance"]
        /\ \A v \in Slot : job[v] # NoJob => SoFar(v)
    BY <1>5 DEF Momentary
  <2>2. ASSUME NEW i \in DOMAIN files'
        PROVE  files'[i].rows["checkin_audit"] \subseteq files'[i].rows["attendance"]
    BY <2>1, <1>1, <1>2, EmptyContents, FourTables
  <2>3. ASSUME NEW v \in Slot, job'[v] # NoJob  PROVE SoFar(v)'
    <3>1. CASE v = w
      BY <3>1, <1>1, EmptyContents, FourTables DEF SoFar
    <3>2. CASE v # w
      <4>1. job'[v] = job[v] /\ files'[job[v].file] = files[job[v].file]
        BY <3>2, <2>3, <1>1, <1>3 DEF Ranges
      <4> QED  BY <4>1, <2>1, <2>3, <1>4 DEF SoFar
    <3> QED  BY <3>1, <3>2
  <2> QED  BY <2>1, <2>2, <2>3, <1>4
<1>9. Growing'
  <2> SUFFICES ASSUME met' \subseteq {"beside", "boot"}
               PROVE  (/\ \A i \in DOMAIN files :
                             ~files[i].closed => i = Len(files) /\ \E v \in Slot : job[v] # NoJob
                       /\ files # <<>> /\ Newest.closed => Holds(Newest.rows["attendance"])
                       /\ \A v \in Slot : job[v] # NoJob /\ job[v].next > 1 =>
                             /\ Holds(files[job[v].file].rows["attendance"])
                             /\ files[job[v].file].rows["attendance"] \subseteq db["attendance"]
                       /\ Holds(db["attendance"]))'
    BY DEF Growing
  <2>1. met \subseteq {"beside", "boot"} /\ \A v \in Slot : job[v] = NoJob
    BY <1>5 DEF Working
  <2>2. \A i \in DOMAIN files : files[i].closed
    BY <2>1 DEF Growing
  <2>3. \A v \in Slot : job'[v] # NoJob => v = w
    BY <2>1, <1>1
  <2>4. job'[w] # NoJob /\ ~(job'[w].next > 1)
    BY <1>1, <1>2 DEF NoJob
  <2>5. ASSUME NEW i \in DOMAIN files', ~files'[i].closed  PROVE i = Len(files')
    <3>1. i \in 1..(Len(files) + 1) /\ i \notin 1..Len(files)
      BY <2>2, <2>5, <1>1, <1>2
    <3> QED  BY <3>1, <1>1, <1>2
  <2>6. ~Newest.closed'
    <3>1. Newest' = files'[Len(files')]
      BY DEF Newest
    <3> QED  BY <3>1, <1>1
  <2>7. Holds(db["attendance"])
    BY <2>1 DEF Growing
  <2>8. Holds(db["attendance"])'
    BY <2>7, <1>1, <1>2, <1>4 DEF Holds
  <2> QED  BY <2>3, <2>4, <2>5, <2>6, <2>8
<1> QED  BY <1>6, <1>7, <1>8, <1>9

LEMMA BeginningsKeep == ASSUME IInv, DailyBackup \/ Terminate  PROVE IInv'
<1>1. CASE DailyBackup
  BY <1>1, CreateKeeps DEF DailyBackup, Slot, Serving
<1>2. CASE Terminate
  BY <1>2, CreateKeeps DEF Terminate, Slot, Serving
<1> QED  BY <1>1, <1>2

\* The next table of a backup: its file changes, and closes after the last.
LEMMA NextTable ==
    ASSUME Typed, NEW w \in Slot, job[w] # NoJob, NEW rows \in Contents, Advance(w, rows)
    PROVE  LET f == job[w].file  k == job[w].next IN
           /\ f \in DOMAIN files /\ k \in 1..4 /\ ~files[f].closed
           /\ files' \in Seq(File) /\ Len(files') = Len(files)
           /\ DOMAIN files' = DOMAIN files
           /\ files'[f].rows = rows /\ files'[f].closed = (k = 4)
           /\ \A i \in DOMAIN files : i # f => files'[i] = files[i]
           /\ job' \in [Slot -> [file : Nat, next : Nat]]
           /\ k = 4 => job'[w] = NoJob
           /\ k # 4 => job'[w] = [file |-> f, next |-> k + 1]
           /\ \A v \in Slot : v # w => job'[v] = job[v]
           /\ UNCHANGED <<db, phase, entry, checkin>>
<1> DEFINE f == job[w].file
           k == job[w].next
           new == [rows |-> rows, closed |-> k = 4]
<1>1. DOMAIN files = 1..Len(files) /\ Len(files) \in Nat
  BY Files
<1>2. f \in DOMAIN files /\ k \in 1..4 /\ ~files[f].closed
  BY TypedRanges DEF Ranges
<1>3. new \in File
  BY DEF File
<1>4. files \in Seq(File) /\ files' = [files EXCEPT ![f] = new]
  BY FourTables DEF Advance, Typed
<1>5. files' \in Seq(File) /\ Len(files') = Len(files)
      /\ DOMAIN files' = DOMAIN files /\ files'[f] = new
      /\ \A i \in DOMAIN files : i # f => files'[i] = files[i]
  <2>1. files \in [1..Len(files) -> File]
    BY <1>1, <1>4, ElementOfSeq, LenProperties
  <2>2. files' \in [1..Len(files) -> File]
    BY <2>1, <1>3, <1>4
  <2>3. files' \in Seq(File)
    BY <2>2, <1>1, SeqDef
  <2>4. DOMAIN files' = 1..Len(files)
    BY <2>2
  <2>5. Len(files') = Len(files)
    BY <2>3, <2>4, <1>1, LenProperties
  <2> QED  BY <2>1, <2>3, <2>4, <2>5, <1>1, <1>2, <1>4
<1>6. job' = IF k = 4 THEN [job EXCEPT ![w] = NoJob] ELSE [job EXCEPT ![w].next = k + 1]
  BY FourTables DEF Advance
<1>7. job[w] \in [file : Nat, next : Nat]
  BY DEF Typed
<1>8. [job[w] EXCEPT !.next = k + 1] = [file |-> f, next |-> k + 1]
  BY <1>7
<1>9. /\ job' \in [Slot -> [file : Nat, next : Nat]]
      /\ k = 4 => job'[w] = NoJob
      /\ k # 4 => job'[w] = [file |-> f, next |-> k + 1]
      /\ \A v \in Slot : v # w => job'[v] = job[v]
  <2>1. NoJob \in [file : Nat, next : Nat]
        /\ [file |-> f, next |-> k + 1] \in [file : Nat, next : Nat]
    BY <1>7 DEF NoJob
  <2>2. job' = [job EXCEPT ![w] = IF k = 4 THEN NoJob ELSE [file |-> f, next |-> k + 1]]
    BY <1>6, <1>8
  <2> QED  BY <2>1, <2>2 DEF Typed
<1>10. UNCHANGED <<db, phase, entry, checkin>>
  BY DEF Advance
<1> QED  BY <1>2, <1>5, <1>9, <1>10

LEMMA AdvanceTyped ==
    ASSUME Typed, Phases, NEW w \in Slot, job[w] # NoJob, NEW rows \in Contents,
           Advance(w, rows), met' \subseteq met \cup {"failed"}
    PROVE  Typed' /\ Phases' /\ Serving
<1> DEFINE f == job[w].file
           k == job[w].next
<1>1. /\ f \in DOMAIN files /\ k \in 1..4 /\ ~files[f].closed
      /\ files' \in Seq(File) /\ DOMAIN files' = DOMAIN files
      /\ files'[f].closed = (k = 4)
      /\ \A i \in DOMAIN files : i # f => files'[i] = files[i]
      /\ job' \in [Slot -> [file : Nat, next : Nat]]
      /\ k = 4 => job'[w] = NoJob
      /\ k # 4 => job'[w] = [file |-> f, next |-> k + 1]
      /\ \A v \in Slot : v # w => job'[v] = job[v]
      /\ UNCHANGED <<db, phase, entry, checkin>>
  BY NextTable
<1>2. Ranges
  BY TypedRanges
<1>3. Serving /\ Serving' /\ phase # "restoring"
  BY <1>1 DEF Phases, Serving
<1>4. \A v \in Slot : v # w /\ job[v] # NoJob => job[v].file # f
  BY DEF Phases, Slot
<1>5. \A v \in Slot : job'[v] = NoJob \/ /\ job'[v].file \in DOMAIN files'
                                         /\ job'[v].next \in 1..4
                                         /\ ~files'[job'[v].file].closed
  <2> SUFFICES ASSUME NEW v \in Slot, job'[v] # NoJob
               PROVE  /\ job'[v].file \in DOMAIN files'
                      /\ job'[v].next \in 1..4
                      /\ ~files'[job'[v].file].closed
    OBVIOUS
  <2>1. CASE v = w
    <3>1. k # 4 /\ k + 1 \in 1..4
      BY <2>1, <1>1
    <3>2. job'[v].file = f /\ job'[v].next = k + 1
      BY <2>1, <3>1, <1>1
    <3> QED  BY <3>1, <3>2, <1>1
  <2>2. CASE v # w
    BY <2>2, <1>1, <1>2, <1>4 DEF Ranges
  <2> QED  BY <2>1, <2>2
<1>6. Typed'
  <2>1. Ranges'
    BY <1>1, <1>2, <1>5 DEF Ranges
  <2>2. (db \in Contents)' /\ (files \in Seq(File))' /\
        (job \in [Slot -> [file : Nat, next : Nat]])'
    BY <1>1 DEF Typed
  <2>3. (db \in Contents /\ files \in Seq(File) /\
         job \in [Slot -> [file : Nat, next : Nat]] /\ Ranges => Typed)'
    BY RangesTyped, PTL
  <2> QED  BY <2>1, <2>2, <2>3
<1>7. Phases'
  <2>1. job'["daily"] # NoJob /\ job'["shutdown"] # NoJob =>
          job'["daily"].file # job'["shutdown"].file
    <3>1. job'[w] # NoJob => job'[w].file = f
      BY <1>1
    <3> QED  BY <3>1, <1>1, <1>4 DEF Slot
  <2>2. checkin # NoVisit => checkin \in db["attendance"]
    BY DEF Phases
  <2> QED  BY <2>1, <2>2, <1>1, <1>3 DEF Phases
<1> QED  BY <1>3, <1>6, <1>7

\* A table of which rows are missing is noted, and nothing is promised any more.
LEMMA ExportFailsKeeps ==
    ASSUME IInv, NEW w \in Slot, ExportFails(w)
    PROVE  IInv'
<1> DEFINE old == files[job[w].file].rows
           t == Tables[job[w].next]
<1>1. Typed /\ Phases /\ job[w] # NoJob /\ met' = met \cup {"failed"}
  BY DEF IInv, ExportFails, Note
<1>2. PICK part \in SUBSET db[t] : Advance(w, [old EXCEPT ![t] = part])
  BY DEF ExportFails
<1>3. job[w].next \in 1..4 /\ job[w].file \in DOMAIN files
  BY <1>1, TypedRanges DEF Ranges
<1>4. old \in Contents
  BY <1>1, <1>3, Files
<1>5. t \in Table
  BY <1>3, FourTables
<1>6. part \subseteq Row(t)
  BY <1>1, <1>5 DEF Typed, Contents, Content
<1>7. [old EXCEPT ![t] = part] \in Contents
  <2> HIDE DEF old, t
  <2> QED  BY <1>4, <1>5, <1>6, OneTable
<1>8. Typed' /\ Phases'
  <2> DEFINE rows == [old EXCEPT ![t] = part]
  <2>1. rows \in Contents /\ Advance(w, rows)
    BY <1>2, <1>7
  <2> HIDE DEF rows
  <2> QED  BY <1>1, <2>1, AdvanceTyped
<1>9. Momentary' /\ Growing'
  BY <1>1 DEF Momentary, Growing
<1> QED  BY <1>8, <1>9 DEF IInv

\* What a file holds after its next table.
LEMMA Exported ==
    ASSUME Typed, NEW w \in Slot, ExportTable(w)
    PROVE  LET old == files[job[w].file].rows  k == job[w].next
               rows == [old EXCEPT ![Tables[k]] = db[Tables[k]]] IN
           /\ job[w] # NoJob /\ rows \in Contents /\ Advance(w, rows) /\ met' = met
           /\ rows["attendance"] = IF k = 1 THEN db["attendance"] ELSE old["attendance"]
           /\ rows["checkin_audit"] = IF k = 2 THEN db["checkin_audit"] ELSE old["checkin_audit"]
<1> DEFINE old == files[job[w].file].rows
           k == job[w].next
           rows == [old EXCEPT ![Tables[k]] = db[Tables[k]]]
<1>1. job[w] # NoJob /\ Advance(w, rows) /\ met' = met
  BY DEF ExportTable
<1>2. k \in 1..4 /\ job[w].file \in DOMAIN files
  BY <1>1, TypedRanges DEF Ranges
<1>3. old \in Contents
  BY <1>2, Files
<1>4. Tables[k] \in Table /\ (Tables[k] = "attendance" <=> k = 1)
      /\ (Tables[k] = "checkin_audit" <=> k = 2)
  <2>1. k = 1 \/ k = 2 \/ k = 3 \/ k = 4
    BY <1>2
  <2> QED  BY <2>1, FourTables
<1>5. db[Tables[k]] \subseteq Row(Tables[k])
  BY <1>4 DEF Typed, Contents, Content
<1>6. /\ rows \in Contents /\ rows[Tables[k]] = db[Tables[k]]
      /\ \A u \in Table : u # Tables[k] => rows[u] = old[u]
  <2> DEFINE t == Tables[k]
             R == db[t]
  <2>1. t \in Table /\ R \subseteq Row(t) /\ old \in Contents
    BY <1>3, <1>4, <1>5
  <2>2. rows = [old EXCEPT ![t] = R]
    OBVIOUS
  <2> HIDE DEF rows, t, R, old
  <2>3. /\ [old EXCEPT ![t] = R] \in Contents
        /\ [old EXCEPT ![t] = R][t] = R
        /\ \A u \in Table : u # t => [old EXCEPT ![t] = R][u] = old[u]
    BY <2>1, OneTable
  <2>4. rows \in Contents /\ rows[t] = R /\ \A u \in Table : u # t => rows[u] = old[u]
    BY <2>2, <2>3
  <2> QED  BY <2>4 DEF t, R
<1>7. /\ rows["attendance"] = IF k = 1 THEN db["attendance"] ELSE old["attendance"]
      /\ rows["checkin_audit"] = IF k = 2 THEN db["checkin_audit"] ELSE old["checkin_audit"]
  BY <1>4, <1>6, FourTables
<1> QED  BY <1>1, <1>6, <1>7

\* Nothing is written beside a backup of one moment: what the file holds of the
\* sessions and the audit is what the database holds.
LEMMA ExportMomentary ==
    ASSUME IInv, NEW w \in Slot, ExportTable(w)
    PROVE  Momentary'
<1> DEFINE f == job[w].file
           k == job[w].next
           old == files[f].rows
           rows == [old EXCEPT ![Tables[k]] = db[Tables[k]]]
<1> USE DEF IInv
<1>1. /\ job[w] # NoJob /\ rows \in Contents /\ Advance(w, rows) /\ met' = met
      /\ rows["attendance"] = IF k = 1 THEN db["attendance"] ELSE old["attendance"]
      /\ rows["checkin_audit"] = IF k = 2 THEN db["checkin_audit"] ELSE old["checkin_audit"]
  BY Exported
<1> HIDE DEF rows
<1>2. /\ f \in DOMAIN files /\ k \in 1..4
      /\ DOMAIN files' = DOMAIN files
      /\ files'[f].rows = rows
      /\ \A i \in DOMAIN files : i # f => files'[i] = files[i]
      /\ k = 4 => job'[w] = NoJob
      /\ k # 4 => job'[w] = [file |-> f, next |-> k + 1]
      /\ \A v \in Slot : v # w => job'[v] = job[v]
      /\ UNCHANGED <<db, phase, entry, checkin>>
  BY <1>1, NextTable
<1>3. phase # "restoring"
  BY <1>1 DEF Phases, Serving
<1>4. SUFFICES ASSUME met \subseteq {"torn", "two", "boot"}
               PROVE  (/\ db["checkin_audit"] \subseteq db["attendance"]
                       /\ \A i \in DOMAIN files :
                             files[i].rows["checkin_audit"] \subseteq files[i].rows["attendance"]
                       /\ \A v \in Slot : job[v] # NoJob => SoFar(v))'
  BY <1>1, <1>2, <1>3 DEF Momentary
<1>5. /\ db["checkin_audit"] \subseteq db["attendance"]
      /\ \A i \in DOMAIN files :
            files[i].rows["checkin_audit"] \subseteq files[i].rows["attendance"]
      /\ \A v \in Slot : job[v] # NoJob => SoFar(v)
  BY <1>4 DEF Momentary
<1>6. /\ old["attendance"] = IF k > 1 THEN db["attendance"] ELSE {}
      /\ old["checkin_audit"] = IF k > 2 THEN db["checkin_audit"] ELSE {}
  BY <1>1, <1>5 DEF SoFar
<1>7. /\ rows["attendance"] = db["attendance"]
      /\ rows["checkin_audit"] = IF k > 1 THEN db["checkin_audit"] ELSE {}
  BY <1>1, <1>2, <1>6
<1>8. ASSUME NEW i \in DOMAIN files'
      PROVE  files'[i].rows["checkin_audit"] \subseteq files'[i].rows["attendance"]
  BY <1>2, <1>5, <1>7
<1>9. ASSUME NEW v \in Slot, job'[v] # NoJob  PROVE SoFar(v)'
  <2>1. CASE v = w
    <3>1. k # 4 /\ job'[v].file = f /\ job'[v].next = k + 1
      BY <2>1, <1>2, <1>9
    <3>2. (job'[v].next > 1) /\ ((job'[v].next > 2) = (k > 1))
      BY <3>1, <1>2
    <3> QED  BY <3>1, <3>2, <1>2, <1>7 DEF SoFar
  <2>2. CASE v # w
    <3>1. job'[v] = job[v] /\ job[v].file # f /\ job[v].file \in DOMAIN files
      BY <2>2, <1>1, <1>2, <1>9, TypedRanges DEF Phases, Ranges, Slot
    <3>2. files'[job'[v].file] = files[job[v].file]
      BY <3>1, <1>2
    <3> QED  BY <3>1, <3>2, <1>2, <1>5, <1>9 DEF SoFar
  <2> QED  BY <2>1, <2>2
<1> QED  BY <1>2, <1>5, <1>8, <1>9

\* The newest file takes the sessions of the database, which has those of all
\* the closed files.
LEMMA ExportGrowing ==
    ASSUME IInv, NEW w \in Slot, ExportTable(w)
    PROVE  Growing'
<1> DEFINE f == job[w].file
           k == job[w].next
           old == files[f].rows
           rows == [old EXCEPT ![Tables[k]] = db[Tables[k]]]
           X == rows["attendance"]
<1> USE DEF IInv
<1>1. /\ job[w] # NoJob /\ rows \in Contents /\ Advance(w, rows) /\ met' = met
      /\ X = IF k = 1 THEN db["attendance"] ELSE old["attendance"]
  BY Exported
<1> HIDE DEF rows
<1>2. /\ f \in DOMAIN files /\ k \in 1..4 /\ ~files[f].closed
      /\ DOMAIN files' = DOMAIN files /\ Len(files') = Len(files)
      /\ files'[f].rows = rows /\ files'[f].closed = (k = 4)
      /\ \A i \in DOMAIN files : i # f => files'[i] = files[i]
      /\ k = 4 => job'[w] = NoJob
      /\ k # 4 => job'[w] = [file |-> f, next |-> k + 1]
      /\ \A v \in Slot : v # w => job'[v] = job[v]
      /\ UNCHANGED <<db, phase, entry, checkin>>
  BY <1>1, NextTable
<1>3. Serving /\ Serving'
  BY <1>1, <1>2 DEF Phases, Serving
<1>4. SUFFICES ASSUME met \subseteq {"beside", "boot"}
               PROVE  (/\ \A i \in DOMAIN files :
                             ~files[i].closed => i = Len(files) /\ \E v \in Slot : job[v] # NoJob
                       /\ files # <<>> /\ Newest.closed => Holds(Newest.rows["attendance"])
                       /\ \A v \in Slot : job[v] # NoJob /\ job[v].next > 1 =>
                             /\ Holds(files[job[v].file].rows["attendance"])
                             /\ files[job[v].file].rows["attendance"] \subseteq db["attendance"]
                       /\ Holds(db["attendance"]))'
  BY <1>1 DEF Growing
<1>5. f = Len(files) /\ \A i \in DOMAIN files : i # f => files[i].closed
  BY <1>2, <1>4 DEF Growing
<1>6. \A v \in Slot : v # w => job[v] = NoJob
  <2> SUFFICES ASSUME NEW v \in Slot, v # w, job[v] # NoJob  PROVE FALSE
    OBVIOUS
  <2>1. job[v].file # f /\ job[v].file \in DOMAIN files /\ ~files[job[v].file].closed
    BY <1>1, TypedRanges DEF Phases, Ranges, Slot
  <2> QED  BY <2>1, <1>5
<1>7. Holds(db["attendance"])
  BY <1>3, <1>4 DEF Growing
<1>8. Holds(X) /\ X \subseteq db["attendance"]
  <2>1. CASE k = 1
    BY <2>1, <1>1, <1>7
  <2>2. CASE k # 1
    <3>1. k > 1
      BY <2>2, <1>2
    <3> QED  BY <2>2, <3>1, <1>1, <1>4 DEF Growing
  <2> QED  BY <2>1, <2>2
<1>9. ASSUME NEW S, Holds(S), X \subseteq S
      PROVE  \A i \in DOMAIN files' : files'[i].closed => files'[i].rows["attendance"] \subseteq S
  BY <1>2, <1>9 DEF Holds
<1>10. Holds(db["attendance"])'
  BY <1>2, <1>7, <1>8, <1>9 DEF Holds
<1>11. \A i \in DOMAIN files' : files'[i].closed => files'[i].rows["attendance"] \subseteq X
  BY <1>8, <1>9
<1>12. ASSUME (files # <<>> /\ Newest.closed)'  PROVE Holds(Newest.rows["attendance"])'
  <2>1. Newest' = files'[f]
    BY <1>2, <1>5 DEF Newest
  <2>2. Newest'.rows["attendance"] = X
    BY <2>1, <1>2
  <2> QED  BY <2>2, <1>11 DEF Holds
<1>13. ASSUME NEW v \in Slot, job'[v] # NoJob
       PROVE  (/\ Holds(files[job[v].file].rows["attendance"])
               /\ files[job[v].file].rows["attendance"] \subseteq db["attendance"])'
  <2>1. v = w /\ job'[v].file = f
    BY <1>2, <1>6, <1>13
  <2>2. files'[job'[v].file].rows["attendance"] = X
    BY <2>1, <1>2
  <2> QED  BY <2>2, <1>2, <1>8, <1>11 DEF Holds
<1>14. ASSUME NEW i \in DOMAIN files', ~files'[i].closed
       PROVE  i = Len(files') /\ \E v \in Slot : job'[v] # NoJob
  <2>1. i = f /\ k # 4
    BY <1>2, <1>5, <1>14
  <2>2. job'[w] # NoJob
    BY <2>1, <1>2 DEF NoJob
  <2> QED  BY <2>1, <2>2, <1>2, <1>5
<1> QED  BY <1>10, <1>12, <1>13, <1>14

LEMMA ExportKeeps ==
    ASSUME IInv, NEW w \in Slot, ExportTable(w)
    PROVE  IInv'
<1> DEFINE old == files[job[w].file].rows
           rows == [old EXCEPT ![Tables[job[w].next]] = db[Tables[job[w].next]]]
<1>1. Typed /\ Phases
  BY DEF IInv
<1>2. job[w] # NoJob /\ rows \in Contents /\ Advance(w, rows) /\ met' = met
  BY <1>1, Exported
<1> HIDE DEF rows
<1>3. Typed' /\ Phases'
  BY <1>1, <1>2, AdvanceTyped
<1> QED  BY <1>3, ExportMomentary, ExportGrowing DEF IInv

-----------------------------------------------------------------------------
(* The end of the program, and the loss of the database *)

\* The end of the program, as a crash, leaves an open file only if that is
\* noted.
LEMMA EndKeeps == ASSUME IInv, Exit \/ Crash  PROVE IInv'
<1> USE DEF IInv
<1>1. /\ phase' = "down" /\ entry' = 0 /\ checkin' = NoVisit
      /\ job' = [w \in Slot |-> NoJob]
      /\ met \subseteq met' /\ met' \subseteq met \cup {"torn", "boot"}
      /\ ("torn" \notin met' => Working = {})
      /\ UNCHANGED <<db, files>>
  <2>1. CASE Crash
    BY <2>1 DEF Crash, Note
  <2>2. CASE Exit
    <3>1. entry = 0
      BY <2>2, TypedRanges DEF Exit, Ranges
    <3> QED  BY <2>2, <3>1 DEF Exit, Note
  <2> QED  BY <2>1, <2>2
<1>2. Typed'
  <2>1. Ranges'
    BY <1>1, TypedRanges DEF Ranges
  <2>2. (db \in Contents)' /\ (files \in Seq(File))' /\
        (job \in [Slot -> [file : Nat, next : Nat]])'
    BY <1>1 DEF Typed, NoJob
  <2>3. (db \in Contents /\ files \in Seq(File) /\
         job \in [Slot -> [file : Nat, next : Nat]] /\ Ranges => Typed)'
    BY RangesTyped, PTL
  <2> QED  BY <2>1, <2>2, <2>3
<1>3. Phases'
  BY <1>1 DEF Phases, Slot
<1>4. Momentary'
  <2> SUFFICES ASSUME met' \subseteq {"torn", "two", "boot"}
               PROVE  (/\ db["checkin_audit"] \subseteq db["attendance"]
                       /\ \A i \in DOMAIN files :
                             files[i].rows["checkin_audit"] \subseteq files[i].rows["attendance"])'
    BY <1>1 DEF Momentary
  <2> QED  BY <1>1 DEF Momentary
<1>5. Growing'
  <2> SUFFICES ASSUME met' \subseteq {"beside", "boot"}
               PROVE  (/\ \A i \in DOMAIN files : files[i].closed
                       /\ files # <<>> /\ Newest.closed => Holds(Newest.rows["attendance"])
                       /\ Holds(db["attendance"]) \/ db["attendance"] = {})'
    BY <1>1 DEF Growing, Serving
  <2>1. met \subseteq {"beside", "boot"} /\ \A w \in Slot : job[w] = NoJob
    BY <1>1 DEF Working
  <2>2. \A i \in DOMAIN files : files[i].closed
    BY <2>1 DEF Growing
  <2> QED  BY <2>1, <2>2, <1>1 DEF Growing, Holds, Newest
<1> QED  BY <1>2, <1>3, <1>4, <1>5

LEMMA LossKeeps == ASSUME IInv, LoseDatabase  PROVE IInv'
<1> USE DEF IInv
<1>1. /\ phase = "down" /\ db' = Empty
      /\ UNCHANGED <<files, job, phase, entry, checkin, met>>
  BY DEF LoseDatabase
<1>2. /\ db' \in Contents
      /\ db'["attendance"] = {} /\ db'["checkin_audit"] = {}
  BY <1>1, EmptyContents, FourTables
<1>3. ~Serving /\ \A w \in Slot : job[w] = NoJob
  BY <1>1 DEF Phases, Serving
<1>4. Typed'
  <2>1. Ranges'
    BY <1>1, TypedRanges DEF Ranges
  <2>2. (db \in Contents)' /\ (files \in Seq(File))' /\
        (job \in [Slot -> [file : Nat, next : Nat]])'
    BY <1>1, <1>2 DEF Typed
  <2>3. (db \in Contents /\ files \in Seq(File) /\
         job \in [Slot -> [file : Nat, next : Nat]] /\ Ranges => Typed)'
    BY RangesTyped, PTL
  <2> QED  BY <2>1, <2>2, <2>3
<1>5. Phases'
  BY <1>1, <1>3 DEF Phases, Slot
<1>6. Momentary'
  BY <1>1, <1>2, <1>3 DEF Momentary
<1>7. Growing'
  BY <1>1, <1>2, <1>3 DEF Growing, Holds, Newest, Serving
<1> QED  BY <1>4, <1>5, <1>6, <1>7

-----------------------------------------------------------------------------
(* Start-up *)

\* Only an empty attendance table is restored, and only from a closed file.
LEMMA StartUpKeeps == ASSUME IInv, StartUp  PROVE IInv'
<1> USE DEF IInv
<1> DEFINE restores == db["attendance"] = {} /\ files # <<>> /\ Newest.closed
<1>1. /\ phase = "down" /\ UNCHANGED <<files, job, checkin, met>>
      /\ restores => phase' = "restoring" /\ entry' = 1
      /\ ~restores => phase' = "up" /\ entry' = 0
  BY DEF StartUp
<1>2. /\ db' \in Contents /\ db'["attendance"] = db["attendance"]
      /\ db'["checkin_audit"] = db["checkin_audit"]
  <2> DEFINE R == IF db["task_items"] = {} THEN {"sample"} ELSE db["task_items"]
  <2>1. Put("task_items", R)
    BY DEF StartUp
  <2>2. db["task_items"] \subseteq Row("task_items")
    BY FourTables DEF Typed, Contents, Content
  <2>3. R \subseteq Row("task_items")
    BY <2>2, RowsOf
  <2> HIDE DEF R
  <2> QED  BY <2>1, <2>3, FourTables, PutTable DEF Typed
<1>3. ~Serving /\ (\A w \in Slot : job[w] = NoJob) /\ checkin = NoVisit
  BY <1>1 DEF Phases, Serving
<1>4. Typed'
  <2>1. Ranges'
    BY <1>1, TypedRanges DEF Ranges
  <2>2. (db \in Contents)' /\ (files \in Seq(File))' /\
        (job \in [Slot -> [file : Nat, next : Nat]])'
    BY <1>1, <1>2 DEF Typed
  <2>3. (db \in Contents /\ files \in Seq(File) /\
         job \in [Slot -> [file : Nat, next : Nat]] /\ Ranges => Typed)'
    BY RangesTyped, PTL
  <2> QED  BY <2>1, <2>2, <2>3
<1>5. Phases'
  BY <1>1, <1>2, <1>3 DEF Phases, Slot, Newest
<1>6. Momentary'
  <2> SUFFICES ASSUME met \subseteq {"torn", "two", "boot"}
               PROVE  (/\ db["checkin_audit"] \subseteq db["attendance"]
                       /\ \A i \in DOMAIN files :
                             files[i].rows["checkin_audit"] \subseteq files[i].rows["attendance"]
                       /\ \A w \in Slot : job[w] # NoJob => SoFar(w)
                       /\ phase = "restoring" => db["checkin_audit"] =
                             IF entry > 2 THEN Newest.rows["checkin_audit"] ELSE {})'
    BY <1>1 DEF Momentary
  <2>1. /\ db["checkin_audit"] \subseteq db["attendance"]
        /\ \A i \in DOMAIN files :
              files[i].rows["checkin_audit"] \subseteq files[i].rows["attendance"]
    BY DEF Momentary
  <2>2. ASSUME phase' = "restoring"  PROVE ~(entry' > 2) /\ db'["checkin_audit"] = {}
    BY <2>1, <2>2, <1>1, <1>2
  <2>3. \A w \in Slot : job'[w] = NoJob
    BY <1>1, <1>3
  <2> QED  BY <2>1, <2>2, <2>3, <1>1, <1>2
<1>7. Growing'
  <2> SUFFICES ASSUME met \subseteq {"beside", "boot"}
               PROVE  (/\ \A i \in DOMAIN files : files[i].closed
                       /\ files # <<>> /\ Newest.closed => Holds(Newest.rows["attendance"])
                       /\ Holds(db["attendance"]) \/ (~Serving /\ db["attendance"] = {}))'
    BY <1>1, <1>3 DEF Growing
  <2>1. \A i \in DOMAIN files : files[i].closed
    BY <1>3 DEF Growing
  <2>2. Holds(db["attendance"]) \/ db["attendance"] = {}
    BY DEF Growing
  <2>3. files # <<>> => Newest.closed
    <3>1. DOMAIN files = 1..Len(files) /\ Len(files) \in Nat
      BY Files
    <3>2. ASSUME files # <<>>  PROVE Len(files) \in DOMAIN files
      BY <3>1, <3>2, EmptySeq DEF Typed
    <3> QED  BY <2>1, <3>2 DEF Newest
  <2>4. files = <<>> => Holds(db["attendance"])
    <3>1. DOMAIN files = 1..Len(files)
      BY Files
    <3>2. files = <<>> => DOMAIN files = {}
      BY <3>1, EmptySeq
    <3> QED  BY <3>2 DEF Holds
  <2>5. restores \/ Holds(db["attendance"])
    BY <2>2, <2>3, <2>4
  <2>6. restores => ~Serving'
    BY <1>1 DEF Serving
  <2>7. files # <<>> /\ Newest.closed => Holds(Newest.rows["attendance"])
    BY DEF Growing
  <2> QED  BY <2>1, <2>5, <2>6, <2>7, <1>1, <1>2 DEF Holds, Newest
<1> QED  BY <1>4, <1>5, <1>6, <1>7

\* What the next entry of the newest zip becomes.
LEMMA RestoredTable ==
    ASSUME Typed, Phases, RestoreTable
    PROVE  /\ phase = "restoring" /\ entry \in 1..4
           /\ files # <<>> /\ Newest.closed /\ Newest \in File
           /\ db' \in Contents
           /\ \A u \in Table : u # Tables[entry] => db'[u] = db[u]
           /\ db'[Tables[entry]] = Restored(Tables[entry])
           /\ UNCHANGED <<files, job, checkin, met>>
           /\ entry = 4 => phase' = "up" /\ entry' = 0
           /\ entry # 4 => phase' = "restoring" /\ entry' = entry + 1
<1>1. phase = "restoring" /\ entry \in 1..4 /\ files # <<>> /\ Newest.closed
  BY TypedRanges DEF RestoreTable, Ranges, Phases
<1>2. Newest \in File
  <2>1. Len(files) \in Nat \ {0}
    BY <1>1, EmptySeq DEF Typed
  <2> QED  BY <2>1, ElementOfSeq DEF Newest, Typed
<1>3. Tables[entry] \in Table
  <2>1. entry = 1 \/ entry = 2 \/ entry = 3 \/ entry = 4
    BY <1>1
  <2> QED  BY <2>1, FourTables
<1>4. Restored(Tables[entry]) \subseteq Row(Tables[entry])
  <2>1. \A t \in Table : db[t] \subseteq Row(t) /\ Newest.rows[t] \subseteq Row(t)
    BY <1>2 DEF Typed, File, Contents, Content
  <2> QED  BY <2>1, <1>3 DEF Restored, Kept
<1>5. Put(Tables[entry], Restored(Tables[entry]))
  BY DEF RestoreTable
<1>6. /\ db' \in Contents /\ db'[Tables[entry]] = Restored(Tables[entry])
      /\ \A u \in Table : u # Tables[entry] => db'[u] = db[u]
  <2> DEFINE t == Tables[entry]
             R == Restored(t)
  <2>1. t \in Table /\ R \subseteq Row(t) /\ Put(t, R) /\ db \in Contents
    BY <1>3, <1>4, <1>5 DEF Typed
  <2> HIDE DEF t, R
  <2>2. /\ db' \in Contents /\ db'[t] = R
        /\ \A u \in Table : u # t => db'[u] = db[u]
    BY <2>1, PutTable
  <2> QED  BY <2>2 DEF t, R
<1>7. /\ UNCHANGED <<files, job, checkin, met>>
      /\ entry = 4 => phase' = "up" /\ entry' = 0
      /\ entry # 4 => phase' = "restoring" /\ entry' = entry + 1
  BY <1>1, FourTables DEF RestoreTable, NextEntry
<1> QED  BY <1>1, <1>2, <1>6, <1>7

\* The sessions come first, then their audit entries: from the same file.
LEMMA RestoredRecords ==
    ASSUME Typed, Phases, RestoreTable, "failed" \notin met
    PROVE  /\ db'["attendance"] = Newest.rows["attendance"]
           /\ entry # 2 => db'["checkin_audit"] = db["checkin_audit"]
           /\ entry = 2 /\ db["checkin_audit"] = {} =>
                 db'["checkin_audit"] = Newest.rows["checkin_audit"]
<1>1. /\ phase = "restoring" /\ entry \in 1..4
      /\ \A u \in Table : u # Tables[entry] => db'[u] = db[u]
      /\ db'[Tables[entry]] = Restored(Tables[entry])
  BY RestoredTable
<1>2. /\ entry = 1 => db["attendance"] = {}
      /\ entry > 1 => db["attendance"] = Newest.rows["attendance"]
  BY <1>1 DEF Phases
<1>3. entry = 1 \/ entry = 2 \/ entry = 3 \/ entry = 4
  BY <1>1
<1>4. CASE entry = 1
  BY <1>1, <1>2, <1>4, FourTables DEF Restored, Kept
<1>5. CASE entry = 2
  BY <1>1, <1>2, <1>5, FourTables DEF Restored, Kept
<1>6. CASE entry \in {3, 4}
  BY <1>1, <1>2, <1>6, FourTables
<1> QED  BY <1>3, <1>4, <1>5, <1>6

LEMMA RestoreKeeps == ASSUME IInv, RestoreTable  PROVE IInv'
<1> USE DEF IInv
<1>1. /\ phase = "restoring" /\ entry \in 1..4
      /\ files # <<>> /\ Newest.closed /\ Newest \in File
      /\ db' \in Contents
      /\ UNCHANGED <<files, job, checkin, met>>
      /\ entry = 4 => phase' = "up" /\ entry' = 0
      /\ entry # 4 => phase' = "restoring" /\ entry' = entry + 1
  BY RestoredTable
<1>2. "failed" \notin met =>
      /\ db'["attendance"] = Newest.rows["attendance"]
      /\ entry # 2 => db'["checkin_audit"] = db["checkin_audit"]
      /\ entry = 2 /\ db["checkin_audit"] = {} =>
            db'["checkin_audit"] = Newest.rows["checkin_audit"]
  BY RestoredRecords
<1>3. ~Serving /\ (\A w \in Slot : job[w] = NoJob) /\ checkin = NoVisit
  BY <1>1 DEF Phases, Serving
<1>4. Typed'
  <2>1. Ranges'
    BY <1>1, TypedRanges DEF Ranges
  <2>2. (db \in Contents)' /\ (files \in Seq(File))' /\
        (job \in [Slot -> [file : Nat, next : Nat]])'
    BY <1>1 DEF Typed
  <2>3. (db \in Contents /\ files \in Seq(File) /\
         job \in [Slot -> [file : Nat, next : Nat]] /\ Ranges => Typed)'
    BY RangesTyped, PTL
  <2> QED  BY <2>1, <2>2, <2>3
<1>5. Phases'
  BY <1>1, <1>2, <1>3 DEF Phases, Slot, Newest
<1>6. Momentary'
  <2> SUFFICES ASSUME met \subseteq {"torn", "two", "boot"}
               PROVE  (/\ db["checkin_audit"] \subseteq db["attendance"]
                       /\ \A i \in DOMAIN files :
                             files[i].rows["checkin_audit"] \subseteq files[i].rows["attendance"]
                       /\ phase = "restoring" => db["checkin_audit"] =
                             IF entry > 2 THEN Newest.rows["checkin_audit"] ELSE {})'
    BY <1>1, <1>3 DEF Momentary
  <2>1. /\ \A i \in DOMAIN files :
              files[i].rows["checkin_audit"] \subseteq files[i].rows["attendance"]
        /\ db["checkin_audit"] = IF entry > 2 THEN Newest.rows["checkin_audit"] ELSE {}
    BY <1>1 DEF Momentary
  <2>2. db'["checkin_audit"] = IF entry > 1 THEN Newest.rows["checkin_audit"] ELSE {}
    BY <2>1, <1>1, <1>2
  <2>3. Newest.rows["checkin_audit"] \subseteq Newest.rows["attendance"]
    <3>1. Len(files) \in DOMAIN files
      BY <1>1, Files, EmptySeq DEF Typed
    <3> QED  BY <3>1, <2>1 DEF Newest
  <2>4. db'["checkin_audit"] \subseteq db'["attendance"]
    BY <2>2, <2>3, <1>2
  <2>5. Newest' = Newest
    BY <1>1 DEF Newest
  <2>6. phase' = "restoring" => entry' = entry + 1
    BY <1>1
  <2> QED  BY <2>1, <2>2, <2>4, <2>5, <2>6, <1>1
<1>7. Growing'
  <2> SUFFICES ASSUME met \subseteq {"beside", "boot"}
               PROVE  (/\ \A i \in DOMAIN files : files[i].closed
                       /\ Holds(Newest.rows["attendance"])
                       /\ Holds(db["attendance"]))'
    BY <1>1, <1>3 DEF Growing
  <2>1. /\ \A i \in DOMAIN files : files[i].closed
        /\ Holds(Newest.rows["attendance"])
    BY <1>1, <1>3 DEF Growing
  <2> QED  BY <2>1, <1>1, <1>2 DEF Holds, Newest
<1> QED  BY <1>4, <1>5, <1>6, <1>7

\* An entry that is not restored, or not all of it, is noted.
LEMMA RestoreFailsKeeps == ASSUME IInv, RestoreFails  PROVE IInv'
<1> USE DEF IInv
<1> DEFINE t == Tables[entry]
<1>1. /\ phase = "restoring" /\ entry \in 1..4 /\ files # <<>> /\ Newest.closed
      /\ UNCHANGED <<files, job, checkin>> /\ met' = met \cup {"failed"}
      /\ entry = 4 => phase' = "up" /\ entry' = 0
      /\ entry # 4 => phase' = "restoring" /\ entry' = entry + 1
  BY TypedRanges, FourTables DEF RestoreFails, Ranges, Phases, NextEntry, Note
<1>2. PICK part \in SUBSET Kept(t, Newest.rows[t]) :
          Put(t, IF db[t] = {} THEN part ELSE db[t])
  BY DEF RestoreFails
<1>3. t \in Table
  BY <1>1, FourTables
<1>4. Newest \in File
  <2>1. Len(files) \in Nat \ {0}
    BY <1>1, EmptySeq DEF Typed
  <2> QED  BY <2>1, ElementOfSeq DEF Newest, Typed
<1>5. db' \in Contents
  <2> DEFINE R == IF db[t] = {} THEN part ELSE db[t]
  <2>1. \A u \in Table : db[u] \subseteq Row(u) /\ Newest.rows[u] \subseteq Row(u)
    BY <1>4 DEF Typed, File, Contents, Content
  <2>2. R \subseteq Row(t)
    BY <2>1, <1>3 DEF Kept
  <2>3. Put(t, R)
    BY <1>2
  <2> HIDE DEF R, t
  <2> QED  BY <2>2, <2>3, <1>3, PutTable DEF Typed
<1>6. ~Serving /\ (\A w \in Slot : job[w] = NoJob) /\ checkin = NoVisit
  BY <1>1 DEF Phases, Serving
<1>7. Typed'
  <2>1. Ranges'
    BY <1>1, TypedRanges DEF Ranges
  <2>2. (db \in Contents)' /\ (files \in Seq(File))' /\
        (job \in [Slot -> [file : Nat, next : Nat]])'
    BY <1>1, <1>5 DEF Typed
  <2>3. (db \in Contents /\ files \in Seq(File) /\
         job \in [Slot -> [file : Nat, next : Nat]] /\ Ranges => Typed)'
    BY RangesTyped, PTL
  <2> QED  BY <2>1, <2>2, <2>3
<1>8. Phases'
  BY <1>1, <1>6 DEF Phases, Slot, Newest
<1>9. Momentary' /\ Growing'
  BY <1>1 DEF Momentary, Growing
<1> QED  BY <1>7, <1>8, <1>9

-----------------------------------------------------------------------------
(* The theorems *)

LEMMA Starts == Init => IInv
<1> SUFFICES ASSUME Init  PROVE IInv
  OBVIOUS
<1>1. /\ db = Empty /\ files = <<>> /\ job = [w \in Slot |-> NoJob]
      /\ phase = "down" /\ entry = 0 /\ checkin = NoVisit /\ met = {}
  BY DEF Init
<1>2. /\ db \in Contents /\ db["attendance"] = {} /\ db["checkin_audit"] = {}
  BY <1>1, EmptyContents, FourTables
<1>3. files \in Seq(File) /\ DOMAIN files = {}
  BY <1>1, EmptySeq
<1>4. Typed
  <2>1. job \in [Slot -> [file : Nat, next : Nat]] /\ Ranges
    BY <1>1 DEF Ranges, NoJob
  <2> QED  BY <2>1, <1>2, <1>3, RangesTyped
<1>5. Phases
  BY <1>1 DEF Phases, Slot
<1>6. Momentary
  BY <1>1, <1>2, <1>3 DEF Momentary
<1>7. Growing
  BY <1>1, <1>2, <1>3 DEF Growing, Holds
<1> QED  BY <1>4, <1>5, <1>6, <1>7 DEF IInv

LEMMA Steps == IInv /\ [Next]_vars => IInv'
<1> SUFFICES ASSUME IInv, [Next]_vars  PROVE IInv'
  OBVIOUS
<1>1. CASE \/ \E s \in Student : CheckInInsert(s)
           \/ CheckInAudit
           \/ \E t \in Table \ Record : \E row \in Row(t) : Save(t, row)
  BY <1>1, HandlersKeep
<1>2. CASE DailyBackup \/ Terminate
  BY <1>2, BeginningsKeep
<1>3. CASE \E w \in Slot : ExportTable(w) \/ ExportFails(w)
  BY <1>3, ExportKeeps, ExportFailsKeeps
<1>4. CASE Exit \/ Crash
  BY <1>4, EndKeeps
<1>5. CASE LoseDatabase
  BY <1>5, LossKeeps
<1>6. CASE StartUp
  BY <1>6, StartUpKeeps
<1>7. CASE RestoreTable
  BY <1>7, RestoreKeeps
<1>8. CASE RestoreFails
  BY <1>8, RestoreFailsKeeps
<1>9. CASE UNCHANGED vars
  BY <1>9 DEF vars, IInv, Typed, TypeOK, Phases, Momentary, Growing, SoFar, Holds,
              Newest, Serving
<1> QED  BY <1>1, <1>2, <1>3, <1>4, <1>5, <1>6, <1>7, <1>8, <1>9 DEF Next

LEMMA Invariance == Spec => []IInv
BY Starts, Steps, PTL DEF Spec

\* The tables are well formed, and no audit entry names another student's
\* session: a check-in writes both in this order, and so does the restore
\* (backup.go:48, backup.go:172).
THEOREM AuditStaysSound == Spec => []AuditIsSound
<1>1. IInv => AuditIsSound
  BY DEF IInv, Typed, Momentary, AuditIsSound, AuditIsAnchored
<1> QED  BY Invariance, <1>1, PTL

\* The program serves no database that lacks a session of a complete backup
\* (backup.go:37, backup.go:148).
THEOREM SessionsSurvive == Spec => []BackedUpSessionsSurvive
<1>1. IInv => BackedUpSessionsSurvive
  BY DEF IInv, Growing, Holds, BackedUpSessionsSurvive
<1> QED  BY Invariance, <1>1, PTL

\* A restore that is over has put back all the records of the newest backup
\* (backup.go:148).
THEOREM RestoresAreWhole == Spec => RestoreIsWhole
<1> DEFINE Whole == phase = "restoring" /\ phase' = "up" /\ met' \subseteq {"torn", "two", "boot"} =>
                        \A t \in Record : db'[t] = Newest.rows[t]
<1>1. ASSUME IInv, Next, phase = "restoring", phase' = "up",
             met' \subseteq {"torn", "two", "boot"}
      PROVE  db'["attendance"] = Newest.rows["attendance"] /\
             db'["checkin_audit"] = Newest.rows["checkin_audit"]
  <2>1. RestoreTable
    <3>1. ~Serving /\ \A w \in Slot : job[w] = NoJob
      BY <1>1 DEF IInv, Phases, Serving
    <3>2. ~RestoreFails
      BY <1>1 DEF RestoreFails, Note
    <3>3. ~\E w \in Slot : ExportTable(w) \/ ExportFails(w)
      BY <3>1 DEF ExportTable, ExportFails
    <3>4. ~(DailyBackup \/ Terminate \/ Exit \/ Crash \/ LoseDatabase \/ StartUp)
      BY <3>1, <1>1 DEF DailyBackup, Terminate, Exit, Crash, LoseDatabase, StartUp
    <3> QED  BY <3>1, <3>2, <3>3, <3>4, <1>1 DEF Next, CheckInInsert, CheckInAudit, Save
  <2>2. entry = 4 /\ met' = met
    BY <2>1, <1>1, RestoredTable DEF IInv
  <2>3. db["checkin_audit"] = Newest.rows["checkin_audit"]
    BY <2>2, <1>1 DEF IInv, Momentary
  <2> QED  BY <2>1, <2>2, <2>3, <1>1, RestoredRecords DEF IInv
<1>2. IInv /\ [Next]_vars => [Whole]_vars
  BY <1>1 DEF Record
<1> QED  BY Invariance, <1>2, PTL DEF Spec, RestoreIsWhole

-----------------------------------------------------------------------------
(***************************************************************************)
(* Migration.  One inductive invariant carries all of its theorems: beside *)
(* the types it says what each step of a start may rely on.                *)
(***************************************************************************)

\* The legacy items and the responses to them are moved together, never after
\* the program was up: there are items then.
ItemsInv ==
    /\ legacy \/ used => "tracker_responses" \in tables
    /\ copies > 0 => legacy /\ signoff
    /\ used => HasItems /\ "adhoc" \notin layout
    /\ step \in {"rest", "seed", "up"} =>
          "task_items" \in tables /\ "due_date" \in layout /\ "adhoc" \notin layout
    /\ ResponsesRemapped

\* Only a start that made tracker_responses anew finds no due_date at the schema.
DueDateInv ==
    /\ step \notin {"down", "type"} => "adhoc" \notin layout
    /\ step = "items" /\ "tracker_responses" \in tables => "due_date" \in layout
    /\ step \in {"check", "create", "copy", "drop", "rename", "schema"}
         /\ "tracker_responses" \in tables /\ "due_date" \notin layout
           => (copies > 0 /\ fatal = 0) \/ Unmigratable
    /\ fatal >= 1 => copies > 0 \/ Unmigratable
    /\ FatalOnce

\* The rows are copied before the old table is dropped.
PreferencesInv ==
    /\ PrefsSurvive
    /\ step = "drop" /\ owned /\ "copy" \notin harm => "temp" \in held
    /\ owned /\ harm = {} =>
          \/ "prefs" \in held
          \/ step = "rename" /\ prefs = "absent" /\ temp /\ "temp" \in held

MInv == MTypeOK /\ ItemsInv /\ DueDateInv /\ PreferencesInv

\* The databases of earlier versions satisfy the invariant.
LEMMA MInitInv == MInit => MInv
<1> SUFFICES ASSUME MInit PROVE MInv
  OBVIOUS
<1> USE DEF MInit
<1>1. MTypeOK
  <2>1. /\ prefs \in {"absent", "old", "new"} /\ held \subseteq {"prefs", "temp"}
        /\ (prefs = "absent" => "prefs" \notin held) /\ "temp" \notin held
    OBVIOUS
  <2>2. /\ tables \subseteq {"task_items", "tracker_responses"}
        /\ layout \subseteq {"due_date", "adhoc"}
        /\ (layout # {} => "tracker_responses" \in tables)
    OBVIOUS
  <2>3. crashes \in 0..MaxCrash /\ faults \in 0..MaxFault
    BY FailureBounds
  <2>4. step \in Step /\ temp \in BOOLEAN /\ legacy \in BOOLEAN /\ owned \in BOOLEAN
    BY DEF Step
  <2>5. copies = 0 /\ samples = FALSE
    OBVIOUS
  <2>8. copies \in Nat
    BY <2>5
  <2>9. samples \in BOOLEAN /\ used \in BOOLEAN
    BY <2>5, Zenon
  <2>11. signoff \in BOOLEAN /\ (signoff => "task_items" \in tables)
    BY Zenon
  <2>10. ~HasItems
    BY <2>5 DEF HasItems
  <2>6. harm \subseteq {"copy", "gap"}
    OBVIOUS
  <2>7. fatal \in 0..2
    OBVIOUS
  <2> QED
    BY <2>1, <2>2, <2>3, <2>4, <2>6, <2>7, <2>8, <2>9, <2>10, <2>11 DEF MTypeOK
<1>2. ItemsInv /\ DueDateInv
  BY DEF ItemsInv, DueDateInv, ResponsesRemapped, FatalOnce
<1>3. PreferencesInv
  BY DEF PreferencesInv, PrefsSurvive
<1> QED
  BY <1>1, <1>2, <1>3 DEF MInv

\* Types are kept by every step.
LEMMA MTypeStep == MInv /\ [MNext]_migrationVars => MTypeOK'
<1> SUFFICES ASSUME MInv, [MNext]_migrationVars PROVE MTypeOK'
  OBVIOUS
<1> USE FailureBounds DEF MInv, MTypeOK, Step, HasItems, Goto, Done, Failed, prefVars, itemVars, taskVars, bounds
<1>1. CASE Start BY <1>1 DEF Start
<1>2. CASE TrackerItemType BY <1>2 DEF TrackerItemType
<1>3. CASE AddMissingColumns BY <1>3 DEF AddMissingColumns
<1>4. CASE ToTaskItems
  <2>1. copies' \in Nat /\ faults' \in 0..MaxFault
    BY <1>4 DEF ToTaskItems
  <2>2. copies' > 0 => "task_items" \in tables
    BY <1>4 DEF ToTaskItems, ItemsToMigrate
  <2>3. layout' = {} \/ layout' = layout
    BY <1>4 DEF ToTaskItems
  <2> QED BY <1>4, <2>1, <2>2, <2>3 DEF ToTaskItems
<1>5. CASE CheckPreferences BY <1>5 DEF CheckPreferences
<1>6. CASE CreateNew
  <2>1. faults' \in 0..MaxFault
    BY <1>6 DEF CreateNew
  <2>2. temp' = TRUE \/ temp' = temp
    BY <1>6 DEF CreateNew
  <2> QED BY <1>6, <2>1, <2>2 DEF CreateNew
<1>7. CASE CopyRows
  <2>1. faults' \in 0..MaxFault
    BY <1>7 DEF CopyRows
  <2>2. held' \subseteq {"prefs", "temp"} /\ harm' \subseteq {"copy", "gap"}
    BY <1>7 DEF CopyRows
  <2>3. (prefs' = "absent" => "prefs" \notin held') /\ (~temp' => "temp" \notin held')
    BY <1>7 DEF CopyRows
  <2> QED BY <1>7, <2>1, <2>2, <2>3 DEF CopyRows
<1>8. CASE DropOld
  <2>1. faults' \in 0..MaxFault
    BY <1>8 DEF DropOld
  <2>2. held' \subseteq {"prefs", "temp"} /\ prefs' \in {"absent", "old", "new"}
    BY <1>8 DEF DropOld
  <2>3. (prefs' = "absent" => "prefs" \notin held') /\ (~temp' => "temp" \notin held')
    BY <1>8 DEF DropOld
  <2> QED BY <1>8, <2>1, <2>2, <2>3 DEF DropOld
<1>9. CASE RenameNew
  <2>1. faults' \in 0..MaxFault
    BY <1>9 DEF RenameNew
  <2>2. held' \subseteq {"prefs", "temp"} /\ harm' \subseteq {"copy", "gap"}
    BY <1>9 DEF RenameNew
  <2>3. (prefs' = "absent" => "prefs" \notin held') /\ (~temp' => "temp" \notin held')
    BY <1>9 DEF RenameNew
  <2>4. prefs' \in {"absent", "old", "new"} /\ temp' \in BOOLEAN
    BY <1>9 DEF RenameNew
  <2> QED BY <1>9, <2>1, <2>2, <2>3, <2>4 DEF RenameNew
<1>10. CASE Schema BY <1>10 DEF Schema
<1>11. CASE SchemaRest BY <1>11 DEF SchemaRest
<1>12. CASE Seed
  <2>1. samples' \in BOOLEAN
    BY <1>12 DEF Seed
  <2>2. "task_items" \in tables'
    BY <1>12 DEF Seed, ItemsInv, Goto
  <2> QED BY <1>12, <2>1, <2>2 DEF Seed
<1>13. CASE StorePreference BY <1>13 DEF StorePreference
<1>14. CASE Quit BY <1>14 DEF Quit
<1>15. CASE StartDies BY <1>15 DEF StartDies
<1>16. CASE UNCHANGED migrationVars BY <1>16 DEF migrationVars
<1> QED
  BY <1>1, <1>2, <1>3, <1>4, <1>5, <1>6, <1>7, <1>8, <1>9, <1>10, <1>11, <1>12,
     <1>13, <1>14, <1>15, <1>16 DEF MNext, Starting

\* What the item tables rely on is kept by every step.
LEMMA ItemsStep == MInv /\ [MNext]_migrationVars => (ItemsInv /\ DueDateInv)'
<1> SUFFICES ASSUME MInv, [MNext]_migrationVars PROVE (ItemsInv /\ DueDateInv)'
  OBVIOUS
<1> USE DEF MInv, MTypeOK, ItemsInv, DueDateInv, ResponsesRemapped, FatalOnce, Unmigratable,
            ItemsToMigrate, HasItems, Goto, Done, Failed, prefVars, itemVars, taskVars, bounds
<1>1. CASE Start BY <1>1 DEF Start
<1>2. CASE TrackerItemType BY <1>2 DEF TrackerItemType
<1>3. CASE AddMissingColumns BY <1>3 DEF AddMissingColumns
<1>4. CASE ToTaskItems BY <1>4 DEF ToTaskItems, ItemsToMigrate, HasItems
<1>5. CASE CheckPreferences BY <1>5 DEF CheckPreferences
<1>6. CASE CreateNew BY <1>6 DEF CreateNew
<1>7. CASE CopyRows BY <1>7 DEF CopyRows
<1>8. CASE DropOld BY <1>8 DEF DropOld
<1>9. CASE RenameNew BY <1>9 DEF RenameNew
<1>10. CASE Schema BY <1>10 DEF Schema
<1>11. CASE SchemaRest BY <1>11 DEF SchemaRest
<1>12. CASE Seed BY <1>12 DEF Seed, HasItems
<1>13. CASE StorePreference BY <1>13 DEF StorePreference
<1>14. CASE Quit BY <1>14 DEF Quit
<1>15. CASE StartDies BY <1>15 DEF StartDies
<1>16. CASE UNCHANGED migrationVars BY <1>16 DEF migrationVars
<1> QED
  BY <1>1, <1>2, <1>3, <1>4, <1>5, <1>6, <1>7, <1>8, <1>9, <1>10, <1>11, <1>12,
     <1>13, <1>14, <1>15, <1>16 DEF MNext, Starting

\* What the preferences rely on is kept by every step.
LEMMA PreferencesStep == MInv /\ [MNext]_migrationVars => PreferencesInv'
<1> SUFFICES ASSUME MInv, [MNext]_migrationVars PROVE PreferencesInv'
  OBVIOUS
<1> USE DEF MInv, MTypeOK, PreferencesInv, PrefsSurvive, Goto, Done, Failed, prefVars, itemVars, taskVars, bounds
<1>1. CASE Start BY <1>1 DEF Start
<1>2. CASE TrackerItemType BY <1>2 DEF TrackerItemType
<1>3. CASE AddMissingColumns BY <1>3 DEF AddMissingColumns
<1>4. CASE ToTaskItems BY <1>4 DEF ToTaskItems
<1>5. CASE CheckPreferences BY <1>5 DEF CheckPreferences
<1>6. CASE CreateNew BY <1>6 DEF CreateNew
<1>7. CASE CopyRows BY <1>7 DEF CopyRows
<1>8. CASE DropOld BY <1>8 DEF DropOld
<1>9. CASE RenameNew
  <2>1. "copy" \notin harm' => "copy" \notin harm
    BY <1>9 DEF RenameNew
  <2>2. CASE prefs = "absent" /\ prefs' = "new" /\ temp /\ held' = IF "temp" \in held THEN {"prefs"} ELSE {}
    <3>1. owned /\ "copy" \notin harm /\ prefs = "absent" => "temp" \in held
      OBVIOUS
    <3>2. prefs = "absent" /\ harm' = harm /\ step' = "schema" /\ owned' = owned
      BY <1>9, <2>2 DEF RenameNew
    <3> QED BY <2>2, <3>1, <3>2
  <2>3. CASE UNCHANGED <<prefs, temp, held>>
    <3>1. harm' = {} => harm = {} /\ prefs # "absent"
      BY <1>9, <2>3 DEF RenameNew
    <3>2. step' = "schema" /\ owned' = owned
      BY <1>9 DEF RenameNew
    <3> QED BY <2>1, <2>3, <3>1, <3>2
  <2> QED BY <1>9, <2>2, <2>3 DEF RenameNew
<1>10. CASE Schema BY <1>10 DEF Schema
<1>11. CASE SchemaRest BY <1>11 DEF SchemaRest
<1>12. CASE Seed BY <1>12 DEF Seed
<1>13. CASE StorePreference BY <1>13 DEF StorePreference
<1>14. CASE Quit BY <1>14 DEF Quit
<1>15. CASE StartDies
  <2>1. /\ "copy" \notin harm' => "copy" \notin harm
        /\ harm' = {} => harm = {} /\ ~(step = "rename" /\ prefs = "absent")
    BY <1>15 DEF StartDies
  <2>2. step' = "down" /\ UNCHANGED <<prefs, temp, held, owned>>
    BY <1>15 DEF StartDies
  <2> QED BY <2>1, <2>2
<1>16. CASE UNCHANGED migrationVars BY <1>16 DEF migrationVars
<1> QED
  BY <1>1, <1>2, <1>3, <1>4, <1>5, <1>6, <1>7, <1>8, <1>9, <1>10, <1>11, <1>12,
     <1>13, <1>14, <1>15, <1>16 DEF MNext, Starting

\* The invariant holds in every reachable state.
LEMMA MInvariance == MSpec => []MInv
<1>1. MInv /\ [MNext]_migrationVars => MInv'
  BY MTypeStep, ItemsStep, PreferencesStep DEF MInv
<1> QED
  BY MInitInv, <1>1, PTL DEF MSpec

\* Types of all variables, for any number of crashes and failing statements
\* (MigrateDB).
THEOREM MigrationTypes == MSpec => []MTypeOK
<1>1. MInv => MTypeOK
  BY DEF MInv
<1> QED
  BY MInvariance, <1>1, PTL

\* Preferences survive any sequence of starts and crashes, as long as the one
\* statement that copies them does not fail (migrateUserPreferences).
THEOREM PreferencesSurvive == MSpec => []PrefsSurvive
<1>1. MInv => PrefsSurvive
  BY DEF MInv, PreferencesInv
<1> QED
  BY MInvariance, <1>1, PTL

\* Without a failing statement, and unless a start ended between DROP and
\* RENAME, the program finds the preferences (migrateUserPreferences).
THEOREM PreferencesInPlace == MSpec => []PrefsInPlace
<1>1. MInv => PrefsInPlace
  BY DEF MInv, PreferencesInv, PrefsInPlace
<1> QED
  BY MInvariance, <1>1, PTL

\* The legacy items are moved at most once, and no response given since the
\* program first came up loses its due date, however the starts are cut short
\* (migrateToTaskItems).
THEOREM RemappedOnce == MSpec => []ResponsesRemapped
<1>1. MInv => ResponsesRemapped
  BY DEF MInv, ItemsInv
<1> QED
  BY MInvariance, <1>1, PTL

\* No two starts in a row end in log.Fatal, unless there are legacy items that
\* no start can copy (main.go:200, migrate.go:532-543).
THEOREM SecondStartWorks == MSpec => []FatalOnce
<1>1. MInv => FatalOnce
  BY DEF MInv, DueDateInv
<1> QED
  BY MInvariance, <1>1, PTL

\* Every start from there makes tracker_responses anew and ends at the schema.
DeadEnd ==
    /\ Unmigratable /\ faults = MaxFault
    /\ step \notin {"rest", "seed", "up"}
    /\ step \in {"check", "create", "copy", "drop", "rename", "schema"} => layout = {}

\* No step leads out of the dead end.
LEMMA DeadEndStep == MInv /\ DeadEnd /\ [MNext]_migrationVars => DeadEnd'
<1> SUFFICES ASSUME MInv, DeadEnd, [MNext]_migrationVars PROVE DeadEnd'
  OBVIOUS
<1> USE FailureBounds DEF MInv, MTypeOK, ItemsInv, DeadEnd, Unmigratable, ItemsToMigrate, HasItems,
            Goto, Done, Failed, prefVars, itemVars, taskVars, bounds
<1>1. CASE Start BY <1>1 DEF Start
<1>2. CASE TrackerItemType BY <1>2 DEF TrackerItemType
<1>3. CASE AddMissingColumns BY <1>3 DEF AddMissingColumns
<1>4. CASE ToTaskItems BY <1>4 DEF ToTaskItems
<1>5. CASE CheckPreferences BY <1>5 DEF CheckPreferences
<1>6. CASE CreateNew BY <1>6 DEF CreateNew
<1>7. CASE CopyRows BY <1>7 DEF CopyRows
<1>8. CASE DropOld BY <1>8 DEF DropOld
<1>9. CASE RenameNew BY <1>9 DEF RenameNew
<1>10. CASE Schema BY <1>10 DEF Schema
<1>11. CASE SchemaRest \/ Seed \/ StorePreference \/ Quit
  BY <1>11 DEF SchemaRest, Seed, StorePreference, Quit
<1>12. CASE StartDies BY <1>12 DEF StartDies
<1>13. CASE UNCHANGED migrationVars BY <1>13 DEF migrationVars
<1> QED
  BY <1>1, <1>2, <1>3, <1>4, <1>5, <1>6, <1>7, <1>8, <1>9, <1>10, <1>11, <1>12,
     <1>13 DEF MNext, Starting

\* A database whose items cannot be copied is a dead end: unless its transaction
\* fails, every start is fatal (migrate.go:250, 517, 532-543).
THEOREM DeadEndStays == MSpec => NeverAgain
<1>1. Stranded /\ faults = MaxFault => DeadEnd
  BY DEF Stranded, DeadEnd
<1>2. DeadEnd => step # "up"
  BY DEF DeadEnd
<1> QED
  BY MInvariance, DeadEndStep, <1>1, <1>2, PTL DEF MSpec, NeverAgain

\* Preferences are neither lost nor left in a table that nobody reads, for any
\* number of starts that die (migrateUserPreferences).
THEOREM PreferencesAreSafe == MSpec => []PrefsAreSafe
<1>1. PrefsSurvive /\ PrefsInPlace => PrefsAreSafe
  BY DEF PrefsAreSafe
<1> QED
  BY PreferencesSurvive, PreferencesInPlace, <1>1, PTL
=============================================================================
