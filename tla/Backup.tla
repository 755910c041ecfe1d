-------------------------------- MODULE Backup --------------------------------
(***************************************************************************)
(* Backups and the restore at start-up:                                    *)
(*   Run, exportTable, Restore, findLatestBackup                           *)
(*                                       (internal/backup/backup.go)       *)
(*   start-up, the daily job and the shutdown (main.go)                    *)
(*                                                                         *)
(* A backup is one zip with an entry per table, each read by a statement   *)
(* of its own while the handlers go on.  The file has its final name from  *)
(* the start and can be opened only when it was closed.                    *)
(***************************************************************************)
EXTENDS Naturals, Sequences, FiniteSets

CONSTANTS
    Student,
    Saved,          \* what teachers add to task_items and timeoff
    MaxSession,     \* bound: attendance ids
    MaxFile         \* bound: backups

ASSUME SavedAssumption  == Saved \subseteq {"own", "all", "class"}
ASSUME BoundsAssumption == MaxSession \in Nat /\ MaxFile \in Nat

VARIABLES
    db,         \* the rows of every table
    files,      \* the backups, by name, the newest last
    job,        \* the running backups: file and next table
    phase,      \* what the program is doing
    entry,      \* Restore: the entry of the zip that comes next
    checkin,    \* a check-in between its statements
    met         \* history: what has disturbed the backups so far

vars == <<db, files, job, phase, entry, checkin, met>>

-----------------------------------------------------------------------------
\* The tables that matter here, in the order of listTables: ORDER BY name.
Tables == <<"attendance", "checkin_audit", "task_items", "timeoff">>
Table  == {Tables[k] : k \in DOMAIN Tables}
Record == {"attendance", "checkin_audit"}

Id == 1..MaxSession
\* The sample todos or a teacher's own; time off for the whole day (its
\* schedule_type is '') or for classes.
Row(t) == CASE t \in Record     -> Id \X Student
            [] t = "task_items" -> {"sample", "own"}
            [] t = "timeoff"    -> {"all", "class"}

Empty   == [t \in Table |-> {}]
Slot    == {"daily", "shutdown"}
NoJob   == [file |-> 0, next |-> 0]
NoVisit == <<0, 0>>

Content(f) == \A t \in Table : f[t] \subseteq Row(t)

\* One type invariant; a job writes an unfinished file.
TypeOK ==
    /\ Content(db)
    /\ \A i \in DOMAIN files : Content(files[i].rows) /\ files[i].closed \in BOOLEAN
    /\ \A w \in Slot : job[w] = NoJob \/ /\ job[w].file \in DOMAIN files
                                          /\ job[w].next \in 1..Len(Tables)
                                          /\ ~files[job[w].file].closed
    /\ phase \in {"down", "restoring", "up", "stopping"}
    /\ entry \in DOMAIN Tables \cup {0} /\ (phase = "restoring") = (entry # 0)
    /\ checkin = NoVisit \/ checkin \in Row("attendance")
    /\ met \subseteq {"beside", "failed", "torn", "two", "boot"}

Serving == phase \in {"up", "stopping"}
Working == {w \in Slot : job[w] # NoJob}

Put(t, rows)  == db' = [db EXCEPT ![t] = rows]
Note(S)       == met' = met \cup S
\* bound: one statement of a backup or a restore fails
MayFail       == "failed" \notin met
\* A write by a handler: does a backup run beside it?
NoteWrite     == Note(IF Working = {} THEN {} ELSE {"beside"})

-----------------------------------------------------------------------------
(* The handlers: two statements of HandleCheckIn, and two more writers *)

Sessions == {p[1] : p \in db["attendance"]}

\* AUTOINCREMENT: the id after the highest one
CheckInInsert(s) ==
    /\ Serving /\ checkin = NoVisit
    /\ \E i \in Id :
          /\ i = 1 + Cardinality({j \in Id : \E k \in Sessions : j <= k})
          /\ Put("attendance", db["attendance"] \cup {<<i, s>>})
          /\ checkin' = <<i, s>>
    /\ NoteWrite
    /\ UNCHANGED <<files, job, phase, entry>>

CheckInAudit ==
    /\ Serving /\ checkin # NoVisit
    /\ Put("checkin_audit", db["checkin_audit"] \cup {checkin})
    /\ checkin' = NoVisit
    /\ NoteWrite
    /\ UNCHANGED <<files, job, phase, entry>>

\* A teacher's todo, or time off
Save(t, row) ==
    /\ Serving /\ t \notin Record
    /\ row \in Row(t) \cap Saved
    /\ Put(t, db[t] \cup {row})
    /\ NoteWrite
    /\ UNCHANGED <<files, job, phase, entry, checkin>>

-----------------------------------------------------------------------------
(* Run *)

\* os.Create: an empty file that is the newest
Create(w) ==
    /\ Len(files) < MaxFile
    /\ files' = Append(files, [rows |-> Empty, closed |-> FALSE])
    /\ job' = [job EXCEPT ![w] = [file |-> Len(files) + 1, next |-> 1]]
    /\ Note(IF Working = {} THEN {} ELSE {"two"})
    /\ UNCHANGED <<db, entry, checkin>>

\* "0 22 * * *", until sched.Shutdown
DailyBackup ==
    /\ Serving /\ job["daily"] = NoJob
    /\ Create("daily")
    /\ UNCHANGED phase

\* SIGTERM: RunOnShutdown, while the handlers still serve
Terminate ==
    /\ phase = "up"
    /\ Create("shutdown")
    /\ phase' = "stopping"

\* After the last table the zip is closed.
Advance(w, rows) ==
    LET last == job[w].next = Len(Tables) IN
    /\ files' = [files EXCEPT ![job[w].file] = [rows |-> rows, closed |-> last]]
    /\ job' = IF last THEN [job EXCEPT ![w] = NoJob]
                      ELSE [job EXCEPT ![w].next = @ + 1]
    /\ UNCHANGED <<db, phase, entry, checkin>>

\* exportTable: SELECT * FROM <table>
ExportTable(w) ==
    LET t == Tables[job[w].next] IN
    /\ job[w] # NoJob
    /\ Advance(w, [files[job[w].file].rows EXCEPT ![t] = db[t]])
    /\ UNCHANGED met

\* "failed to export": the table is left out of the backup, or, as rows.Err is
\* not looked at, the rows from the first error on.
ExportFails(w) ==
    LET t == Tables[job[w].next] IN
    /\ job[w] # NoJob /\ MayFail
    /\ \E part \in SUBSET db[t] :
          Advance(w, [files[job[w].file].rows EXCEPT ![t] = part])
    /\ Note({"failed"})

\* The daily job is waited for, but not for ever; main returns as soon as the
\* listener is closed, whatever the handlers are about (main.go:631).
Exit ==
    /\ phase = "stopping" /\ job["shutdown"] = NoJob
    /\ phase' = "down"
    /\ job' = [w \in Slot |-> NoJob]
    /\ checkin' = NoVisit
    /\ Note(IF Working = {} THEN {} ELSE {"torn"})
    /\ UNCHANGED <<db, files, entry>>

\* The process dies; an open zip stays as it is.
Crash ==
    /\ phase # "down"
    /\ phase' = "down" /\ entry' = 0
    /\ job' = [w \in Slot |-> NoJob]
    /\ checkin' = NoVisit
    /\ Note((IF Working = {} THEN {} ELSE {"torn"})
            \cup (IF phase = "restoring" THEN {"boot"} ELSE {}))
    /\ UNCHANGED <<db, files>>

\* The database file is gone.
LoseDatabase ==
    /\ phase = "down"
    /\ db' = Empty
    /\ UNCHANGED <<files, job, phase, entry, checkin, met>>

-----------------------------------------------------------------------------
(* Start-up *)

\* (mutant) the comparison of the names is turned round
Newest_First == files[1]

Newest == files[Len(files)]     \* findLatestBackup

\* MigrateDB, SeedSampleData, and the decision to restore: "only if DB appears
\* to have lost data"
StartUp ==
    /\ phase = "down"
    /\ Put("task_items", IF db["task_items"] = {} THEN {"sample"} ELSE db["task_items"])
    /\ IF db["attendance"] = {} /\ files # <<>> /\ Newest.closed
       THEN phase' = "restoring" /\ entry' = 1
       ELSE phase' = "up" /\ entry' = 0
    /\ UNCHANGED <<files, job, checkin, met>>

\* (mutant) a session that is still open, its check_out_time '', is not taken
Kept_NoOpenSession(t, rows) ==
    IF t = "timeoff" THEN rows \ {"all"} ELSE IF t = "attendance" THEN {} ELSE rows

\* INSERT OR IGNORE: '' has become NULL, which schedule_type does not take.
Kept(t, rows) == IF t = "timeoff" THEN rows \ {"all"} ELSE rows

Restored(t) == IF db[t] = {} THEN Kept(t, Newest.rows[t]) ELSE db[t]

NextEntry ==
    IF entry = Len(Tables) THEN phase' = "up" /\ entry' = 0
                           ELSE phase' = phase /\ entry' = entry + 1

\* (mutant) the last row of an entry is skipped
RestoreTable_OffByOne ==
    /\ phase = "restoring"
    /\ LET t == Tables[entry]
           last == {p \in Newest.rows[t] :
                       t \in Record /\ \A q \in Newest.rows[t] : q[1] <= p[1]}
       IN Put(t, IF db[t] = {} THEN Kept(t, Newest.rows[t]) \ last ELSE db[t])
    /\ NextEntry
    /\ UNCHANGED <<files, job, checkin, met>>

\* One entry of the newest zip, in a transaction of its own
RestoreTable ==
    /\ phase = "restoring"
    /\ Put(Tables[entry], Restored(Tables[entry]))
    /\ NextEntry
    /\ UNCHANGED <<files, job, checkin, met>>

\* The count, the entry, the transaction, a row or the commit fails: the table
\* stays as it was or lacks rows, and Restore goes on to the next entry.
RestoreFails ==
    LET t == Tables[entry] IN
    /\ phase = "restoring" /\ MayFail
    /\ \E part \in SUBSET Kept(t, Newest.rows[t]) :
          Put(t, IF db[t] = {} THEN part ELSE db[t])
    /\ NextEntry
    /\ Note({"failed"})
    /\ UNCHANGED <<files, job, checkin>>

-----------------------------------------------------------------------------
Init ==
    /\ db = Empty
    /\ files = <<>>
    /\ job = [w \in Slot |-> NoJob]
    /\ phase = "down" /\ entry = 0
    /\ checkin = NoVisit
    /\ met = {}

Next ==
    \/ \E s \in Student : CheckInInsert(s)
    \/ CheckInAudit
    \/ \E t \in Table \ Record : \E row \in Row(t) : Save(t, row)
    \/ DailyBackup \/ Terminate
    \/ \E w \in Slot : ExportTable(w) \/ ExportFails(w)
    \/ Exit \/ Crash \/ LoseDatabase
    \/ StartUp \/ RestoreTable \/ RestoreFails

Spec == Init /\ [][Next]_vars

-----------------------------------------------------------------------------
(* Properties *)

\* A session that any complete backup holds is there whenever the program
\* serves, through crashes, losses of the database and restores: unless a
\* crash tore a backup, two backups ran at a time, or a statement of a backup
\* or of a restore failed (Run, findLatestBackup, Restore).
BackedUpSessionsSurvive ==
    Serving /\ met \subseteq {"beside", "boot"} =>
        \A i \in DOMAIN files :
            files[i].closed => files[i].rows["attendance"] \subseteq db["attendance"]

\* Audit entries name a session of their student, also after a restore has set
\* back the attendance ids: unless a handler wrote while a backup ran, or a
\* statement of a backup or of a restore failed (exportTable, Restore).
AuditIsAnchored ==
    met \subseteq {"torn", "two", "boot"} =>
        db["checkin_audit"] \subseteq db["attendance"]

\* After a restore the attendance records are those of the newest backup,
\* whatever the earlier losses, crashes, torn backups and restores cut short
\* were: unless a backup was not of one moment, or a statement of a backup or of
\* a restore failed, which Restore passes over without a retry (backup.go:206).
RestoreIsWhole ==
    [][phase = "restoring" /\ phase' = "up" /\ met' \subseteq {"torn", "two", "boot"} =>
          \A t \in Record : db'[t] = Newest.rows[t]]_vars

\* The records at every moment: well formed, and no audit entry that names
\* another student's session (backup.go:48).
AuditIsSound == TypeOK /\ AuditIsAnchored
=============================================================================
