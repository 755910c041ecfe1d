------------------------------ MODULE Directory ------------------------------
(***************************************************************************)
(* The index tables (students, parents, ...) and those who fill them:      *)
(*   the import at start           (main.go)                               *)
(*   ReadAll, ImportAll            (internal/datastore/reader.go,          *)
(*                                  importer.go)                           *)
(*   Watcher.loop, reimport, Stop  (internal/datastore/watcher.go)         *)
(*   the upload cache, HandleImportUpload, HandleImportExecute             *)
(*                                 (internal/handlers/app.go, import.go)   *)
(*   ExecuteNamelistImport         (internal/datastore/namelist.go)        *)
(*                                                                         *)
(* The operator saves spreadsheets while the program runs.  A reimport is  *)
(* a goroutine of a debounce timer and holds the watcher's mutex; the      *)
(* import at start and an uploaded file hold none.  A table is one         *)
(* transaction, an import is one transaction per table.                    *)
(***************************************************************************)
EXTENDS Naturals, Sequences

CONSTANTS
    Order,      \* the tables, in the order of ImportAll
    Worker,     \* goroutines of time.AfterFunc alive at one time
    Request,    \* imports requested at one time
    Upload,     \* identifiers of uploads
    Main, None, \* the start of the program; nobody
    MaxVersion, \* bound: the last version of a sheet
    MaxCopies   \* bound: rows of one entry

ASSUME OrderAssumption ==
    /\ Order \in Seq({Order[i] : i \in 1..Len(Order)})
    /\ Len(Order) >= 1
    /\ \A i, j \in 1..Len(Order) : Order[i] = Order[j] => i = j
ASSUME NamesAssumption ==
    /\ Worker \cap Request = {}
    /\ Main \notin Worker \cup Request
    /\ None \notin Worker \cup Request
    /\ "sheet" \notin Upload /\ "none" \notin Upload
ASSUME BoundsAssumption == MaxVersion \in Nat \ {0} /\ MaxCopies \in Nat \ {0}

VARIABLES
    layout,     \* tutoros.xlsx, data/*.csv, or data/csv/*.csv
    sheet,      \* version of each sheet on disk
    saving,     \* sheets that are half written
    phase,      \* the program: down, importing at start, serving, stopping
    timer,      \* a save was noticed and its debounce timer has not fired
    lock,       \* holder of Watcher.mu
    cache,      \* App.uploadCache: kind of each upload
    job,        \* the local state of every importer
    table,      \* what was last imported into each table
    copies,     \* rows of students that namelists inserted for one entry
    seen,       \* history: version of the sheet last imported, by table
    stale,      \* history: an import of the sheets failed, or a save ended
                \*          unwatched, and the sheets were not read since
    mixed,      \* history: two imports overlapped, or one broke off
    again       \* history: the entry was or may be inserted again: on request,
                \*          unfound, twice in a list, or in two executions at a time

vars == <<layout, sheet, saving, phase, timer, lock, cache, job, table,
          copies, seen, stale, mixed, again>>
fileVars == <<layout, sheet, saving>>
watchVars == <<timer, lock>>
rowVars == <<table, copies, seen>>
historyVars == <<stale, mixed, again>>

-----------------------------------------------------------------------------
Table == {Order[i] : i \in 1..Len(Order)}
Students == Order[1]
Importer == Worker \cup Request \cup {Main}

Rows == [Table -> 0..MaxVersion]        \* 0: no rows
Content == [from : {"none", "sheet"} \cup Upload, rows : Rows]
NoRows == [t \in Table |-> 0]
Empty == [from |-> "none", rows |-> NoRows]

Local == [pc : {"idle", "wait", "import", "insert"}, data : Content,
          pos : 1..(Len(Order) + 1), alone : BOOLEAN, found : Nat]
Idle == [pc |-> "idle", data |-> Empty, pos |-> 1, alone |-> TRUE, found |-> 0]

Importing(j) == job[j].pc = "import"
\* An import that no other one excludes runs beside another one.
Beside(j, k) == k # j /\ Importing(k) /\ ~(j \in Worker /\ k \in Worker)
Broken(j) == job[j].pos > 1 \/ ~job[j].alone

\* One type invariant; the mutex is held by a worker that imports.
TypeOK ==
    /\ layout \in {"xlsx", "csv", "csvdir"}
    /\ sheet \in [Table -> 1..MaxVersion]
    /\ saving \subseteq Table
    /\ phase \in {"down", "import", "serving", "stopping"}
    /\ timer \in BOOLEAN
    /\ lock \in Worker \cup {None}
    /\ lock # None => Importing(lock)
    /\ cache \in [Upload -> {"none", "book", "single", "namelist"}]
    /\ job \in [Importer -> Local]
    /\ table \in [Table -> Content]
    /\ copies \in Nat
    /\ seen \in Rows
    /\ stale \in BOOLEAN /\ mixed \in BOOLEAN /\ again \in BOOLEAN

Init ==
    /\ layout \in {"xlsx", "csv", "csvdir"}
    /\ sheet = [t \in Table |-> 1] /\ saving = {}
    /\ phase = "down"
    /\ timer = FALSE /\ lock = None
    /\ cache = [u \in Upload |-> "none"]
    /\ job = [j \in Importer |-> Idle]
    /\ table = [t \in Table |-> Empty] /\ copies = 0 /\ seen = NoRows
    /\ stale = FALSE /\ mixed = FALSE /\ again = FALSE

-----------------------------------------------------------------------------
(* The operator's spreadsheet program *)

\* A book holds every sheet; the files of the other layouts hold one each.
File == IF layout = "xlsx" THEN {Table} ELSE {{t} : t \in Table}
\* NewWatcher watches the data directory, not the csv directory in it.
Watching == phase = "serving" /\ layout # "csvdir"

\* (mutant) An event is dropped while a reimport is under way.
Notice_Busy == timer' = (timer \/ (Watching /\ \A w \in Worker : job[w].pc = "idle"))

\* The loop re-arms the timer at every event it is told of.
Notice == timer' = (timer \/ Watching)

BeginSave(f) ==
    /\ f \cap saving = {}
    /\ \A t \in f : sheet[t] < MaxVersion
    /\ saving' = saving \cup f
    /\ Notice
    /\ UNCHANGED <<layout, sheet, phase, lock, cache, job, rowVars, historyVars>>

EndSave(f) ==
    /\ f \subseteq saving
    /\ sheet' = [t \in Table |-> IF t \in f THEN sheet[t] + 1 ELSE sheet[t]]
    /\ saving' = saving \ f
    /\ Notice
    /\ stale' = (stale \/ ~Watching)
    /\ UNCHANGED <<layout, phase, lock, cache, job, rowVars, mixed, again>>

-----------------------------------------------------------------------------
(* ImportAll *)

\* Start an import of c; it is not alone if another one is under way.
Load(j, c) ==
    job' = [k \in Importer |->
              IF k = j THEN [Idle EXCEPT !.pc = "import", !.data = c,
                                         !.alone = ~\E i \in Importer : Beside(j, i)]
              ELSE IF Beside(j, k) THEN [job[k] EXCEPT !.alone = FALSE]
              ELSE job[k]]

\* One table: replace the rows, delete those the import does not have.
ImportTable(j) ==
    /\ Importing(j) /\ job[j].pos <= Len(Order)
    /\ LET t == Order[job[j].pos]
           c == job[j].data
       IN /\ table' = [table EXCEPT ![t] = c]
          /\ seen' = IF c.from = "sheet" THEN [seen EXCEPT ![t] = c.rows[t]] ELSE seen
          /\ copies' = IF t = Students THEN 0 ELSE copies
    /\ job' = [job EXCEPT ![j].pos = @ + 1]
    /\ UNCHANGED <<fileVars, phase, watchVars, cache, historyVars>>

\* Every return of an importer: unlock, forget the upload.
Return(j) ==
    /\ job' = [job EXCEPT ![j] = Idle]
    /\ lock' = IF lock = j THEN None ELSE lock
    /\ cache' = [u \in Upload |-> IF j \in Request /\ job[j].data.from = u THEN "none"
                                  ELSE cache[u]]

\* The last table is committed.
Finish(j) ==
    /\ Importing(j) /\ job[j].pos > Len(Order)
    /\ Return(j)
    /\ mixed' = ~job[j].alone
    /\ UNCHANGED <<fileVars, phase, timer, rowVars, stale, again>>

\* A table cannot be written; ImportAll returns, the caller logs or answers.
Fail(j) ==
    /\ Importing(j) /\ job[j].pos <= Len(Order)
    /\ Return(j)
    /\ mixed' = (mixed \/ Broken(j))
    /\ stale' = (stale \/ j \notin Request)
    /\ UNCHANGED <<fileVars, phase, timer, rowVars, again>>

-----------------------------------------------------------------------------
(* ReadAll, the start and the watcher *)

\* A half-written book cannot be opened; a half-written csv file has no rows.
Readable == layout = "xlsx" => saving = {}
Present == [t \in Table |-> IF t \in saving THEN 0 ELSE sheet[t]]
Importable == Readable /\ Present # NoRows

\* The import at start: with nothing to import the start goes on.
Start ==
    /\ phase = "down"
    /\ phase' = "import"
    /\ IF Importable
         THEN /\ Load(Main, [from |-> "sheet", rows |-> Present])
              /\ stale' = FALSE
         ELSE UNCHANGED <<job, stale>>
    /\ UNCHANGED <<fileVars, watchVars, cache, rowVars, mixed, again>>

\* NewWatcher, Start, ListenAndServe
Serve ==
    /\ phase = "import" /\ job[Main].pc = "idle"
    /\ phase' = "serving"
    /\ UNCHANGED <<fileVars, watchVars, cache, job, rowVars, historyVars>>

\* The timer starts a goroutine, which waits for the mutex.
Fire(w) ==
    /\ timer /\ job[w].pc = "idle"
    /\ timer' = FALSE
    /\ job' = [job EXCEPT ![w].pc = "wait"]
    /\ UNCHANGED <<fileVars, phase, lock, cache, rowVars, historyVars>>

\* (mutant) reimport does not lock.
Reimport_Unlocked(w) ==
    /\ job[w].pc = "wait" /\ Importable
    /\ Load(w, [from |-> "sheet", rows |-> Present])
    /\ stale' = FALSE
    /\ UNCHANGED <<fileVars, phase, watchVars, cache, rowVars, mixed, again>>

\* reimport: lock and read; unlock and return if there is nothing to import.
Reimport(w) ==
    /\ job[w].pc = "wait" /\ lock = None
    /\ IF Importable
         THEN /\ lock' = w
              /\ Load(w, [from |-> "sheet", rows |-> Present])
              /\ stale' = FALSE
              /\ UNCHANGED cache
         ELSE Return(w) /\ UNCHANGED stale
    /\ UNCHANGED <<fileVars, phase, timer, rowVars, mixed, again>>

\* The loop returns through the done channel and stops the timer, or through
\* the closed Events channel and does not.
Stop ==
    /\ phase = "serving"
    /\ phase' = "stopping"
    /\ timer' \in {FALSE, timer}
    /\ UNCHANGED <<fileVars, lock, cache, job, rowVars, historyVars>>

\* The process ends, in whatever it is doing.
Exit ==
    /\ phase # "down"
    /\ phase' = "down"
    /\ timer' = FALSE /\ lock' = None
    /\ cache' = [u \in Upload |-> "none"]
    /\ job' = [j \in Importer |-> Idle]
    /\ mixed' = (mixed \/ \E j \in Importer : Importing(j) /\ Broken(j))
    /\ stale' = (stale \/ timer \/ \E j \in Worker \cup {Main} : job[j].pc # "idle")
    /\ UNCHANGED <<fileVars, rowVars, again>>

-----------------------------------------------------------------------------
(* Uploaded files *)

\* HandleImportUpload; the preview it shows changes nothing.
Store(u) ==
    /\ phase = "serving" /\ cache[u] = "none"
    /\ \A r \in Request : job[r].data.from # u
    /\ \E kind \in {"book", "single", "namelist"} : cache' = [cache EXCEPT ![u] = kind]
    /\ UNCHANGED <<fileVars, phase, watchVars, job, rowVars, historyVars>>

\* Thirty minutes have passed; the entry is removed when it is next looked up.
Expire(u) ==
    /\ cache[u] # "none"
    /\ cache' = [cache EXCEPT ![u] = "none"]
    /\ UNCHANGED <<fileVars, phase, watchVars, job, rowVars, historyVars>>

\* A file for one kind of entity leaves the other tables without rows.
Uploaded(u) ==
    [from |-> u,
     rows |-> [t \in Table |-> IF cache[u] = "book" \/ t = Students THEN 1 ELSE 0]]

Execute(r, u) ==
    /\ phase = "serving" /\ job[r].pc = "idle" /\ cache[u] \in {"book", "single"}
    /\ Load(r, Uploaded(u))
    /\ UNCHANGED <<fileVars, phase, watchVars, cache, rowVars, historyVars>>

Listing(k) == job[k].pc = "insert"
Namelist(u) == [from |-> u, rows |-> NoRows]

\* Begin an execution that has found so many rows.
List(r, u, found) ==
    /\ phase = "serving" /\ job[r].pc = "idle" /\ cache[u] = "namelist"
    /\ job' = [job EXCEPT ![r] = [Idle EXCEPT !.pc = "insert", !.data = Namelist(u),
                                              !.found = found]]
    /\ UNCHANGED <<fileVars, phase, watchVars, cache, rowVars, stale, mixed>>
Met == \E k \in Request : Listing(k)

\* (mutant) The preview shown at upload is executed.
Preview_Shown(r, u) == List(r, u, 0) /\ again' = (again \/ Met)

\* PreviewNamelistImport again, outside of the transaction.  An entry is found
\* by its name or its e-mail, one that has an English name alone is not
\* (namelist.go:143).
Preview(r, u) ==
    \E found \in {copies, 0} :
        /\ List(r, u, found)
        /\ again' = (again \/ Met \/ found < copies)

\* The transaction: a new entry is inserted as often as the list has it; one that
\* differs from the row that was found is merged, skipped, or on request inserted,
\* too.  It may fail.
Insert(r) ==
    /\ Listing(r)
    /\ \/ \E n \in {1, 2} :
              /\ copies + n <= MaxCopies
              /\ copies' = copies + n
              /\ again' = (again \/ job[r].found > 0 \/ n = 2)
       \/ UNCHANGED <<copies, again>>
    /\ Return(r)
    /\ UNCHANGED <<fileVars, phase, timer, table, seen, stale, mixed>>

-----------------------------------------------------------------------------
Watch == \E w \in Worker : Fire(w) \/ Reimport(w)
Import(j) == ImportTable(j) \/ Finish(j) \/ Fail(j)
Save == \E f \in File : BeginSave(f) \/ EndSave(f)
Handle == \/ \E u \in Upload : Store(u) \/ Expire(u)
          \/ \E r \in Request, u \in Upload : Execute(r, u) \/ Preview(r, u)
          \/ \E r \in Request : Insert(r)

Next ==
    \/ Save
    \/ Start \/ Serve \/ Stop \/ Exit
    \/ Watch
    \/ \E j \in Importer : Import(j)
    \/ Handle

Spec == Init /\ [][Next]_vars

-----------------------------------------------------------------------------
(* Properties *)

\* The tables come from one read of one source: between imports every table
\* holds what the last import brought, unless two imports overlapped that no
\* mutex keeps apart, or one broke off half-way.  (importer.go:14-33: one
\* transaction per table; watcher.go:101: only reimports exclude each other)
TablesAgree ==
    (\A j \in Importer : ~Importing(j)) /\ ~mixed =>
        \A s, t \in Table : table[s] = table[t]

\* A watcher at rest has imported what is on disk: half-written files that it
\* read, and saves it saw while a reimport was running, are made up for.
\* (watcher.go:75-81, 100-122)
AtRest == /\ phase = "serving" /\ saving = {} /\ ~timer
          /\ \A w \in Worker : job[w].pc = "idle"
LatestSheet == AtRest /\ Watching /\ ~stale => seen = sheet

\* An entry that can be found and stands in its list once is inserted once,
\* however often the list is uploaded and executed, unless two executions
\* overlap or an admin has a differing one inserted.
\* (namelist.go:238-247, 300-312)
NoDuplicates == again \/ copies <= 1

=============================================================================
