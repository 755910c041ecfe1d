------------------------------ MODULE Migration ------------------------------
(***************************************************************************)
(* The database of an earlier version of the program, upgraded at start:   *)
(*   MigrateDB, migrateTrackerItemType, addMissingColumns,                 *)
(*   migrateToTaskItems, migrateUserPreferences                            *)
(*                                      (internal/database/migrate.go)     *)
(*   SeedSampleData                     (internal/database/seed.go)        *)
(*   log.Fatal on an error              (main.go)                          *)
(*                                                                         *)
(* No migration records that it was done: each looks at the tables to see  *)
(* what is left to do.  Errors of their statements are not looked at, and  *)
(* the process may die between any two transactions and start again.       *)
(***************************************************************************)
EXTENDS Naturals

CONSTANTS
    MaxCrash,   \* bound: starts that die
    MaxFault    \* bound: statements that fail (the disk is full, a lock)

ASSUME FailureBounds == MaxCrash \in Nat /\ MaxFault \in Nat

VARIABLES
    step,       \* the statement of the start that comes next
    prefs,      \* the primary key of user_preferences, if it exists
    temp,       \* user_preferences_new exists
    held,       \* the tables of preferences that have the users' rows
    legacy,     \* tracker_items or student_tracker_items have rows
    tables,     \* which of task_items and tracker_responses exist
    layout,     \* tracker_responses: has it due_date, does a CHECK name 'adhoc'?
    signoff,    \* task_items has requires_signoff: an earlier version made it
    samples,    \* task_items has the sample items
    copies,     \* how many times the legacy items were copied to task_items,
                \* and the responses pointed to the copies
    crashes, faults,    \* counted for the bounds
    owned,      \* history: a user has stored preferences
    used,       \* history: the program was up, responses were given
    harm,       \* history: what disturbed the copying of user_preferences
    fatal       \* history: starts in a row that ended in log.Fatal, 2 for more

\* The M in these names keeps them apart from those of Backup, the other
\* component of a start, in a module that extends both.
migrationVars == <<step, prefs, temp, held, legacy, tables, layout, signoff, samples,
                   copies, crashes, faults, owned, used, harm, fatal>>
prefVars == <<prefs, temp, held, owned, harm>>
itemVars == <<legacy, signoff, samples, copies, used>>
taskVars == <<itemVars, tables, layout>>
bounds   == <<crashes, faults>>

-----------------------------------------------------------------------------
Step == {"down", "type", "columns", "items", "check", "create", "copy", "drop",
         "rename", "schema", "rest", "seed", "up"}

HasItems == samples \/ copies > 0

\* One type invariant; a table that is not there has no rows.
MTypeOK ==
    /\ step \in Step
    /\ prefs \in {"absent", "old", "new"} /\ temp \in BOOLEAN
    /\ held \subseteq {"prefs", "temp"}
    /\ prefs = "absent" => "prefs" \notin held
    /\ ~temp => "temp" \notin held
    /\ legacy \in BOOLEAN
    /\ tables \subseteq {"task_items", "tracker_responses"}
    /\ layout \subseteq {"due_date", "adhoc"}
    /\ layout # {} => "tracker_responses" \in tables
    /\ signoff \in BOOLEAN /\ samples \in BOOLEAN /\ copies \in Nat
    /\ signoff \/ HasItems => "task_items" \in tables
    /\ crashes \in 0..MaxCrash /\ faults \in 0..MaxFault
    /\ owned \in BOOLEAN /\ used \in BOOLEAN
    /\ harm \subseteq {"copy", "gap"}
    /\ fatal \in 0..2

\* A new database, or one that an earlier version left: with the item tables
\* only, or with task_items too, which a start that died had not seeded.  That
\* version's task_items had requires_signoff, or had not, as the schema's.
MInit ==
    /\ step = "down"
    /\ \/ prefs = "absent" /\ held = {}
       \/ prefs \in {"old", "new"} /\ held \in {{}, {"prefs"}}
    /\ temp = FALSE
    /\ \/ legacy = FALSE /\ tables = {} /\ layout = {}
       \/ /\ legacy = TRUE
          /\ tables \in {{"tracker_responses"}, {"tracker_responses", "task_items"}}
          /\ layout \in {{}, {"adhoc"}}
    /\ signoff \in BOOLEAN /\ (signoff => "task_items" \in tables)
    /\ samples = FALSE /\ copies = 0
    /\ crashes = 0 /\ faults = 0
    /\ owned = (held # {}) /\ used = FALSE
    /\ harm = {} /\ fatal = 0

Goto(s, t) == step = s /\ step' = t
Done == UNCHANGED faults
\* A statement that fails; nobody looks at its error.
Failed == faults < MaxFault /\ faults' = faults + 1

-----------------------------------------------------------------------------
(* MigrateDB, up to the schema *)

Start ==
    /\ Goto("down", "type")
    /\ UNCHANGED <<prefVars, taskVars, bounds, fatal>>

\* The table is made anew in a transaction, without the columns added since.
TrackerItemType ==
    /\ Goto("type", "columns")
    /\ layout' = IF "adhoc" \in layout THEN {} ELSE layout
    /\ UNCHANGED <<prefVars, itemVars, tables, bounds, fatal>>

\* (mutant) due_date is left to the schema
AddMissingColumns_NoDueDate ==
    /\ Goto("columns", "items")
    /\ UNCHANGED <<prefVars, taskVars, bounds, fatal>>

\* ALTER TABLE ... ADD COLUMN, one by one; those that exist give an error.
AddMissingColumns ==
    /\ Goto("columns", "items")
    /\ layout' = IF "tracker_responses" \in tables THEN layout \cup {"due_date"} ELSE layout
    /\ UNCHANGED <<prefVars, itemVars, tables, bounds, fatal>>

\* (mutant) only the legacy tables are looked at
ItemsToMigrate_Again == "task_items" \in tables /\ legacy

ItemsToMigrate == "task_items" \in tables /\ ~HasItems /\ legacy

\* One transaction: the items are copied and the responses point to the copies,
\* if there is a requires_signoff to copy to; in any case tracker_responses is
\* made anew, without due_date.  It may fail to begin or to commit.
ToTaskItems ==
    /\ Goto("items", "check")
    /\ \/ /\ ItemsToMigrate /\ Done
          /\ copies' = IF signoff THEN copies + 1 ELSE copies
          /\ layout' = {}
       \/ /\ (~ItemsToMigrate /\ Done) \/ (ItemsToMigrate /\ Failed)
          /\ UNCHANGED <<copies, layout>>
    /\ UNCHANGED <<prefVars, legacy, signoff, samples, used, tables, crashes, fatal>>

-----------------------------------------------------------------------------
(* migrateUserPreferences: four statements *)

\* Only a table that has the old primary key is made anew.
CheckPreferences ==
    /\ Goto("check", IF prefs = "old" THEN "create" ELSE "schema")
    /\ UNCHANGED <<prefVars, taskVars, bounds, fatal>>

\* (mutant) a table that an earlier start left is taken for complete
CreateNew_Complete ==
    /\ Goto("create", IF temp THEN "drop" ELSE "copy")
    /\ temp' = TRUE
    /\ UNCHANGED <<prefs, held, owned, harm, taskVars, bounds, fatal>>

\* CREATE TABLE user_preferences_new; an earlier start may have left one.
CreateNew ==
    /\ Goto("create", "copy")
    /\ \/ temp' = TRUE /\ Done
       \/ Failed /\ UNCHANGED temp
    /\ UNCHANGED <<prefs, held, owned, harm, taskVars, crashes, fatal>>

\* INSERT ... SELECT: it fails without a table to insert into.  Where an
\* earlier start has copied the rows, the same rows are refused.
CopyRows ==
    /\ Goto("copy", "drop")
    /\ \/ /\ temp /\ Done
          /\ held' = IF "prefs" \in held THEN held \cup {"temp"} ELSE held
          /\ UNCHANGED harm
       \/ /\ (~temp /\ Done) \/ Failed
          /\ harm' = IF "temp" \in held THEN harm ELSE harm \cup {"copy"}
          /\ UNCHANGED held
    /\ UNCHANGED <<prefs, temp, owned, taskVars, crashes, fatal>>

DropOld ==
    /\ Goto("drop", "rename")
    /\ \/ prefs' = "absent" /\ held' = held \ {"prefs"} /\ Done
       \/ Failed /\ UNCHANGED <<prefs, held>>
    /\ UNCHANGED <<temp, owned, harm, taskVars, crashes, fatal>>

\* It fails if the old table is still there, or there is no new one.
RenameNew ==
    /\ Goto("rename", "schema")
    /\ \/ /\ prefs = "absent" /\ temp /\ Done
          /\ prefs' = "new" /\ temp' = FALSE
          /\ held' = IF "temp" \in held THEN {"prefs"} ELSE {}
          /\ UNCHANGED harm
       \/ /\ ((prefs # "absent" \/ ~temp) /\ Done) \/ Failed
          /\ harm' = IF prefs = "absent" THEN harm \cup {"gap"} ELSE harm
          /\ UNCHANGED <<prefs, temp, held>>
    /\ UNCHANGED <<owned, taskVars, crashes, fatal>>

-----------------------------------------------------------------------------
(* The schema: CREATE TABLE IF NOT EXISTS, in order *)

\* As far as the index on due_date, which log.Fatal answers if it cannot be made.
Schema ==
    /\ step = "schema"
    /\ tables' = {"task_items", "tracker_responses"}
    /\ layout' = IF "tracker_responses" \in tables THEN layout ELSE {"due_date"}
    /\ IF "due_date" \in layout'
         THEN step' = "rest" /\ fatal' = fatal
         ELSE step' = "down" /\ fatal' = IF fatal = 2 THEN 2 ELSE fatal + 1
    /\ UNCHANGED <<prefVars, itemVars, bounds>>

SchemaRest ==
    /\ Goto("rest", "seed")
    /\ prefs' = IF prefs = "absent" THEN "new" ELSE prefs
    /\ UNCHANGED <<temp, held, owned, harm, taskVars, bounds, fatal>>

\* SeedSampleData: "only inserts if task_items is empty", or all are deleted.
Seed ==
    /\ Goto("seed", "up")
    /\ \/ samples' = TRUE
       \/ HasItems /\ UNCHANGED samples
    /\ used' = TRUE /\ fatal' = 0
    /\ UNCHANGED <<prefVars, legacy, signoff, copies, tables, layout, bounds>>

-----------------------------------------------------------------------------
(* The program in use *)

\* A preference is stored: ON CONFLICT needs the new key.
StorePreference ==
    /\ step = "up" /\ prefs = "new"
    /\ held' = held \cup {"prefs"}
    /\ owned' = TRUE
    /\ UNCHANGED <<step, prefs, temp, harm, taskVars, bounds, fatal>>

\* The process ends and will be started again.
Quit ==
    /\ Goto("up", "down")
    /\ UNCHANGED <<prefVars, taskVars, bounds, fatal>>

\* The process dies while it starts.
StartDies ==
    /\ step \notin {"down", "up"} /\ crashes < MaxCrash
    /\ crashes' = crashes + 1
    /\ step' = "down"
    /\ harm' = IF step = "rename" /\ prefs = "absent" THEN harm \cup {"gap"} ELSE harm
    /\ UNCHANGED <<prefs, temp, held, owned, taskVars, faults, fatal>>

Starting ==
    \/ Start \/ TrackerItemType \/ AddMissingColumns \/ ToTaskItems
    \/ CheckPreferences \/ CreateNew \/ CopyRows \/ DropOld \/ RenameNew
    \/ Schema \/ SchemaRest \/ Seed

MNext == Starting \/ StorePreference \/ Quit \/ StartDies

\* Whoever runs the program starts it, and every statement of a start returns.
MSpec == MInit /\ [][MNext]_migrationVars /\ WF_migrationVars(Starting)

-----------------------------------------------------------------------------
(* Properties *)

\* The users' preferences are in one of the two tables at every moment, also
\* while a start that died is repeated, unless the statement that copies them
\* failed: DROP TABLE is executed all the same.  (migrate.go:489-501)
PrefsSurvive == owned /\ "copy" \notin harm => held # {}

\* They are in the table that the program reads, unless a start ended between
\* DROP and RENAME: the next one takes the missing table for a new database.
\* (migrate.go:484-488)
PrefsInPlace == step = "up" /\ owned /\ harm = {} => "prefs" \in held

\* "Safe to call multiple times": the items are copied and the responses pointed
\* to the copies once at the most, and responses given since the program first
\* came up never lose their due date to a table made anew.  (migrate.go:504-585)
ResponsesRemapped == copies <= 1 /\ (used => "due_date" \in layout)

\* Items that no start can copy: task_items, empty, has no column for the
\* sign-offs.  A start that dies between the schema and the samples leaves it.
Unmigratable == ItemsToMigrate /\ ~signoff

\* A start that makes tracker_responses anew ends in log.Fatal, for it has just
\* removed the column that the schema makes an index on; the next one does not,
\* if the items were copied.  (migrate.go:250, 563-580)
FatalOnce == fatal = 2 => Unmigratable

\* The program comes up in the end, whatever the starts before left, unless
\* one has to begin with items that cannot be copied.  (main.go:200)
Stranded == step = "down" /\ Unmigratable
ComesUp == []<>(step = "up" \/ Stranded)

\* Where one has to, and the transaction that cannot copy them does not fail,
\* the program never comes up again: every start makes tracker_responses anew
\* and is fatal.  (migrate.go:250, 517, 532-543)
NeverAgain == [](Stranded /\ faults = MaxFault => [](step # "up"))

\* The users' preferences outlive every start that dies, and are where the
\* program looks for them when it comes up (migrate.go:476-502).
PrefsAreSafe == PrefsSurvive /\ PrefsInPlace
=============================================================================
