--------------------------- MODULE DirectoryProofs ---------------------------
(***************************************************************************)
(* Proofs about Directory, for any tables, workers, requests and uploads.  *)
(***************************************************************************)
EXTENDS Directory, TLAPS

-----------------------------------------------------------------------------
(* The tables and the local states *)

LEMMA Tables ==
    /\ Len(Order) \in Nat \ {0} /\ 1 \in 1..Len(Order)
    /\ \A i \in 1..Len(Order) : Order[i] \in Table
    /\ \A t \in Table : \E i \in 1..Len(Order) : t = Order[i]
    /\ Students \in Table
<1>1. Len(Order) \in Nat \ {0} /\ 1 \in 1..Len(Order)
  BY OrderAssumption
<1> QED
  BY <1>1 DEF Table, Students

LEMMA Contents ==
    /\ NoRows \in Rows /\ Empty \in Content
    /\ \A rows \in Rows : [from |-> "sheet", rows |-> rows] \in Content
    /\ \A u \in Upload : Uploaded(u) \in Content /\ Uploaded(u).from = u
<1>1. 0 \in 0..MaxVersion /\ 1 \in 0..MaxVersion
  BY BoundsAssumption
<1>2. NoRows \in Rows
  BY <1>1 DEF NoRows, Rows
<1>3. \A u \in Upload : Uploaded(u) \in Content /\ Uploaded(u).from = u
  BY <1>1 DEF Uploaded, Content, Rows
<1> QED
  BY <1>2, <1>3 DEF Empty, Content

LEMMA IdleLocal ==
    /\ Idle \in Local
    /\ Idle.pc = "idle" /\ Idle.pos = 1 /\ Idle.alone = TRUE /\ Idle.found = 0
    /\ Idle.data.from = "none"
<1>1. 1 \in 1..(Len(Order) + 1)
  BY Tables
<1> QED
  BY <1>1, Contents DEF Idle, Local, Empty

\* An import begins; those that run beside it are not alone from now on.
LEMMA LoadMoves ==
    ASSUME TypeOK, NEW j \in Importer, NEW c \in Content, Load(j, c)
    PROVE  /\ job' \in [Importer -> Local]
           /\ job'[j].pc = "import" /\ job'[j].data = c /\ job'[j].pos = 1
           /\ job'[j].alone => \A i \in Importer : ~Beside(j, i)
           /\ \A k \in Importer \ {j} :
                 /\ job'[k].pc = job[k].pc /\ job'[k].data = job[k].data
                 /\ job'[k].pos = job[k].pos /\ job'[k].found = job[k].found
                 /\ job'[k].alone => job[k].alone /\ ~Beside(j, k)
<1> DEFINE a == ~\E i \in Importer : Beside(j, i)
           new == [Idle EXCEPT !.pc = "import", !.data = c, !.alone = a]
<1>1. a \in BOOLEAN
  OBVIOUS
<1>2. new \in Local /\ new.pc = "import" /\ new.data = c /\ new.pos = 1 /\ new.alone = a
  BY <1>1, IdleLocal DEF Local
<1>3. job' = [k \in Importer |->
                IF k = j THEN new
                ELSE IF Beside(j, k) THEN [job[k] EXCEPT !.alone = FALSE]
                ELSE job[k]]
  BY DEF Load
<1> HIDE DEF new
<1>4. \A k \in Importer :
         LET l == [job[k] EXCEPT !.alone = FALSE]
         IN  /\ l \in Local /\ l.alone = FALSE
             /\ l.pc = job[k].pc /\ l.data = job[k].data
             /\ l.pos = job[k].pos /\ l.found = job[k].found
  BY DEF TypeOK, Local
<1>5. job' \in [Importer -> Local]
  BY <1>2, <1>3, <1>4 DEF TypeOK
<1>6. job'[j] = new
  BY <1>3
<1>7. \A k \in Importer \ {j} :
         /\ job'[k].pc = job[k].pc /\ job'[k].data = job[k].data
         /\ job'[k].pos = job[k].pos /\ job'[k].found = job[k].found
         /\ job'[k].alone => job[k].alone /\ ~Beside(j, k)
  BY <1>3, <1>4
<1> QED
  BY <1>2, <1>5, <1>6, <1>7

LEMMA ReturnMoves ==
    ASSUME TypeOK, NEW j \in Importer, job' = [job EXCEPT ![j] = Idle]
    PROVE  /\ job' \in [Importer -> Local]
           /\ job'[j].pc = "idle"
           /\ \A k \in Importer \ {j} : job'[k] = job[k]
BY IdleLocal DEF TypeOK

LEMMA TableMoves ==
    ASSUME TypeOK, NEW j \in Importer, job[j].pos <= Len(Order),
           job' = [job EXCEPT ![j].pos = @ + 1]
    PROVE  /\ job' \in [Importer -> Local]
           /\ job'[j].pos = job[j].pos + 1
           /\ job'[j].pc = job[j].pc /\ job'[j].data = job[j].data
           /\ job'[j].alone = job[j].alone /\ job'[j].found = job[j].found
           /\ \A k \in Importer \ {j} : job'[k] = job[k]
<1> DEFINE l == [job[j] EXCEPT !.pos = job[j].pos + 1]
<1>1. job[j] \in Local /\ job[j].pos \in 1..(Len(Order) + 1)
  BY DEF TypeOK, Local
<1>2. job[j].pos + 1 \in 1..(Len(Order) + 1)
  BY <1>1, Tables
<1>3. /\ l \in Local /\ l.pos = job[j].pos + 1
      /\ l.pc = job[j].pc /\ l.data = job[j].data
      /\ l.alone = job[j].alone /\ l.found = job[j].found
  BY <1>1, <1>2 DEF Local
<1>4. job' = [job EXCEPT ![j] = l]
  BY DEF TypeOK
<1> HIDE DEF l
<1> QED
  BY <1>3, <1>4 DEF TypeOK

LEMMA WaitMoves ==
    ASSUME TypeOK, NEW j \in Importer, job' = [job EXCEPT ![j].pc = "wait"]
    PROVE  /\ job' \in [Importer -> Local]
           /\ job'[j].pc = "wait"
           /\ \A k \in Importer \ {j} : job'[k] = job[k]
<1>1. [job[j] EXCEPT !.pc = "wait"] \in Local /\ [job[j] EXCEPT !.pc = "wait"].pc = "wait"
  BY DEF TypeOK, Local
<1> QED
  BY <1>1 DEF TypeOK

LEMMA PreviewMoves ==
    ASSUME TypeOK, NEW r \in Request, NEW u \in Upload, Preview(r, u)
    PROVE  /\ job' \in [Importer -> Local]
           /\ job'[r].pc = "insert" /\ job'[r].found \in {copies, 0}
           /\ again' = (again \/ Met \/ job'[r].found < copies)
           /\ \A k \in Importer \ {r} : job'[k] = job[k]
           /\ phase = "serving" /\ job[r].pc = "idle"
           /\ UNCHANGED <<fileVars, phase, watchVars, cache, rowVars, stale, mixed>>
<1>1. PICK found \in {copies, 0} : /\ List(r, u, found)
                                  /\ again' = (again \/ Met \/ found < copies)
  BY DEF Preview
<1> DEFINE l == [Idle EXCEPT !.pc = "insert", !.data = Namelist(u), !.found = found]
<1>2. Namelist(u) \in Content
  BY Contents DEF Content, Namelist
<1>3. l \in Local /\ l.pc = "insert" /\ l.found = found
  BY <1>2, IdleLocal DEF Local, TypeOK
<1>4. r \in Importer /\ job \in [Importer -> Local]
  BY DEF TypeOK, Importer
<1>5. job' = [job EXCEPT ![r] = l]
  BY <1>1 DEF List
<1>6. /\ phase = "serving" /\ job[r].pc = "idle"
      /\ UNCHANGED <<fileVars, phase, watchVars, cache, rowVars, stale, mixed>>
  BY <1>1 DEF List
<1> HIDE DEF l
<1>7. job'[r].found = found
  BY <1>3, <1>4, <1>5
<1>8. again' = (again \/ Met \/ job'[r].found < copies)
  BY <1>1, <1>7
<1> QED
  BY <1>3, <1>4, <1>5, <1>6, <1>7, <1>8

-----------------------------------------------------------------------------
(* Control: who imports, and when *)

\* A sheet that is half written has a version to become.
SaveInv == \A t \in saving : sheet[t] < MaxVersion

ControlInv ==
    /\ \A w \in Worker : Importing(w) => lock = w
    /\ \A j \in Importer : Importing(j) => (job[j].data.from = "sheet" <=> j \notin Request)
    /\ \A w \in Worker : job[w].pc \in {"idle", "wait", "import"}
    /\ \A r \in Request : job[r].pc \in {"idle", "import", "insert"}
    /\ job[Main].pc \in {"idle", "import"}
    /\ phase \in {"down", "import"} =>
          ~timer /\ \A j \in Worker \cup Request : job[j].pc = "idle"
    /\ Importing(Main) => phase = "import"

\* The parts of the type invariant
PlainOK ==
    /\ layout \in {"xlsx", "csv", "csvdir"}
    /\ sheet \in [Table -> 1..MaxVersion] /\ saving \subseteq Table
    /\ phase \in {"down", "import", "serving", "stopping"}
    /\ timer \in BOOLEAN
    /\ cache \in [Upload -> {"none", "book", "single", "namelist"}]
    /\ stale \in BOOLEAN /\ mixed \in BOOLEAN /\ again \in BOOLEAN
RowsOK == table \in [Table -> Content] /\ copies \in Nat /\ seen \in Rows
LockOK == lock \in Worker \cup {None} /\ (lock # None => Importing(lock))

LEMMA TypeParts ==
    TypeOK <=> PlainOK /\ RowsOK /\ LockOK /\ job \in [Importer -> Local]
BY DEF TypeOK, PlainOK, RowsOK, LockOK

LEMMA Files == ASSUME NEW f \in File PROVE f \subseteq Table
BY DEF File

LEMMA PresentRows == ASSUME TypeOK PROVE Present \in Rows
<1>1. \A n \in 1..MaxVersion : n \in 0..MaxVersion
  BY BoundsAssumption
<1>2. 0 \in 0..MaxVersion
  BY BoundsAssumption
<1> QED
  BY <1>1, <1>2 DEF TypeOK, Present, Rows

\* The sources of an import have the types.
LEMMA SheetContent == ASSUME TypeOK PROVE [from |-> "sheet", rows |-> Present] \in Content
BY PresentRows, Contents

\* Variables that take one value or a Boolean
LEMMA PlainStep ==
    ASSUME TypeOK, SaveInv, [Next]_vars
    PROVE  PlainOK' /\ SaveInv'
<1> USE DEF TypeOK, PlainOK, SaveInv
<1>0. 1 \in 1..MaxVersion /\ MaxVersion \in Nat
  BY BoundsAssumption
<1>1. ASSUME NEW f \in File, BeginSave(f) PROVE PlainOK' /\ SaveInv'
  <2>1. timer' \in BOOLEAN
    BY <1>1, Zenon DEF BeginSave, Notice, Watching
  <2>2. saving' \subseteq Table /\ \A t \in saving' : sheet[t] < MaxVersion
    BY <1>1, Files DEF BeginSave
  <2> QED BY <1>1, <2>1, <2>2 DEF BeginSave, historyVars
<1>2. ASSUME NEW f \in File, EndSave(f) PROVE PlainOK' /\ SaveInv'
  <2>1. timer' \in BOOLEAN /\ stale' \in BOOLEAN
    BY <1>2, Zenon DEF EndSave, Notice, Watching
  <2>2. \A t \in f : sheet[t] + 1 \in 1..MaxVersion
    BY <1>2, <1>0 DEF EndSave
  <2>3. sheet' \in [Table -> 1..MaxVersion] /\ saving' \subseteq Table
    BY <1>2, <2>2 DEF EndSave
  <2>4. \A t \in saving' : t \in saving /\ sheet'[t] = sheet[t]
    BY <1>2 DEF EndSave
  <2> QED BY <1>2, <2>1, <2>3, <2>4 DEF EndSave
<1>3. CASE Start
  BY <1>3 DEF Start, fileVars, watchVars
<1>4. CASE Serve BY <1>4 DEF Serve, fileVars, watchVars, historyVars
<1>5. CASE Stop BY <1>5 DEF Stop, fileVars, historyVars
<1>6. CASE Exit
  <2>1. mixed' \in BOOLEAN /\ stale' \in BOOLEAN /\ timer' \in BOOLEAN
    BY <1>6, Zenon DEF Exit
  <2> QED BY <1>6, <2>1 DEF Exit, fileVars
<1>7. ASSUME NEW w \in Worker, Fire(w) \/ Reimport(w) PROVE PlainOK' /\ SaveInv'
  <2>1. cache' \in [Upload -> {"none", "book", "single", "namelist"}]
    BY <1>7 DEF Fire, Reimport, Return
  <2>2. stale' \in BOOLEAN /\ timer' \in BOOLEAN
    BY <1>7 DEF Fire, Reimport, historyVars
  <2> QED BY <1>7, <2>1, <2>2 DEF Fire, Reimport, fileVars, historyVars
<1>8. ASSUME NEW j \in Importer, Import(j) PROVE PlainOK' /\ SaveInv'
  <2>1. cache' \in [Upload -> {"none", "book", "single", "namelist"}]
    BY <1>8 DEF Import, ImportTable, Finish, Fail, Return
  <2>2. UNCHANGED <<fileVars, phase, timer, again>>
    BY <1>8 DEF Import, ImportTable, Finish, Fail, historyVars, watchVars
  <2>3. mixed' \in BOOLEAN /\ stale' \in BOOLEAN
    <3>1. CASE ImportTable(j) BY <3>1 DEF ImportTable, historyVars
    <3>2. CASE Finish(j) BY <3>2, Zenon DEF Finish
    <3>3. CASE Fail(j) BY <3>3, Zenon DEF Fail
    <3> QED BY <1>8, <3>1, <3>2, <3>3 DEF Import
  <2> QED BY <2>1, <2>2, <2>3 DEF fileVars
<1>9. CASE Handle
  <2>1. cache' \in [Upload -> {"none", "book", "single", "namelist"}]
    BY <1>9 DEF Handle, Store, Expire, Execute, Preview, List, Insert, Return
  <2>2. UNCHANGED <<fileVars, phase, timer, stale, mixed>>
    BY <1>9 DEF Handle, Store, Expire, Execute, Preview, List, Insert, historyVars, watchVars
  <2>3. again' \in BOOLEAN
    <3>1. CASE \E r \in Request, u \in Upload : Preview(r, u)
      BY <3>1, Zenon DEF Preview
    <3>2. CASE \E r \in Request : Insert(r)
      BY <3>2, Zenon DEF Insert
    <3>3. CASE ~(\E r \in Request, u \in Upload : Preview(r, u)) /\ ~\E r \in Request : Insert(r)
      BY <1>9, <3>3 DEF Handle, Store, Expire, Execute, historyVars
    <3> QED BY <3>1, <3>2, <3>3
  <2> QED BY <2>1, <2>2, <2>3 DEF fileVars
<1>10. CASE UNCHANGED vars BY <1>10 DEF vars, fileVars, watchVars, historyVars
<1> QED
  BY <1>1, <1>2, <1>3, <1>4, <1>5, <1>6, <1>7, <1>8, <1>9, <1>10 DEF Next, Save, Watch

LEMMA RowsStep ==
    ASSUME TypeOK, [Next]_vars
    PROVE  RowsOK'
<1> USE DEF TypeOK, RowsOK
<1>1. ASSUME NEW j \in Importer, ImportTable(j) PROVE RowsOK'
  <2>1. job[j].data \in Content /\ job[j].pos \in 1..Len(Order)
    BY <1>1, Tables DEF ImportTable, Local
  <2>2. Order[job[j].pos] \in Table
    BY <2>1, Tables
  <2>3. job[j].data.rows \in Rows
    BY <2>1 DEF Content
  <2>4. job[j].data.rows[Order[job[j].pos]] \in 0..MaxVersion
    BY <2>2, <2>3 DEF Rows
  <2>5. table' \in [Table -> Content]
    BY <1>1, <2>1 DEF ImportTable
  <2>6. copies' \in Nat
    BY <1>1 DEF ImportTable
  <2>7. seen' \in Rows
    BY <1>1, <2>4 DEF ImportTable, Rows
  <2> QED BY <2>5, <2>6, <2>7
<1>2. ASSUME NEW r \in Request, Insert(r) PROVE RowsOK'
  BY <1>2 DEF Insert
<1>3. CASE UNCHANGED rowVars
  BY <1>3 DEF rowVars
<1>4. CASE [Next]_vars /\ (~\E j \in Importer : ImportTable(j)) /\ (~\E r \in Request : Insert(r))
  <2>1. UNCHANGED rowVars
    BY <1>4 DEF Next, vars, Save, BeginSave, EndSave, Start, Serve, Stop, Exit, Watch, Fire,
       Reimport, Import, Finish, Fail, Handle, Store, Expire, Execute, Preview, List,
       rowVars
  <2> QED BY <2>1, <1>3
<1> QED
  BY <1>1, <1>2, <1>4

LEMMA Members ==
    /\ \A w \in Worker : w \in Importer /\ w \notin Request /\ w # Main /\ w # None
    /\ \A r \in Request : r \in Importer /\ r \notin Worker /\ r # Main /\ r # None
    /\ Main \in Importer /\ Main \notin Request /\ Main \notin Worker
    /\ \A j \in Importer : j \in Worker \/ j \in Request \/ j = Main
    /\ None \notin Worker
BY NamesAssumption DEF Importer

LEMMA UploadSources ==
    ASSUME NEW u \in Upload PROVE u # "sheet" /\ u # "none"
BY NamesAssumption

\* The conjuncts of ControlInv for one importer
JobOK(j) ==
    /\ j \in Worker => (Importing(j) => lock = j)
    /\ Importing(j) => (job[j].data.from = "sheet" <=> j \notin Request)
    /\ j \in Worker => job[j].pc \in {"idle", "wait", "import"}
    /\ j \in Request => job[j].pc \in {"idle", "import", "insert"}
    /\ j = Main => job[j].pc \in {"idle", "import"} /\ (Importing(j) => phase = "import")
    /\ phase \in {"down", "import"} /\ j # Main => job[j].pc = "idle"

LEMMA ControlParts ==
    ControlInv <=> /\ \A j \in Importer : JobOK(j)
                   /\ phase \in {"down", "import"} => ~timer
<1>1. ASSUME ControlInv
      PROVE  (\A j \in Importer : JobOK(j)) /\ (phase \in {"down", "import"} => ~timer)
  BY <1>1, Members DEF ControlInv, JobOK
<1>2. ASSUME \A j \in Importer : JobOK(j), phase \in {"down", "import"} => ~timer
      PROVE  ControlInv
  BY <1>2, Members DEF ControlInv, JobOK
<1> QED
  BY <1>1, <1>2

\* Local states, the mutex and the control
LEMMA JobStep ==
    ASSUME TypeOK, ControlInv, [Next]_vars
    PROVE  job' \in [Importer -> Local] /\ LockOK' /\ ControlInv'
<1>0. /\ job \in [Importer -> Local] /\ LockOK /\ \A j \in Importer : JobOK(j)
      /\ phase \in {"down", "import"} => ~timer
  BY TypeParts, ControlParts
<1> DEFINE Goal == /\ job' \in [Importer -> Local] /\ LockOK'
                   /\ \A j \in Importer : JobOK(j)'
                   /\ phase' \in {"down", "import"} => ~timer'
<1> SUFFICES Goal
  <2>1. ASSUME Goal PROVE ControlInv'
    BY <2>1, Members DEF ControlInv, JobOK
  <2> QED BY <2>1
<1>u. ASSUME UNCHANGED <<job, lock, phase>>, phase \in {"down", "import"} => ~timer'
      PROVE  Goal
  BY <1>0, <1>u DEF LockOK, JobOK, Importing
\* Only j moves, and it does not hold the mutex afterwards.
<1>m. ASSUME NEW j \in Importer, job' \in [Importer -> Local],
             \A k \in Importer \ {j} : job'[k] = job[k],
             lock' = lock, lock # j \/ Importing(j)', JobOK(j)', phase' = phase,
             phase \in {"down", "import"} => ~timer'
      PROVE  Goal
  <2>1. LockOK'
    BY <1>m, <1>0, Members DEF LockOK, Importing
  <2>2. \A k \in Importer \ {j} : JobOK(k)'
    BY <1>m, <1>0 DEF JobOK, Importing
  <2> QED BY <1>m, <2>1, <2>2
<1>r. ASSUME NEW j \in Importer, Return(j), phase' = phase, timer' = timer PROVE Goal
  <2>1. /\ job' \in [Importer -> Local] /\ job'[j].pc = "idle"
        /\ \A k \in Importer \ {j} : job'[k] = job[k]
        /\ lock' = IF lock = j THEN None ELSE lock
    BY <1>r, ReturnMoves DEF Return
  <2>2. LockOK'
    BY <2>1, <1>0, Members DEF LockOK, Importing
  <2>3. JobOK(j)'
    BY <2>1, Members DEF JobOK, Importing
  <2>4. \A k \in Importer \ {j} : JobOK(k)'
    BY <2>1, <1>0, <1>r DEF JobOK, Importing
  <2> QED BY <2>1, <2>2, <2>3, <2>4, <1>r, <1>0
\* The import that begins leaves the control of the others alone.
<1>l. ASSUME NEW j \in Importer, NEW c \in Content, Load(j, c), LockOK',
             \A k \in Importer \ {j} : k \in Worker /\ Importing(k) => lock' = k,
             j \in Worker => lock' = j, ~Importing(j),
             c.from = "sheet" <=> j \notin Request,
             j \in Request => phase' = "serving", j = Main => phase' = "import",
             \A k \in Importer \ {j} : phase' \in {"down", "import"} /\ k # Main => job[k].pc = "idle",
             j \in Worker => phase' \notin {"down", "import"},
             Importing(Main) => phase' = phase, phase' \in {"down", "import"} => ~timer'
      PROVE  Goal
  <2>1. /\ job' \in [Importer -> Local]
        /\ job'[j].pc = "import" /\ job'[j].data = c
        /\ \A k \in Importer \ {j} : job'[k].pc = job[k].pc /\ job'[k].data = job[k].data
    BY <1>l, LoadMoves
  <2>2. JobOK(j)'
    BY <2>1, <1>l, Members DEF JobOK, Importing
  <2>3. ASSUME NEW k \in Importer \ {j} PROVE JobOK(k)'
    <3>1. JobOK(k) /\ (Importing(k)' <=> Importing(k))
      BY <2>1, <1>0 DEF Importing
    <3> QED BY <2>1, <3>1, <1>l, Members DEF JobOK, Importing
  <2> QED BY <2>1, <2>2, <2>3, <1>l
<1>1. CASE Save
  <2>1. UNCHANGED <<job, lock, phase>> /\ (phase \in {"down", "import"} => ~timer')
    BY <1>1, <1>0 DEF Save, BeginSave, EndSave, Notice, Watching
  <2> QED BY <2>1, <1>u
<1>2. CASE Start
  <2>1. CASE Importable
    <3>1. Load(Main, [from |-> "sheet", rows |-> Present]) /\ phase' = "import" /\ phase = "down"
      BY <1>2, <2>1 DEF Start
    <3>2. lock' = lock /\ timer' = timer
      BY <1>2 DEF Start, watchVars
    <3>3. ~Importing(Main) /\ \A j \in Importer : j # Main => job[j].pc = "idle"
      BY <3>1, <1>0, Members DEF JobOK
    <3>4. lock = None
      BY <3>3, <1>0, Members DEF LockOK, Importing
    <3>5. LockOK'
      BY <3>2, <3>4 DEF LockOK
    <3> QED BY <3>1, <3>2, <3>3, <3>5, <1>l, <1>0, SheetContent, Members DEF Importing
  <2>2. CASE ~Importable
    <3>1. UNCHANGED <<job, lock, timer>> /\ phase = "down" /\ phase' = "import"
      BY <1>2, <2>2 DEF Start, watchVars
    <3> QED BY <3>1, <1>0 DEF LockOK, JobOK, Importing
  <2> QED BY <2>1, <2>2
<1>3. CASE Serve
  <2>1. /\ UNCHANGED <<job, lock, timer>> /\ phase' = "serving" /\ job[Main].pc = "idle"
    BY <1>3 DEF Serve, watchVars
  <2> QED BY <2>1, <1>0 DEF LockOK, JobOK, Importing
<1>4. CASE Stop
  <2>1. UNCHANGED <<job, lock>> /\ phase = "serving" /\ phase' = "stopping"
    BY <1>4 DEF Stop
  <2> QED BY <2>1, <1>0 DEF LockOK, JobOK, Importing
<1>5. CASE Exit
  <2>1. job' = [j \in Importer |-> Idle] /\ lock' = None /\ timer' = FALSE /\ phase' = "down"
    BY <1>5 DEF Exit
  <2>2. \A j \in Importer : job'[j].pc = "idle"
    BY <2>1, IdleLocal
  <2> QED BY <2>1, <2>2, IdleLocal DEF LockOK, JobOK, Importing
<1>6. ASSUME NEW w \in Worker, Fire(w) PROVE Goal
  <2>1. /\ job' \in [Importer -> Local] /\ job'[w].pc = "wait"
        /\ \A k \in Importer \ {w} : job'[k] = job[k]
    BY <1>6, WaitMoves, Members DEF Fire
  <2>2. lock' = lock /\ phase' = phase /\ timer /\ timer' = FALSE /\ job[w].pc = "idle"
    BY <1>6 DEF Fire
  <2>3. lock # w
    BY <2>2, <1>0, Members DEF LockOK, Importing
  <2>4. JobOK(w)'
    BY <2>1, <2>2, <1>0, Members DEF JobOK, Importing
  <2> QED BY <2>1, <2>2, <2>3, <2>4, <1>m, Members
<1>7. ASSUME NEW w \in Worker, Reimport(w) PROVE Goal
  <2>1. job[w].pc = "wait" /\ lock = None /\ phase' = phase /\ timer' = timer
    BY <1>7 DEF Reimport
  <2>2. CASE Importable
    <3>1. lock' = w /\ Load(w, [from |-> "sheet", rows |-> Present])
      BY <1>7, <2>2 DEF Reimport
    <3>2. job'[w].pc = "import"
      BY <3>1, LoadMoves, SheetContent, Members
    <3>3. LockOK'
      BY <3>1, <3>2 DEF LockOK, Importing
    <3>4. ~Importing(w) /\ phase \notin {"down", "import"}
      BY <2>1, <1>0, Members DEF JobOK, Importing
    <3>5. \A k \in Importer \ {w} : ~(k \in Worker /\ Importing(k))
      BY <2>1, <1>0, Members DEF JobOK
    <3> QED BY <2>1, <3>1, <3>3, <3>4, <3>5, <1>l, <1>0, SheetContent, Members
  <2>3. CASE ~Importable
    BY <1>7, <2>1, <2>3, <1>r, Members DEF Reimport
  <2> QED BY <2>2, <2>3
<1>8. ASSUME NEW j \in Importer, ImportTable(j) PROVE Goal
  <2>1. /\ job[j].pos <= Len(Order) /\ job' = [job EXCEPT ![j].pos = @ + 1]
        /\ Importing(j) /\ lock' = lock /\ phase' = phase /\ timer' = timer
    BY <1>8 DEF ImportTable, watchVars
  <2>2. /\ job' \in [Importer -> Local] /\ job'[j].pc = job[j].pc /\ job'[j].data = job[j].data
        /\ \A k \in Importer \ {j} : job'[k] = job[k]
    BY <2>1, TableMoves
  <2>3. JobOK(j)' /\ Importing(j)'
    BY <2>1, <2>2, <1>0 DEF JobOK, Importing
  <2> QED BY <2>1, <2>2, <2>3, <1>m, <1>0
<1>9. ASSUME NEW j \in Importer, Finish(j) \/ Fail(j) PROVE Goal
  BY <1>9, <1>r DEF Finish, Fail
<1>10. ASSUME NEW r \in Request, NEW u \in Upload, Execute(r, u) PROVE Goal
  <2>1. /\ phase = "serving" /\ job[r].pc = "idle" /\ Load(r, Uploaded(u))
        /\ phase' = phase /\ lock' = lock /\ timer' = timer
    BY <1>10 DEF Execute, watchVars
  <2>2. Uploaded(u) \in Content /\ Uploaded(u).from # "sheet"
    BY Contents, UploadSources
  <2>3. /\ \A k \in Importer \ {r} : job'[k].pc = job[k].pc
        /\ job'[r].pc = "import"
    BY <2>1, <2>2, LoadMoves, Members
  <2>4. LockOK'
    BY <2>1, <2>3, <1>0, Members DEF LockOK, Importing
  <2>5. \A k \in Importer \ {r} : k \in Worker /\ Importing(k) => lock' = k
    BY <2>1, <1>0 DEF JobOK
  <2> QED BY <2>1, <2>2, <2>4, <2>5, <1>l, Members DEF Importing
<1>11. ASSUME NEW r \in Request, NEW u \in Upload, Preview(r, u) PROVE Goal
  <2>1. /\ phase = "serving" /\ phase' = phase /\ lock' = lock /\ timer' = timer /\ job[r].pc = "idle"
    BY <1>11, PreviewMoves DEF watchVars
  <2>2. /\ job' \in [Importer -> Local] /\ job'[r].pc = "insert"
        /\ \A k \in Importer \ {r} : job'[k] = job[k]
    BY <1>11, PreviewMoves
  <2>3. lock # r /\ r \in Importer
    BY <2>1, <1>0, Members DEF LockOK
  <2>4. JobOK(r)'
    BY <2>1, <2>2, Members DEF JobOK, Importing
  <2> QED BY <2>1, <2>2, <2>3, <2>4, <1>m
<1>12. ASSUME NEW r \in Request, Insert(r) PROVE Goal
  BY <1>12, <1>r, Members DEF Insert
<1>13. CASE \E u \in Upload : Store(u) \/ Expire(u)
  BY <1>13, <1>u, <1>0 DEF Store, Expire, watchVars
<1>14. CASE UNCHANGED vars
  BY <1>14, <1>u, <1>0 DEF vars
<1> QED
  BY <1>1, <1>2, <1>3, <1>4, <1>5, <1>6, <1>7, <1>8, <1>9, <1>10, <1>11, <1>12, <1>13, <1>14
     DEF Next, Watch, Import, Handle

-----------------------------------------------------------------------------
(* The tables agree *)

\* An import that is alone has filled the first tables, and the others still
\* agree if they did before.
Filled(j) ==
    /\ \A i \in 1..Len(Order) : i < job[j].pos => table[Order[i]] = job[j].data
    /\ ~mixed => \A i, m \in 1..Len(Order) :
          i >= job[j].pos /\ m >= job[j].pos => table[Order[i]] = table[Order[m]]

AgreeInv ==
    /\ \A j, k \in Importer : Importing(j) /\ job[j].alone /\ Importing(k) => j = k
    /\ \A j \in Importer : Importing(j) /\ job[j].alone => Filled(j)
    /\ TablesAgree

\* All tables agree if those at all positions do.
LEMMA AllTables ==
    ASSUME \A i, m \in 1..Len(Order) : table[Order[i]] = table[Order[m]]
    PROVE  \A s, t \in Table : table[s] = table[t]
BY Tables

LEMMA AgreeStep ==
    ASSUME TypeOK, ControlInv, AgreeInv, [Next]_vars
    PROVE  AgreeInv'
<1>0. /\ Len(Order) \in Nat
      /\ \A j \in Importer : job[j].pos \in 1..(Len(Order) + 1) /\ job[j].alone \in BOOLEAN
  BY Tables DEF TypeOK, Local
<1>u. ASSUME UNCHANGED <<table, mixed>>,
             \A k \in Importer : Importing(k) \/ Importing(k)' => job'[k] = job[k]
      PROVE  AgreeInv'
  <2>1. \A k \in Importer : Importing(k)' <=> Importing(k)
    BY <1>u DEF Importing
  <2> QED BY <1>u, <2>1 DEF AgreeInv, Filled, TablesAgree
<1>l. ASSUME NEW j \in Importer, NEW c \in Content, Load(j, c), UNCHANGED <<table, mixed>>,
             ~Importing(j), j \in Worker => \A k \in Worker : ~Importing(k)
      PROVE  AgreeInv'
  <2>1. /\ job'[j].pc = "import" /\ job'[j].pos = 1
        /\ job'[j].alone => \A i \in Importer : ~Beside(j, i)
        /\ \A k \in Importer \ {j} :
              /\ job'[k].pc = job[k].pc
              /\ job'[k].alone => ~Beside(j, k)
    BY <1>l, LoadMoves
  <2>2. \A k \in Importer \ {j} : Importing(k)' <=> Importing(k)
    BY <2>1 DEF Importing
  <2>3. \A k \in Importer \ {j} : Importing(k) => Beside(j, k)
    BY <1>l DEF Beside
  <2>4. \A k \in Importer \ {j} : ~(Importing(k)' /\ job'[k].alone)
    BY <2>1, <2>2, <2>3
  <2>5. job'[j].alone => \A k \in Importer : ~Importing(k)
    BY <2>1, <2>3, <1>l
  <2>6. job'[j].alone => Filled(j)'
    <3> SUFFICES ASSUME job'[j].alone, ~mixed,
                        NEW i \in 1..Len(Order), NEW m \in 1..Len(Order)
                 PROVE  table[Order[i]] = table[Order[m]]
      BY <2>1, <1>l DEF Filled
    <3>1. \A s, t \in Table : table[s] = table[t]
      BY <2>5 DEF AgreeInv, TablesAgree
    <3> QED BY <3>1, Tables
  <2>7. Importing(j)'
    BY <2>1 DEF Importing
  <2>8. job'[j].alone => \A k \in Importer \ {j} : ~Importing(k)'
    BY <2>2, <2>5
  <2> QED BY <2>4, <2>6, <2>7, <2>8 DEF AgreeInv, TablesAgree
<1>r. ASSUME NEW j \in Importer, Importing(j), Return(j), table' = table,
             ~mixed' /\ job[j].alone =>
                 \A i, m \in 1..Len(Order) : table[Order[i]] = table[Order[m]],
             ~mixed' => job[j].alone
      PROVE  AgreeInv'
  <2>1. job'[j].pc = "idle" /\ \A k \in Importer \ {j} : job'[k] = job[k]
    BY <1>r, ReturnMoves DEF Return
  <2>2. \A k \in Importer : Importing(k)' => Importing(k) /\ k # j /\ job'[k] = job[k]
    BY <2>1 DEF Importing
  <2>3. \A k \in Importer : ~(Importing(k)' /\ job'[k].alone)
    BY <2>2, <1>r DEF AgreeInv
  <2>4. TablesAgree'
    BY <1>r, AllTables DEF TablesAgree
  <2> QED BY <2>3, <2>4 DEF AgreeInv
<1>1. CASE Save
  BY <1>1, <1>u DEF Save, BeginSave, EndSave, rowVars, historyVars
<1>2. CASE Start
  <2>1. CASE Importable
    <3>1. Load(Main, [from |-> "sheet", rows |-> Present]) /\ UNCHANGED <<table, mixed>> /\ phase = "down"
      BY <1>2, <2>1 DEF Start, rowVars
    <3> QED BY <3>1, <1>l, SheetContent, Members DEF ControlInv
  <2>2. CASE ~Importable
    BY <1>2, <2>2, <1>u DEF Start, rowVars
  <2> QED BY <2>1, <2>2
<1>3. CASE Serve \/ Stop
  BY <1>3, <1>u DEF Serve, Stop, rowVars, historyVars
<1>4. CASE Exit
  <2>1. /\ \A j \in Importer : ~Importing(j)'
        /\ mixed' = (mixed \/ \E j \in Importer : Importing(j) /\ Broken(j)) /\ table' = table
    BY <1>4, IdleLocal DEF Exit, Importing, rowVars
  <2>2. ASSUME ~mixed' PROVE \A s, t \in Table : table[s] = table[t]
    <3>1. ~mixed /\ \A j \in Importer : ~(Importing(j) /\ Broken(j))
      BY <2>1, <2>2
    <3>2. CASE \A j \in Importer : ~Importing(j)
      BY <3>1, <3>2 DEF AgreeInv, TablesAgree
    <3>3. ASSUME NEW j \in Importer, Importing(j) PROVE \A s, t \in Table : table[s] = table[t]
      <4>1. job[j].pos = 1 /\ job[j].alone
        BY <3>1, <3>3, <1>0 DEF Broken
      <4>2. \A i, m \in 1..Len(Order) : table[Order[i]] = table[Order[m]]
        BY <4>1, <3>1, <3>3 DEF AgreeInv, Filled
      <4> QED BY <4>2, AllTables
    <3> QED BY <3>2, <3>3
  <2> QED BY <2>1, <2>2 DEF AgreeInv, TablesAgree
<1>5. ASSUME NEW w \in Worker, Fire(w) PROVE AgreeInv'
  <2>1. /\ job'[w].pc = "wait" /\ job[w].pc = "idle" /\ UNCHANGED <<table, mixed>>
        /\ \A k \in Importer \ {w} : job'[k] = job[k]
    BY <1>5, WaitMoves, Members DEF Fire, rowVars, historyVars
  <2> QED BY <2>1, <1>u DEF Importing
<1>6. ASSUME NEW w \in Worker, Reimport(w) PROVE AgreeInv'
  <2>1. job[w].pc = "wait" /\ lock = None /\ UNCHANGED <<table, mixed>>
    BY <1>6 DEF Reimport, rowVars
  <2>2. CASE Importable
    <3>1. Load(w, [from |-> "sheet", rows |-> Present])
      BY <1>6, <2>2 DEF Reimport
    <3>2. ~Importing(w) /\ \A k \in Worker : ~Importing(k)
      BY <2>1, Members DEF ControlInv, Importing
    <3> QED BY <2>1, <3>1, <3>2, <1>l, SheetContent, Members
  <2>3. CASE ~Importable
    <3>1. job'[w].pc = "idle" /\ \A k \in Importer \ {w} : job'[k] = job[k]
      BY <1>6, <2>3, ReturnMoves, Members DEF Reimport, Return
    <3> QED BY <2>1, <3>1, <1>u DEF Importing
  <2> QED BY <2>2, <2>3
<1>7. ASSUME NEW j \in Importer, ImportTable(j) PROVE AgreeInv'
  <2> DEFINE p == job[j].pos
  <2>1. /\ Importing(j) /\ p \in 1..Len(Order) /\ mixed' = mixed
        /\ table' = [table EXCEPT ![Order[p]] = job[j].data]
        /\ job' = [job EXCEPT ![j].pos = @ + 1]
    BY <1>7, <1>0 DEF ImportTable, historyVars
  <2>2. /\ job'[j].pos = p + 1 /\ job'[j].pc = job[j].pc
        /\ job'[j].data = job[j].data /\ job'[j].alone = job[j].alone
        /\ \A k \in Importer \ {j} : job'[k] = job[k]
    <3>1. job[j].pos <= Len(Order)
      BY <1>7 DEF ImportTable
    <3> QED BY <2>1, <3>1, TableMoves
  <2>3. \A k \in Importer : (Importing(k)' <=> Importing(k)) /\ job'[k].alone = job[k].alone
    BY <2>2 DEF Importing
  <2>4. \A k \in Importer : Importing(k) /\ job[k].alone => k = j
    BY <2>1 DEF AgreeInv
  <2>5. \A i \in 1..Len(Order) :
           table'[Order[i]] = IF i = p THEN job[j].data ELSE table[Order[i]]
    BY <2>1, Tables, OrderAssumption DEF TypeOK
  <2>6. job[j].alone => Filled(j)'
    <3> SUFFICES ASSUME job[j].alone PROVE Filled(j)'
      OBVIOUS
    <3>1. Filled(j)
      BY <2>1 DEF AgreeInv
    <3>2. ASSUME NEW i \in 1..Len(Order), i < p + 1 PROVE table'[Order[i]] = job[j].data
      BY <3>1, <3>2, <2>5, <1>0 DEF Filled
    <3>3. ASSUME ~mixed, NEW i \in 1..Len(Order), NEW m \in 1..Len(Order), i >= p + 1, m >= p + 1
          PROVE  table'[Order[i]] = table'[Order[m]]
      <4>1. i # p /\ m # p /\ i >= p /\ m >= p
        BY <3>3, <1>0
      <4> QED BY <4>1, <3>1, <3>3, <2>5 DEF Filled
    <3> QED BY <3>2, <3>3, <2>1, <2>2 DEF Filled
  <2> QED BY <2>1, <2>3, <2>4, <2>6 DEF AgreeInv, TablesAgree
<1>8. ASSUME NEW j \in Importer, Finish(j) PROVE AgreeInv'
  <2>1. Importing(j) /\ job[j].pos > Len(Order) /\ Return(j) /\ mixed' = ~job[j].alone /\ table' = table
    BY <1>8 DEF Finish, rowVars
  <2>2. job[j].alone => \A i, m \in 1..Len(Order) : table[Order[i]] = table[Order[m]]
    BY <2>1, <1>0 DEF AgreeInv, Filled
  <2> QED BY <2>1, <2>2, <1>r
<1>9. ASSUME NEW j \in Importer, Fail(j) PROVE AgreeInv'
  <2>1. Importing(j) /\ Return(j) /\ mixed' = (mixed \/ Broken(j)) /\ table' = table
    BY <1>9 DEF Fail, rowVars
  <2>2. ~mixed' => ~mixed /\ job[j].alone /\ job[j].pos = 1
    <3>1. ~mixed' => ~mixed /\ ~Broken(j)
      BY <2>1, Zenon
    <3> QED BY <3>1, <1>0 DEF Broken
  <2>3. ~mixed' => \A i, m \in 1..Len(Order) : table[Order[i]] = table[Order[m]]
    BY <2>1, <2>2 DEF AgreeInv, Filled
  <2> QED BY <2>1, <2>2, <2>3, <1>r
<1>10. ASSUME NEW r \in Request, NEW u \in Upload, Execute(r, u) PROVE AgreeInv'
  <2>1. Load(r, Uploaded(u)) /\ job[r].pc = "idle" /\ UNCHANGED <<table, mixed>>
    BY <1>10 DEF Execute, rowVars, historyVars
  <2> QED BY <2>1, <1>l, Contents, Members DEF Importing
<1>11. ASSUME NEW r \in Request, NEW u \in Upload, Preview(r, u) PROVE AgreeInv'
  <2>1. /\ job'[r].pc = "insert" /\ job[r].pc = "idle" /\ UNCHANGED <<table, mixed>>
        /\ \A k \in Importer \ {r} : job'[k] = job[k]
    BY <1>11, PreviewMoves DEF rowVars
  <2> QED BY <2>1, <1>u DEF Importing
<1>12. ASSUME NEW r \in Request, Insert(r) PROVE AgreeInv'
  <2>1. /\ job'[r].pc = "idle" /\ job[r].pc = "insert" /\ UNCHANGED <<table, mixed>>
        /\ \A k \in Importer \ {r} : job'[k] = job[k]
    BY <1>12, ReturnMoves, Members DEF Insert, Return, Listing
  <2> QED BY <2>1, <1>u DEF Importing
<1>13. CASE (\E u \in Upload : Store(u) \/ Expire(u)) \/ UNCHANGED vars
  BY <1>13, <1>u DEF Store, Expire, vars, rowVars, historyVars
<1> QED
  BY <1>1, <1>2, <1>3, <1>4, <1>5, <1>6, <1>7, <1>8, <1>9, <1>10, <1>11, <1>12, <1>13
     DEF Next, Watch, Import, Handle

-----------------------------------------------------------------------------
(* Names are inserted once *)

\* As long as nothing inserts an entry again, one execution at most is between its
\* preview and its insert, and what it has found is still so.
DupInv ==
    ~again =>
        /\ copies <= 1
        /\ \A r, q \in Request : Listing(r) /\ Listing(q) => r = q
        /\ \A r \in Request : Listing(r) /\ job[r].found = 0 => copies = 0

LEMMA DupStep ==
    ASSUME TypeOK, ControlInv, DupInv, [Next]_vars
    PROVE  DupInv'
<1>0. copies \in Nat /\ \A r \in Request : job[r].found \in Nat
  BY Members DEF TypeOK, Local
<1>u. ASSUME again' = again, copies' = copies \/ copies' = 0,
             \A k \in Request : Listing(k)' => Listing(k) /\ job'[k].found = job[k].found
      PROVE  DupInv'
  BY <1>u, <1>0 DEF DupInv
<1>l. ASSUME NEW j \in Importer, NEW c \in Content, Load(j, c), UNCHANGED <<again, copies>>
      PROVE  DupInv'
  <2>1. /\ job'[j].pc = "import"
        /\ \A k \in Importer \ {j} : job'[k].pc = job[k].pc /\ job'[k].found = job[k].found
    BY <1>l, LoadMoves
  <2>2. \A k \in Request : Listing(k)' => Listing(k) /\ job'[k].found = job[k].found
    BY <2>1, Members DEF Listing
  <2> QED BY <1>l, <2>2, <1>u
<1>r. ASSUME NEW j \in Importer, job' = [job EXCEPT ![j] = Idle], UNCHANGED <<again, copies>>
      PROVE  DupInv'
  <2>1. \A k \in Request : Listing(k)' => Listing(k) /\ job'[k].found = job[k].found
    BY <1>r, ReturnMoves, Members DEF Listing
  <2> QED BY <1>r, <2>1, <1>u
<1>1. CASE Save \/ Serve \/ Stop \/ (\E u \in Upload : Store(u) \/ Expire(u)) \/ UNCHANGED vars
  <2>1. UNCHANGED <<job, again, copies>>
    BY <1>1 DEF Save, BeginSave, EndSave, Serve, Stop, Store, Expire, vars, rowVars, historyVars
  <2> QED BY <2>1, <1>u DEF Listing
<1>2. CASE Start
  <2>1. UNCHANGED <<again, copies>>
    BY <1>2 DEF Start, rowVars
  <2>2. CASE Importable
    BY <1>2, <2>1, <2>2, <1>l, SheetContent, Members DEF Start
  <2>3. CASE ~Importable
    BY <1>2, <2>1, <2>3, <1>u DEF Start, Listing
  <2> QED BY <2>2, <2>3
<1>4. CASE Exit
  <2>1. /\ again' = again /\ copies' = copies /\ \A k \in Request : ~Listing(k)'
    BY <1>4, IdleLocal, Members DEF Exit, rowVars, Listing
  <2> QED BY <2>1, <1>u
<1>5. ASSUME NEW w \in Worker, Fire(w) PROVE DupInv'
  <2>1. /\ \A k \in Importer \ {w} : job'[k] = job[k]
        /\ UNCHANGED <<again, copies>>
    BY <1>5, WaitMoves, Members DEF Fire, rowVars, historyVars
  <2> QED BY <2>1, <1>u, Members DEF Listing
<1>6. ASSUME NEW w \in Worker, Reimport(w) PROVE DupInv'
  <2>1. UNCHANGED <<again, copies>>
    BY <1>6 DEF Reimport, rowVars
  <2>2. CASE Importable
    BY <1>6, <2>1, <2>2, <1>l, SheetContent, Members DEF Reimport
  <2>3. CASE ~Importable
    BY <1>6, <2>1, <2>3, <1>r, Members DEF Reimport, Return
  <2> QED BY <2>2, <2>3
<1>7. ASSUME NEW j \in Importer, ImportTable(j) PROVE DupInv'
  <2>1. /\ job[j].pos <= Len(Order) /\ job' = [job EXCEPT ![j].pos = @ + 1]
        /\ Importing(j) /\ again' = again /\ (copies' = copies \/ copies' = 0)
    BY <1>7 DEF ImportTable, historyVars
  <2>2. /\ job'[j].pc = job[j].pc /\ \A k \in Importer \ {j} : job'[k] = job[k]
    BY <2>1, TableMoves
  <2>3. \A k \in Request : Listing(k)' => Listing(k) /\ job'[k].found = job[k].found
    BY <2>1, <2>2, Members DEF Listing, Importing
  <2> QED BY <2>1, <2>3, <1>u
<1>8. ASSUME NEW j \in Importer, Finish(j) \/ Fail(j) PROVE DupInv'
  BY <1>8, <1>r DEF Finish, Fail, Return, rowVars
<1>9. ASSUME NEW r \in Request, NEW u \in Upload, Execute(r, u) PROVE DupInv'
  BY <1>9, <1>l, Contents, Members DEF Execute, rowVars, historyVars
<1>10. ASSUME NEW r \in Request, NEW u \in Upload, Preview(r, u) PROVE DupInv'
  <2>1. /\ job'[r].pc = "insert" /\ job'[r].found \in {copies, 0}
        /\ \A k \in Importer \ {r} : job'[k] = job[k]
        /\ copies' = copies /\ again' = (again \/ Met \/ job'[r].found < copies)
    BY <1>10, PreviewMoves DEF rowVars
  <2>2. ~again' => ~again /\ ~Met /\ ~(job'[r].found < copies)
    BY <2>1, Zenon
  <2>3. ~again' => \A k \in Request : Listing(k)' => k = r
    BY <2>1, <2>2, Members DEF Listing, Met
  <2>4. ~again' => (job'[r].found = 0 => copies = 0)
    BY <2>2, <1>0
  <2> QED BY <2>1, <2>2, <2>3, <2>4, <1>0 DEF DupInv
<1>11. ASSUME NEW r \in Request, Insert(r) PROVE DupInv'
  <2>1. /\ Listing(r)
        /\ ~again' => /\ ~again
                      /\ copies' = copies \/ (job[r].found = 0 /\ copies' = copies + 1)
    <3>1. CASE UNCHANGED <<copies, again>>
      BY <1>11, <3>1 DEF Insert
    <3>2. ASSUME NEW n \in {1, 2}, copies' = copies + n,
                 again' = (again \/ job[r].found > 0 \/ n = 2)
          PROVE  <2>1!2
      <4>1. ~again' => ~again /\ ~(job[r].found > 0) /\ n # 2
        BY <3>2, Zenon
      <4> QED BY <3>2, <4>1, <1>0
    <3> QED BY <1>11, <3>1, <3>2 DEF Insert
  <2>2. job'[r].pc = "idle" /\ \A k \in Importer \ {r} : job'[k] = job[k]
    BY <1>11, ReturnMoves, Members DEF Insert, Return
  <2>3. ~again => \A k \in Request : ~Listing(k)'
    BY <2>1, <2>2, Members DEF DupInv, Listing
  <2>4. ~again' => copies' <= 1
    BY <2>1, <1>0 DEF DupInv
  <2> QED BY <2>1, <2>3, <2>4 DEF DupInv
<1> QED
  BY <1>1, <1>2, <1>4, <1>5, <1>6, <1>7, <1>8, <1>9, <1>10, <1>11
     DEF Next, Watch, Import, Handle

-----------------------------------------------------------------------------
(* The watcher at rest has imported what is on disk *)

\* The importers that read the sheets
Reader == Worker \cup {Main}

\* j has read the sheets as they are, and filled its first tables with them.
Fresh(j) ==
    /\ job[j].data.rows = sheet
    /\ \A i \in 1..Len(Order) : i < job[j].pos => seen[Order[i]] = sheet[Order[i]]

\* Nothing is left to be noticed or waited for.
Current ==
    /\ phase \in {"import", "serving"} /\ ~stale /\ saving = {}
    /\ phase = "serving" => ~timer /\ \A w \in Worker : job[w].pc # "wait"

SheetInv ==
    Current => /\ \A j \in Reader : Importing(j) => Fresh(j)
               /\ (\A j \in Reader : ~Importing(j)) => seen = sheet

\* With no file half written there is something to import, and it is read.
LEMMA AllPresent ==
    ASSUME TypeOK, saving = {}
    PROVE  Importable /\ Present = sheet
<1>1. Present = sheet
  BY DEF TypeOK, Present
<1>2. sheet[Students] # NoRows[Students]
  BY Tables DEF TypeOK, NoRows
<1> QED
  BY <1>1, <1>2 DEF Importable, Readable

LEMMA SheetStep ==
    ASSUME TypeOK, ControlInv, SheetInv, [Next]_vars
    PROVE  SheetInv'
<1>0. /\ Len(Order) \in Nat /\ DOMAIN seen = Table /\ DOMAIN sheet = Table
      /\ seen = [t \in Table |-> seen[t]] /\ sheet = [t \in Table |-> sheet[t]]
      /\ \A j \in Importer : job[j].pos \in 1..(Len(Order) + 1)
  BY Tables DEF TypeOK, Local, Rows
<1>i. Reader \subseteq Importer /\ Worker \subseteq Reader
  BY DEF Reader, Importer
<1>u. ASSUME UNCHANGED <<phase, saving, sheet, seen>>, stale' = stale,
             phase = "serving" => timer' = timer,
             \A k \in Reader : job'[k].pc = job[k].pc /\ job'[k].data = job[k].data
                                 /\ job'[k].pos = job[k].pos
      PROVE  SheetInv'
  <2> SUFFICES ASSUME Current' PROVE /\ \A j \in Reader : Importing(j)' => Fresh(j)'
                                     /\ (\A j \in Reader : ~Importing(j)') => seen' = sheet'
    BY DEF SheetInv
  <2>1. \A k \in Reader : job'[k].pc = job[k].pc /\ job'[k].data = job[k].data
                             /\ job'[k].pos = job[k].pos
    BY <1>u
  <2>2. Current
    BY <1>u, <2>1, <1>i DEF Current
  <2>3. \A k \in Reader : (Importing(k)' <=> Importing(k)) /\ (Fresh(k)' <=> Fresh(k))
    BY <2>1, <1>u DEF Importing, Fresh
  <2> QED BY <2>2, <2>3, <1>u DEF SheetInv
<1>1. ASSUME NEW f \in File, BeginSave(f) PROVE SheetInv'
  <2>1. f # {}
    BY Tables DEF File
  <2> QED BY <1>1, <2>1 DEF BeginSave, SheetInv, Current
<1>2. ASSUME NEW f \in File, EndSave(f) PROVE SheetInv'
  <2>1. /\ stale' = (stale \/ ~Watching) /\ timer' = (timer \/ Watching) /\ phase' = phase
    BY <1>2 DEF EndSave, Notice
  <2>2. ~stale' => Watching
    BY <2>1, Zenon
  <2>3. Watching => timer' /\ phase' = "serving"
    BY <2>1, Zenon DEF Watching
  <2> QED BY <2>2, <2>3 DEF SheetInv, Current
<1>3. CASE Start
  <2> SUFFICES ASSUME Current' PROVE /\ \A j \in Reader : Importing(j)' => Fresh(j)'
                                     /\ (\A j \in Reader : ~Importing(j)') => seen' = sheet'
    BY DEF SheetInv
  <2>1. saving = {} /\ UNCHANGED <<sheet, seen>> /\ phase = "down"
    BY <1>3 DEF Current, Start, fileVars, rowVars
  <2>2. Importable /\ Present = sheet
    BY <2>1, AllPresent
  <2>3. Load(Main, [from |-> "sheet", rows |-> Present])
    BY <1>3, <2>2 DEF Start
  <2>4. /\ job'[Main].pc = "import" /\ job'[Main].data = [from |-> "sheet", rows |-> Present]
        /\ job'[Main].pos = 1 /\ \A k \in Importer \ {Main} : job'[k].pc = job[k].pc
    BY <2>3, LoadMoves, SheetContent, Members
  <2>5. \A w \in Worker : ~Importing(w)'
    BY <2>1, <2>4, Members DEF ControlInv, Importing
  <2>6. Fresh(Main)'
    BY <2>1, <2>2, <2>4, <1>0 DEF Fresh
  <2> QED BY <2>4, <2>5, <2>6 DEF Reader, Importing
<1>4. CASE Serve
  <2>1. /\ phase = "import" /\ phase' = "serving"
        /\ UNCHANGED <<saving, sheet, seen, stale, job>>
    BY <1>4 DEF Serve, fileVars, rowVars, historyVars
  <2>2. Current' => Current
    BY <2>1 DEF Current
  <2> QED BY <2>1, <2>2 DEF SheetInv, Importing, Fresh
<1>5. CASE Stop \/ Exit
  BY <1>5 DEF Stop, Exit, SheetInv, Current
<1>6. ASSUME NEW w \in Worker, Fire(w) PROVE SheetInv'
  <2>1. /\ job'[w].pc = "wait" /\ timer /\ phase' = phase
        /\ UNCHANGED <<saving, sheet, seen, stale>>
    BY <1>6, WaitMoves, Members DEF Fire, fileVars, rowVars, historyVars
  <2>2. ~Current'
    BY <2>1 DEF ControlInv, Current
  <2> QED BY <2>2 DEF SheetInv
<1>7. ASSUME NEW w \in Worker, Reimport(w) PROVE SheetInv'
  <2> SUFFICES ASSUME Current' PROVE /\ \A j \in Reader : Importing(j)' => Fresh(j)'
                                     /\ (\A j \in Reader : ~Importing(j)') => seen' = sheet'
    BY DEF SheetInv
  <2>1. saving = {} /\ UNCHANGED <<sheet, seen, phase>> /\ job[w].pc = "wait" /\ lock = None
    BY <1>7 DEF Current, Reimport, fileVars, rowVars
  <2>2. Importable /\ Present = sheet
    BY <2>1, AllPresent
  <2>3. Load(w, [from |-> "sheet", rows |-> Present])
    BY <1>7, <2>2 DEF Reimport
  <2>4. /\ job'[w].pc = "import" /\ job'[w].data = [from |-> "sheet", rows |-> Present]
        /\ job'[w].pos = 1 /\ \A k \in Importer \ {w} : job'[k].pc = job[k].pc
    BY <2>3, LoadMoves, SheetContent, Members
  <2>5. phase \notin {"down", "import"}
    BY <2>1 DEF ControlInv
  <2>6. \A k \in Reader \ {w} : ~Importing(k)'
    BY <2>1, <2>4, <2>5, Members DEF ControlInv, Importing, Reader
  <2>7. Fresh(w)'
    BY <2>1, <2>2, <2>4, <1>0 DEF Fresh
  <2> QED BY <2>4, <2>6, <2>7, <1>i DEF Importing
<1>8. ASSUME NEW j \in Importer, ImportTable(j) PROVE SheetInv'
  <2> DEFINE p == job[j].pos
  <2>1. /\ Importing(j) /\ p \in 1..Len(Order)
        /\ UNCHANGED <<phase, saving, sheet, stale, timer>>
        /\ seen' = IF job[j].data.from = "sheet"
                     THEN [seen EXCEPT ![Order[p]] = job[j].data.rows[Order[p]]] ELSE seen
    BY <1>8, <1>0 DEF ImportTable, fileVars, watchVars, historyVars
  <2>2. /\ job'[j].pos = p + 1 /\ job'[j].pc = job[j].pc /\ job'[j].data = job[j].data
        /\ \A k \in Importer \ {j} : job'[k] = job[k]
    <3>1. job[j].pos <= Len(Order) /\ job' = [job EXCEPT ![j].pos = @ + 1]
      BY <1>8 DEF ImportTable
    <3> QED BY <3>1, TableMoves
  <2>3. CASE j \in Request
    <3>1. seen' = seen
      BY <2>1, <2>3 DEF ControlInv
    <3>2. \A k \in Reader : job'[k] = job[k]
      BY <2>2, <2>3, Members DEF Reader
    <3> QED BY <2>1, <3>1, <3>2, <1>u
  <2>4. CASE j \in Reader
    <3> SUFFICES ASSUME Current' PROVE /\ \A k \in Reader : Importing(k)' => Fresh(k)'
                                       /\ (\A k \in Reader : ~Importing(k)') => seen' = sheet'
      BY DEF SheetInv
    <3>1. \A k \in Reader : job'[k].pc = job[k].pc /\ job'[k].data = job[k].data
      BY <2>2, <1>i
    <3>2. Current
      BY <2>1, <3>1, <1>i DEF Current
    <3>3. Fresh(j)
      BY <2>1, <2>4, <3>2 DEF SheetInv
    <3>4. job[j].data.rows[Order[p]] = sheet[Order[p]] /\ Order[p] \in Table
      BY <3>3, <2>1, Tables DEF Fresh
    <3>5. /\ \A t \in Table : seen[t] = sheet[t] => seen'[t] = sheet[t]
          /\ seen'[Order[p]] = sheet[Order[p]]
      <4>1. job[j].data.from = "sheet"
        BY <2>1, <2>4, Members DEF ControlInv, Reader
      <4> QED BY <4>1, <2>1, <3>4, <1>0
    <3>6. ASSUME NEW k \in Reader, Importing(k)' PROVE Fresh(k)'
      <4>1. Fresh(k)
        BY <3>6, <3>1, <3>2 DEF SheetInv, Importing
      <4>2. ASSUME NEW i \in 1..Len(Order), i < job'[k].pos PROVE seen'[Order[i]] = sheet[Order[i]]
        <5>1. CASE i < job[k].pos
          BY <5>1, <4>1, <3>5, Tables DEF Fresh
        <5>2. CASE ~(i < job[k].pos)
          <6>1. k = j /\ i = p
            BY <5>2, <4>2, <2>2, <1>i, <1>0, <2>1
          <6> QED BY <6>1, <3>5
        <5> QED BY <5>1, <5>2
      <4> QED BY <4>1, <4>2, <3>1, <2>1 DEF Fresh
    <3>7. Importing(j)'
      BY <2>1, <2>2 DEF Importing
    <3> QED BY <3>6, <3>7, <2>4
  <2> QED BY <2>3, <2>4, Members DEF Reader
<1>9. ASSUME NEW j \in Importer, Finish(j) PROVE SheetInv'
  <2>1. /\ Importing(j) /\ job[j].pos > Len(Order) /\ UNCHANGED <<phase, saving, sheet, stale, timer, seen>>
        /\ job'[j].pc = "idle" /\ \A k \in Importer \ {j} : job'[k] = job[k]
    BY <1>9, ReturnMoves DEF Finish, Return, fileVars, rowVars
  <2>2. CASE j \in Request
    BY <2>1, <2>2, <1>u, <1>i, Members DEF Reader
  <2>3. CASE j \in Reader
    <3> SUFFICES ASSUME Current' PROVE /\ \A k \in Reader : Importing(k)' => Fresh(k)'
                                       /\ (\A k \in Reader : ~Importing(k)') => seen' = sheet'
      BY DEF SheetInv
    <3>1. Current
      BY <2>1, <1>i DEF Current, Importing
    <3>2. \A k \in Reader : Importing(k)' => Importing(k) /\ job'[k] = job[k]
      BY <2>1, <1>i DEF Importing
    <3>3. \A k \in Reader : Importing(k)' => Fresh(k)'
      BY <3>1, <3>2, <2>1 DEF SheetInv, Fresh
    <3>4. \A i \in 1..Len(Order) : seen[Order[i]] = sheet[Order[i]]
      BY <3>1, <2>1, <2>3, <1>0 DEF SheetInv, Fresh
    <3>5. seen = sheet
      <4>1. \A t \in Table : seen[t] = sheet[t]
        BY <3>4, Tables
      <4> QED BY <4>1, <1>0
    <3> QED BY <3>3, <3>5, <2>1
  <2> QED BY <2>2, <2>3, Members DEF Reader
<1>10. ASSUME NEW j \in Importer, Fail(j) PROVE SheetInv'
  <2>1. /\ UNCHANGED <<phase, saving, sheet, timer, seen>> /\ stale' = (stale \/ j \notin Request)
        /\ job'[j].pc = "idle" /\ \A k \in Importer \ {j} : job'[k] = job[k]
    BY <1>10, ReturnMoves DEF Fail, Return, fileVars, rowVars
  <2>2. CASE j \notin Request
    <3>1. stale'
      BY <2>1, <2>2, Zenon
    <3> QED BY <3>1 DEF SheetInv, Current
  <2>3. CASE j \in Request
    <3>1. stale' = stale
      BY <2>1, <2>3 DEF TypeOK
    <3>2. \A k \in Reader : job'[k] = job[k]
      BY <2>1, <2>3, Members DEF Reader
    <3> QED BY <2>1, <3>1, <3>2, <1>u
  <2> QED BY <2>2, <2>3
<1>11. ASSUME NEW r \in Request, NEW u \in Upload, Execute(r, u) PROVE SheetInv'
  <2>1. Load(r, Uploaded(u)) /\ UNCHANGED <<phase, saving, sheet, timer, seen, stale>>
    BY <1>11 DEF Execute, fileVars, watchVars, rowVars, historyVars
  <2>2. \A k \in Importer \ {r} : job'[k].pc = job[k].pc /\ job'[k].data = job[k].data
                                     /\ job'[k].pos = job[k].pos
    BY <2>1, LoadMoves, Contents, Members
  <2>3. \A k \in Reader : k \in Importer \ {r}
    BY Members DEF Reader
  <2> QED BY <2>1, <2>2, <2>3, <1>u
<1>12. ASSUME NEW r \in Request, NEW u \in Upload, Preview(r, u) PROVE SheetInv'
  <2>1. UNCHANGED <<phase, saving, sheet, timer, seen, stale>>
    BY <1>12, PreviewMoves DEF fileVars, watchVars, rowVars
  <2>2. \A k \in Importer \ {r} : job'[k] = job[k]
    BY <1>12, PreviewMoves
  <2>3. \A k \in Reader : job'[k] = job[k]
    BY <2>2, Members DEF Reader
  <2> QED BY <2>1, <2>3, <1>u
<1>13. ASSUME NEW r \in Request, Insert(r) PROVE SheetInv'
  <2>1. UNCHANGED <<phase, saving, sheet, timer, seen, stale>>
    BY <1>13 DEF Insert, fileVars, rowVars, historyVars
  <2>2. \A k \in Importer \ {r} : job'[k] = job[k]
    BY <1>13, ReturnMoves, Members DEF Insert, Return
  <2>3. \A k \in Reader : job'[k] = job[k]
    BY <2>2, Members DEF Reader
  <2> QED BY <2>1, <2>3, <1>u
<1>14. CASE (\E u \in Upload : Store(u) \/ Expire(u)) \/ UNCHANGED vars
  <2>1. UNCHANGED <<phase, saving, sheet, timer, seen, stale, job>>
    BY <1>14 DEF Store, Expire, vars, fileVars, watchVars, rowVars, historyVars
  <2> QED BY <2>1, <1>u
<1> QED
  BY <1>1, <1>2, <1>3, <1>4, <1>5, <1>6, <1>7, <1>8, <1>9, <1>10, <1>11, <1>12, <1>13, <1>14
     DEF Next, Save, Watch, Import, Handle

-----------------------------------------------------------------------------
(* The inductive invariant and what it implies *)

IInv == TypeOK /\ SaveInv /\ ControlInv /\ AgreeInv /\ DupInv /\ SheetInv

LEMMA InitInv == Init => IInv
<1> SUFFICES ASSUME Init PROVE IInv
  OBVIOUS
<1> USE DEF Init
<1>1. \A j \in Importer : job[j] = Idle /\ job[j].pc = "idle" /\ ~Importing(j)
  BY IdleLocal DEF Importing
<1>2. TypeOK
  <2>1. 1 \in 1..MaxVersion
    BY BoundsAssumption
  <2>2. PlainOK
    <3>1. timer \in BOOLEAN /\ stale \in BOOLEAN /\ mixed \in BOOLEAN /\ again \in BOOLEAN
      BY Zenon
    <3> QED BY <2>1, <3>1 DEF PlainOK
  <2>3. RowsOK /\ LockOK /\ job \in [Importer -> Local]
    BY Contents, IdleLocal DEF RowsOK, LockOK
  <2> QED BY <2>2, <2>3, TypeParts
<1>3. ControlInv
  BY <1>1, Members DEF ControlInv
<1>4. SaveInv /\ SheetInv
  BY DEF SaveInv, SheetInv, Current
<1>5. AgreeInv
  BY <1>1 DEF AgreeInv, TablesAgree
<1>6. DupInv
  BY <1>1, Members DEF DupInv, Listing
<1> QED
  BY <1>2, <1>3, <1>4, <1>5, <1>6 DEF IInv

LEMMA Invariance == Spec => []IInv
<1>1. IInv /\ [Next]_vars => IInv'
  <2> SUFFICES ASSUME IInv, [Next]_vars PROVE IInv'
    OBVIOUS
  <2> USE DEF IInv
  <2>1. PlainOK' /\ SaveInv' /\ RowsOK'
    BY PlainStep, RowsStep
  <2>2. job' \in [Importer -> Local] /\ LockOK' /\ ControlInv'
    BY JobStep
  <2>3. TypeOK'
    BY <2>1, <2>2 DEF TypeOK, PlainOK, RowsOK, LockOK
  <2>4. AgreeInv' /\ DupInv' /\ SheetInv'
    BY AgreeStep, DupStep, SheetStep
  <2> QED BY <2>1, <2>2, <2>3, <2>4
<1> QED
  BY InitInv, <1>1, PTL DEF Spec

\* Types of all importers; the mutex is held by nobody but a reimport that is
\* under way (Watcher.reimport).
THEOREM TypeCorrect == Spec => []TypeOK
<1>1. IInv => TypeOK
  BY DEF IInv
<1> QED
  BY Invariance, <1>1, PTL

\* The tables come from one read of one source, unless imports overlapped that
\* nothing keeps apart, or one broke off half-way (ImportAll).
THEOREM TablesComeTogether == Spec => []TablesAgree
<1>1. IInv => TablesAgree
  BY DEF IInv, AgreeInv
<1> QED
  BY Invariance, <1>1, PTL

\* A watcher at rest has imported what is on disk (Watcher.loop, reimport).
THEOREM LatestIsImported == Spec => []LatestSheet
<1>1. IInv => LatestSheet
  BY DEF IInv, SheetInv, LatestSheet, AtRest, Current, Reader, Importing, ControlInv
<1> QED
  BY Invariance, <1>1, PTL

\* An entry that has a name or an e-mail is inserted once, however often its list
\* is executed, unless two executions overlap, the list has it twice, or an admin
\* has it inserted again (PreviewNamelistImport, ExecuteNamelistImport).
THEOREM NamesOnce == Spec => []NoDuplicates
<1>1. IInv => NoDuplicates
  BY DEF IInv, DupInv, NoDuplicates
<1> QED
  BY Invariance, <1>1, PTL
=============================================================================
