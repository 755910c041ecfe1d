------------------------------ MODULE PinControl ------------------------------
(***************************************************************************)
(* The PINs a check-in is asked for:                                       *)
(*   EnsureDailyPIN, SetPIN, ValidatePIN, the handlers that change the PIN *)
(*   mode and the PINs, saveConfig          (internal/handlers/app.go)     *)
(*   EnsureDailyStudentPin, GenerateStudentPin, SetStudentRequirePIN       *)
(*                                          (internal/database/audit.go)   *)
(*                                                                         *)
(* The center's PIN is in memory under App.mu.  App.PinMode is in memory   *)
(* and under no lock: it is a string, two words, and every handler that    *)
(* assigns or reads it races with the others.  A student's PIN is in a row *)
(* of students and every access to it is a statement of its own.           *)
(***************************************************************************)
EXTENDS Naturals

CONSTANTS
    Request,    \* requests in flight at one time
    Student,    \* rows of students
    None,       \* no PIN, no student
    MaxDay,     \* bound: the last day
    MaxPin      \* bound: PINs drawn or set

ASSUME BoundsAssumption == MaxDay \in Nat /\ MaxPin \in Nat
ASSUME NamesAssumption == None \notin Student /\ None \notin Nat

VARIABLES
    day,        \* time.Now().Format("2006-01-02")
    mode,       \* App.PinMode, by word
    require,    \* App.requirePIN
    saved,      \* pin_mode of config.json
    center,     \* App.dailyPIN and App.pinDate
    student,    \* require_pin, personal_pin, pin_generated_date
    drawn,      \* PINs drawn or set so far: each is a new one
    req,        \* the local state of every request
    shown,      \* history: the center PIN shown today, by this process
    told,       \* history: the PIN of today an admin was told last, by student
    met,        \* history: students whose PIN was handled by two requests today
    mixed,      \* history: changes of the PIN mode overlapped
    unsaved     \* history: the last change of the mode was not written

vars == <<day, mode, require, saved, center, student, drawn, req,
          shown, told, met, mixed, unsaved>>
modeVars == <<mode, require, saved, mixed, unsaved>>
pinVars  == <<center, student, drawn, shown, told, met>>

-----------------------------------------------------------------------------
Mode == {"off", "center"}
Pin  == 1..MaxPin

ModeStep == {"mode1", "mode2", "mode_require", "marshal", "write",
             "toggle", "toggle1", "toggle2"}
PinStep  == {"flag", "read", "generate", "update"}
CheckStep == {"validate", "flagged"}
Local == [pc : {"idle"} \cup ModeStep \cup PinStep \cup CheckStep,
          student : Student \cup {None}, want : Mode \cup {"torn"},
          tell : BOOLEAN, date : Nat]
Idle == [pc |-> "idle", student |-> None, want |-> "off", tell |-> FALSE, date |-> 0]

\* What a string of these two words reads as.
Value(m) == IF m.ptr = m.len THEN m.ptr ELSE "torn"

At(r, pc) == req[r].pc = pc
Goto(r, pc) == req' = [req EXCEPT ![r].pc = pc]
Return(r) == req' = [req EXCEPT ![r] = Idle]
ChangingMode(r) == req[r].pc \in ModeStep
\* Handling the PIN of s, or possibly so
Handling(r, s) == req[r].student = s

\* One type invariant.
TypeOK ==
    /\ day \in Nat
    /\ mode \in [ptr : Mode, len : Mode]
    /\ require \in BOOLEAN
    /\ saved \in Mode \cup {"torn"}
    /\ center \in [pin : Pin \cup {None}, day : Nat \cup {None}]
    /\ student \in [Student -> [flag : BOOLEAN, pin : Pin \cup {None}, day : Nat \cup {None}]]
    /\ drawn \in 0..MaxPin
    /\ req \in [Request -> Local]
    /\ shown \in Pin \cup {None}
    /\ told \in [Student -> Pin \cup {None}]
    /\ met \subseteq Student
    /\ mixed \in BOOLEAN /\ unsaved \in BOOLEAN
    /\ \A s \in Student : (student[s].pin = None) <=> (student[s].day = None)
    /\ \A r \in Request : req[r].pc \in PinStep \cup CheckStep => req[r].student # None

-----------------------------------------------------------------------------
(* The PIN mode *)

Begin(r, pc, s, want, tell) ==
    /\ At(r, "idle")
    /\ req' = [req EXCEPT ![r] = [pc |-> pc, student |-> s, want |-> want,
                                  tell |-> tell, date |-> 0]]

\* Two changes of the mode overlap from now on, or one has the field alone.
Overlap(r) ==
    mixed' = \E q \in Request \ {r} : ChangingMode(q)

BeginModeChange(r, m) ==
    /\ Begin(r, "mode1", None, m, FALSE)
    /\ Overlap(r)
    /\ unsaved' = TRUE
    /\ UNCHANGED <<day, mode, require, saved, pinVars>>

BeginToggle(r, m) ==
    /\ Begin(r, "toggle", None, m, FALSE)
    /\ Overlap(r)
    /\ unsaved' = TRUE
    /\ UNCHANGED <<day, mode, require, saved, pinVars>>

\* a.PinMode = ... stores a pointer and a length.
Assign(r, field) ==
    /\ mode' = [mode EXCEPT ![field] = req[r].want]
    /\ UNCHANGED <<day, require, saved, mixed, unsaved, pinVars>>

ModeStore1(r) == At(r, "mode1") /\ Assign(r, "len") /\ Goto(r, "mode2")
ModeStore2(r) == At(r, "mode2") /\ Assign(r, "ptr") /\ Goto(r, "mode_require")

SetRequire(r) ==
    /\ require' = (req[r].want = "center")
    /\ UNCHANGED <<day, mode, saved, mixed, unsaved, pinVars>>

ModeRequire(r) == At(r, "mode_require") /\ SetRequire(r) /\ Goto(r, "marshal")

\* saveConfig reads the field again, not the request's mode.
Marshal(r) ==
    /\ At(r, "marshal")
    /\ req' = [req EXCEPT ![r].pc = "write", ![r].want = Value(mode)]
    /\ UNCHANGED <<day, modeVars, pinVars>>

\* An error is only logged.
Write(r) ==
    /\ At(r, "write")
    /\ \/ saved' = req[r].want /\ unsaved' = mixed
       \/ UNCHANGED <<saved, unsaved>>
    /\ Return(r)
    /\ UNCHANGED <<day, mode, require, mixed, pinVars>>

\* HandlePINToggle sets requirePIN first and saves nothing.
ToggleRequire(r) == At(r, "toggle") /\ SetRequire(r) /\ Goto(r, "toggle1")
ToggleStore1(r) == At(r, "toggle1") /\ Assign(r, "len") /\ Goto(r, "toggle2")
\* (mutant) the toggle no longer syncs the mode
ToggleStore2_NoSync(r) ==
    /\ At(r, "toggle2")
    /\ UNCHANGED <<day, modeVars, pinVars>>
    /\ Return(r)
ToggleStore2(r) == At(r, "toggle2") /\ Assign(r, "ptr") /\ Return(r)

-----------------------------------------------------------------------------
(* The center's PIN *)

\* EnsureDailyPIN, under App.mu
Center == IF center.day = day THEN center ELSE [pin |-> drawn + 1, day |-> day]

\* The admin page shows the PIN.
ShowPIN ==
    /\ center.day = day \/ drawn < MaxPin
    /\ center' = Center
    /\ drawn' = IF center.day = day THEN drawn ELSE drawn + 1
    /\ shown' = Center.pin
    /\ UNCHANGED <<day, modeVars, student, told, met, req>>

\* (mutant) the PIN is set, the date is not
SetPIN_NoDate ==
    /\ drawn < MaxPin
    /\ center' = [center EXCEPT !.pin = drawn + 1]
    /\ drawn' = drawn + 1
    /\ shown' = drawn + 1
    /\ UNCHANGED <<day, modeVars, student, told, met, req>>
\* HandlePINChange: an admin chooses the PIN, and is shown it.
SetPIN ==
    /\ drawn < MaxPin
    /\ center' = [pin |-> drawn + 1, day |-> day]
    /\ drawn' = drawn + 1
    /\ shown' = drawn + 1
    /\ UNCHANGED <<day, modeVars, student, told, met, req>>

-----------------------------------------------------------------------------
(* The students' PINs *)

\* From here on s is handled by two requests, if another one has begun.
Meet(r, s) ==
    met' = IF \E q \in Request \ {r} : Handling(q, s) THEN met \cup {s} ELSE met

BeginRequirePIN(r, s) ==
    /\ Begin(r, "flag", s, "off", TRUE)
    /\ Meet(r, s)
    /\ UNCHANGED <<day, modeVars, center, student, drawn, shown, told>>

\* HandleStudentRequirePIN(false): one statement
WaivePIN(s) ==
    /\ student' = [student EXCEPT ![s].flag = FALSE]
    /\ UNCHANGED <<day, modeVars, center, drawn, shown, told, met, req>>

BeginReset(r, s) ==
    /\ Begin(r, "generate", s, "off", TRUE)
    /\ Meet(r, s)
    /\ UNCHANGED <<day, modeVars, center, student, drawn, shown, told>>

\* SetStudentRequirePIN, whose error ends the request
SetFlag(r) ==
    /\ At(r, "flag")
    /\ \/ student' = [student EXCEPT ![req[r].student].flag = TRUE] /\ Goto(r, "read")
       \/ UNCHANGED student /\ Return(r)
    /\ UNCHANGED <<day, modeVars, center, drawn, shown, told, met>>

\* The answer gives the PIN and not its date: one of yesterday is no PIN of today.
Tell(r, pin, date) ==
    told' = IF req[r].tell
            THEN [told EXCEPT ![req[r].student] = IF date = day THEN pin ELSE None]
            ELSE told

\* (mutant) the date of the PIN is not compared
Current_AnyDay(p) == p.pin # None
Current(p) == p.pin # None /\ p.day = day

\* EnsureDailyStudentPin: the SELECT; a PIN of today is the answer.
ReadPin(r) ==
    LET p == student[req[r].student] IN
    /\ At(r, "read")
    /\ IF Current(p)
         THEN Tell(r, p.pin, day) /\ Return(r)
         ELSE UNCHANGED told /\ Goto(r, "generate")
    /\ UNCHANGED <<day, modeVars, center, student, drawn, shown, met>>

\* GenerateStudentPin reads the date; midnight may come before its statement.
ReadDate(r) ==
    /\ At(r, "generate")
    /\ req' = [req EXCEPT ![r].pc = "update", ![r].date = day]
    /\ UNCHANGED <<day, modeVars, pinVars>>

\* ... and the UPDATE, which may fail
GeneratePin(r) ==
    LET s == req[r].student IN
    /\ At(r, "update") /\ drawn < MaxPin
    /\ drawn' = drawn + 1
    /\ \/ /\ student' = [student EXCEPT ![s].pin = drawn + 1, ![s].day = req[r].date]
          /\ Tell(r, drawn + 1, req[r].date)
       \/ UNCHANGED <<student, told>>
    /\ Return(r)
    /\ UNCHANGED <<day, modeVars, center, shown, met>>

\* An admin saves the student, or a spreadsheet with the student is imported:
\* INSERT OR REPLACE writes a row without the three columns.
ReplaceRow(s) ==
    /\ student[s] # [flag |-> FALSE, pin |-> None, day |-> None]
    /\ student' = [student EXCEPT ![s] = [flag |-> FALSE, pin |-> None, day |-> None]]
    /\ met' = met \cup {s}
    /\ UNCHANGED <<day, modeVars, center, drawn, shown, told, req>>

-----------------------------------------------------------------------------
(* ValidatePIN, for a check-in or a check-out *)

BeginCheck(r, s) ==
    /\ Begin(r, "validate", s, "off", FALSE)
    /\ Meet(r, s)
    /\ UNCHANGED <<day, modeVars, center, student, drawn, shown, told>>

ReadMode(r) ==
    /\ At(r, "validate")
    /\ req' = [req EXCEPT ![r].pc = "flagged", ![r].want = Value(mode)]
    /\ UNCHANGED <<day, modeVars, pinVars>>

\* The student's own PIN goes before the center's; a mode that is neither
\* word asks for none.
ReadFlag(r) ==
    LET s == req[r].student IN
    /\ At(r, "flagged")
    /\ IF student[s].flag
         THEN Goto(r, "read") /\ UNCHANGED <<center, drawn>>
         ELSE /\ Return(r)
              /\ IF req[r].want = "center" /\ drawn < MaxPin
                   THEN /\ center' = Center
                        /\ drawn' = IF center.day = day THEN drawn ELSE drawn + 1
                   ELSE UNCHANGED <<center, drawn>>
    /\ UNCHANGED <<day, modeVars, student, shown, told, met>>

-----------------------------------------------------------------------------
NextDay ==
    /\ day < MaxDay
    /\ day' = day + 1
    /\ shown' = None
    /\ told' = [s \in Student |-> None]
    /\ met' = {s \in Student : \E r, q \in Request : r # q /\ Handling(r, s) /\ Handling(q, s)}
    /\ UNCHANGED <<modeVars, center, student, drawn, req>>

\* A crash or a shutdown, and the start that reads config.json.  WriteFile
\* truncates first: an empty file has no mode, and no mode means off.
Restart ==
    /\ saved' \in {saved} \cup {"off" : r \in {q \in Request : At(q, "write")}}
    /\ mode' = [ptr |-> IF saved' = "torn" THEN "off" ELSE saved',
                len |-> IF saved' = "torn" THEN "center" ELSE saved']
    /\ require' = (saved' = "center")
    /\ center' = [pin |-> None, day |-> None]
    /\ shown' = None
    /\ mixed' = FALSE /\ unsaved' = FALSE
    /\ req' = [r \in Request |-> Idle]
    /\ UNCHANGED <<day, student, drawn, told, met>>

Init ==
    /\ day = 0
    /\ mode = [ptr |-> "off", len |-> "off"] /\ require = FALSE /\ saved = "off"
    /\ center = [pin |-> None, day |-> None]
    /\ student = [s \in Student |-> [flag |-> FALSE, pin |-> None, day |-> None]]
    /\ drawn = 0
    /\ req = [r \in Request |-> Idle]
    /\ shown = None /\ told = [s \in Student |-> None] /\ met = {}
    /\ mixed = FALSE /\ unsaved = FALSE

ModeSteps(r) ==
    \/ \E m \in Mode : BeginModeChange(r, m) \/ BeginToggle(r, m)
    \/ ModeStore1(r)
    \/ ModeStore2(r)
    \/ ModeRequire(r)
    \/ Marshal(r)
    \/ Write(r)
    \/ ToggleRequire(r)
    \/ ToggleStore1(r)
    \/ ToggleStore2(r)

PinSteps(r) ==
    \/ \E s \in Student : BeginRequirePIN(r, s) \/ BeginReset(r, s) \/ BeginCheck(r, s)
    \/ SetFlag(r)
    \/ ReadPin(r)
    \/ ReadDate(r)
    \/ GeneratePin(r)
    \/ ReadMode(r)
    \/ ReadFlag(r)

Next ==
    \/ \E r \in Request : ModeSteps(r) \/ PinSteps(r)
    \/ ShowPIN
    \/ SetPIN
    \/ \E s \in Student : WaivePIN(s) \/ ReplaceRow(s)
    \/ NextDay
    \/ Restart

Spec == Init /\ [][Next]_vars

-----------------------------------------------------------------------------
(* Properties *)

\* The mode and the flag beside it agree after every change and every start,
\* whatever it was before, as long as two changes did not overlap: each of
\* the two handlers assigns both, in opposite orders (app.go:702, app.go:856).
ModeAgrees ==
    (\A r \in Request : ~ChangingMode(r)) /\ ~mixed =>
        require <=> Value(mode) = "center"

\* A mode that was saved is the mode of the next start; a saved file never
\* holds a mode that no admin chose, unless changes overlapped (app.go:873).
SavedMode ==
    (\A r \in Request : ~ChangingMode(r)) /\ ~mixed /\ ~unsaved => saved = Value(mode)

\* The PIN on the admin's page works until midnight: the daily rotation does
\* not replace a PIN that was drawn or set today (app.go:657).
ShownPinWorks ==
    shown # None => center.pin = shown /\ center.day = day

\* The PIN of today that an admin was told is the student's, unless two requests
\* handled it or the row was replaced: the two statements of
\* EnsureDailyStudentPin do not exclude each other (audit.go:161).  A PIN that
\* was drawn at midnight bears the date of the day before (audit.go:152); the
\* first check of the new day replaces it, and nothing is said of it.
StudentPinsWork ==
    \A s \in Student \ met :
        told[s] # None /\ (\A r \in Request : ~Handling(r, s)) =>
            student[s].pin = told[s] /\ student[s].day = day

\* The mode that is in use agrees with the flag, and the saved one with the
\* mode, once nobody is at it and no write failed (handlers/app.go:856, :873).
ModeIsKept == ModeAgrees /\ SavedMode
=============================================================================
