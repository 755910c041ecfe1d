----------------------------- MODULE AccessProofs -----------------------------
(***************************************************************************)
(* Theorems about PinControl and Accounts: what a device at the desk is    *)
(* asked for and who is signed in on it.  For any number of requests, tabs,*)
(* students, accounts, tokens, arrays and days.                            *)
(*                                                                         *)
(* PinControl.  A PIN is shown and stays valid while nothing draws another;*)
(* the mode and what repeats it agree while no two changes overlap.        *)
(*                                                                         *)
(* Accounts.  A step touches the array of one session.  What the others    *)
(* show, what a tab has put into them and what it is encoding is therefore *)
(* the same as before, unless the step tells the tab it is disturbed.      *)
(***************************************************************************)
EXTENDS PinControl, Accounts, SequenceTheorems, TLAPS

-----------------------------------------------------------------------------
(* PinControl: types *)

\* What the steps of a request do to its local state keeps its type.
LEMMA LocalTypes ==
    ASSUME NEW r \in Request, TypeOK
    PROVE  /\ Idle \in Local
           /\ req[r] \in Local
           /\ \A pc \in {"idle"} \cup ModeStep \cup PinStep \cup CheckStep :
                 [req[r] EXCEPT !.pc = pc] \in Local
           /\ \A pc \in {"idle"} \cup ModeStep \cup PinStep \cup CheckStep :
              \A w \in Mode \cup {"torn"} :
                 [req[r] EXCEPT !.pc = pc, !.want = w] \in Local
           /\ [req[r] EXCEPT !.pc = "update", !.date = day] \in Local
<1>1. req[r] \in Local
  BY DEF TypeOK
<1>2. Idle \in Local
  BY DEF Idle, Local, Mode
<1>3. day \in Nat /\ "update" \in PinStep
  BY DEF TypeOK, PinStep
<1> QED
  BY <1>1, <1>2, <1>3 DEF Local

\* The initial state has the types.
LEMMA InitTypes == Init => TypeOK
<1> SUFFICES ASSUME Init PROVE TypeOK
  OBVIOUS
<1>1. Idle \in Local /\ Idle.pc = "idle"
  BY DEF Idle, Local, Mode
<1>2. day \in Nat /\ mode \in [ptr : Mode, len : Mode] /\ saved \in Mode \cup {"torn"}
  BY DEF Init, Mode
<1>3. center \in [pin : Pin \cup {None}, day : Nat \cup {None}]
  BY DEF Init
<1>4. /\ student \in [Student -> [flag : BOOLEAN, pin : Pin \cup {None}, day : Nat \cup {None}]]
      /\ \A s \in Student : (student[s].pin = None) <=> (student[s].day = None)
  BY DEF Init
<1>5. drawn \in 0..MaxPin /\ shown \in Pin \cup {None} /\ told \in [Student -> Pin \cup {None}]
  BY BoundsAssumption DEF Init
<1>6. /\ req \in [Request -> Local]
      /\ \A r \in Request : req[r].pc \in PinStep \cup CheckStep => req[r].student # None
  BY <1>1 DEF Init, PinStep, CheckStep
<1>7. require \in BOOLEAN /\ met \subseteq Student
  BY Zenon DEF Init
<1>8. mixed \in BOOLEAN /\ unsaved \in BOOLEAN
  BY Zenon DEF Init
<1> QED
  BY <1>2, <1>3, <1>4, <1>5, <1>6, <1>7, <1>8 DEF TypeOK

\* What TypeOK says of the students' rows.
StudentOK ==
    /\ student \in [Student -> [flag : BOOLEAN, pin : Pin \cup {None}, day : Nat \cup {None}]]
    /\ \A s \in Student : (student[s].pin = None) <=> (student[s].day = None)

\* What it says of the requests.
RequestOK ==
    /\ req \in [Request -> Local]
    /\ \A r \in Request : req[r].pc \in PinStep \cup CheckStep => req[r].student # None

\* Every step keeps the types of the requests.
LEMMA RequestStep == TypeOK /\ [Next]_vars => RequestOK'
<1> SUFFICES ASSUME TypeOK, [Next]_vars PROVE RequestOK'
  OBVIOUS
<1> USE DEF RequestOK
<1>0. RequestOK
  BY DEF TypeOK
<1>a. ASSUME UNCHANGED req PROVE RequestOK'
  BY <1>0, <1>a
<1>b. ASSUME NEW r \in Request, Return(r) PROVE RequestOK'
  <2>1. Idle \in Local /\ Idle.pc = "idle"
    BY LocalTypes DEF Idle
  <2> QED BY <1>0, <1>b, <2>1 DEF Return, PinStep, CheckStep
<1>c. ASSUME NEW r \in Request, NEW pc \in {"idle"} \cup ModeStep \cup PinStep \cup CheckStep,
             Goto(r, pc), pc \in PinStep \cup CheckStep => req[r].student # None
      PROVE  RequestOK'
  <2>1. [req[r] EXCEPT !.pc = pc] \in Local
    BY LocalTypes
  <2>2. req[r] \in Local
    BY <1>0
  <2>3. [req[r] EXCEPT !.pc = pc].pc = pc /\ [req[r] EXCEPT !.pc = pc].student = req[r].student
    BY <2>2 DEF Local
  <2> QED BY <1>0, <1>c, <2>1, <2>3 DEF Goto
<1>d. ASSUME NEW r \in Request, NEW pc \in ModeStep \cup PinStep \cup CheckStep,
             NEW s \in Student \cup {None}, NEW w \in Mode, NEW t \in BOOLEAN,
             Begin(r, pc, s, w, t), pc \in PinStep \cup CheckStep => s # None
      PROVE  RequestOK'
  <2> DEFINE l == [pc |-> pc, student |-> s, want |-> w, tell |-> t, date |-> 0]
  <2>1. l \in Local /\ l.pc = pc /\ l.student = s
    BY DEF Local
  <2>2. req' = [req EXCEPT ![r] = l]
    BY <1>d DEF Begin
  <2> HIDE DEF l
  <2> QED BY <1>0, <1>d, <2>1, <2>2
<1>e. ASSUME NEW r \in Request, NEW pc \in ModeStep \cup PinStep \cup CheckStep,
             req' = [req EXCEPT ![r].pc = pc, ![r].want = Value(mode)],
             pc \in PinStep \cup CheckStep => req[r].student # None
      PROVE  RequestOK'
  <2>0. Value(mode) \in Mode \cup {"torn"}
    BY DEF Value, TypeOK
  <2>1. [req[r] EXCEPT !.pc = pc, !.want = Value(mode)] \in Local
    BY <2>0, LocalTypes
  <2>2. req[r] \in Local
    BY <1>0
  <2>3. /\ [req[r] EXCEPT !.pc = pc, !.want = Value(mode)].pc = pc
        /\ [req[r] EXCEPT !.pc = pc, !.want = Value(mode)].student = req[r].student
    BY <2>2 DEF Local
  <2>4. req' = [req EXCEPT ![r] = [req[r] EXCEPT !.pc = pc, !.want = Value(mode)]]
    BY <1>e, <1>0
  <2> QED BY <1>0, <1>e, <2>1, <2>3, <2>4
<1>1. ASSUME NEW r \in Request, ModeSteps(r) PROVE RequestOK'
  <2>1. ASSUME NEW w \in Mode, BeginModeChange(r, w) \/ BeginToggle(r, w) PROVE RequestOK'
    <3>1. Begin(r, "mode1", None, w, FALSE) \/ Begin(r, "toggle", None, w, FALSE)
      BY <2>1 DEF BeginModeChange, BeginToggle
    <3> QED BY <3>1, <1>d DEF ModeStep, PinStep, CheckStep
  <2>2. CASE ModeStore1(r) BY <2>2, <1>c DEF ModeStore1, ModeStep, PinStep, CheckStep
  <2>3. CASE ModeStore2(r) BY <2>3, <1>c DEF ModeStore2, ModeStep, PinStep, CheckStep
  <2>4. CASE ModeRequire(r) BY <2>4, <1>c DEF ModeRequire, ModeStep, PinStep, CheckStep
  <2>5. CASE Marshal(r)
    <3>1. req' = [req EXCEPT ![r].pc = "write", ![r].want = Value(mode)]
      BY <2>5 DEF Marshal
    <3>2. "write" \in ModeStep \cup PinStep \cup CheckStep /\ "write" \notin PinStep \cup CheckStep
      BY DEF ModeStep, PinStep, CheckStep
    <3> QED BY <3>1, <3>2, <1>e
  <2>6. CASE Write(r) BY <2>6, <1>b DEF Write
  <2>7. CASE ToggleRequire(r)
    <3>1. Goto(r, "toggle1")
      BY <2>7 DEF ToggleRequire
    <3> QED BY <3>1, <1>c DEF ModeStep, PinStep, CheckStep
  <2>8. CASE ToggleStore1(r) BY <2>8, <1>c DEF ToggleStore1, ModeStep, PinStep, CheckStep
  <2>9. CASE ToggleStore2(r) BY <2>9, <1>b DEF ToggleStore2
  <2> QED BY <1>1, <2>1, <2>2, <2>3, <2>4, <2>5, <2>6, <2>7, <2>8, <2>9 DEF ModeSteps
<1>2. ASSUME NEW r \in Request, PinSteps(r) PROVE RequestOK'
  <2>1. ASSUME NEW s \in Student, BeginRequirePIN(r, s) \/ BeginReset(r, s) \/ BeginCheck(r, s)
        PROVE  RequestOK'
    <3>1. \/ Begin(r, "flag", s, "off", TRUE) \/ Begin(r, "generate", s, "off", TRUE)
          \/ Begin(r, "validate", s, "off", FALSE)
      BY <2>1 DEF BeginRequirePIN, BeginReset, BeginCheck
    <3> QED BY <3>1, <1>d, NamesAssumption DEF PinStep, CheckStep, Mode
  <2>2. CASE SetFlag(r) BY <2>2, <1>0, <1>b, <1>c DEF SetFlag, At, PinStep, CheckStep
  <2>3. CASE ReadPin(r) BY <2>3, <1>0, <1>b, <1>c DEF ReadPin, At, PinStep, CheckStep
  <2>4. CASE GeneratePin(r) BY <2>4, <1>b DEF GeneratePin
  <2>5. CASE ReadDate(r)
    <3> DEFINE l == [req[r] EXCEPT !.pc = "update", !.date = day]
    <3>1. l \in Local
      BY LocalTypes
    <3>2. req[r] \in Local /\ req[r].student # None
      BY <2>5, <1>0 DEF ReadDate, At, PinStep
    <3>3. l.student = req[r].student
      BY <3>2 DEF Local
    <3>4. req' = [req EXCEPT ![r] = l]
      BY <2>5, <1>0 DEF ReadDate
    <3> HIDE DEF l
    <3> QED BY <1>0, <3>1, <3>2, <3>3, <3>4
  <2>6. CASE ReadMode(r) BY <2>6, <1>0, <1>e DEF ReadMode, At, PinStep, CheckStep
  <2>7. CASE ReadFlag(r)
    <3>1. Goto(r, "read") \/ Return(r)
      BY <2>7 DEF ReadFlag
    <3>2. req[r].student # None
      BY <2>7, <1>0 DEF ReadFlag, At, CheckStep
    <3> QED BY <3>1, <3>2, <1>b, <1>c DEF PinStep
  <2> QED BY <1>2, <2>1, <2>2, <2>3, <2>4, <2>5, <2>6, <2>7 DEF PinSteps
<1>3. CASE Restart
  <2>1. Idle \in Local /\ Idle.pc = "idle"
    BY DEF Idle, Local, Mode
  <2> QED BY <1>3, <2>1 DEF Restart, PinStep, CheckStep
<1>4. CASE ShowPIN \/ SetPIN \/ (\E s \in Student : WaivePIN(s) \/ ReplaceRow(s)) \/ NextDay
  BY <1>4, <1>a DEF ShowPIN, SetPIN, WaivePIN, ReplaceRow, NextDay
<1>5. CASE UNCHANGED vars BY <1>5, <1>a DEF vars
<1> QED
  BY <1>1, <1>2, <1>3, <1>4, <1>5 DEF Next

\* Every step keeps the types of the students' rows and of what was told.
LEMMA StudentStep ==
    TypeOK /\ [Next]_vars => StudentOK' /\ told' \in [Student -> Pin \cup {None}]
<1> SUFFICES ASSUME TypeOK, [Next]_vars
             PROVE  StudentOK' /\ told' \in [Student -> Pin \cup {None}]
  OBVIOUS
<1> DEFINE Row == [flag : BOOLEAN, pin : Pin \cup {None}, day : Nat \cup {None}]
<1>0. StudentOK /\ told \in [Student -> Pin \cup {None}] /\ day \in Nat
  BY DEF TypeOK, StudentOK
<1>a. ASSUME UNCHANGED <<student, told>> PROVE StudentOK'
  BY <1>0, <1>a DEF StudentOK
<1>b. ASSUME NEW s \in Student, NEW row \in Row, (row.pin = None) <=> (row.day = None),
             student' = [student EXCEPT ![s] = row]
      PROVE  StudentOK'
  BY <1>0, <1>b DEF StudentOK
<1>c. \A s \in Student : \A b \in BOOLEAN :
         /\ [student[s] EXCEPT !.flag = b] \in Row
         /\ [student[s] EXCEPT !.flag = b].pin = student[s].pin
         /\ [student[s] EXCEPT !.flag = b].day = student[s].day
  BY <1>0 DEF StudentOK
<1>1. ASSUME NEW r \in Request, ModeSteps(r) PROVE UNCHANGED <<student, told>>
  <2>1. UNCHANGED pinVars
    BY <1>1 DEF ModeSteps, BeginModeChange, BeginToggle, ModeStore1, ModeStore2, ModeRequire,
                Marshal, Write, ToggleRequire, ToggleStore1, ToggleStore2, Assign, SetRequire
  <2> QED BY <2>1 DEF pinVars
<1>2. ASSUME NEW r \in Request, PinSteps(r)
      PROVE  StudentOK' /\ told' \in [Student -> Pin \cup {None}]
  <2>1. CASE \E s \in Student : BeginRequirePIN(r, s) \/ BeginReset(r, s) \/ BeginCheck(r, s)
    BY <2>1, <1>a, <1>0 DEF BeginRequirePIN, BeginReset, BeginCheck, StudentOK
  <2>s. ASSUME req[r].pc \in PinStep \cup CheckStep PROVE req[r].student \in Student
    BY <2>s DEF TypeOK, Local
  <2>2. CASE SetFlag(r)
    <3>1. req[r].student \in Student
      BY <2>2, <2>s DEF SetFlag, At, PinStep
    <3>2. CASE student' = [student EXCEPT ![req[r].student].flag = TRUE]
      <4>1. student' = [student EXCEPT ![req[r].student] = [student[req[r].student] EXCEPT !.flag = TRUE]]
        BY <3>2
      <4> QED BY <4>1, <3>1, <1>b, <1>c, <1>0, <2>2 DEF SetFlag, StudentOK
    <3> QED BY <2>2, <3>2, <1>0 DEF SetFlag, StudentOK
  <2>3. CASE ReadPin(r)
    <3>1. req[r].student \in Student
      BY <2>3, <2>s DEF ReadPin, At, PinStep
    <3>2. student[req[r].student].pin \in Pin \cup {None} /\ UNCHANGED student
      BY <2>3, <3>1, <1>0 DEF ReadPin, StudentOK
    <3>3. told' = told \/ told' = [told EXCEPT ![req[r].student] = student[req[r].student].pin]
      BY <2>3 DEF ReadPin, Tell
    <3> QED BY <3>1, <3>2, <3>3, <1>0 DEF StudentOK
  <2>4. CASE GeneratePin(r)
    <3>1. req[r].student \in Student
      BY <2>4, <2>s DEF GeneratePin, At, PinStep
    <3>2. drawn + 1 \in Pin /\ drawn + 1 # None /\ req[r].date \in Nat /\ req[r].date # None
      BY <2>4, BoundsAssumption, NamesAssumption DEF GeneratePin, TypeOK, Pin, Local
    <3>3. \/ told' = told
          \/ told' = [told EXCEPT ![req[r].student] = drawn + 1]
          \/ told' = [told EXCEPT ![req[r].student] = None]
      BY <2>4 DEF GeneratePin, Tell
    <3>4. told' \in [Student -> Pin \cup {None}]
      BY <3>1, <3>2, <3>3, <1>0
    <3>5. CASE student' = [student EXCEPT ![req[r].student].pin = drawn + 1,
                                          ![req[r].student].day = req[r].date]
      <4> DEFINE row == [student[req[r].student] EXCEPT !.pin = drawn + 1, !.day = req[r].date]
      <4>1. student' = [student EXCEPT ![req[r].student] = row]
        BY <3>5, <3>1, <1>0 DEF StudentOK
      <4>2. row \in Row /\ row.pin = drawn + 1 /\ row.day = req[r].date
        BY <3>1, <3>2, <1>0 DEF StudentOK
      <4> QED BY <4>1, <4>2, <3>1, <3>2, <3>4, <1>b
    <3> QED BY <2>4, <3>4, <3>5, <1>0 DEF GeneratePin, StudentOK
  <2>5. CASE ReadMode(r) \/ ReadDate(r)
    BY <2>5, <1>a, <1>0 DEF ReadMode, ReadDate, pinVars, StudentOK
  <2>6. CASE ReadFlag(r) BY <2>6, <1>a, <1>0 DEF ReadFlag, StudentOK
  <2> QED BY <1>2, <2>1, <2>2, <2>3, <2>4, <2>5, <2>6 DEF PinSteps
<1>3. ASSUME NEW s \in Student, WaivePIN(s)
      PROVE  StudentOK' /\ told' \in [Student -> Pin \cup {None}]
  <2> DEFINE row == [student[s] EXCEPT !.flag = FALSE]
  <2>1. student' = [student EXCEPT ![s] = row] /\ told' = told
    BY <1>3 DEF WaivePIN
  <2>2. row \in Row /\ ((row.pin = None) <=> (row.day = None))
    BY <1>c, <1>0 DEF StudentOK
  <2> HIDE DEF row, Row
  <2>3. StudentOK'
    BY <2>1, <2>2, <1>b
  <2> QED BY <2>1, <2>3, <1>0
<1>4. ASSUME NEW s \in Student, ReplaceRow(s)
      PROVE  StudentOK' /\ told' \in [Student -> Pin \cup {None}]
  <2>1. [flag |-> FALSE, pin |-> None, day |-> None] \in Row
    OBVIOUS
  <2> QED BY <2>1, <1>4, <1>b, <1>0 DEF ReplaceRow
<1>5. CASE ShowPIN \/ SetPIN \/ NextDay \/ Restart
  BY <1>5, <1>0 DEF ShowPIN, SetPIN, NextDay, Restart, StudentOK
<1>6. CASE UNCHANGED vars
  BY <1>6, <1>a, <1>0 DEF vars, StudentOK
<1>7. CASE UNCHANGED <<student, told>>
  BY <1>7, <1>a, <1>0
<1> QED
  BY <1>1, <1>2, <1>3, <1>4, <1>5, <1>6, <1>7 DEF Next

-----------------------------------------------------------------------------
(* How a request moves *)

\* What the four ways to change a local state do to each field of it.
LEMMA GotoMoves ==
    ASSUME TypeOK, NEW r \in Request, NEW pc, req' = [req EXCEPT ![r].pc = pc]
    PROVE  /\ req'[r].pc = pc /\ req'[r].student = req[r].student
           /\ req'[r].want = req[r].want /\ req'[r].tell = req[r].tell
           /\ \A q \in Request \ {r} : req'[q] = req[q]
<1>1. req[r] \in Local /\ DOMAIN req = Request
  BY DEF TypeOK
<1> QED
  BY <1>1 DEF Local

LEMMA ReturnMoves ==
    ASSUME TypeOK, NEW r \in Request, req' = [req EXCEPT ![r] = Idle]
    PROVE  /\ req'[r].pc = "idle" /\ req'[r].student = None
           /\ \A q \in Request \ {r} : req'[q] = req[q]
BY DEF TypeOK, Idle

LEMMA BeginMoves ==
    ASSUME TypeOK, NEW r \in Request, NEW pc, NEW s, NEW w, NEW t,
           req' = [req EXCEPT ![r] = [pc |-> pc, student |-> s, want |-> w,
                                         tell |-> t, date |-> 0]]
    PROVE  /\ req'[r].pc = pc /\ req'[r].student = s
           /\ req'[r].want = w /\ req'[r].tell = t
           /\ \A q \in Request \ {r} : req'[q] = req[q]
BY DEF TypeOK

LEMMA ReadMoves ==
    ASSUME TypeOK, NEW r \in Request, NEW pc, NEW w,
           req' = [req EXCEPT ![r].pc = pc, ![r].want = w]
    PROVE  /\ req'[r].pc = pc /\ req'[r].student = req[r].student
           /\ req'[r].want = w /\ req'[r].tell = req[r].tell
           /\ \A q \in Request \ {r} : req'[q] = req[q]
<1> DEFINE l == [req[r] EXCEPT !.pc = pc, !.want = w]
<1>1. req[r] \in Local /\ DOMAIN req = Request
  BY DEF TypeOK
<1>2. /\ l.pc = pc /\ l.student = req[r].student
      /\ l.want = w /\ l.tell = req[r].tell
  BY <1>1 DEF Local
<1>3. req' = [req EXCEPT ![r] = l]
  BY <1>1
<1> HIDE DEF l
<1> QED
  BY <1>1, <1>2, <1>3

LEMMA DateMoves ==
    ASSUME TypeOK, NEW r \in Request, ReadDate(r)
    PROVE  /\ req[r].pc = "generate" /\ req'[r].pc = "update"
           /\ req'[r].student = req[r].student /\ req'[r].tell = req[r].tell
           /\ \A q \in Request \ {r} : req'[q] = req[q]
           /\ UNCHANGED <<day, modeVars, pinVars>>
<1> DEFINE l == [req[r] EXCEPT !.pc = "update", !.date = day]
<1>1. req[r] \in Local /\ DOMAIN req = Request
  BY DEF TypeOK
<1>2. l.pc = "update" /\ l.student = req[r].student /\ l.tell = req[r].tell
  BY <1>1 DEF Local
<1>3. req' = [req EXCEPT ![r] = l]
  BY <1>1 DEF ReadDate
<1>4. req[r].pc = "generate" /\ UNCHANGED <<day, modeVars, pinVars>>
  BY DEF ReadDate, At
<1> HIDE DEF l
<1> QED
  BY <1>1, <1>2, <1>3, <1>4

-----------------------------------------------------------------------------
(* The PIN mode *)

\* Until saveConfig has read the field, a request wants a mode.
WantInv ==
    \A r \in Request :
        req[r].pc \in ModeStep \ {"write"} => req[r].want \in Mode

\* What the only request that changes the mode has done so far.
Progress(r) ==
    LET w == req[r].want IN
    /\ req[r].pc \in {"mode2", "mode_require", "marshal", "toggle2"} => mode.len = w
    /\ req[r].pc \in {"mode_require", "marshal"} => mode.ptr = w
    /\ req[r].pc \in {"marshal", "toggle1", "toggle2"} => (require <=> w = "center")
    /\ req[r].pc = "write" => w = Value(mode) /\ (require <=> Value(mode) = "center")

ModeInv ==
    ~mixed =>
        /\ \A r, q \in Request : ChangingMode(r) /\ ChangingMode(q) => r = q
        /\ \A r \in Request : ChangingMode(r) => Progress(r) /\ unsaved
        /\ (\A r \in Request : ~ChangingMode(r)) =>
              /\ require <=> Value(mode) = "center"
              /\ ~unsaved => saved = Value(mode)

\* Changes of the mode by r alone, or beside others that mixed remembers.
LEMMA ModeStepInv ==
    ASSUME TypeOK, WantInv, ModeInv, NEW r \in Request, ModeSteps(r)
    PROVE  WantInv' /\ ModeInv'
<1>0. ASSUME NEW q \in Request, q # r, req'[q] = req[q]
      PROVE  (ChangingMode(q) <=> ChangingMode(q)')
  BY <1>0 DEF ChangingMode
<1>a. mode.ptr \in Mode /\ mode.len \in Mode /\ r \in DOMAIN req
  BY DEF TypeOK
<1>1. ASSUME NEW w \in Mode, BeginModeChange(r, w) \/ BeginToggle(r, w)
      PROVE  WantInv' /\ ModeInv'
  <2>1. /\ Begin(r, "mode1", None, w, FALSE) \/ Begin(r, "toggle", None, w, FALSE)
        /\ mixed' = (\E q \in Request \ {r} : ChangingMode(q)) /\ unsaved' = TRUE
    BY <1>1 DEF BeginModeChange, BeginToggle, Overlap
  <2>2. \A q \in Request \ {r} : req'[q] = req[q]
    BY <2>1, BeginMoves DEF Begin
  <2>3. req'[r].pc \in {"mode1", "toggle"} /\ req'[r].want = w
    BY <2>1, BeginMoves DEF Begin
  <2>4. WantInv'
    BY <2>2, <2>3 DEF WantInv
  <2>5. ~mixed' => \A q \in Request \ {r} : ~ChangingMode(q)'
    BY <2>1, <2>2, <1>0
  <2>6. ChangingMode(r)'
    BY <2>3 DEF ChangingMode, ModeStep
  <2>7. Progress(r)'
    BY <2>3 DEF Progress
  <2> QED BY <2>1, <2>4, <2>5, <2>6, <2>7 DEF ModeInv
\* A step in the middle of a change
<1>2. ASSUME ChangingMode(r), UNCHANGED <<mixed, unsaved>>,
             \A q \in Request \ {r} : req'[q] = req[q],
             req'[r].pc \in ModeStep, req'[r].pc = "write" \/ req'[r].want \in Mode,
             Progress(r) => Progress(r)'
      PROVE  WantInv' /\ ModeInv'
  <2>1. WantInv'
    BY <1>2 DEF WantInv
  <2>2. \A q \in Request : ChangingMode(q) <=> ChangingMode(q)'
    BY <1>2, <1>0 DEF ChangingMode
  <2>3. ~mixed => \A q \in Request : ChangingMode(q) => q = r
    BY <1>2 DEF ModeInv
  <2>4. ~mixed' => Progress(r)' /\ unsaved'
    BY <1>2 DEF ModeInv
  <2> QED BY <1>2, <2>1, <2>2, <2>3, <2>4 DEF ModeInv
<1>3. CASE ModeStore1(r)
  <2>1. req[r].want \in Mode
    BY <1>3 DEF ModeStore1, At, WantInv, ModeStep
  <2>2. /\ req'[r].pc = "mode2" /\ req'[r].want = req[r].want
        /\ \A q \in Request \ {r} : req'[q] = req[q]
    BY <1>3, GotoMoves DEF ModeStore1, Goto
  <2>3. mode'.len = req[r].want
    BY <1>3 DEF ModeStore1, Assign, TypeOK
  <2>4. Progress(r)'
    BY <2>2, <2>3 DEF Progress
  <2> QED BY <1>2, <1>3, <2>1, <2>2, <2>4 DEF ModeStore1, Assign, At, ChangingMode, ModeStep
<1>4. CASE ModeStore2(r)
  <2>1. req[r].want \in Mode
    BY <1>4 DEF ModeStore2, At, WantInv, ModeStep
  <2>2. /\ req'[r].pc = "mode_require" /\ req'[r].want = req[r].want
        /\ \A q \in Request \ {r} : req'[q] = req[q]
    BY <1>4, GotoMoves DEF ModeStore2, Goto
  <2>3. mode'.ptr = req[r].want /\ mode'.len = mode.len
    BY <1>4 DEF ModeStore2, Assign, TypeOK
  <2>4. Progress(r) => Progress(r)'
    BY <1>4, <2>2, <2>3 DEF Progress, ModeStore2, At
  <2> QED BY <1>2, <1>4, <2>1, <2>2, <2>4 DEF ModeStore2, Assign, At, ChangingMode, ModeStep
<1>5. CASE ModeRequire(r) \/ ToggleRequire(r)
  <2>1. req[r].want \in Mode
    BY <1>5 DEF ModeRequire, ToggleRequire, At, WantInv, ModeStep
  <2>2. /\ req'[r].want = req[r].want
        /\ \A q \in Request \ {r} : req'[q] = req[q]
        /\ \/ req[r].pc = "mode_require" /\ req'[r].pc = "marshal"
           \/ req[r].pc = "toggle" /\ req'[r].pc = "toggle1"
    BY <1>5, GotoMoves DEF ModeRequire, ToggleRequire, At, Goto
  <2>3. (require' <=> req[r].want = "center") /\ mode' = mode
    BY <1>5 DEF ModeRequire, ToggleRequire, SetRequire
  <2>4. Progress(r) => Progress(r)'
    BY <2>2, <2>3 DEF Progress
  <2>5. UNCHANGED <<mixed, unsaved>>
    BY <1>5 DEF ModeRequire, ToggleRequire, SetRequire
  <2> QED BY <1>2, <2>1, <2>2, <2>4, <2>5 DEF ChangingMode, ModeStep
<1>6. CASE Marshal(r)
  <2>1. /\ req'[r].pc = "write" /\ req'[r].want = Value(mode) /\ req[r].pc = "marshal"
        /\ \A q \in Request \ {r} : req'[q] = req[q]
    BY <1>6, ReadMoves DEF Marshal, At
  <2>2. mode' = mode /\ require' = require /\ mixed' = mixed /\ unsaved' = unsaved
    BY <1>6 DEF Marshal, modeVars
  <2>3. Progress(r) => Progress(r)'
    BY <2>1, <2>2 DEF Progress, Value
  <2> QED BY <1>2, <2>1, <2>2, <2>3 DEF ChangingMode, ModeStep
<1>7. CASE ToggleStore1(r)
  <2>1. req[r].want \in Mode
    BY <1>7 DEF ToggleStore1, At, WantInv, ModeStep
  <2>2. /\ req'[r].pc = "toggle2" /\ req'[r].want = req[r].want /\ req[r].pc = "toggle1"
        /\ \A q \in Request \ {r} : req'[q] = req[q]
    BY <1>7, GotoMoves DEF ToggleStore1, At, Goto
  <2>3. mode'.len = req[r].want /\ require' = require
    BY <1>7 DEF ToggleStore1, Assign, TypeOK
  <2>4. Progress(r) => Progress(r)'
    BY <2>2, <2>3 DEF Progress
  <2> QED BY <1>2, <1>7, <2>1, <2>2, <2>4 DEF ToggleStore1, Assign, ChangingMode, ModeStep
\* The last step of a change
<1>8. ASSUME ChangingMode(r), \A q \in Request \ {r} : req'[q] = req[q],
             req'[r].pc = "idle", mixed' = mixed,
             ~mixed /\ Progress(r) /\ unsaved =>
                 (require' <=> Value(mode)' = "center") /\ (~unsaved' => saved' = Value(mode)')
      PROVE  WantInv' /\ ModeInv'
  <2>1. WantInv'
    BY <1>8 DEF WantInv, ModeStep
  <2>2. ~mixed => \A q \in Request : ~ChangingMode(q)'
    BY <1>8, <1>0 DEF ModeInv, ChangingMode, ModeStep
  <2> QED BY <1>8, <2>1, <2>2 DEF ModeInv
<1>9. CASE Write(r)
  <2>1. /\ req'[r].pc = "idle" /\ req[r].pc = "write"
        /\ \A q \in Request \ {r} : req'[q] = req[q]
    BY <1>9, ReturnMoves DEF Write, At, Return
  <2>2. /\ \/ saved' = req[r].want /\ unsaved' = mixed
           \/ saved' = saved /\ unsaved' = unsaved
        /\ mode' = mode /\ require' = require /\ mixed' = mixed
    BY <1>9 DEF Write
  <2>3. ~mixed /\ Progress(r) /\ unsaved =>
            (require' <=> Value(mode)' = "center") /\ (~unsaved' => saved' = Value(mode)')
    BY <2>1, <2>2 DEF Progress, Value
  <2> QED BY <1>8, <2>1, <2>2, <2>3 DEF ChangingMode, ModeStep
<1>10. CASE ToggleStore2(r)
  <2>1. /\ req'[r].pc = "idle" /\ req[r].pc = "toggle2"
        /\ \A q \in Request \ {r} : req'[q] = req[q]
    BY <1>10, ReturnMoves DEF ToggleStore2, At, Return
  <2>2. req[r].want \in Mode
    BY <2>1 DEF WantInv, ModeStep
  <2>3. /\ mode'.ptr = req[r].want /\ mode'.len = mode.len
        /\ require' = require /\ mixed' = mixed /\ unsaved' = unsaved
    BY <1>10 DEF ToggleStore2, Assign, TypeOK
  <2>4. Progress(r) /\ unsaved => (require' <=> Value(mode)' = "center") /\ unsaved'
    BY <2>1, <2>3 DEF Progress, Value
  <2> QED BY <1>8, <2>1, <2>3, <2>4 DEF ChangingMode, ModeStep
<1> QED
  BY <1>1, <1>3, <1>4, <1>5, <1>6, <1>7, <1>9, <1>10 DEF ModeSteps

\* The mode is not touched by anything else; a start reads it from the file.
LEMMA OtherModeInv ==
    ASSUME TypeOK, WantInv, ModeInv, [Next]_vars, \A r \in Request : ~ModeSteps(r)
    PROVE  WantInv' /\ ModeInv'
<1>1. ASSUME UNCHANGED modeVars,
             NEW r \in Request, \A q \in Request \ {r} : req'[q] = req[q],
             req[r].pc \notin ModeStep, req'[r].pc \notin ModeStep
      PROVE  WantInv' /\ ModeInv'
  <2>1. WantInv'
    BY <1>1 DEF WantInv
  <2>2. \A q \in Request : ChangingMode(q) <=> ChangingMode(q)'
    BY <1>1 DEF ChangingMode
  <2>3. /\ mode' = mode /\ require' = require /\ saved' = saved
        /\ mixed' = mixed /\ unsaved' = unsaved
    BY <1>1 DEF modeVars
  <2>4. \A q \in Request : ChangingMode(q) /\ Progress(q) => Progress(q)'
    <3> SUFFICES ASSUME NEW q \in Request, ChangingMode(q), Progress(q) PROVE Progress(q)'
      OBVIOUS
    <3>1. req'[q] = req[q]
      BY <1>1 DEF ChangingMode
    <3> QED BY <2>3, <3>1 DEF Progress, Value
  <2> QED BY <2>1, <2>2, <2>3, <2>4 DEF ModeInv, Value
<1>2. ASSUME UNCHANGED <<modeVars, req>> PROVE WantInv' /\ ModeInv'
  <2>1. WantInv'
    BY <1>2 DEF WantInv
  <2>2. ModeInv'
    BY <1>2 DEF ModeInv, ChangingMode, Progress, Value, modeVars
  <2> QED BY <2>1, <2>2
<1>3. ASSUME NEW r \in Request, PinSteps(r) PROVE WantInv' /\ ModeInv'
  <2>1. ASSUME NEW s \in Student, BeginRequirePIN(r, s) \/ BeginReset(r, s) \/ BeginCheck(r, s)
        PROVE  WantInv' /\ ModeInv'
    <3>1. /\ UNCHANGED modeVars /\ req[r].pc = "idle"
          /\ req'[r].pc \in {"flag", "generate", "validate"}
          /\ \A q \in Request \ {r} : req'[q] = req[q]
      BY <2>1, BeginMoves DEF BeginRequirePIN, BeginReset, BeginCheck, Begin, At
    <3> QED BY <3>1, <1>1 DEF ModeStep
  <2>2. CASE SetFlag(r)
    <3>1. /\ UNCHANGED modeVars /\ req[r].pc = "flag" /\ req'[r].pc \in {"idle", "read"}
          /\ \A q \in Request \ {r} : req'[q] = req[q]
      BY <2>2, GotoMoves, ReturnMoves DEF SetFlag, At, Goto, Return
    <3> QED BY <3>1, <1>1 DEF ModeStep
  <2>3. CASE ReadPin(r)
    <3>1. /\ UNCHANGED modeVars /\ req[r].pc = "read" /\ req'[r].pc \in {"idle", "generate"}
          /\ \A q \in Request \ {r} : req'[q] = req[q]
      BY <2>3, GotoMoves, ReturnMoves DEF ReadPin, At, Goto, Return
    <3> QED BY <3>1, <1>1 DEF ModeStep
  <2>4. CASE GeneratePin(r)
    <3>1. /\ UNCHANGED modeVars /\ req[r].pc = "update" /\ req'[r].pc = "idle"
          /\ \A q \in Request \ {r} : req'[q] = req[q]
      BY <2>4, ReturnMoves DEF GeneratePin, At, Return
    <3> QED BY <3>1, <1>1 DEF ModeStep
  <2>5. CASE ReadDate(r)
    BY <2>5, DateMoves, <1>1 DEF ModeStep
  <2>6. CASE ReadMode(r)
    <3>1. /\ UNCHANGED modeVars /\ req[r].pc = "validate" /\ req'[r].pc = "flagged"
          /\ \A q \in Request \ {r} : req'[q] = req[q]
      BY <2>6, ReadMoves DEF ReadMode, At
    <3> QED BY <3>1, <1>1 DEF ModeStep
  <2>7. CASE ReadFlag(r)
    <3>1. UNCHANGED modeVars /\ req[r].pc = "flagged" /\ (Goto(r, "read") \/ Return(r))
      BY <2>7 DEF ReadFlag, At
    <3>2. req'[r].pc \in {"idle", "read"} /\ \A q \in Request \ {r} : req'[q] = req[q]
      BY <3>1, GotoMoves, ReturnMoves DEF Goto, Return
    <3> QED BY <3>1, <3>2, <1>1 DEF ModeStep
  <2> QED BY <1>3, <2>1, <2>2, <2>3, <2>4, <2>5, <2>6, <2>7 DEF PinSteps
<1>4. CASE Restart
  <2>1. \A r \in Request : req'[r].pc = "idle"
    BY <1>4 DEF Restart, Idle
  <2>2. (require' <=> Value(mode)' = "center") /\ saved' = Value(mode)' /\ ~unsaved'
    BY <1>4 DEF Restart, Value
  <2>3. \A r \in Request : ~ChangingMode(r)'
    BY <2>1 DEF ChangingMode, ModeStep
  <2> QED BY <2>1, <2>2, <2>3 DEF WantInv, ModeInv, ModeStep
<1>5. CASE ShowPIN \/ SetPIN \/ (\E s \in Student : WaivePIN(s) \/ ReplaceRow(s)) \/ NextDay
  BY <1>5, <1>2 DEF ShowPIN, SetPIN, WaivePIN, ReplaceRow, NextDay
<1>6. CASE UNCHANGED vars BY <1>6, <1>2 DEF vars, modeVars
<1> QED
  BY <1>3, <1>4, <1>5, <1>6 DEF Next

-----------------------------------------------------------------------------
(* The other types, and the center's PIN *)

\* The PIN that was shown is the center's, whatever drew it.
LEMMA OtherStep ==
    ASSUME TypeOK, WantInv, ShownPinWorks, [Next]_vars
    PROVE  /\ TypeOK'
           /\ ShownPinWorks'
<1>1. StudentOK' /\ told' \in [Student -> Pin \cup {None}] /\ RequestOK'
  BY StudentStep, RequestStep
<1>2. Value(mode) \in Mode \cup {"torn"}
  BY DEF TypeOK, Value
<1>m. ASSUME NEW r \in Request, ModeSteps(r)
      PROVE  /\ mode' \in [ptr : Mode, len : Mode] /\ require' \in BOOLEAN
             /\ saved' \in Mode \cup {"torn"} /\ mixed' \in BOOLEAN /\ unsaved' \in BOOLEAN
             /\ UNCHANGED <<day, pinVars>>
  <2> USE DEF TypeOK
  <2>1. CASE \E w \in Mode : BeginModeChange(r, w) \/ BeginToggle(r, w)
    BY <2>1 DEF BeginModeChange, BeginToggle, Overlap
  <2>2. CASE ModeStore1(r) \/ ModeStore2(r) \/ ToggleStore1(r) \/ ToggleStore2(r)
    <3>1. req[r].want \in Mode
      BY <2>2 DEF ModeStore1, ModeStore2, ToggleStore1, ToggleStore2, At, WantInv, ModeStep
    <3>2. Assign(r, "len") \/ Assign(r, "ptr")
      BY <2>2 DEF ModeStore1, ModeStore2, ToggleStore1, ToggleStore2
    <3> QED BY <3>1, <3>2 DEF Assign
  <2>3. CASE ModeRequire(r) \/ ToggleRequire(r)
    <3>1. require' = (req[r].want = "center") /\ UNCHANGED <<day, mode, saved, mixed, unsaved, pinVars>>
      BY <2>3 DEF ModeRequire, ToggleRequire, SetRequire
    <3>2. require' \in BOOLEAN
      BY <3>1, Zenon
    <3> QED BY <3>1, <3>2
  <2>4. CASE Marshal(r) BY <2>4 DEF Marshal, modeVars
  <2>5. CASE Write(r)
    <3>1. req[r].want \in Mode \cup {"torn"}
      BY DEF Local
    <3> QED BY <2>5, <3>1 DEF Write
  <2> QED BY <1>m, <2>1, <2>2, <2>3, <2>4, <2>5 DEF ModeSteps
<1>p. ASSUME ~\E r \in Request : ModeSteps(r)
      PROVE  /\ mode' \in [ptr : Mode, len : Mode] /\ require' \in BOOLEAN
             /\ saved' \in Mode \cup {"torn"} /\ mixed' \in BOOLEAN /\ unsaved' \in BOOLEAN
  <2>1. CASE UNCHANGED modeVars
    BY <2>1 DEF modeVars, TypeOK
  <2>2. CASE Restart
    <3>1. saved' \in Mode \cup {"torn"}
      BY <2>2 DEF Restart, TypeOK, Mode
    <3>2. mode' \in [ptr : Mode, len : Mode]
      BY <2>2, <3>1 DEF Restart, Mode
    <3>3. require' \in BOOLEAN /\ mixed' \in BOOLEAN /\ unsaved' \in BOOLEAN
      BY <2>2, Zenon DEF Restart
    <3> QED BY <3>1, <3>2, <3>3
  <2>3. CASE Next /\ ~Restart
    <3>1. UNCHANGED modeVars
      BY <2>3, <1>p DEF Next, PinSteps, BeginRequirePIN, BeginReset, BeginCheck, SetFlag, ReadPin,
         ReadDate, GeneratePin, ReadMode, ReadFlag, ShowPIN, SetPIN, WaivePIN, ReplaceRow, NextDay
    <3> QED BY <2>1, <3>1
  <2> QED BY <2>1, <2>2, <2>3 DEF vars, modeVars
\* What happens to the center's PIN
<1> DEFINE CenterOK ==
      /\ day \in Nat /\ drawn \in 0..MaxPin
      /\ center \in [pin : Pin \cup {None}, day : Nat \cup {None}]
      /\ shown \in Pin \cup {None} /\ met \subseteq Student
<1>3. CenterOK
  BY DEF TypeOK
<1>4. CenterOK' /\ ShownPinWorks'
  <2>0. ASSUME UNCHANGED <<day, center, drawn, shown>>, met' \subseteq Student
        PROVE  CenterOK' /\ ShownPinWorks'
    BY <2>0, <1>3 DEF ShownPinWorks
  <2>a. ASSUME center.day # day, drawn < MaxPin
        PROVE  /\ [pin |-> drawn + 1, day |-> day] \in [pin : Pin \cup {None}, day : Nat \cup {None}]
               /\ drawn + 1 \in Pin /\ drawn + 1 \in 0..MaxPin
    BY <2>a, <1>3, BoundsAssumption DEF Pin
  <2>1. ASSUME NEW r \in Request, ModeSteps(r) PROVE CenterOK' /\ ShownPinWorks'
    BY <2>1, <1>m, <2>0, <1>3 DEF pinVars
  <2>2. ASSUME NEW r \in Request, PinSteps(r) PROVE CenterOK' /\ ShownPinWorks'
    <3>1. ASSUME NEW s \in Student, BeginRequirePIN(r, s) \/ BeginReset(r, s) \/ BeginCheck(r, s)
          PROVE  CenterOK' /\ ShownPinWorks'
      BY <3>1, <2>0, <1>3 DEF BeginRequirePIN, BeginReset, BeginCheck, Meet
    <3>2. CASE SetFlag(r) \/ ReadPin(r) \/ ReadDate(r) \/ ReadMode(r)
      BY <3>2, <2>0, <1>3 DEF SetFlag, ReadPin, ReadDate, ReadMode, pinVars
    <3>3. CASE GeneratePin(r)
      <4>1. drawn' \in 0..MaxPin /\ UNCHANGED <<day, center, shown, met>>
        BY <3>3, <1>3, BoundsAssumption DEF GeneratePin
      <4> QED BY <4>1, <1>3 DEF ShownPinWorks
    <3>4. CASE ReadFlag(r)
      <4>1. UNCHANGED <<day, shown, met>>
        BY <3>4 DEF ReadFlag
      <4>2. \/ UNCHANGED <<center, drawn>>
            \/ /\ drawn < MaxPin /\ center' = Center
               /\ drawn' = IF center.day = day THEN drawn ELSE drawn + 1
        BY <3>4 DEF ReadFlag
      <4>3. CASE UNCHANGED <<center, drawn>>
        BY <4>1, <4>3, <2>0, <1>3
      <4>4. CASE ~UNCHANGED <<center, drawn>>
        <5>1. center.day # day /\ drawn < MaxPin
          BY <4>2, <4>4 DEF Center
        <5>2. center' = [pin |-> drawn + 1, day |-> day] /\ drawn' = drawn + 1
          BY <4>2, <4>4, <5>1 DEF Center
        <5>3. shown = None
          BY <5>1 DEF ShownPinWorks
        <5> QED BY <5>1, <5>2, <5>3, <2>a, <4>1, <1>3 DEF ShownPinWorks
      <4> QED BY <4>3, <4>4
    <3> QED BY <2>2, <3>1, <3>2, <3>3, <3>4 DEF PinSteps
  <2>3. CASE ShowPIN
    <3>1. CASE center.day = day
      <4>1. center' = center /\ drawn' = drawn /\ shown' = center.pin /\ UNCHANGED <<day, met>>
        BY <2>3, <3>1 DEF ShowPIN, Center
      <4> QED BY <4>1, <3>1, <1>3 DEF ShownPinWorks
    <3>2. CASE center.day # day
      <4>1. /\ center' = [pin |-> drawn + 1, day |-> day] /\ drawn' = drawn + 1
            /\ shown' = drawn + 1 /\ drawn < MaxPin /\ UNCHANGED <<day, met>>
        BY <2>3, <3>2 DEF ShowPIN, Center
      <4> QED BY <4>1, <3>2, <2>a, <1>3 DEF ShownPinWorks
    <3> QED BY <3>1, <3>2
  <2>4. CASE SetPIN
    <3>1. /\ center' = [pin |-> drawn + 1, day |-> day] /\ drawn' = drawn + 1
          /\ shown' = drawn + 1 /\ drawn < MaxPin /\ UNCHANGED <<day, met>>
      BY <2>4 DEF SetPIN
    <3> QED BY <3>1, <1>3, BoundsAssumption DEF ShownPinWorks, Pin
  <2>5. CASE \E s \in Student : WaivePIN(s) \/ ReplaceRow(s)
    BY <2>5, <2>0, <1>3 DEF WaivePIN, ReplaceRow
  <2>6. CASE NextDay
    <3>1. day' \in Nat /\ shown' = None /\ met' \subseteq Student /\ UNCHANGED <<center, drawn>>
      BY <2>6, <1>3 DEF NextDay
    <3> QED BY <3>1, <1>3 DEF ShownPinWorks
  <2>7. CASE Restart
    <3>1. /\ center' = [pin |-> None, day |-> None] /\ shown' = None
          /\ UNCHANGED <<day, drawn, met>>
      BY <2>7 DEF Restart
    <3> QED BY <3>1, <1>3 DEF ShownPinWorks
  <2>8. CASE UNCHANGED vars BY <2>8, <2>0, <1>3 DEF vars
  <2> QED BY <2>1, <2>2, <2>3, <2>4, <2>5, <2>6, <2>7, <2>8 DEF Next
<1> QED
  BY <1>1, <1>4, <1>m, <1>p DEF TypeOK, StudentOK, RequestOK

-----------------------------------------------------------------------------
(* The students' PINs *)

\* Whom an admin has told a PIN keeps it: only a request that will tell the
\* next one is about to replace it, or two requests have met.
Drawing(r) == req[r].pc \in {"generate", "update"}

StudentInv ==
    \A s \in Student \ met :
        /\ told[s] # None => student[s].pin = told[s] /\ student[s].day = day
        /\ \A r, q \in Request : Handling(r, s) /\ Handling(q, s) => r = q
        /\ \A r \in Request : Handling(r, s) /\ Drawing(r) /\ ~req[r].tell =>
              told[s] = None

\* One request moves and keeps its student, or leaves it.
LEMMA StudentKept ==
    ASSUME TypeOK, StudentInv, NEW r \in Request,
           UNCHANGED <<day, student, told, met>>,
           \A q \in Request \ {r} : req'[q] = req[q],
           req'[r].student \in {req[r].student, None}, req'[r].tell = req[r].tell \/ req'[r].student = None,
           Drawing(r)' /\ ~req[r].tell /\ req[r].student \in Student \ met =>
               told[req[r].student] = None
    PROVE  StudentInv'
<1> SUFFICES ASSUME NEW s \in Student \ met
             PROVE  /\ told[s] # None => student[s].pin = told[s] /\ student[s].day = day
                    /\ \A p, q \in Request : Handling(p, s)' /\ Handling(q, s)' => p = q
                    /\ \A p \in Request : Handling(p, s)' /\ Drawing(p)' /\ ~req'[p].tell =>
                          told[s] = None
  BY DEF StudentInv, Drawing
<1>1. \A p \in Request : Handling(p, s)' => Handling(p, s)
  BY NamesAssumption DEF Handling
<1>2. \A p, q \in Request : Handling(p, s) /\ Handling(q, s) => p = q
  BY DEF StudentInv, Drawing
<1>3. ASSUME NEW p \in Request, Handling(p, s)', Drawing(p)', ~req'[p].tell
      PROVE  told[s] = None
  <2>1. CASE p = r
    BY <2>1, <1>3, NamesAssumption DEF Handling, Drawing
  <2>2. CASE p # r
    BY <2>2, <1>3 DEF Handling, At, StudentInv, Drawing
  <2> QED BY <2>1, <2>2
<1> QED
  BY <1>1, <1>2, <1>3 DEF StudentInv, Drawing

LEMMA StudentStepInv ==
    ASSUME TypeOK, WantInv, StudentInv, [Next]_vars
    PROVE  StudentInv'
<1>0. None \notin Student /\ None \notin Nat
  BY NamesAssumption
\* Steps of the requests that change the mode keep or drop their student.
<1>1. ASSUME NEW r \in Request, ModeSteps(r) PROVE StudentInv'
  <2>1. UNCHANGED <<day, student, told, met>>
    BY <1>1 DEF ModeSteps, BeginModeChange, BeginToggle, ModeStore1, ModeStore2, ModeRequire,
       Marshal, Write, ToggleRequire, ToggleStore1, ToggleStore2, Assign, SetRequire, pinVars
  <2>2. /\ \A q \in Request \ {r} : req'[q] = req[q]
        /\ req'[r].student \in {req[r].student, None}
        /\ req'[r].tell = req[r].tell \/ req'[r].student = None
        /\ ~Drawing(r)'
    <3>1. CASE \E w \in Mode : BeginModeChange(r, w) \/ BeginToggle(r, w)
      BY <3>1, BeginMoves DEF BeginModeChange, BeginToggle, Begin, Drawing
    <3>2. CASE ModeStore1(r) \/ ModeStore2(r) \/ ToggleStore1(r)
      BY <3>2, GotoMoves DEF ModeStore1, ModeStore2, ToggleStore1, Goto, Drawing
    <3>3. CASE ModeRequire(r) \/ ToggleRequire(r)
      BY <3>3, GotoMoves DEF ModeRequire, ToggleRequire, Goto, Drawing
    <3>4. CASE Marshal(r)
      <4>1. req' = [req EXCEPT ![r].pc = "write", ![r].want = Value(mode)]
        BY <3>4 DEF Marshal
      <4>2. /\ req'[r].pc = "write" /\ req'[r].student = req[r].student /\ req'[r].tell = req[r].tell
            /\ \A q \in Request \ {r} : req'[q] = req[q]
        BY <4>1, ReadMoves
      <4> QED BY <4>2 DEF Drawing
    <3>5. CASE Write(r) \/ ToggleStore2(r)
      BY <3>5, ReturnMoves DEF Write, ToggleStore2, Return, Drawing
    <3> QED BY <1>1, <3>1, <3>2, <3>3, <3>4, <3>5 DEF ModeSteps
  <2> QED BY <2>1, <2>2, StudentKept DEF Drawing
\* A request begins to handle s: met remembers the others.
<1>2. ASSUME NEW r \in Request, NEW s \in Student,
             BeginRequirePIN(r, s) \/ BeginReset(r, s) \/ BeginCheck(r, s)
      PROVE  StudentInv'
  <2>1. /\ req'[r].student = s
        /\ ~Drawing(r)' \/ req'[r].tell
        /\ \A q \in Request \ {r} : req'[q] = req[q]
    BY <1>2, BeginMoves DEF BeginRequirePIN, BeginReset, BeginCheck, Begin, Drawing
  <2>2. /\ UNCHANGED <<day, student, told>>
        /\ met' = IF \E q \in Request \ {r} : Handling(q, s) THEN met \cup {s} ELSE met
    BY <1>2 DEF BeginRequirePIN, BeginReset, BeginCheck, Meet
  <2> SUFFICES ASSUME NEW t \in Student \ met'
               PROVE  /\ told[t] # None => student[t].pin = told[t] /\ student[t].day = day
                      /\ \A p, q \in Request : Handling(p, t)' /\ Handling(q, t)' => p = q
                      /\ \A p \in Request : Handling(p, t)' /\ Drawing(p)' /\ ~req'[p].tell =>
                            told[t] = None
    BY <2>2 DEF StudentInv, Drawing
  <2>3. t \in Student \ met
    BY <2>2
  <2>4. \A p \in Request \ {r} : Handling(p, t)' <=> Handling(p, t)
    BY <2>1 DEF Handling
  <2>5. Handling(r, t)' <=> t = s
    BY <2>1 DEF Handling
  <2>6. t = s => \A p \in Request \ {r} : ~Handling(p, t)
    BY <2>2
  <2>7. \A p, q \in Request : Handling(p, t)' /\ Handling(q, t)' => p = q
    BY <2>3, <2>4, <2>5, <2>6 DEF StudentInv, Drawing
  <2>8. \A p \in Request : Handling(p, t)' /\ Drawing(p)' /\ ~req'[p].tell => told[t] = None
    BY <2>1, <2>3, <2>4 DEF At, StudentInv, Drawing
  <2> QED BY <2>3, <2>7, <2>8 DEF StudentInv, Drawing
<1>3. ASSUME NEW r \in Request, PinSteps(r) PROVE StudentInv'
  <2>s. ASSUME req[r].pc \in PinStep \cup CheckStep PROVE req[r].student \in Student
    BY <2>s DEF TypeOK, Local
  <2>1. CASE \E s \in Student : BeginRequirePIN(r, s) \/ BeginReset(r, s) \/ BeginCheck(r, s)
    BY <2>1, <1>2
  \* A change of the flag alone
  <2>2. CASE SetFlag(r)
    <3>1. /\ ~Drawing(r)' /\ \A q \in Request \ {r} : req'[q] = req[q]
          /\ req'[r].student \in {req[r].student, None}
          /\ req'[r].tell = req[r].tell \/ req'[r].student = None
      BY <2>2, GotoMoves, ReturnMoves DEF SetFlag, Goto, Return, Drawing
    <3>2. /\ UNCHANGED <<day, told, met>>
          /\ \A s \in Student : student'[s].pin = student[s].pin /\ student'[s].day = student[s].day
      BY <2>2 DEF SetFlag, TypeOK
    <3>3. \A p \in Request, s \in Student : Handling(p, s)' => Handling(p, s)
      BY <3>1, <1>0 DEF Handling
    <3>4. \A p \in Request : Drawing(p)' => Drawing(p) /\ req'[p] = req[p]
      BY <3>1 DEF At, Drawing
    <3> QED BY <3>2, <3>3, <3>4 DEF StudentInv, Drawing
  <2>3. CASE ReadPin(r)
    <3> DEFINE s == req[r].student
    <3>1. s \in Student /\ UNCHANGED <<day, student, met>>
      BY <2>3, <2>s DEF ReadPin, At, PinStep
    <3>2. CASE Current(student[s])
      <4>1. Return(r) /\ (told' = told \/ told' = [told EXCEPT ![s] = student[s].pin])
        BY <2>3, <3>2 DEF ReadPin, Tell
      <4>2. student[s].day = day
        BY <3>2 DEF Current
      <4>3. \A t \in Student : told'[t] = told[t] \/ (t = s /\ told'[t] = student[s].pin)
        BY <4>1, <3>1 DEF TypeOK
      <4>4. \A p \in Request \ {r} : req'[p] = req[p]
        BY <4>1, ReturnMoves DEF Return
      <4>5. req'[r].student = None
        BY <4>1, ReturnMoves DEF Return
      <4>6. \A p \in Request, t \in Student : Handling(p, t)' => Handling(p, t) /\ p # r
        BY <4>4, <4>5, <1>0 DEF Handling
      <4>7. \A t \in Student \ met : told'[t] # None =>
               student[t].pin = told'[t] /\ student[t].day = day
        BY <4>2, <4>3 DEF StudentInv, Drawing
      <4>8. \A t \in Student \ met : \A p \in Request : Handling(p, t)' => t # s
        BY <4>6, <3>1 DEF StudentInv, Handling, Drawing
      <4>9. \A t \in Student \ met : \A p \in Request :
               Handling(p, t)' /\ Drawing(p)' /\ ~req'[p].tell => told'[t] = None
        BY <4>3, <4>4, <4>6, <4>8 DEF StudentInv, At, Drawing
      <4> QED BY <3>1, <4>6, <4>7, <4>9 DEF StudentInv, Drawing
    <3>3. CASE ~Current(student[s])
      <4>1. Goto(r, "generate") /\ told' = told
        BY <2>3, <3>3 DEF ReadPin
      <4>2. s \notin met => told[s] = None
        <5> SUFFICES ASSUME s \notin met, told[s] # None PROVE FALSE
          OBVIOUS
        <5>1. student[s].pin = told[s] /\ student[s].day = day
          BY <3>1 DEF StudentInv, Drawing
        <5> QED BY <5>1, <3>3 DEF Current
      <4>3. /\ req'[r].student = req[r].student /\ req'[r].tell = req[r].tell
            /\ \A q \in Request \ {r} : req'[q] = req[q]
        BY <4>1, GotoMoves DEF Goto
      <4> QED BY <3>1, <4>1, <4>2, <4>3, StudentKept DEF Drawing
    <3> QED BY <3>2, <3>3
  \* Whoever is told a PIN is told the one that is stored.
  <2>4. CASE GeneratePin(r)
    <3> DEFINE s == req[r].student
    <3>1. s \in Student /\ UNCHANGED <<day, met>>
      BY <2>4, <2>s DEF GeneratePin, At, PinStep
    <3>2. /\ \A q \in Request \ {r} : req'[q] = req[q]
          /\ req'[r].student = None
      BY <2>4, ReturnMoves DEF GeneratePin, Return
    <3>3. \A p \in Request, t \in Student : Handling(p, t)' => Handling(p, t) /\ p # r
      BY <3>2, <1>0 DEF Handling
    <3>4. \A t \in Student \ met : \A p \in Request : Handling(p, t)' => t # s
      BY <3>3, <3>1 DEF StudentInv, Handling, Drawing
    <3>5. \A t \in Student \ {s} : student'[t] = student[t] /\ told'[t] = told[t]
      BY <2>4, <3>1 DEF GeneratePin, Tell, TypeOK
    <3>6. s \in Student \ met /\ told'[s] # None =>
             student'[s].pin = told'[s] /\ student'[s].day = day
      <4>1. CASE UNCHANGED <<student, told>>
        BY <4>1, <3>1 DEF StudentInv, Drawing
      <4>2. CASE /\ student' = [student EXCEPT ![s].pin = drawn + 1, ![s].day = req[r].date]
                 /\ Tell(r, drawn + 1, req[r].date)
        <5>1. student'[s].pin = drawn + 1 /\ student'[s].day = req[r].date
          BY <4>2, <3>1 DEF TypeOK
        <5>2. CASE req[r].tell
          <6>1. told'[s] = IF req[r].date = day THEN drawn + 1 ELSE None
            BY <5>2, <4>2, <3>1 DEF Tell, TypeOK
          <6> QED BY <5>1, <6>1
        <5>3. CASE ~req[r].tell
          <6>1. told' = told
            BY <5>3, <4>2 DEF Tell
          <6>2. s \in Student \ met => told[s] = None
            BY <5>3, <2>4, <3>1 DEF StudentInv, Handling, GeneratePin, Drawing, At
          <6> QED BY <6>1, <6>2
        <5> QED BY <5>2, <5>3
      <4> QED BY <2>4, <4>1, <4>2 DEF GeneratePin
    <3>7. \A t \in Student \ met : \A p \in Request :
             Handling(p, t)' /\ Drawing(p)' /\ ~req'[p].tell => told'[t] = None
      BY <3>2, <3>3, <3>4, <3>5 DEF StudentInv, At, Drawing
    <3>8. \A t \in Student \ met : told'[t] # None =>
             student'[t].pin = told'[t] /\ student'[t].day = day
      BY <3>5, <3>6 DEF StudentInv, Drawing
    <3> QED BY <3>1, <3>3, <3>7, <3>8 DEF StudentInv, Drawing
  <2>5. CASE ReadDate(r)
    <3>1. /\ req[r].pc = "generate" /\ req'[r].pc = "update"
          /\ req'[r].student = req[r].student /\ req'[r].tell = req[r].tell
          /\ \A q \in Request \ {r} : req'[q] = req[q]
      BY <2>5, DateMoves
    <3>2. UNCHANGED <<day, student, told, met>>
      BY <2>5, DateMoves DEF pinVars
    <3>3. ~req[r].tell /\ req[r].student \in Student \ met => told[req[r].student] = None
      BY <3>1 DEF StudentInv, Drawing, Handling
    <3> QED BY <3>1, <3>2, <3>3, StudentKept
  <2>6. CASE ReadMode(r)
    <3>1. /\ req'[r].pc = "flagged" /\ \A q \in Request \ {r} : req'[q] = req[q]
          /\ req'[r].student = req[r].student /\ req'[r].tell = req[r].tell
      BY <2>6, ReadMoves DEF ReadMode, Drawing
    <3>2. UNCHANGED <<day, student, told, met>>
      BY <2>6 DEF ReadMode, pinVars
    <3> QED BY <3>1, <3>2, StudentKept DEF Drawing
  <2>7. CASE ReadFlag(r)
    <3>1. Goto(r, "read") \/ Return(r)
      BY <2>7 DEF ReadFlag
    <3>2. /\ ~Drawing(r)' /\ \A q \in Request \ {r} : req'[q] = req[q]
          /\ req'[r].student \in {req[r].student, None}
          /\ req'[r].tell = req[r].tell \/ req'[r].student = None
      BY <3>1, GotoMoves, ReturnMoves DEF Goto, Return, Drawing
    <3>3. UNCHANGED <<day, student, told, met>>
      BY <2>7 DEF ReadFlag
    <3> QED BY <3>2, <3>3, StudentKept
  <2> QED BY <1>3, <2>1, <2>2, <2>3, <2>4, <2>5, <2>6, <2>7 DEF PinSteps
<1>4. CASE ShowPIN \/ SetPIN \/ UNCHANGED vars
  BY <1>4 DEF ShowPIN, SetPIN, vars, StudentInv, Handling, At, Drawing
<1>5. ASSUME NEW s \in Student, WaivePIN(s) PROVE StudentInv'
  <2>1. /\ UNCHANGED <<day, told, met, req>>
        /\ \A t \in Student : student'[t].pin = student[t].pin /\ student'[t].day = student[t].day
    BY <1>5 DEF WaivePIN, TypeOK
  <2> QED BY <2>1 DEF StudentInv, Handling, At, Drawing
<1>6. ASSUME NEW s \in Student, ReplaceRow(s) PROVE StudentInv'
  <2>1. /\ UNCHANGED <<day, told, req>> /\ met' = met \cup {s}
        /\ \A t \in Student \ {s} : student'[t] = student[t]
    BY <1>6 DEF ReplaceRow, TypeOK
  <2> QED BY <2>1 DEF StudentInv, Handling, At, Drawing
<1>7. CASE NextDay
  <2>1. /\ req' = req /\ \A s \in Student : told'[s] = None
        /\ \A s \in Student \ met' : \A r, q \in Request : Handling(r, s) /\ Handling(q, s) => r = q
    BY <1>7 DEF NextDay
  <2> QED BY <2>1 DEF StudentInv, Handling, At, Drawing
<1>8. CASE Restart
  <2>1. UNCHANGED <<day, student, told, met>> /\ \A r \in Request : req'[r].student = None
    BY <1>8 DEF Restart, Idle
  <2> QED BY <2>1, <1>0 DEF StudentInv, Handling, Drawing
<1> QED
  BY <1>1, <1>3, <1>4, <1>5, <1>6, <1>7, <1>8 DEF Next

-----------------------------------------------------------------------------
(* The inductive invariant and what it implies *)

IInv == TypeOK /\ WantInv /\ ModeInv /\ ShownPinWorks /\ StudentInv

LEMMA Invariance == Spec => []IInv
<1>1. Init => IInv
  <2> SUFFICES ASSUME Init PROVE IInv
    OBVIOUS
  <2>1. TypeOK
    BY InitTypes
  <2>2. \A r \in Request : req[r].pc = "idle" /\ req[r].student = None
    BY DEF Init, Idle
  <2>3. WantInv
    BY <2>2 DEF WantInv, ModeStep
  <2>4. ModeInv
    <3>1. \A r \in Request : ~ChangingMode(r)
      BY <2>2 DEF ChangingMode, ModeStep
    <3>2. Value(mode) = "off" /\ saved = "off" /\ ~require
      BY DEF Init, Value
    <3> QED BY <3>1, <3>2 DEF ModeInv
  <2>5. ShownPinWorks
    BY DEF Init, ShownPinWorks
  <2>6. StudentInv
    BY <2>2, NamesAssumption DEF Init, StudentInv, Handling
  <2> QED BY <2>1, <2>3, <2>4, <2>5, <2>6 DEF IInv
<1>2. IInv /\ [Next]_vars => IInv'
  <2> SUFFICES ASSUME IInv, [Next]_vars PROVE IInv'
    OBVIOUS
  <2> USE DEF IInv
  <2>1. TypeOK' /\ ShownPinWorks'
    BY OtherStep
  <2>2. WantInv' /\ ModeInv'
    <3>1. CASE \E r \in Request : ModeSteps(r)
      BY <3>1, ModeStepInv
    <3>2. CASE \A r \in Request : ~ModeSteps(r)
      BY <3>2, OtherModeInv
    <3> QED BY <3>1, <3>2
  <2>3. StudentInv'
    BY StudentStepInv
  <2> QED BY <2>1, <2>2, <2>3
<1> QED
  BY <1>1, <1>2, PTL DEF Spec

\* Types of the PINs, the mode and all requests, whatever they do to each other
\* (App.PinMode is assigned word by word).
THEOREM TypeCorrect == Spec => []TypeOK
<1>1. IInv => TypeOK
  BY DEF IInv
<1> QED
  BY Invariance, <1>1, PTL

\* A change of the PIN mode that no other change overlaps leaves the mode and
\* the flag beside it in agreement (HandlePINMode, HandlePINToggle).
THEOREM ModeAndFlagAgree == Spec => []ModeAgrees
<1>1. IInv => ModeAgrees
  BY DEF IInv, ModeInv, ModeAgrees
<1> QED
  BY Invariance, <1>1, PTL

\* Such a change, once it is written, is the mode of the next start (saveConfig).
THEOREM SavedModeReturns == Spec => []SavedMode
<1>1. IInv => SavedMode
  BY DEF IInv, ModeInv, SavedMode
<1> QED
  BY Invariance, <1>1, PTL

\* The daily rotation never replaces a PIN that was shown today (EnsureDailyPIN).
THEOREM ShownPinIsValid == Spec => []ShownPinWorks
<1>1. IInv => ShownPinWorks
  BY DEF IInv
<1> QED
  BY Invariance, <1>1, PTL

\* A student's PIN is the PIN of today an admin was told, if one request at a time
\* handles it (EnsureDailyStudentPin, GenerateStudentPin).
THEOREM ToldPinIsValid == Spec => []StudentPinsWork
<1>1. IInv => StudentPinsWork
  BY DEF IInv, StudentInv, StudentPinsWork
<1> QED
  BY Invariance, <1>1, PTL

\* Both agreements hold of any number of requests that set the mode and save
\* it: what is in use, and what the next start will use.
THEOREM ModeStaysKept == Spec => []ModeIsKept
<1>1. ModeAgrees /\ SavedMode => ModeIsKept
  BY DEF ModeIsKept
<1> QED
  BY ModeAndFlagAgree, SavedModeReturns, <1>1, PTL

-----------------------------------------------------------------------------
(* Accounts: the inductive invariant *)

\* A session's slice is within its array, it has every account once, and
\* the mark where it belongs.
Fits(h) == /\ h.arr \in 1..Len(array)
           /\ h.len \in 1..Len(array[h.arr])
           /\ h.active \in 1..h.len
Distinct(h) == \A i, j \in 1..h.len :
                  i # j => array[h.arr][i].id # array[h.arr][j].id
Named(h)  == \A i \in 1..h.len : array[h.arr][i].id \in Account
Marked(h) == \A i \in 1..h.len :
                array[h.arr][i].super => array[h.arr][i].id \in Super
Sound(t) == Live(t) => /\ t \in used
                       /\ Fits(session[t]) /\ Distinct(session[t]) /\ Named(session[t])
                       /\ t \notin blurred => Marked(session[t])

\* No two sessions share an array.
OwnArrays == \A t, u \in Token : Live(t) /\ Live(u) /\ t # u =>
                session[t].arr # session[u].arr

\* The cell that a request has added, where it says.
Placed(r, i) == /\ Live(tab[r].token)
                /\ i \in 1..session[tab[r].token].len
                /\ array[session[tab[r].token].arr][i] = Entry(tab[r].id)
Place(r) ==
    /\ tab[r].pc \in {"add", "switch", "create", "mark"} => tab[r].id \in Account
    /\ TabAt(r, "switch") => tab[r].idx # 0
    /\ TabAt(r, "mark") => tab[r].id \in Super
    /\ TabAt(r, "switch") /\ ~tab[r].disturbed => Placed(r, tab[r].idx)
    /\ TabAt(r, "mark") /\ ~tab[r].disturbed =>
          Placed(r, session[tab[r].token].active)

\* What a request encodes is not behind the end of the slice that grows there.
View(r) ==
    TabAt(r, "encode") /\ ~tab[r].disturbed =>
        /\ tab[r].head.arr \in 1..Len(array)
        /\ tab[r].head.len <= Len(array[tab[r].head.arr])
        /\ Ids(tab[r].head) = tab[r].then
        /\ \A t \in Token : Live(t) /\ session[t].arr = tab[r].head.arr =>
              t = tab[r].token /\ tab[r].head.len <= session[t].len

Types == /\ array \in Seq(Seq(Cell)) /\ Len(array) <= MaxArray
         /\ session \in [Token -> Header]
         /\ used \subseteq Token
         /\ cookie \in Token \cup {Nothing}
         /\ tab \in [Tab -> TabState]
         /\ blurred \subseteq Token

AInv == /\ Types
        /\ OwnArrays
        /\ \A t \in Token : Sound(t)
        /\ \A r \in Tab : Place(r) /\ View(r)

-----------------------------------------------------------------------------
(* Accounts: the arrays *)

Memory == Seq(Seq(Cell))

\* A function on 1..n is a sequence.
LEMMA FunctionsAreSequences ==
    ASSUME NEW S, NEW n \in Nat, NEW f \in [1..n -> S]
    PROVE  f \in Seq(S) /\ Len(f) = n /\ DOMAIN f = 1..n
<1>1. f \in Seq(S)
  BY SeqDef
<1>2. DOMAIN f = 1..n /\ DOMAIN f = 1..Len(f) /\ Len(f) \in Nat
  BY <1>1, LenProperties
<1> QED  BY <1>1, <1>2

\* What a sequence of sequences has where.
LEMMA Arrays ==
    ASSUME NEW A \in Memory
    PROVE  /\ Len(A) \in Nat /\ DOMAIN A = 1..Len(A)
           /\ \A a \in 1..Len(A) : /\ A[a] \in Seq(Cell)
                                   /\ Len(A[a]) \in Nat /\ DOMAIN A[a] = 1..Len(A[a])
                                   /\ \A i \in 1..Len(A[a]) : A[a][i] \in Cell
<1>1. Len(A) \in Nat /\ DOMAIN A = 1..Len(A)
  BY LenProperties DEF Memory
<1>2. ASSUME NEW a \in 1..Len(A)
      PROVE  /\ A[a] \in Seq(Cell)
             /\ Len(A[a]) \in Nat /\ DOMAIN A[a] = 1..Len(A[a])
             /\ \A i \in 1..Len(A[a]) : A[a][i] \in Cell
  <2>1. A[a] \in Seq(Cell)
    BY <1>2, ElementOfSeq DEF Memory
  <2> QED  BY <2>1, LenProperties, ElementOfSeq
<1> QED  BY <1>1, <1>2

\* One array is replaced by another.
LEMMA ReplaceArray ==
    ASSUME NEW A \in Memory, NEW a \in 1..Len(A), NEW c \in Seq(Cell)
    PROVE  LET B == [A EXCEPT ![a] = c] IN
           /\ B \in Memory /\ Len(B) = Len(A)
           /\ B[a] = c
           /\ \A b \in 1..Len(A) : b # a => B[b] = A[b]
BY ExceptSeq DEF Memory

\* A cell is replaced.
Put(A, a, i, c) == [A EXCEPT ![a][i] = c]

LEMMA PutCell ==
    ASSUME NEW A \in Memory, NEW a \in 1..Len(A), NEW i \in 1..Len(A[a]),
           NEW c \in Cell
    PROVE  LET B == Put(A, a, i, c) IN
           /\ B \in Memory /\ Len(B) = Len(A)
           /\ Len(B[a]) = Len(A[a])
           /\ B[a][i] = c
           /\ \A j \in 1..Len(A[a]) : j # i => B[a][j] = A[a][j]
           /\ \A b \in 1..Len(A) : b # a => B[b] = A[b]
<1> DEFINE new == [A[a] EXCEPT ![i] = c]
<1>1. A[a] \in Seq(Cell)
  BY Arrays
<1>2. /\ new \in Seq(Cell) /\ Len(new) = Len(A[a])
      /\ \A j \in 1..Len(A[a]) : new[j] = IF j = i THEN c ELSE A[a][j]
  BY <1>1, ExceptSeq
<1>3. a \in DOMAIN A
  BY Arrays
<1>4. Put(A, a, i, c) = [A EXCEPT ![a] = new]
  BY <1>3 DEF Put
<1> HIDE DEF new
<1> DEFINE D == [A EXCEPT ![a] = new]
<1>5. /\ D \in Memory /\ Len(D) = Len(A) /\ D[a] = new
      /\ \A b \in 1..Len(A) : b # a => D[b] = A[b]
  BY <1>2, ReplaceArray
<1> HIDE DEF D
<1>6. Put(A, a, i, c) = D
  BY <1>4 DEF D
<1> QED  BY <1>2, <1>5, <1>6

\* An array is allocated.
LEMMA NewArray ==
    ASSUME NEW A \in Memory, NEW c \in Seq(Cell)
    PROVE  LET B == Append(A, c) IN
           /\ B \in Memory /\ Len(B) = Len(A) + 1
           /\ B[Len(A) + 1] = c
           /\ \A b \in 1..Len(A) : B[b] = A[b]
BY Arrays DEF Memory

\* Arrays that somebody holds are not freed.
LEMMA FreedArrays ==
    ASSUME array \in Memory
    PROVE  /\ Freed \in Memory /\ Len(Freed) = Len(array)
           /\ \A a \in 1..Len(array) : Held(a) => Freed[a] = array[a]
<1>1. <<>> \in Seq(Cell)
  BY EmptySeq
<1>2. DOMAIN array = 1..Len(array) /\ Len(array) \in Nat
  BY Arrays
<1>3. \A a \in 1..Len(array) : (IF Held(a) THEN array[a] ELSE <<>>) \in Seq(Cell)
  BY <1>1, Arrays
<1>4. Freed \in [1..Len(array) -> Seq(Cell)]
  BY <1>2, <1>3 DEF Freed
<1>5. Freed \in Memory /\ Len(Freed) = Len(array)
  BY <1>2, <1>4, FunctionsAreSequences DEF Memory
<1> QED  BY <1>2, <1>5 DEF Freed

-----------------------------------------------------------------------------
(* What a step that touches session t leaves as it was *)

Touch(t) ==
    /\ array' \in Memory /\ Len(array') <= MaxArray /\ Len(array) <= Len(array')
    /\ session' \in [Token -> Header]
    /\ \A u \in Token \ {t} : session'[u] = session[u]
    /\ \A a \in 1..Len(array) :
          Held(a) /\ (session[t] # Gone => a # session[t].arr) => array'[a] = array[a]
    /\ \/ session'[t] = Gone
       \/ session'[t].arr = Len(array) + 1
       \/ session[t] # Gone /\ session'[t].arr = session[t].arr

\* Who is about to encode session t's slice still finds it.
Shows(t) ==
    session[t] # Gone =>
        /\ Held(session[t].arr) =>
              /\ Len(array'[session[t].arr]) = Len(array[session[t].arr])
              /\ \A i \in 1..session[t].len :
                    array'[session[t].arr][i].id = array[session[t].arr][i].id
        /\ session'[t] # Gone /\ session'[t].arr = session[t].arr =>
              session[t].len <= session'[t].len

\* A request goes on, perhaps disturbed.
Waits(q) == tab'[q] \in {tab[q], [tab[q] EXCEPT !.disturbed = TRUE]}

LEMMA Lives == \A t \in Token : Live(t) <=> session[t] # Gone
BY NothingAssumption DEF Live

LEMMA LivesNext == \A t \in Token : Live(t)' <=> session'[t] # Gone
BY NothingAssumption DEF Live

\* The other sessions are what they were.
LEMMA OthersSound ==
    ASSUME AInv, NEW t \in Token, Touch(t), NEW u \in Token \ {t},
           used \subseteq used', u \in blurred' <=> u \in blurred
    PROVE  Sound(u)'
<1>1. CASE session[u] = Gone
  BY <1>1, LivesNext DEF Touch, Sound
<1>2. CASE session[u] # Gone
  <2>1. Sound(u) /\ Live(u) /\ session'[u] = session[u]
    BY <1>2, Lives DEF AInv, Touch
  <2>2. session[u].arr \in 1..Len(array) /\ Held(session[u].arr)
    BY <2>1 DEF Sound, Fits, Held
  <2>3. session[t] # Gone => session[u].arr # session[t].arr
    BY <2>1, Lives DEF AInv, OwnArrays
  <2>4. array'[session[u].arr] = array[session[u].arr]
    BY <2>2, <2>3 DEF Touch
  <2>5. Len(array) \in Nat /\ Len(array') \in Nat /\ Len(array) <= Len(array')
    BY Arrays DEF Touch, AInv, Types, Memory
  <2>6. Fits(session[u])' /\ Distinct(session[u])' /\ Named(session[u])'
    <3>1. Fits(session[u])'
      BY <2>1, <2>4, <2>5 DEF Sound, Fits
    <3>2. Distinct(session[u])'
      BY <2>1, <2>4 DEF Sound, Distinct
    <3>3. Named(session[u])'
      BY <2>1, <2>4 DEF Sound, Named
    <3> QED  BY <3>1, <3>2, <3>3
  <2>7. u \notin blurred' => Marked(session[u])'
    BY <2>1, <2>4 DEF Sound, Marked
  <2> QED  BY <2>1, <2>6, <2>7 DEF Sound
<1> QED  BY <1>1, <1>2

\* Arrays are still not shared.
LEMMA ArraysStayOwn ==
    ASSUME AInv, NEW t \in Token, Touch(t)
    PROVE  OwnArrays'
<1> SUFFICES ASSUME NEW u \in Token, NEW v \in Token, u # v,
                    session'[u] # Gone, session'[v] # Gone,
                    session'[u].arr = session'[v].arr
             PROVE  FALSE
  BY LivesNext DEF OwnArrays
<1>1. \A w \in Token : session[w] # Gone => session[w].arr \in 1..Len(array)
  BY Lives DEF AInv, Sound, Fits
<1>2. Len(array) \in Nat
  BY Arrays DEF AInv, Types, Memory
<1>3. \A w, x \in Token : w # x /\ session[w] # Gone /\ session[x] # Gone =>
          session[w].arr # session[x].arr
  BY Lives DEF AInv, OwnArrays
<1>4. \A w \in Token \ {t} : session'[w] # Gone /\ session'[t] # Gone =>
          session'[t].arr # session'[w].arr
  BY <1>1, <1>2, <1>3 DEF Touch
<1> QED  BY <1>3, <1>4 DEF Touch

\* What a request has added is where it was, or the request is disturbed.
LEMMA PlaceKept ==
    ASSUME AInv, NEW t \in Token, Touch(t), NEW q \in Tab, Waits(q),
           tab[q].token = t /\ tab[q].pc \in {"switch", "mark"} => tab'[q].disturbed
    PROVE  Place(q)'
<1>1. tab[q] \in TabState /\ Place(q)
  BY DEF AInv, Types
<1>2. /\ tab'[q].pc = tab[q].pc /\ tab'[q].id = tab[q].id /\ tab'[q].idx = tab[q].idx
      /\ tab'[q].token = tab[q].token
      /\ ~tab'[q].disturbed => ~tab[q].disturbed
  BY <1>1 DEF Waits, TabState
<1>3. ASSUME NEW i, tab[q].token # t, Placed(q, i)
      PROVE  Placed(q, i)' /\ session'[tab[q].token] = session[tab[q].token]
  <2> DEFINE u == tab[q].token
  <2>1. u \in Token \ {t} /\ Live(u) /\ i \in 1..session[u].len
        /\ array[session[u].arr][i] = Entry(tab[q].id)
    BY <1>1, <1>3 DEF Placed, Live, TabState
  <2>2. Sound(u) /\ session'[u] = session[u]
    BY <2>1 DEF AInv, Touch
  <2>3. session[u].arr \in 1..Len(array) /\ Held(session[u].arr)
    BY <2>1, <2>2 DEF Sound, Fits, Held
  <2>4. session[t] # Gone => session[u].arr # session[t].arr
    BY <2>1, Lives DEF AInv, OwnArrays
  <2>5. array'[session[u].arr] = array[session[u].arr]
    BY <2>3, <2>4 DEF Touch
  <2> QED  BY <1>2, <2>1, <2>2, <2>5 DEF Placed, Live
<1>4. TabAt(q, "switch")' /\ ~tab'[q].disturbed => Placed(q, tab[q].idx)'
  BY <1>1, <1>2, <1>3 DEF Place, TabAt
<1>5. TabAt(q, "mark")' /\ ~tab'[q].disturbed =>
        Placed(q, session[tab[q].token].active)' /\ session'[tab[q].token] = session[tab[q].token]
  BY <1>1, <1>2, <1>3 DEF Place, TabAt
<1> QED  BY <1>1, <1>2, <1>4, <1>5 DEF Place, TabAt, Placed

\* What a request encodes is what it was, or the request is disturbed.
LEMMA ViewKept ==
    ASSUME AInv, NEW t \in Token, Touch(t), NEW q \in Tab, Waits(q),
           Shows(t) \/ (tab[q].token = t /\ TabAt(q, "encode") => tab'[q].disturbed)
    PROVE  View(q)'
<1>1. tab[q] \in TabState /\ View(q)
  BY DEF AInv, Types
<1>2. /\ tab'[q].pc = tab[q].pc /\ tab'[q].token = tab[q].token
      /\ tab'[q].head = tab[q].head /\ tab'[q].then = tab[q].then
      /\ ~tab'[q].disturbed => ~tab[q].disturbed
  BY <1>1 DEF Waits, TabState
<1> SUFFICES ASSUME TabAt(q, "encode"), ~tab'[q].disturbed
             PROVE  /\ tab[q].head.arr \in 1..Len(array')
                    /\ tab[q].head.len <= Len(array'[tab[q].head.arr])
                    /\ Ids(tab[q].head)' = Ids(tab[q].head)
                    /\ \A u \in Token : session'[u] # Gone /\ session'[u].arr = tab[q].head.arr =>
                          u = tab[q].token /\ tab[q].head.len <= session'[u].len
  BY <1>1, <1>2, LivesNext DEF View, TabAt, Ids
<1> DEFINE h == tab[q].head
<1>3. /\ h.arr \in 1..Len(array) /\ h.len <= Len(array[h.arr])
      /\ \A u \in Token : session[u] # Gone /\ session[u].arr = h.arr =>
            u = tab[q].token /\ h.len <= session[u].len
  BY <1>1, <1>2, Lives DEF View
<1>4. h \in Header
  BY <1>1 DEF TabState
<1>5. Held(h.arr)
  BY <1>2 DEF Held
<1>6. Len(array) \in Nat /\ Len(array') \in Nat /\ Len(array) <= Len(array')
  BY Arrays DEF Touch, AInv, Types, Memory
<1>7. h.arr \in 1..Len(array') /\ h.arr # Len(array) + 1
  BY <1>3, <1>6
<1>8. ASSUME NEW u \in Token \ {t}
      PROVE  session'[u] # Gone /\ session'[u].arr = h.arr =>
                u = tab[q].token /\ h.len <= session'[u].len
  BY <1>3 DEF Touch
<1>9. CASE session[t] # Gone /\ session[t].arr = h.arr
  <2>1. Shows(t)
    BY <1>2, <1>3, <1>9
  <2>2. /\ Len(array'[h.arr]) = Len(array[h.arr])
        /\ \A i \in 1..session[t].len : array'[h.arr][i].id = array[h.arr][i].id
    BY <1>5, <1>9, <2>1 DEF Shows
  <2>3. session[t].len \in Nat /\ h.len \in Nat /\ h.len <= session[t].len
    BY <1>3, <1>4, <1>9 DEF AInv, Types, Header
  <2>4. \A i \in 1..h.len : array'[h.arr][i].id = array[h.arr][i].id
    BY <2>2, <2>3
  <2>5. Ids(h)' = Ids(h)
    BY <1>2, <2>4 DEF Ids
  <2>6. session'[t] # Gone /\ session'[t].arr = h.arr =>
            t = tab[q].token /\ h.len <= session'[t].len
    <3>1. t = tab[q].token
      BY <1>3, <1>9
    <3>2. session'[t] # Gone /\ session'[t].arr = h.arr => session[t].len <= session'[t].len
      BY <1>9, <2>1 DEF Shows
    <3>3. session'[t].len \in Nat
      BY DEF Touch, Header
    <3> QED  BY <2>3, <3>1, <3>2, <3>3
  <2> QED  BY <1>3, <1>7, <1>8, <2>2, <2>5, <2>6
<1>10. CASE ~(session[t] # Gone /\ session[t].arr = h.arr)
  <2>1. array'[h.arr] = array[h.arr]
    BY <1>3, <1>5, <1>10 DEF Touch
  <2>2. Ids(h)' = Ids(h)
    BY <1>2, <2>1 DEF Ids
  <2>3. ~(session'[t] # Gone /\ session'[t].arr = h.arr)
    BY <1>7, <1>10 DEF Touch
  <2> QED  BY <1>3, <1>7, <1>8, <2>1, <2>2, <2>3
<1> QED  BY <1>9, <1>10

\* What the other requests of session t are told by a step.
Heeds(q, t) ==
    /\ Waits(q)
    /\ tab[q].token = t /\ tab[q].pc \in {"switch", "mark"} => tab'[q].disturbed
    /\ Shows(t) \/ (tab[q].token = t /\ TabAt(q, "encode") => tab'[q].disturbed)

\* The same for all but request r, and for all of the sessions but t.
LEMMA Rest ==
    ASSUME AInv, NEW t \in Token, Touch(t), Sound(t)', used \subseteq used',
           blurred' \subseteq blurred \cup {t}, blurred \subseteq blurred',
           NEW R \in SUBSET Tab,
           \A q \in Tab \ R : Heeds(q, t),
           \A r \in R : Place(r)' /\ View(r)',
           Types'
    PROVE  AInv'
<1>1. \A u \in Token : Sound(u)'
  BY OthersSound
<1>2. \A q \in Tab : Place(q)' /\ View(q)'
  BY PlaceKept, ViewKept DEF Heeds
<1> QED  BY <1>1, <1>2, ArraysStayOwn DEF AInv

\* The same for a step of one request.
LEMMA RestOfOne ==
    ASSUME AInv, NEW t \in Token, Touch(t), Sound(t)', used \subseteq used',
           blurred' \subseteq blurred \cup {t}, blurred \subseteq blurred',
           NEW r \in Tab, Place(r)', View(r)',
           \A q \in Tab \ {r} : Heeds(q, t),
           Types'
    PROVE  AInv'
<1> DEFINE R == {r}
<1>1. R \in SUBSET Tab /\ \A q \in R : Place(q)' /\ View(q)'
  OBVIOUS
<1>2. \A q \in Tab \ R : Heeds(q, t)
  OBVIOUS
<1> HIDE DEF R
<1> QED  BY <1>1, <1>2, Rest

\* The same for a step that changes no session.
LEMMA NothingTouched ==
    ASSUME AInv, UNCHANGED <<array, session, used, blurred>>,
           NEW r \in Tab, Place(r)' /\ View(r)',
           \A q \in Tab \ {r} : tab'[q] = tab[q],
           Types'
    PROVE  AInv'
<1>1. OwnArrays' /\ \A t \in Token : Sound(t)'
  BY DEF AInv, OwnArrays, Sound, Live, Fits, Distinct, Named, Marked
<1>2. \A q \in Tab \ {r} : Place(q)' /\ View(q)'
  BY DEF AInv, Place, View, Placed, Live, TabAt, Ids
<1> QED  BY <1>1, <1>2 DEF AInv

-----------------------------------------------------------------------------
(* The methods of the store *)

\* What is known of the slice of a session.
LEMMA Slice ==
    ASSUME AInv, NEW t \in Token, Live(t)
    PROVE  /\ session[t] \in Header /\ session[t] # Gone /\ t \in used
           /\ array \in Memory /\ Len(array) \in Nat /\ Len(array) <= MaxArray
           /\ session[t].arr \in 1..Len(array)
           /\ array[session[t].arr] \in Seq(Cell)
           /\ Len(array[session[t].arr]) \in Nat
           /\ DOMAIN array[session[t].arr] = 1..Len(array[session[t].arr])
           /\ session[t].len \in 1..Len(array[session[t].arr])
           /\ session[t].active \in 1..session[t].len
           /\ \A i \in 1..Len(array[session[t].arr]) : array[session[t].arr][i] \in Cell
<1>1. array \in Memory /\ Len(array) <= MaxArray /\ session[t] \in Header
  BY DEF AInv, Types, Memory
<1>2. t \in used /\ Fits(session[t]) /\ session[t] # Gone
  BY DEF AInv, Sound, Live
<1> QED  BY <1>1, <1>2, Arrays DEF Fits

\* Writing a cell of a session's array.
LEMMA PutInSlice ==
    ASSUME AInv, NEW t \in Token, Live(t), NEW a, a = session[t].arr,
           NEW n \in 1..Len(array[a]), NEW c \in Cell
    PROVE  LET B == Put(array, a, n, c) IN
           /\ B \in Memory /\ Len(B) = Len(array)
           /\ Len(B[a]) = Len(array[a])
           /\ B[a][n] = c
           /\ \A j \in 1..Len(array[a]) : j # n => B[a][j] = array[a][j]
           /\ \A b \in 1..Len(array) : b # a => B[b] = array[b]
<1>1. array \in Memory /\ a \in 1..Len(array)
  BY Slice
<1> QED  BY <1>1, PutCell

\* Adding a cell behind the slice, wherever that is.
LEMMA GrownIsSound ==
    ASSUME AInv, NEW t \in Token, Live(t), NEW c \in Cell,
           c.id \in Account, c.super => c.id \in Super, Positions(t, c.id) = {},
           array' \in Memory, session'[t].arr \in 1..Len(array'),
           session'[t].len = session[t].len + 1, session'[t].active = session[t].active,
           session'[t].len <= Len(array'[session'[t].arr]),
           \A i \in 1..session[t].len :
              array'[session'[t].arr][i] = array[session[t].arr][i],
           array'[session'[t].arr][session[t].len + 1] = c,
           used' = used, blurred' = blurred
    PROVE  Sound(t)'
<1> DEFINE h == session[t]
           k == session'[t]
<1>1. h.len \in Nat /\ k.len \in Nat /\ h.active \in 1..h.len /\ t \in used
      /\ Len(array'[k.arr]) \in Nat
  BY Slice, Arrays
<1>2. \A i \in 1..k.len : i \in 1..h.len \/ i = h.len + 1
  BY <1>1
<1>3. \A i \in 1..h.len : array[h.arr][i].id # c.id
  BY DEF Positions
<1>4. Distinct(h) /\ Named(h) /\ (t \notin blurred => Marked(h))
  BY DEF AInv, Sound
<1>5. Fits(h)'
  BY <1>1 DEF Fits
<1>6. Distinct(h)'
  <2> SUFFICES ASSUME NEW i \in 1..k.len, NEW j \in 1..k.len, i # j
               PROVE  array'[k.arr][i].id # array'[k.arr][j].id
    BY DEF Distinct
  <2>1. CASE i \in 1..h.len /\ j \in 1..h.len
    BY <1>4, <2>1 DEF Distinct
  <2>2. CASE i \in 1..h.len /\ j = h.len + 1
    BY <1>3, <2>2
  <2>3. CASE i = h.len + 1 /\ j \in 1..h.len
    BY <1>3, <2>3
  <2> QED  BY <1>2, <2>1, <2>2, <2>3
<1>7. Named(h)'
  BY <1>2, <1>4 DEF Named
<1>8. t \notin blurred' => Marked(h)'
  BY <1>2, <1>4 DEF Marked
<1> QED  BY <1>1, <1>5, <1>6, <1>7, <1>8 DEF Sound

\* What AddIdentity does.
Joined(t, c) ==
    /\ Touch(t) /\ Shows(t) /\ Sound(t)' /\ session'[t] # Gone
    /\ Index(t, c.id) \in 1..session'[t].len
    /\ array'[session'[t].arr][Index(t, c.id)] = c

LEMMA ReplacedIdentity ==
    ASSUME AInv, NEW t \in Token, Live(t), NEW c \in Cell,
           c.id \in Account, c.super => c.id \in Super, Positions(t, c.id) # {},
           NEW n, n = Index(t, c.id),
           array' = [array EXCEPT ![session[t].arr][n] = c],
           UNCHANGED <<session, used, blurred>>
    PROVE  Joined(t, c)
<1> DEFINE h == session[t]
<1>1. n \in 1..h.len /\ array[h.arr][n].id = c.id
  BY DEF Index, Positions
<1>2. n \in 1..Len(array[h.arr])
  BY <1>1, Slice
<1>3. /\ array' \in Memory /\ Len(array') = Len(array)
      /\ Len(array'[h.arr]) = Len(array[h.arr])
      /\ array'[h.arr][n] = c
      /\ \A j \in 1..Len(array[h.arr]) : j # n => array'[h.arr][j] = array[h.arr][j]
      /\ \A b \in 1..Len(array) : b # h.arr => array'[b] = array[b]
  <2> DEFINE B == Put(array, h.arr, n, c)
  <2>1. array' = B
    BY DEF Put
  <2>2. array \in Memory /\ h.arr \in 1..Len(array)
    BY Slice
  <2>3. /\ B \in Memory /\ Len(B) = Len(array)
        /\ Len(B[h.arr]) = Len(array[h.arr])
        /\ B[h.arr][n] = c
        /\ \A j \in 1..Len(array[h.arr]) : j # n => B[h.arr][j] = array[h.arr][j]
        /\ \A b \in 1..Len(array) : b # h.arr => B[b] = array[b]
    BY <1>2, PutInSlice
  <2> HIDE DEF B
  <2> QED  BY <2>1, <2>3
<1>4. \A i \in 1..h.len : /\ array'[h.arr][i].id = array[h.arr][i].id
                          /\ array'[h.arr][i] = c \/ array'[h.arr][i] = array[h.arr][i]
  BY <1>1, <1>3, Slice
<1>5. Touch(t)
  BY <1>3, Slice DEF Touch, AInv, Types
<1>6. Shows(t)
  BY <1>3, <1>4, Slice DEF Shows
<1>7. Sound(t)'
  <2>1. Sound(t)
    BY DEF AInv
  <2>2. Fits(h)'
    BY <1>3, <2>1 DEF Fits, Sound
  <2>3. Distinct(h)'
    BY <1>4, <2>1 DEF Distinct, Sound
  <2>4. Named(h)'
    BY <1>4, <2>1 DEF Named, Sound
  <2>5. t \notin blurred' => Marked(h)'
    BY <1>4, <2>1 DEF Marked, Sound
  <2> QED  BY <2>1, <2>2, <2>3, <2>4, <2>5, Slice DEF Sound
<1> QED  BY <1>1, <1>2, <1>3, <1>5, <1>6, <1>7, Slice DEF Joined

LEMMA AppendedIdentity ==
    ASSUME AInv, NEW t \in Token, Live(t), NEW c \in Cell,
           c.id \in Account, c.super => c.id \in Super, Positions(t, c.id) = {},
           Appended(t, c), UNCHANGED <<used, blurred>>
    PROVE  Joined(t, c)
<1> DEFINE h == session[t]
           k == session'[t]
<1>1. /\ h \in Header /\ array \in Memory /\ Len(array) \in Nat /\ Len(array) <= MaxArray
      /\ h.arr \in 1..Len(array) /\ h.len \in 1..Len(array[h.arr])
      /\ Len(array[h.arr]) \in Nat /\ h # Gone
      /\ \A i \in 1..Len(array[h.arr]) : array[h.arr][i] \in Cell
  BY Slice
<1>2. /\ session \in [Token -> Header] /\ MaxArray \in Nat
  BY ArraysAssumption DEF AInv, Types
<1>3. Index(t, c.id) = h.len + 1
  BY DEF Index
<1>4. SUFFICES /\ array' \in Memory /\ Len(array') <= MaxArray /\ Len(array) <= Len(array')
               /\ session' = [session EXCEPT ![t] = [@ EXCEPT !.len = h.len + 1, !.arr = k.arr]]
               /\ \/ k.arr = h.arr
                  \/ k.arr = Len(array) + 1
               /\ k.arr \in 1..Len(array')
               /\ h.len + 1 <= Len(array'[k.arr])
               /\ \A a \in 1..Len(array) : Held(a) /\ a # h.arr => array'[a] = array[a]
               /\ \A i \in 1..h.len : array'[k.arr][i] = array[h.arr][i]
               /\ array'[k.arr][h.len + 1] = c
               /\ Held(h.arr) => /\ Len(array'[h.arr]) = Len(array[h.arr])
                                 /\ \A i \in 1..h.len : array'[h.arr][i] = array[h.arr][i]
  <2>1. /\ k \in Header /\ k.len = h.len + 1 /\ k.active = h.active /\ k # Gone
        /\ session' \in [Token -> Header] /\ \A u \in Token \ {t} : session'[u] = session[u]
    <3>1. k = [h EXCEPT !.len = h.len + 1, !.arr = k.arr]
      BY <1>2, <1>4
    <3>2. k.arr \in 0..MaxArray
      BY <1>1, <1>2, <1>4, Arrays
    <3>3. k \in Header /\ k.len = h.len + 1 /\ k.active = h.active
      <4>1. k = [arr |-> k.arr, len |-> h.len + 1, active |-> h.active]
        BY <1>1, <3>1 DEF Header
      <4>2. h.len + 1 \in Nat /\ h.active \in Nat
        BY <1>1 DEF Header
      <4> QED  BY <3>2, <4>1, <4>2 DEF Header
    <3>4. k.arr # 0
      BY <1>1, <1>4, Arrays
    <3> QED  BY <1>2, <1>4, <3>3, <3>4 DEF Gone
  <2>2. Sound(t)'
    BY <1>4, <2>1, GrownIsSound
  <2>3. Touch(t)
    BY <1>1, <1>4, <2>1 DEF Touch
  <2>4. Shows(t)
    BY <1>1, <1>4, <2>1 DEF Shows
  <2> QED  BY <1>1, <1>3, <1>4, <2>1, <2>2, <2>3, <2>4 DEF Joined
<1>5. CASE Spare(h)
  <2> DEFINE n == h.len + 1
             B == Put(array, h.arr, n, c)
  <2>1. array' = B /\ session' = [session EXCEPT ![t].len = @ + 1]
    BY <1>5 DEF Appended, Put
  <2>2. n \in 1..Len(array[h.arr])
    BY <1>1, <1>5 DEF Spare
  <2>9. n = h.len + 1
    OBVIOUS
  <2> HIDE DEF n
  <2>3. /\ B \in Memory /\ Len(B) = Len(array)
        /\ Len(B[h.arr]) = Len(array[h.arr])
        /\ B[h.arr][n] = c
        /\ \A j \in 1..Len(array[h.arr]) : j # n => B[h.arr][j] = array[h.arr][j]
        /\ \A b \in 1..Len(array) : b # h.arr => B[b] = array[b]
    BY <2>2, PutInSlice
  <2> HIDE DEF B
  <2>4. k = [h EXCEPT !.len = h.len + 1]
    BY <1>2, <2>1
  <2>5. k.arr = h.arr
    BY <1>1, <2>4 DEF Header
  <2>6. session' = [session EXCEPT ![t] = [@ EXCEPT !.len = h.len + 1, !.arr = k.arr]]
    <3>1. [h EXCEPT !.len = h.len + 1, !.arr = k.arr] = k
      BY <1>1, <2>4, <2>5 DEF Header
    <3> QED  BY <1>2, <2>1, <2>4, <3>1
  <2>7. \A i \in 1..h.len : B[h.arr][i] = array[h.arr][i]
    <3>1. \A i \in 1..h.len : i \in 1..Len(array[h.arr]) /\ i # n
      BY <1>1, <2>9
    <3> QED  BY <2>3, <3>1
  <2>8. B[h.arr][n] = c
    BY <2>2, <2>3
  <2> QED  BY <1>1, <2>9, <2>1, <2>2, <2>3, <2>5, <2>6, <2>7, <2>8
<1>6. CASE ~Spare(h)
  <2> DEFINE D == Doubled(h, c)
             B == Append(Freed, D)
  <2>1. /\ array' = B /\ Len(array) < MaxArray
        /\ session' = [session EXCEPT ![t].len = @ + 1, ![t].arr = Len(array) + 1]
    BY <1>6 DEF Appended
  <2>15. /\ \A i \in 1..h.len : D[i] = array[h.arr][i]
         /\ D[h.len + 1] = c
    <3>1. /\ h.len + 1 \in 1..(2 * h.len)
          /\ \A i \in 1..h.len : i \in 1..(2 * h.len) /\ i # h.len + 1
      BY <1>1
    <3> QED  BY <1>1, <3>1 DEF Doubled
  <2>2. D \in Seq(Cell) /\ Len(D) = 2 * h.len
    <3>1. D \in [1..(2 * h.len) -> Cell]
      <4>1. Blank \in Cell
        BY DEF Blank, Cell
      <4> QED  BY <1>1, <4>1 DEF Doubled
    <3>2. 2 * h.len \in Nat
      BY <1>1
    <3> HIDE DEF D
    <3> QED  BY <3>1, <3>2, FunctionsAreSequences
  <2> HIDE DEF D
  <2>3. /\ Freed \in Memory /\ Len(Freed) = Len(array)
        /\ \A a \in 1..Len(array) : Held(a) => Freed[a] = array[a]
    BY <1>1, FreedArrays
  <2>4. /\ B \in Memory /\ Len(B) = Len(array) + 1 /\ B[Len(array) + 1] = D
        /\ \A b \in 1..Len(array) : B[b] = Freed[b]
    BY <2>2, <2>3, NewArray
  <2> HIDE DEF B
  <2>5. k = [h EXCEPT !.len = h.len + 1, !.arr = Len(array) + 1]
    BY <1>2, <2>1
  <2>6. k.arr = Len(array) + 1
    BY <1>1, <2>5 DEF Header
  <2>7. session' = [session EXCEPT ![t] = [@ EXCEPT !.len = h.len + 1, !.arr = k.arr]]
    BY <1>2, <2>1, <2>6
  <2>8. h.len + 1 <= Len(B[k.arr]) /\ k.arr \in 1..Len(B)
    BY <1>1, <2>2, <2>4, <2>6
  <2>9. \A a \in 1..Len(array) : Held(a) => B[a] = array[a]
    BY <2>3, <2>4
  <2>10. B[k.arr] = D
    BY <2>4, <2>6
  <2>11. Held(h.arr) => /\ Len(B[h.arr]) = Len(array[h.arr])
                        /\ \A i \in 1..h.len : B[h.arr][i] = array[h.arr][i]
    <3>1. h.arr \in 1..Len(array)
      BY <1>1
    <3>2. Held(h.arr) => B[h.arr] = array[h.arr]
      BY <2>9, <3>1
    <3> QED  BY <3>2
  <2>12. Len(B) <= MaxArray /\ Len(array) <= Len(B)
    BY <1>1, <1>2, <2>1, <2>4
  <2>13. /\ \A i \in 1..h.len : B[k.arr][i] = array[h.arr][i]
         /\ B[k.arr][h.len + 1] = c
    BY <2>10, <2>15
  <2>14. array' = B
    BY <2>1
  <2> QED  BY <2>4, <2>6, <2>7, <2>8, <2>9, <2>11, <2>12, <2>13, <2>14
<1> QED  BY <1>5, <1>6

\* A session loses its account at position i; the others move up.
LEMMA RemovedIdentity ==
    ASSUME AInv, NEW t \in Token, Live(t), NEW i \in 1..session[t].len,
           RemoveIdentity(t, i), UNCHANGED <<used, blurred>>
    PROVE  /\ Touch(t) /\ Sound(t)'
           /\ session'[t] = Gone <=> session[t].len = 1
           /\ session'[t] # Gone =>
                 \/ array'[session'[t].arr][session'[t].active].id = Active(t)
                 \/ \A j \in 1..session'[t].len :
                       array'[session'[t].arr][j].id # Active(t)
<1> DEFINE h == session[t]
           n == h.len - 1
           old == array[h.arr]
           new == [j \in DOMAIN old |-> IF j \in i..n THEN old[j + 1] ELSE old[j]]
           now == IF h.active > n THEN n
                  ELSE IF h.active > i THEN h.active - 1 ELSE h.active
           src(j) == IF j >= i THEN j + 1 ELSE j
<1>1. /\ h \in Header /\ array \in Memory /\ Len(array) \in Nat /\ Len(array) <= MaxArray
      /\ h.arr \in 1..Len(array) /\ h.len \in 1..Len(old)
      /\ h.active \in 1..h.len /\ DOMAIN old = 1..Len(old)
      /\ Len(old) \in Nat /\ h # Gone /\ t \in used
      /\ \A j \in 1..Len(old) : old[j] \in Cell
  BY Slice
<1>2. session \in [Token -> Header]
  BY DEF AInv, Types
<1>3. n \in Nat /\ h.len \in Nat /\ i \in 1..h.len
  BY <1>1
<1>4. array' = [array EXCEPT ![h.arr] = new]
  BY DEF RemoveIdentity
<1>5. new \in Seq(Cell) /\ Len(new) = Len(old)
  <2>1. \A j \in 1..Len(old) : j \in i..n => old[j + 1] \in Cell
    <3>1. \A j \in 1..Len(old) : j \in i..n => j + 1 \in 1..Len(old)
      BY <1>1, <1>3
    <3> QED  BY <1>1, <3>1
  <2>2. new \in [1..Len(old) -> Cell]
    BY <1>1, <2>1
  <2> HIDE DEF new
  <2> QED  BY <1>1, <2>2, FunctionsAreSequences
<1>6. \A j \in 1..n : src(j) \in 1..h.len /\ new[j] = old[src(j)]
  <2> SUFFICES ASSUME NEW j \in 1..n
               PROVE  src(j) \in 1..h.len /\ new[j] = old[src(j)]
    OBVIOUS
  <2>1. j \in 1..Len(old) /\ src(j) \in 1..h.len
    BY <1>1, <1>3
  <2>2. new[j] = IF j \in i..n THEN old[j + 1] ELSE old[j]
    BY <1>1, <2>1
  <2>3. j \in i..n <=> j >= i
    BY <1>3
  <2> QED  BY <2>1, <2>2, <2>3
<1> HIDE DEF new
<1>7. /\ array' \in Memory /\ Len(array') = Len(array) /\ array'[h.arr] = new
      /\ \A a \in 1..Len(array) : a # h.arr => array'[a] = array[a]
  <2> DEFINE B == [array EXCEPT ![h.arr] = new]
  <2>1. /\ B \in Memory /\ Len(B) = Len(array) /\ B[h.arr] = new
        /\ \A a \in 1..Len(array) : a # h.arr => B[a] = array[a]
    BY <1>1, <1>5, ReplaceArray
  <2> HIDE DEF B
  <2> QED  BY <1>4, <2>1 DEF B
<1>8. CASE n = 0
  <2>1. session' = [session EXCEPT ![t] = Gone]
    BY <1>8 DEF RemoveIdentity
  <2>2. session'[t] = Gone /\ session' \in [Token -> Header]
        /\ \A u \in Token \ {t} : session'[u] = session[u]
    <3>1. Gone \in Header
      BY ArraysAssumption DEF Gone, Header
    <3> QED  BY <1>2, <2>1, <3>1
  <2>3. h.len = 1
    BY <1>3, <1>8
  <2>4. Touch(t)
    BY <1>1, <1>7, <2>2 DEF Touch
  <2>5. Sound(t)'
    BY <2>2 DEF Sound, Live
  <2> QED  BY <2>2, <2>3, <2>4, <2>5
<1>9. CASE n # 0
  <2>1. session' = [session EXCEPT ![t] = [arr |-> h.arr, len |-> n, active |-> now]]
    BY <1>9 DEF RemoveIdentity
  <2>2. now \in 1..n
    BY <1>1, <1>3, <1>9
  <2>3. (h.active = i \/ src(now) = h.active) /\ n \in 1..Len(old)
    BY <1>1, <1>3, <1>9
  <2> HIDE DEF now
  <2>4. /\ session'[t] = [arr |-> h.arr, len |-> n, active |-> now]
        /\ \A u \in Token \ {t} : session'[u] = session[u]
    BY <1>2, <2>1
  <2>5. session' \in [Token -> Header]
    <3>1. [arr |-> h.arr, len |-> n, active |-> now] \in Header
      BY <1>1, <1>3, <2>2 DEF Header
    <3> QED  BY <1>2, <2>1, <3>1
  <2>6. session'[t] # Gone
    <3>1. session'[t].arr # Gone.arr
      BY <1>1, <2>4 DEF Gone
    <3> QED  BY <3>1
  <2>7. Touch(t)
    BY <1>1, <1>7, <2>4, <2>5 DEF Touch
  <2> DEFINE k == session'[t]
  <2>8. k.arr = h.arr /\ k.len = n /\ k.active = now
    BY <2>4
  <2> HIDE DEF k
  <2>9. Distinct(h) /\ Named(h) /\ (t \notin blurred => Marked(h))
    BY DEF AInv, Sound
  <2>10. \A j, l \in 1..n : j # l => src(j) # src(l)
    BY <1>3
  <2>11. Fits(session[t])'
    BY <1>1, <1>5, <1>7, <2>2, <2>3, <2>8 DEF Fits, k
  <2>12. \A j \in 1..n : array'[k.arr][j] = old[src(j)] /\ src(j) \in 1..h.len
    BY <1>6, <1>7, <2>8
  <2> HIDE DEF src, n
  <2>13. \A j, l \in 1..n : j # l => array'[k.arr][j].id # array'[k.arr][l].id
    BY <2>9, <2>10, <2>12 DEF Distinct
  <2>14. Named(session[t])'
    BY <2>8, <2>9, <2>12 DEF Named, k
  <2>15. t \notin blurred' => Marked(session[t])'
    BY <2>8, <2>9, <2>12 DEF Marked, k
  <2>16. Distinct(session[t])'
    BY <2>8, <2>13 DEF Distinct, k
  <2>17. Sound(t)'
    BY <1>1, <2>11, <2>14, <2>15, <2>16 DEF Sound, k
  <2>18. CASE h.active = i
    <3>1. \A j \in 1..n : src(j) # i
      BY <1>3 DEF src
    <3>2. \A j \in 1..n : array'[k.arr][j].id # old[i].id
      BY <1>3, <2>9, <2>12, <3>1 DEF Distinct
    <3> QED  BY <1>3, <1>9, <2>6, <2>7, <2>8, <2>17, <2>18, <3>2 DEF Active, k, n
  <2>19. CASE src(now) = h.active
    <3>1. array'[k.arr][k.active].id = old[h.active].id
      BY <2>2, <2>8, <2>12, <2>19
    <3> QED  BY <1>3, <1>9, <2>6, <2>7, <2>17, <3>1 DEF Active, k, n
  <2> QED  BY <2>3, <2>18, <2>19
<1> QED  BY <1>3, <1>8, <1>9

\* Another account becomes the active one.
LEMMA SwitchedIdentity ==
    ASSUME AInv, NEW t \in Token, Live(t), NEW i \in 1..session[t].len,
           session' = [session EXCEPT ![t].active = i],
           UNCHANGED <<array, used, blurred>>
    PROVE  /\ Touch(t) /\ Shows(t) /\ Sound(t)'
           /\ session'[t] # Gone /\ session'[t].active = i
           /\ session'[t].arr = session[t].arr /\ session'[t].len = session[t].len
<1> DEFINE h == session[t]
<1>1. /\ h \in Header /\ array \in Memory /\ Len(array) \in Nat /\ Len(array) <= MaxArray
      /\ h.arr \in 1..Len(array) /\ h.len \in 1..Len(array[h.arr])
      /\ Len(array[h.arr]) \in Nat /\ t \in used /\ h # Gone
  BY Slice
<1>2. session \in [Token -> Header]
  BY DEF AInv, Types
<1>3. /\ session'[t] = [arr |-> h.arr, len |-> h.len, active |-> i]
      /\ \A u \in Token \ {t} : session'[u] = session[u]
  BY <1>1, <1>2 DEF Header
<1>4. session' \in [Token -> Header]
  <2>1. [arr |-> h.arr, len |-> h.len, active |-> i] \in Header
    BY <1>1 DEF Header
  <2> QED  BY <1>1, <1>2, <1>3, <2>1 DEF Header
<1>5. session'[t] # Gone
  <2>1. session'[t].arr # Gone.arr
    BY <1>1, <1>3 DEF Gone
  <2> QED  BY <2>1
<1>6. Touch(t)
  BY <1>1, <1>3, <1>4 DEF Touch
<1>7. Shows(t)
  BY <1>1, <1>3 DEF Shows
<1>8. Sound(t)'
  <2>1. Sound(t)
    BY DEF AInv
  <2>2. Fits(session[t])'
    BY <1>1, <1>3 DEF Fits
  <2>3. Distinct(session[t])' /\ Named(session[t])'
    BY <1>3, <2>1 DEF Sound, Distinct, Named
  <2>4. t \notin blurred' => Marked(session[t])'
    BY <1>3, <2>1 DEF Sound, Marked
  <2> QED  BY <1>1, <2>2, <2>3, <2>4 DEF Sound
<1> QED  BY <1>3, <1>5, <1>6, <1>7, <1>8

\* The active account gets the mark, which is its due or noted in blurred.
LEMMA MarkedIdentity ==
    ASSUME AInv, NEW t \in Token, Live(t), NEW n, n = session[t].active,
           array' = [array EXCEPT ![session[t].arr][n].super = TRUE],
           UNCHANGED <<session, used>>, blurred \subseteq blurred',
           t \in blurred' \/ array[session[t].arr][n].id \in Super
    PROVE  /\ Touch(t) /\ Shows(t) /\ Sound(t)'
           /\ array'[session[t].arr][n] = [array[session[t].arr][n] EXCEPT !.super = TRUE]
<1> DEFINE h == session[t]
           c == [array[h.arr][n] EXCEPT !.super = TRUE]
           B == Put(array, h.arr, n, c)
<1>1. /\ h \in Header /\ array \in Memory /\ Len(array) \in Nat /\ Len(array) <= MaxArray
      /\ h.arr \in 1..Len(array) /\ h.len \in 1..Len(array[h.arr])
      /\ Len(array[h.arr]) \in Nat /\ t \in used /\ h # Gone
      /\ n \in 1..h.len /\ n \in 1..Len(array[h.arr])
      /\ array[h.arr][n] \in Cell
  BY Slice
<1>2. c \in Cell /\ c.id = array[h.arr][n].id
  BY <1>1 DEF Cell
<1>3. array' = B
  BY DEF Put
<1> HIDE DEF c
<1>4. /\ B \in Memory /\ Len(B) = Len(array)
      /\ Len(B[h.arr]) = Len(array[h.arr])
      /\ B[h.arr][n] = c
      /\ \A j \in 1..Len(array[h.arr]) : j # n => B[h.arr][j] = array[h.arr][j]
      /\ \A b \in 1..Len(array) : b # h.arr => B[b] = array[b]
  BY <1>1, <1>2, PutInSlice
<1> HIDE DEF B
<1>5. \A i \in 1..h.len : /\ array'[h.arr][i].id = array[h.arr][i].id
                          /\ i = n \/ array'[h.arr][i] = array[h.arr][i]
  BY <1>1, <1>2, <1>3, <1>4
<1>6. Touch(t)
  <2>1. session' \in [Token -> Header] /\ session' = session
    BY DEF AInv, Types
  <2>2. \A a \in 1..Len(array) : a # session[t].arr => array'[a] = array[a]
    BY <1>3, <1>4
  <2>3. array' \in Memory /\ Len(array') = Len(array)
    BY <1>3, <1>4
  <2> QED  BY <1>1, <2>1, <2>2, <2>3 DEF Touch
<1>7. Shows(t)
  <2>1. Len(array'[h.arr]) = Len(array[h.arr])
    BY <1>3, <1>4
  <2>2. \A i \in 1..h.len : array'[h.arr][i].id = array[h.arr][i].id
    BY <1>5
  <2>3. session'[t] = h
    OBVIOUS
  <2>4. h.len <= session'[t].len
    BY <1>1, <2>3 DEF Header
  <2> QED  BY <2>1, <2>2, <2>4 DEF Shows
<1>8. Sound(t)'
  <2>1. Sound(t)
    BY DEF AInv
  <2>2. Fits(session[t])'
    BY <1>3, <1>4, <2>1 DEF Fits, Sound
  <2>3. Distinct(session[t])'
    BY <1>5, <2>1 DEF Distinct, Sound
  <2>4. Named(session[t])'
    BY <1>5, <2>1 DEF Named, Sound
  <2>5. t \notin blurred' => Marked(session[t])'
    BY <1>5, <2>1 DEF Marked, Sound
  <2> QED  BY <1>1, <2>1, <2>2, <2>3, <2>4, <2>5 DEF Sound
<1> QED  BY <1>3, <1>4, <1>6, <1>7, <1>8 DEF c

\* The session is gone.
LEMMA VanishedSession ==
    ASSUME AInv, NEW t \in Token,
           session' = [session EXCEPT ![t] = Gone], array' = Freed,
           UNCHANGED <<used, blurred>>
    PROVE  Touch(t) /\ Shows(t) /\ Sound(t)' /\ array' \in Memory
           /\ Len(array') <= MaxArray /\ session' \in [Token -> Header]
<1>1. array \in Memory /\ Len(array) \in Nat /\ Len(array) <= MaxArray
  BY Arrays DEF AInv, Types, Memory
<1>2. /\ Freed \in Memory /\ Len(Freed) = Len(array)
      /\ \A a \in 1..Len(array) : Held(a) => Freed[a] = array[a]
  BY <1>1, FreedArrays
<1>3. Gone \in Header
  BY ArraysAssumption DEF Gone, Header
<1>4. session' \in [Token -> Header] /\ session'[t] = Gone
      /\ \A u \in Token \ {t} : session'[u] = session[u]
  BY <1>3 DEF AInv, Types
<1>5. Touch(t)
  BY <1>1, <1>2, <1>4 DEF Touch
<1>6. Shows(t)
  <2>1. session[t] # Gone => session[t].arr \in 1..Len(array)
    BY Lives, Slice
  <2> QED  BY <1>2, <1>4, <2>1 DEF Shows
<1>7. Sound(t)'
  BY <1>4 DEF Sound, Live
<1> QED  BY <1>1, <1>2, <1>4, <1>5, <1>6, <1>7

\* What a step tells the other requests of session t.
LEMMA Told ==
    ASSUME AInv, NEW t \in Token, NEW r \in Tab, NEW shift \in BOOLEAN,
           NEW local \in TabState, Noted(r, t, shift, local)
    PROVE  /\ tab' \in [Tab -> TabState] /\ tab'[r] = local
           /\ \A q \in Tab \ {r} :
                 /\ Shows(t) \/ shift => Heeds(q, t)
<1>1. tab \in [Tab -> TabState]
  BY DEF AInv, Types
<1>2. \A q \in Tab : [tab[q] EXCEPT !.disturbed = TRUE] \in TabState
                         /\ [tab[q] EXCEPT !.disturbed = TRUE].disturbed
  BY <1>1 DEF TabState
<1>3. Disturbed(t, shift) \in [Tab -> TabState]
  BY <1>1, <1>2 DEF Disturbed
<1>4. /\ tab' \in [Tab -> TabState] /\ tab'[r] = local
      /\ \A q \in Tab \ {r} : tab'[q] = Disturbed(t, shift)[q]
  BY <1>3 DEF Noted
<1> QED  BY <1>2, <1>4 DEF Disturbed, Waits, Heeds

-----------------------------------------------------------------------------
(* The steps *)

\* Nothing that the invariant looks at is said of a request at rest.
LEMMA AtRest ==
    ASSUME NEW r, tab'[r].pc \in {"idle", "list"}
    PROVE  Place(r)' /\ View(r)'
BY DEF Place, View, TabAt

LEMMA FreeTabIsState == FreeTab \in TabState /\ FreeTab.pc = "idle"
<1>1. Gone \in Header
  BY ArraysAssumption DEF Gone, Header
<1>2. <<>> \in Seq(Account \cup {Nothing})
  BY EmptySeq
<1> QED  BY <1>1, <1>2 DEF FreeTab, TabState

\* A request that returns.
LEMMA Returns ==
    ASSUME AInv, NEW r \in Tab, Finish(r)
    PROVE  /\ tab' \in [Tab -> TabState]
           /\ Place(r)' /\ View(r)'
           /\ \A q \in Tab \ {r} : tab'[q] = tab[q]
<1>1. tab \in [Tab -> TabState]
  BY DEF AInv, Types
<1>2. tab' \in [Tab -> TabState] /\ tab'[r] = FreeTab
      /\ \A q \in Tab \ {r} : tab'[q] = tab[q]
  BY <1>1, FreeTabIsState DEF Finish
<1> QED  BY <1>2, AtRest, FreeTabIsState

\* The identity of an account, with its mark.
LEMMA EntryIsCell ==
    ASSUME NEW id \in Account
    PROVE  Entry(id) \in Cell /\ Entry(id).id = id /\ (Entry(id).super <=> id \in Super)
<1>1. (id \in Super) \in BOOLEAN
  OBVIOUS
<1>2. Entry(id) \in Cell
  BY <1>1, Zenon DEF Entry, Cell
<1>3. Entry(id).id = id
  BY DEF Entry
<1>4. Entry(id).super = (id \in Super)
  BY Zenon DEF Entry
<1> QED  BY <1>2, <1>3, <1>4, Zenon

LEMMA BeginAddKeeps ==
    ASSUME AInv, NEW r \in Tab, NEW id \in Account, NEW login \in BOOLEAN,
           BeginAdd(r, id, login)
    PROVE  AInv'
<1> DEFINE local == [FreeTab EXCEPT !.pc = "add", !.login = login, !.token = cookie, !.id = id]
<1>1. tab \in [Tab -> TabState] /\ cookie \in Token \cup {Nothing}
  BY DEF AInv, Types
<1>2. local \in TabState /\ local.pc = "add" /\ local.id \in Account
  BY <1>1, FreeTabIsState DEF TabState
<1>3. tab' = [tab EXCEPT ![r] = local]
  BY DEF BeginAdd
<1> HIDE DEF local
<1>4. tab' \in [Tab -> TabState] /\ tab'[r] = local
      /\ \A q \in Tab \ {r} : tab'[q] = tab[q]
  BY <1>1, <1>2, <1>3
<1>5. Place(r)' /\ View(r)'
  BY <1>2, <1>4 DEF Place, View, TabAt
<1>6. Types' /\ UNCHANGED <<array, session, used, blurred>>
  BY <1>4 DEF AInv, Types, BeginAdd
<1> QED  BY <1>4, <1>5, <1>6, NothingTouched

LEMMA MissingKeeps ==
    ASSUME AInv, NEW r \in Tab, TabAt(r, "add"), Missing(r),
           UNCHANGED <<array, session, used, cookie, blurred>>
    PROVE  AInv'
<1>1. tab \in [Tab -> TabState] /\ Place(r)
  BY DEF AInv, Types
<1>2. /\ tab' \in [Tab -> TabState] /\ Place(r)' /\ View(r)'
      /\ \A q \in Tab \ {r} : tab'[q] = tab[q]
  <2>1. CASE tab[r].login
    <3> DEFINE local == [tab[r] EXCEPT !.pc = "create"]
    <3>1. local \in TabState /\ local.pc = "create" /\ local.id \in Account
      BY <1>1 DEF TabState, Place, TabAt
    <3>2. tab' = [tab EXCEPT ![r] = local]
      BY <1>1, <2>1 DEF Missing
    <3> HIDE DEF local
    <3>3. tab' \in [Tab -> TabState] /\ tab'[r] = local
          /\ \A q \in Tab \ {r} : tab'[q] = tab[q]
      BY <1>1, <3>1, <3>2
    <3> QED  BY <3>1, <3>3 DEF Place, View, TabAt
  <2>2. CASE ~tab[r].login
    BY <2>2, Returns DEF Missing
  <2> QED  BY <2>1, <2>2
<1>3. Types'
  BY <1>2 DEF AInv, Types
<1> QED  BY <1>2, <1>3, NothingTouched

LEMMA AddToLive ==
    ASSUME AInv, NEW r \in Tab, Add(r),
           NEW t \in Token, t = tab[r].token, Live(t)
    PROVE  AInv'
<1> DEFINE id == tab[r].id
           i == Index(t, tab[r].id)
           local == [tab[r] EXCEPT !.pc = "switch", !.idx = i]
<1>1. tab \in [Tab -> TabState] /\ Place(r) /\ tab[r] \in TabState
  BY DEF AInv, Types
<1>2. TabAt(r, "add") /\ id \in Account /\ UNCHANGED <<used, cookie, blurred>>
  BY <1>1 DEF Add, Place, TabAt
<1>3. Noted(r, t, FALSE, local) /\ AddIdentity(t, Entry(id))
  BY DEF Add
<1>4. Entry(id) \in Cell /\ Entry(id).id = id /\ (Entry(id).super => Entry(id).id \in Super)
  BY <1>2, EntryIsCell
<1>5. Joined(t, Entry(id))
  <2>1. CASE Positions(t, Entry(id).id) # {}
    BY <1>2, <1>3, <1>4, <2>1, ReplacedIdentity DEF AddIdentity
  <2>2. CASE Positions(t, Entry(id).id) = {}
    BY <1>2, <1>3, <1>4, <2>2, AppendedIdentity DEF AddIdentity
  <2> QED  BY <2>1, <2>2
<1>6. /\ Touch(t) /\ Shows(t) /\ Sound(t)' /\ session'[t] # Gone
      /\ i \in 1..session'[t].len /\ array'[session'[t].arr][i] = Entry(id)
  BY <1>4, <1>5 DEF Joined
<1> HIDE DEF i
<1>7. i \in Nat /\ i # 0
  BY <1>6 DEF Touch, Header
<1>8. /\ local \in TabState /\ local.pc = "switch" /\ local.idx = i
      /\ local.id = id /\ local.token = t
  BY <1>1, <1>7 DEF TabState
<1> HIDE DEF local
<1>9. /\ tab' \in [Tab -> TabState] /\ tab'[r] = local
      /\ \A q \in Tab \ {r} : Heeds(q, t)
  BY <1>3, <1>6, <1>8, Told
<1>10. View(r)'
  BY <1>8, <1>9 DEF View, TabAt
<1>11. Place(r)'
  <2>1. Placed(r, tab[r].idx)'
    BY <1>6, <1>8, <1>9, NothingAssumption DEF Placed, Live
  <2> QED  BY <1>2, <1>7, <1>8, <1>9, <2>1 DEF Place, TabAt
<1>12. Types'
  BY <1>2, <1>6, <1>9 DEF AInv, Types, Touch, Memory
<1> QED  BY <1>2, <1>6, <1>9, <1>10, <1>11, <1>12, RestOfOne

LEMMA AddKeeps ==
    ASSUME AInv, NEW r \in Tab, Add(r)
    PROVE  AInv'
<1>1. CASE ~Live(tab[r].token)
  BY <1>1, MissingKeeps DEF Add
<1>2. CASE Live(tab[r].token)
  <2>1. PICK t \in Token : t = tab[r].token
    BY <1>2 DEF Live, AInv, Types, TabState
  <2> QED  BY <1>2, <2>1, AddToLive
<1> QED  BY <1>1, <1>2

\* What a request is when the account has been switched to.
LEMMA AfterSwitch ==
    ASSUME AInv, NEW r \in Tab, TabAt(r, "switch")
    PROVE  LET done == IF tab[r].login /\ tab[r].id \in Super
                       THEN [tab[r] EXCEPT !.pc = "mark"] ELSE FreeTab
           IN  /\ done \in TabState
               /\ \/ done.pc = "idle"
                  \/ /\ done.pc = "mark" /\ done.id = tab[r].id /\ done.token = tab[r].token
                     /\ done.disturbed = tab[r].disturbed /\ tab[r].id \in Super
<1>1. tab[r] \in TabState
  BY DEF AInv, Types
<1> QED  BY <1>1, FreeTabIsState DEF TabState

LEMMA SwitchKeeps ==
    ASSUME AInv, NEW r \in Tab, Switch(r)
    PROVE  AInv'
<1> DEFINE done == IF tab[r].login /\ tab[r].id \in Super
                   THEN [tab[r] EXCEPT !.pc = "mark"] ELSE FreeTab
           idx == tab[r].idx
<1>1. /\ tab \in [Tab -> TabState] /\ Place(r) /\ tab[r] \in TabState
      /\ session \in [Token -> Header]
  BY DEF AInv, Types
<1>2. /\ TabAt(r, "switch") /\ tab[r].id \in Account /\ idx \in Nat /\ idx # 0
      /\ UNCHANGED <<array, used, cookie, blurred>>
  BY <1>1 DEF Switch, Place, TabAt, TabState
<1>3. /\ done \in TabState
      /\ \/ done.pc = "idle"
         \/ /\ done.pc = "mark" /\ done.id = tab[r].id /\ done.token = tab[r].token
            /\ done.disturbed = tab[r].disturbed /\ tab[r].id \in Super
  BY <1>2, AfterSwitch
<1>4. ~tab[r].disturbed => Placed(r, idx)
  BY <1>1, <1>2 DEF Place
<1>5. CASE ~(Live(tab[r].token) /\ idx <= session[tab[r].token].len)
  <2>1. tab' = [tab EXCEPT ![r] = done] /\ UNCHANGED session
    BY <1>5 DEF Switch
  <2> HIDE DEF done
  <2>2. tab' \in [Tab -> TabState] /\ tab'[r] = done
        /\ \A q \in Tab \ {r} : tab'[q] = tab[q]
    BY <1>1, <1>3, <2>1
  <2>3. tab[r].disturbed
    BY <1>4, <1>5 DEF Placed
  <2>4. Place(r)' /\ View(r)'
    BY <1>2, <1>3, <2>2, <2>3 DEF Place, View, TabAt
  <2>5. Types'
    BY <1>2, <2>1, <2>2 DEF AInv, Types
  <2> QED  BY <1>2, <2>1, <2>2, <2>4, <2>5, NothingTouched
<1>6. CASE Live(tab[r].token) /\ idx <= session[tab[r].token].len
  <2>1. PICK t \in Token : t = tab[r].token
    BY <1>1, <1>6 DEF Live, TabState
  <2>2. session[t].len \in Nat /\ Live(t)
    BY <1>1, <1>6, <2>1 DEF Header
  <2>3. idx \in 1..session[t].len
    BY <1>2, <1>6, <2>1, <2>2
  <2>4. session' = [session EXCEPT ![t].active = idx] /\ Noted(r, t, FALSE, done)
    BY <1>6, <2>1 DEF Switch
  <2> HIDE DEF done
  <2>5. /\ Touch(t) /\ Shows(t) /\ Sound(t)'
        /\ session'[t] # Gone /\ session'[t].active = idx
        /\ session'[t].arr = session[t].arr /\ session'[t].len = session[t].len
    BY <1>2, <2>2, <2>3, <2>4, SwitchedIdentity
  <2>6. /\ tab' \in [Tab -> TabState] /\ tab'[r] = done
        /\ \A q \in Tab \ {r} : Heeds(q, t)
    BY <1>3, <2>4, <2>5, Told
  <2>7. View(r)'
    BY <1>3, <2>6 DEF View, TabAt
  <2>8. Place(r)'
    <3>1. CASE done.pc = "idle"
      BY <2>6, <3>1 DEF Place, TabAt
    <3>2. CASE /\ done.pc = "mark" /\ done.id = tab[r].id /\ done.token = tab[r].token
               /\ done.disturbed = tab[r].disturbed /\ tab[r].id \in Super
      <4>1. ~tab[r].disturbed => array[session[t].arr][idx] = Entry(tab[r].id)
        BY <1>4, <2>1 DEF Placed
      <4>2. ~tab'[r].disturbed => Placed(r, session[tab[r].token].active)'
        BY <1>2, <2>1, <2>3, <2>5, <2>6, <3>2, <4>1, NothingAssumption DEF Placed, Live
      <4> QED  BY <1>2, <2>6, <3>2, <4>2 DEF Place, TabAt
    <3> QED  BY <1>3, <3>1, <3>2
  <2>9. Types'
    BY <1>2, <2>5, <2>6 DEF AInv, Types, Touch, Memory
  <2> QED  BY <1>2, <2>5, <2>6, <2>7, <2>8, <2>9, RestOfOne
<1> QED  BY <1>5, <1>6

LEMMA CreateKeeps ==
    ASSUME AInv, NEW r \in Tab, Create(r)
    PROVE  AInv'
<1> DEFINE c == Entry(tab[r].id)
           n == Len(array) + 1
<1>1. /\ tab \in [Tab -> TabState] /\ Place(r)
      /\ session \in [Token -> Header] /\ used \subseteq Token
      /\ array \in Memory /\ Len(array) \in Nat /\ Len(array) <= MaxArray
  BY Arrays DEF AInv, Types, Memory
<1>2. /\ tab[r].id \in Account /\ Len(array) < MaxArray
      /\ Finish(r) /\ UNCHANGED blurred
  BY <1>1 DEF Create, Place, TabAt
<1>3. PICK t \in Token \ used :
          /\ array' = Append(array, <<c>>)
          /\ session' = [session EXCEPT ![t] = [arr |-> n, len |-> 1, active |-> 1]]
          /\ used' = used \cup {t} /\ cookie' = t
  BY DEF Create
<1>4. c \in Cell /\ c.id = tab[r].id /\ (c.super => c.id \in Super)
  BY <1>2, EntryIsCell
<1> HIDE DEF c
<1>5. <<c>> \in Seq(Cell) /\ Len(<<c>>) = 1 /\ <<c>>[1] = c
  BY <1>4
<1>6. /\ array' \in Memory /\ Len(array') = n /\ array'[n] = <<c>>
      /\ \A b \in 1..Len(array) : array'[b] = array[b]
  BY <1>1, <1>3, <1>5, NewArray
<1>7. session[t] = Gone
  BY <1>3, Lives DEF AInv, Sound
<1>8. /\ session'[t] = [arr |-> n, len |-> 1, active |-> 1]
      /\ session' \in [Token -> Header]
      /\ \A u \in Token \ {t} : session'[u] = session[u]
  <2>1. [arr |-> n, len |-> 1, active |-> 1] \in Header
    BY <1>1, <1>2, ArraysAssumption DEF Header
  <2> QED  BY <1>1, <1>3, <2>1
<1>9. Touch(t)
  BY <1>1, <1>2, <1>6, <1>7, <1>8, ArraysAssumption DEF Touch
<1>10. Shows(t)
  BY <1>7 DEF Shows
<1>11. Sound(t)'
  <2>1. Len(array'[n]) = 1 /\ array'[n][1] = c
    BY <1>5, <1>6
  <2>2. Fits(session[t])'
    <3>1. n \in 1..Len(array')
      BY <1>1, <1>6
    <3> HIDE DEF n
    <3>2. session'[t].arr = n /\ session'[t].len = 1 /\ session'[t].active = 1
      BY <1>8
    <3>3. Len(array'[session'[t].arr]) = 1
      BY <2>1, <3>2
    <3> QED  BY <3>1, <3>2, <3>3 DEF Fits
  <2>3. Distinct(session[t])'
    BY <1>8 DEF Distinct
  <2>4. Named(session[t])' /\ Marked(session[t])'
    BY <1>2, <1>4, <1>8, <2>1 DEF Named, Marked
  <2> QED  BY <1>3, <2>2, <2>3, <2>4 DEF Sound
<1>12. \A q \in Tab \ {r} : Heeds(q, t)
  <2> SUFFICES ASSUME NEW q \in Tab \ {r}
               PROVE  Heeds(q, t)
    OBVIOUS
  <2>1. tab'[q] = tab[q]
    BY <1>2, Returns
  <2>2. tab[q].token = t /\ tab[q].pc \in {"switch", "mark"} => tab[q].disturbed
    BY <1>7, Lives DEF AInv, Place, Placed, TabAt
  <2> QED  BY <1>10, <2>1, <2>2 DEF Heeds, Waits
<1>13. Types'
  BY <1>1, <1>2, <1>3, <1>6, <1>8, Returns, ArraysAssumption DEF AInv, Types, Memory
<1> QED  BY <1>2, <1>3, <1>9, <1>11, <1>12, <1>13, Returns, RestOfOne

\* The mark, for the account that is active by now.
LEMMA MarkLive ==
    ASSUME AInv, NEW r \in Tab, Mark(r),
           NEW t \in Token, t = tab[r].token, Live(t)
    PROVE  /\ AInv'
           /\ ~tab[r].disturbed =>
                 /\ session'[t] # Gone
                 /\ array'[session'[t].arr][session'[t].active] = Entry(tab[r].id)
<1> DEFINE n == session[t].active
<1>1. /\ tab \in [Tab -> TabState] /\ Place(r) /\ tab[r].id \in Account
      /\ TabAt(r, "mark") /\ blurred \subseteq Token
  BY DEF AInv, Types, Mark, Place, TabAt
<1>2. /\ array' = [array EXCEPT ![session[t].arr][n].super = TRUE]
      /\ Noted(r, t, FALSE, FreeTab)
      /\ blurred' = IF tab[r].disturbed THEN blurred \cup {t} ELSE blurred
      /\ UNCHANGED <<session, used, cookie>>
  BY DEF Mark
<1>3. tab[r].id \in Super
  BY <1>1 DEF Place
<1>4. ~tab[r].disturbed => array[session[t].arr][n] = Entry(tab[r].id)
  BY <1>1 DEF Place, Placed
<1>5. Entry(tab[r].id) \in Cell /\ Entry(tab[r].id).id = tab[r].id
      /\ Entry(tab[r].id).super
  BY <1>1, <1>3, EntryIsCell
<1>6. t \in blurred' \/ array[session[t].arr][n].id \in Super
  BY <1>2, <1>3, <1>4, <1>5
<1>7. blurred \subseteq blurred' /\ blurred' \subseteq blurred \cup {t}
  BY <1>2
<1>8. /\ Touch(t) /\ Shows(t) /\ Sound(t)'
      /\ array'[session[t].arr][n] = [array[session[t].arr][n] EXCEPT !.super = TRUE]
  BY <1>2, <1>6, <1>7, MarkedIdentity
<1>9. /\ tab' \in [Tab -> TabState] /\ tab'[r] = FreeTab
      /\ \A q \in Tab \ {r} : Heeds(q, t)
  BY <1>2, <1>8, FreeTabIsState, Told
<1>10. Place(r)' /\ View(r)'
  BY <1>9, AtRest, FreeTabIsState
<1>11. Types'
  BY <1>1, <1>2, <1>7, <1>8, <1>9 DEF AInv, Types, Touch, Memory
<1>12. AInv'
  BY <1>2, <1>7, <1>8, <1>9, <1>10, <1>11, RestOfOne
<1>13. ASSUME ~tab[r].disturbed
       PROVE  array'[session'[t].arr][session'[t].active] = Entry(tab[r].id)
  <2>1. [Entry(tab[r].id) EXCEPT !.super = TRUE] = Entry(tab[r].id)
    BY <1>5 DEF Cell
  <2> QED  BY <1>2, <1>4, <1>8, <1>13, <2>1
<1> QED  BY <1>2, <1>12, <1>13, Lives

LEMMA MarkKeeps ==
    ASSUME AInv, NEW r \in Tab, Mark(r)
    PROVE  AInv'
<1>1. CASE ~Live(tab[r].token)
  <2>1. Finish(r) /\ UNCHANGED <<array, session, used, cookie, blurred>>
    BY <1>1 DEF Mark
  <2>2. Types'
    BY <2>1, Returns DEF AInv, Types
  <2> QED  BY <2>1, <2>2, Returns, NothingTouched
<1>2. CASE Live(tab[r].token)
  <2>1. PICK t \in Token : t = tab[r].token
    BY <1>2 DEF Live, AInv, Types, TabState
  <2> QED  BY <1>2, <2>1, MarkLive
<1> QED  BY <1>1, <1>2

LEMMA SwitchToKeeps ==
    ASSUME AInv, NEW r \in Tab, NEW i, SwitchTo(r, i)
    PROVE  AInv'
<1>1. Live(cookie)
  BY DEF SwitchTo
<1>2. PICK t \in Token : t = cookie
  BY <1>1 DEF Live, AInv, Types
<1>3. /\ Live(t) /\ i \in 1..session[t].len
      /\ session' = [session EXCEPT ![t].active = i]
      /\ Noted(r, t, FALSE, FreeTab) /\ UNCHANGED <<array, used, cookie, blurred>>
  BY <1>2 DEF SwitchTo
<1>4. Touch(t) /\ Shows(t) /\ Sound(t)'
  BY <1>3, SwitchedIdentity
<1>5. /\ tab' \in [Tab -> TabState] /\ tab'[r] = FreeTab
      /\ \A q \in Tab \ {r} : Heeds(q, t)
  BY <1>3, <1>4, FreeTabIsState, Told
<1>6. Place(r)' /\ View(r)'
  BY <1>5, AtRest, FreeTabIsState
<1>7. Types'
  BY <1>3, <1>4, <1>5 DEF AInv, Types, Touch, Memory
<1> QED  BY <1>3, <1>4, <1>5, <1>6, <1>7, RestOfOne

LEMMA RemoveKeeps ==
    ASSUME AInv, NEW r \in Tab, NEW i, Remove(r, i)
    PROVE  AInv'
<1> DEFINE local == IF session[cookie].len = 1 THEN FreeTab
                    ELSE [FreeTab EXCEPT !.pc = "list", !.token = cookie]
<1>1. Live(cookie)
  BY DEF Remove
<1>2. PICK t \in Token : t = cookie
  BY <1>1 DEF Live, AInv, Types
<1>3. /\ Live(t) /\ i \in 1..session[t].len /\ RemoveIdentity(t, i)
      /\ Noted(r, t, TRUE, local) /\ UNCHANGED <<used, blurred>>
      /\ cookie' \in Token \cup {Nothing}
  BY <1>2 DEF Remove
<1>4. Touch(t) /\ Sound(t)'
  BY <1>3, RemovedIdentity
<1>5. local \in TabState /\ local.pc \in {"idle", "list"}
  BY <1>2, FreeTabIsState DEF TabState
<1> HIDE DEF local
<1>6. /\ tab' \in [Tab -> TabState] /\ tab'[r] = local
      /\ \A q \in Tab \ {r} : Heeds(q, t)
  BY <1>3, <1>5, Told
<1>7. Place(r)' /\ View(r)'
  BY <1>5, <1>6, AtRest
<1>8. Types'
  BY <1>3, <1>4, <1>6 DEF AInv, Types, Touch, Memory
<1> QED  BY <1>3, <1>4, <1>6, <1>7, <1>8, RestOfOne

LEMMA ListLive ==
    ASSUME AInv, NEW r \in Tab, NEW t \in Token, Live(t),
           tab' = [tab EXCEPT ![r] = [FreeTab EXCEPT !.pc = "encode", !.token = t,
                                          !.head = session[t], !.then = Ids(session[t])]],
           UNCHANGED <<array, session, used, cookie, blurred>>
    PROVE  AInv'
<1> DEFINE h == session[t]
           local == [FreeTab EXCEPT !.pc = "encode", !.token = t, !.head = h, !.then = Ids(h)]
<1>1. tab \in [Tab -> TabState]
  BY DEF AInv, Types
<1>2. /\ h \in Header /\ h.arr \in 1..Len(array)
      /\ h.len \in 1..Len(array[h.arr]) /\ Len(array[h.arr]) \in Nat
  BY Slice
<1>3. Ids(h) \in Seq(Account \cup {Nothing})
  <2>1. Named(h)
    BY DEF AInv, Sound
  <2>2. Ids(h) \in [1..h.len -> Account \cup {Nothing}]
    BY <2>1 DEF Ids, Named
  <2>3. h.len \in Nat
    BY <1>2
  <2> QED  BY <2>2, <2>3, FunctionsAreSequences
<1>4. /\ local \in TabState /\ local.pc = "encode" /\ local.token = t
      /\ local.head = h /\ local.then = Ids(h)
  BY <1>2, <1>3, FreeTabIsState DEF TabState
<1> HIDE DEF local
<1>5. /\ tab' \in [Tab -> TabState] /\ tab'[r] = local
      /\ \A q \in Tab \ {r} : tab'[q] = tab[q]
  BY <1>1, <1>4 DEF local
<1>6. Place(r)'
  BY <1>4, <1>5 DEF Place, TabAt
<1>7. View(r)'
  <2>1. \A u \in Token : session[u] # Gone /\ session[u].arr = h.arr =>
            u = t /\ h.len <= session[u].len
    BY <1>2, Lives DEF AInv, OwnArrays
  <2>2. Ids(tab[r].head)' = tab'[r].then
    BY <1>4, <1>5 DEF Ids
  <2> QED  BY <1>2, <1>4, <1>5, <2>1, <2>2, LivesNext DEF View
<1>8. Types'
  BY <1>5 DEF AInv, Types
<1> QED  BY <1>5, <1>6, <1>7, <1>8, NothingTouched

LEMMA ListKeeps ==
    ASSUME AInv, NEW r \in Tab, List(r)
    PROVE  AInv'
<1> DEFINE u == IF TabAt(r, "list") THEN tab[r].token ELSE cookie
<1>1. UNCHANGED <<array, session, used, cookie, blurred>>
  BY DEF List
<1>2. CASE Live(u)
  <2>1. PICK t \in Token : t = u
    BY <1>2 DEF Live, AInv, Types, TabState
  <2> QED  BY <1>1, <1>2, <2>1, ListLive DEF List
<1>3. CASE ~Live(u)
  <2>1. Finish(r)
    BY <1>3 DEF List
  <2>2. Types'
    BY <1>1, <2>1, Returns DEF AInv, Types
  <2> QED  BY <1>1, <2>1, <2>2, Returns, NothingTouched
<1> QED  BY <1>2, <1>3

LEMMA EncodeKeeps ==
    ASSUME AInv, NEW r \in Tab, Encode(r)
    PROVE  AInv'
<1>1. Finish(r) /\ UNCHANGED <<array, session, used, cookie, blurred>>
  BY DEF Encode
<1>2. Types'
  BY <1>1, Returns DEF AInv, Types
<1> QED  BY <1>1, <1>2, Returns, NothingTouched

\* A session that ends by itself or by a logout.
LEMMA EndKeeps ==
    ASSUME AInv, NEW t \in Token, session' = [session EXCEPT ![t] = Gone],
           array' = Freed, tab' = Disturbed(t, FALSE),
           UNCHANGED <<used, blurred>>, cookie' \in Token \cup {Nothing}
    PROVE  AInv'
<1>1. tab \in [Tab -> TabState]
  BY DEF AInv, Types
<1>2. \A q \in Tab : [tab[q] EXCEPT !.disturbed = TRUE] \in TabState
                         /\ [tab[q] EXCEPT !.disturbed = TRUE].disturbed
  BY <1>1 DEF TabState
<1>3. Touch(t) /\ Shows(t) /\ Sound(t)' /\ array' \in Memory
      /\ Len(array') <= MaxArray /\ session' \in [Token -> Header]
  BY VanishedSession
<1>4. tab' \in [Tab -> TabState]
  BY <1>1, <1>2 DEF Disturbed
<1>5. \A q \in Tab \ {} : Heeds(q, t)
  BY <1>2, <1>3 DEF Disturbed, Heeds, Waits
<1>6. Types'
  BY <1>3, <1>4 DEF AInv, Types, Memory
<1> DEFINE R == {}
<1>7. /\ R \in SUBSET Tab /\ \A q \in Tab \ R : Heeds(q, t)
      /\ \A q \in R : Place(q)' /\ View(q)'
  BY <1>5
<1> HIDE DEF R
<1> QED  BY <1>3, <1>6, <1>7, Rest

LEMMA LogoutKeeps == AInv /\ Logout => AInv'
<1> SUFFICES ASSUME AInv, Logout PROVE AInv'
  OBVIOUS
<1>1. PICK t \in Token : t = cookie
  BY DEF Logout, AInv, Types
<1> QED  BY <1>1, EndKeeps DEF Logout

LEMMA ExpireKeeps ==
    ASSUME AInv, NEW t \in Token, Expire(t)
    PROVE  AInv'
<1>1. cookie' \in Token \cup {Nothing}
  BY DEF Expire, AInv, Types
<1> QED  BY <1>1, EndKeeps DEF Expire

\* Nothing but the browser's cookie is left.
Empty == /\ array = <<>> /\ session = [t \in Token |-> Gone]
         /\ tab = [r \in Tab |-> FreeTab]
         /\ used \subseteq Token /\ cookie \in Token \cup {Nothing} /\ blurred \subseteq Token

LEMMA EmptyStore == Empty => AInv
<1> SUFFICES ASSUME Empty PROVE AInv
  OBVIOUS
<1>1. Gone \in Header
  BY ArraysAssumption DEF Gone, Header
<1>2. <<>> \in Memory /\ Len(<<>>) = 0
  BY EmptySeq DEF Memory
<1>3. Types
  BY <1>1, <1>2, FreeTabIsState, ArraysAssumption DEF Types, Memory, Empty
<1>4. \A t \in Token : ~Live(t)
  BY DEF Live, Empty
<1>5. OwnArrays /\ \A t \in Token : Sound(t)
  BY <1>4 DEF OwnArrays, Sound
<1>6. \A r \in Tab : Place(r) /\ View(r)
  BY FreeTabIsState DEF Place, View, TabAt, Empty
<1> QED  BY <1>3, <1>5, <1>6 DEF AInv

LEMMA RestartKeeps == AInv /\ StoreRestart => AInv'
<1>1. AInv => used \subseteq Token /\ cookie \in Token \cup {Nothing} /\ blurred \subseteq Token
  BY DEF AInv, Types
<1>2. AInv /\ StoreRestart => Empty'
  BY <1>1 DEF StoreRestart, Empty
<1> QED  BY <1>2, EmptyStore, PTL

LEMMA Begins == AInit => AInv
BY EmptyStore DEF AInit, Empty

LEMMA Steps == AInv /\ [ANext]_accountVars => AInv'
<1> SUFFICES ASSUME AInv, [ANext]_accountVars PROVE AInv'
  OBVIOUS
<1>1. CASE \E r \in Tab : Handler(r)
  <2>1. PICK r \in Tab : Handler(r)
    BY <1>1
  <2> QED  BY <2>1, BeginAddKeeps, AddKeeps, SwitchKeeps, CreateKeeps, MarkKeeps,
              SwitchToKeeps, RemoveKeeps, ListKeeps, EncodeKeeps DEF Handler
<1>2. CASE Logout
  BY <1>2, LogoutKeeps
<1>3. CASE \E t \in Token : Expire(t)
  BY <1>3, ExpireKeeps
<1>4. CASE StoreRestart
  BY <1>4, RestartKeeps
<1>5. CASE UNCHANGED accountVars
  BY <1>5 DEF accountVars, AInv, Types, OwnArrays, Sound, Fits, Distinct, Named, Marked,
              Place, Placed, View, Live, TabAt, Ids
<1> QED  BY <1>1, <1>2, <1>3, <1>4, <1>5 DEF ANext

-----------------------------------------------------------------------------
(* The theorems *)

\* In every state: no two sessions share an array, and what a request has
\* added and what it encodes is where it was.
THEOREM AInvariance == ASpec => []AInv
BY Begins, Steps, PTL DEF ASpec

\* Slices stay within their arrays, every account is once in its session,
\* and the superadmin's mark is where it belongs (auth.go:145, auth.go:110).
THEOREM SessionsSound == ASpec => []SessionsAreSound
<1>1. AInv => SessionsAreSound
  <2> SUFFICES ASSUME AInv PROVE SessionsAreSound
    OBVIOUS
  <2>1. ATypeOK
    BY DEF AInv, Types, Sound, Fits, ATypeOK
  <2>2. EachOnce
    <3> SUFFICES ASSUME NEW t \in Token, Live(t),
                        NEW i \in 1..session[t].len, NEW j \in 1..session[t].len, i # j
                 PROVE  Ids(session[t])[i] # Ids(session[t])[j] /\ Ids(session[t])[i] # Nothing
      BY DEF EachOnce
    <3>1. Distinct(session[t]) /\ Named(session[t])
      BY DEF AInv, Sound
    <3> QED  BY <3>1, NothingAssumption DEF Distinct, Named, Ids
  <2>3. MarksRight
    BY DEF AInv, Sound, Marked, MarksRight
  <2> QED  BY <2>1, <2>2, <2>3 DEF SessionsAreSound
<1> QED  BY <1>1, AInvariance, PTL

\* What is read outside the lock is a list of one moment, unless a removal
\* overlapped (auth.go:122, account.go:28).
THEOREM ListsReal == ASpec => []ListsAreReal
<1>1. AInv => ListsAreReal
  BY DEF AInv, View, ListsAreReal
<1> QED  BY <1>1, AInvariance, PTL

\* Only a removal makes a session shorter.
LEMMA OnlyRemovalsShrink ==
    ASSUME AInv, [ANext]_accountVars, NEW t \in Token, Live(t),
           session'[t].len < session[t].len, session'[t] # Gone
    PROVE  \E i \in 1..session[t].len :
              RemoveIdentity(t, i) /\ UNCHANGED <<used, blurred>>
<1>1. /\ session \in [Token -> Header] /\ session[t] \in Header /\ session[t].len \in Nat
      /\ t \in used
  BY DEF AInv, Types, Header, Sound
<1>2. session'[t] # session[t]
  BY <1>1
<1>3. CASE \E r \in Tab : Handler(r)
  <2>1. PICK r \in Tab : Handler(r)
    BY <1>3
  <2>2. ~(\E id \in Account, login \in BOOLEAN : BeginAdd(r, id, login))
    BY <1>2 DEF BeginAdd
  <2>3. ~Add(r)
    <3>1. ASSUME NEW u, AddIdentity(u, Entry(tab[r].id)) PROVE FALSE
      <4>1. CASE UNCHANGED session
        BY <1>2, <4>1
      <4>2. CASE session' = [session EXCEPT ![u].len = @ + 1]
        BY <1>1, <4>2 DEF Header
      <4>3. CASE session' = [session EXCEPT ![u].len = @ + 1, ![u].arr = Len(array) + 1]
        BY <1>1, <4>3 DEF Header
      <4> QED  BY <3>1, <4>1, <4>2, <4>3 DEF AddIdentity, Appended
    <3> QED  BY <1>2, <3>1 DEF Add
  <2>4. ~Switch(r)
    <3>1. ASSUME NEW u, NEW i, session' = [session EXCEPT ![u].active = i] PROVE FALSE
      BY <1>1, <3>1 DEF Header
    <3> QED  BY <1>2, <3>1 DEF Switch
  <2>5. ~Create(r)
    <3>1. ASSUME NEW u \in Token \ used, NEW new, session' = [session EXCEPT ![u] = new]
          PROVE  FALSE
      BY <1>1, <1>2, <3>1
    <3> QED  BY <3>1 DEF Create
  <2>6. ~Mark(r) /\ ~List(r) /\ ~Encode(r)
    BY <1>2 DEF Mark, List, Encode
  <2>7. ASSUME NEW i \in 1..session[cookie].len, SwitchTo(r, i) PROVE FALSE
    <3>1. session' = [session EXCEPT ![cookie].active = i]
      BY <2>7 DEF SwitchTo
    <3> QED  BY <1>1, <3>1 DEF Header
  <2>8. ASSUME NEW i \in 1..session[cookie].len, Remove(r, i)
        PROVE  i \in 1..session[t].len /\ RemoveIdentity(t, i) /\ UNCHANGED <<used, blurred>>
    <3>1. RemoveIdentity(cookie, i) /\ UNCHANGED <<used, blurred>>
      BY <2>8 DEF Remove
    <3>2. \A new : session' = [session EXCEPT ![cookie] = new] => t = cookie
      BY <1>1, <1>2
    <3>3. t = cookie
      BY <3>1, <3>2 DEF RemoveIdentity
    <3> QED  BY <3>1, <3>3
  <2> QED  BY <2>1, <2>2, <2>3, <2>4, <2>5, <2>6, <2>7, <2>8 DEF Handler
<1>4. ASSUME NEW u, session' = [session EXCEPT ![u] = Gone] PROVE FALSE
  BY <1>1, <1>2, <1>4
<1>5. ~Logout /\ \A u \in Token : ~Expire(u)
  BY <1>4 DEF Logout, Expire
<1>6. ~StoreRestart
  BY DEF StoreRestart
<1>7. ~UNCHANGED accountVars
  BY <1>2 DEF accountVars
<1> QED  BY <1>3, <1>5, <1>6, <1>7 DEF ANext

LEMMA StaysActiveStep ==
    ASSUME AInv, [ANext]_accountVars, NEW t \in Token, Live(t),
           session'[t].len < session[t].len, session'[t] # Gone
    PROVE  LET kept == {array'[session'[t].arr][i].id : i \in 1..session'[t].len} IN
           Active(t) \in kept => array'[session'[t].arr][session'[t].active].id = Active(t)
<1>1. PICK i \in 1..session[t].len : RemoveIdentity(t, i) /\ UNCHANGED <<used, blurred>>
  BY OnlyRemovalsShrink
<1>2. \/ array'[session'[t].arr][session'[t].active].id = Active(t)
      \/ \A j \in 1..session'[t].len : array'[session'[t].arr][j].id # Active(t)
  BY <1>1, RemovedIdentity
<1> QED  BY <1>2

LEMMA AddedIsActiveStep ==
    ASSUME AInv, NEW r \in Tab, Switch(r) \/ Mark(r), tab'[r] = FreeTab, ~tab[r].disturbed
    PROVE  \E t \in Token :
              /\ session'[t] # Gone
              /\ array'[session'[t].arr][session'[t].active] = Entry(tab[r].id)
<1>1. session \in [Token -> Header] /\ tab[r] \in TabState /\ Place(r)
  BY DEF AInv, Types
<1>2. CASE Switch(r)
  <2>1. Placed(r, tab[r].idx)
    BY <1>1, <1>2 DEF Place, Switch, TabAt
  <2>2. PICK t \in Token : t = tab[r].token
    BY <1>1, <2>1 DEF Placed, Live, TabState
  <2>3. /\ Live(t) /\ tab[r].idx \in 1..session[t].len
        /\ array[session[t].arr][tab[r].idx] = Entry(tab[r].id)
    BY <2>1, <2>2 DEF Placed
  <2>4. /\ session' = [session EXCEPT ![t].active = tab[r].idx] /\ array' = array
    BY <1>2, <2>2, <2>3 DEF Switch
  <2>5. /\ session'[t].arr = session[t].arr /\ session'[t].active = tab[r].idx
        /\ session'[t].len = session[t].len
    BY <1>1, <2>4 DEF Header
  <2>6. session'[t] # Gone
    BY <2>3, <2>5 DEF Gone
  <2> QED  BY <2>3, <2>4, <2>5, <2>6
<1>3. CASE Mark(r)
  <2>1. Placed(r, session[tab[r].token].active)
    BY <1>1, <1>3 DEF Place, Mark, TabAt
  <2>2. PICK t \in Token : t = tab[r].token
    BY <1>1, <2>1 DEF Placed, Live, TabState
  <2>3. Live(t)
    BY <2>1, <2>2 DEF Placed
  <2> QED  BY <1>3, <2>2, <2>3, MarkLive
<1> QED  BY <1>2, <1>3

\* Whoever removes another account stays who he is, and an account that was
\* added is the active one when its request ends (auth.go:197, account.go:139).
THEOREM ActiveRight == ASpec => ActiveIsRight
<1>1. AInv /\ [ANext]_accountVars =>
        \A t \in Token :
          Live(t) /\ session'[t].len < session[t].len /\ session'[t] # Gone =>
            LET kept == {array'[session'[t].arr][i].id : i \in 1..session'[t].len} IN
            Active(t) \in kept => array'[session'[t].arr][session'[t].active].id = Active(t)
  BY StaysActiveStep
<1>2. AInv /\ [ANext]_accountVars =>
        \A r \in Tab :
          (Switch(r) \/ Mark(r)) /\ tab'[r] = FreeTab /\ ~tab[r].disturbed =>
            \E t \in Token :
                /\ session'[t] # Gone
                /\ array'[session'[t].arr][session'[t].active] = Entry(tab[r].id)
  BY AddedIsActiveStep
<1> QED  BY <1>1, <1>2, AInvariance, PTL DEF ASpec, ActiveIsRight, StaysActive, AddedIsActive
=============================================================================
