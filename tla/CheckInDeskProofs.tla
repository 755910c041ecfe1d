--------------------------- MODULE CheckInDeskProofs ---------------------------
(***************************************************************************)
(* Proofs about CheckInDesk: the cooldown and the flags, for any number of *)
(* check-ins, students and devices and any delays.                         *)
(***************************************************************************)
EXTENDS CheckInDesk, SequenceTheorems, FiniteSetTheorems, TLAPS

Rows == 1..Len(audit)
InRules(r) == req[r].pc \in {"rule1", "rule2"}
Working(r) == req[r].pc \in {"rule1", "rule2", "record"}

\* A row is of the check-in that works on it and not of the future.
TypeInv ==
    /\ TypeOK
    /\ \A i \in Rows : audit[i].at <= now
    /\ \A r \in Request : At(r, "idle") => req[r] = Idle
    /\ \A r \in Request : Working(r) =>
          /\ req[r].row \in Rows
          /\ audit[req[r].row].name = req[r].name
          /\ audit[req[r].row].device = req[r].device

\* Of two rows the later one is flagged, by the first rule.
PairInv ==
    \A i, j \in Rows :
        (/\ i < j /\ audit[i].device = audit[j].device /\ audit[i].name # audit[j].name
         /\ audit[j].at <= audit[i].at + Window /\ audit[j].judged)
            => audit[j].flag # "no"

\* Of three rows the last one is flagged, by one of the rules.
TripleInv ==
    \A i, j, k \in Rows :
        (/\ i < k /\ j < k
         /\ audit[i].device = audit[k].device /\ audit[j].device = audit[k].device
         /\ audit[i].name # audit[k].name /\ audit[j].name # audit[k].name
         /\ audit[i].name # audit[j].name
         /\ Day(audit[i].at) = Day(audit[k].at) /\ Day(audit[j].at) = Day(audit[k].at)
         /\ Settled(k))
            => audit[k].flag # "no"

\* A row is remembered: its check-in is about to, the limiter does, or the
\* cooldown is over.
Remembered(i) ==
    \/ \E r \in Request : Working(r) /\ req[r].row = i
    \/ \E p \in records[audit[i].device] : p.name = audit[i].name /\ p.at >= audit[i].at
    \/ audit[i].at + Cooldown[audit[i].device] <= now

SpaceInv ==
    /\ \A r, q \in Request : req[r].device \in Device \ met /\ req[q].device = req[r].device
          => r = q
    /\ \A i \in Rows : audit[i].device \notin met => Remembered(i)
    /\ \A r \in Request, i \in Rows :
          (/\ req[r].pc \in {"insert", "audit"} /\ req[r].device \notin met
           /\ audit[i].device = req[r].device /\ audit[i].name # req[r].name)
              => audit[i].at + Cooldown[audit[i].device] <= now
    /\ Spaced

IInv == TypeInv /\ PairInv /\ TripleInv /\ FlagsHaveGrounds /\ SpaceInv

-----------------------------------------------------------------------------
LEMMA IdleIsLocal == Idle \in Local
  BY DEF Idle, Local

LEMMA RowsAreDomain ==
  ASSUME TypeOK
  PROVE  /\ Len(audit) \in Nat /\ DOMAIN audit = Rows
         /\ \A i \in Rows : audit[i] \in Row
  BY LenProperties DEF TypeOK, Rows

LEMMA Steps ==
  ASSUME [Next]_vars
  PROVE  \/ \E r \in Request, n \in Name, d \in Device : Check(r, n, d)
         \/ \E r \in Request : \/ Insert(r) \/ Audit(r) \/ Rule1(r)
                               \/ Rule2(r) \/ Remember(r)
         \/ Cleanup
         \/ \E i \in DOMAIN audit : Dismiss(i)
         \/ Tick
         \/ Restart
         \/ UNCHANGED vars
  BY DEF Next, CheckInStep

LEMMA InitInv == Init => IInv
<1> SUFFICES ASSUME Init PROVE IInv
  OBVIOUS
<1>1. audit = <<>> /\ audit \in Seq(Row) /\ Len(audit) = 0 /\ DOMAIN audit = {} /\ Rows = {}
  BY DEF Init, Rows
<1>2. TypeInv
  BY <1>1, IdleIsLocal DEF Init, TypeInv, TypeOK, At, Idle, Working
<1>3. PairInv /\ TripleInv /\ FlagsHaveGrounds
  BY <1>1 DEF PairInv, TripleInv, FlagsHaveGrounds
<1>4. SpaceInv
  BY <1>1, NoneAssumption DEF Init, SpaceInv, Spaced, Idle
<1> QED
  BY <1>2, <1>3, <1>4 DEF IInv

-----------------------------------------------------------------------------
\* What a step does to the rows: none is lost, and student, device and time
\* of a row are what they were.
Kept == /\ Len(audit') \in Nat /\ Len(audit') >= Len(audit)
        /\ \A i \in Rows : /\ audit'[i].name = audit[i].name
                           /\ audit'[i].device = audit[i].device
                           /\ audit'[i].at = audit[i].at

\* A row a rule, an admin or a restart has written.
Rewritten == /\ audit' \in Seq(Row) /\ Len(audit') = Len(audit) /\ Kept
             /\ \A i \in Rows : audit[i].flag # "no" => audit'[i].flag # "no"

LEMMA AuditEffect ==
  ASSUME TypeOK, NEW r \in Request, Audit(r)
  PROVE  /\ audit' \in Seq(Row) /\ Kept /\ Len(audit') = Len(audit) + 1
         /\ \A i \in Rows : audit'[i] = audit[i]
         /\ audit'[Len(audit) + 1] = NewRow(r)
         /\ NewRow(r) \in Row
<1>1. NewRow(r) \in Row
  BY DEF Audit, At, TypeOK, Local, NewRow, Row
<1>2. /\ audit' \in Seq(Row) /\ Len(audit') = Len(audit) + 1
      /\ \A i \in Rows : audit'[i] = audit[i]
      /\ audit'[Len(audit) + 1] = NewRow(r)
  BY <1>1, AppendProperties DEF Audit, TypeOK, Rows
<1> QED
  BY <1>1, <1>2, RowsAreDomain DEF Kept

LEMMA FoundEffect ==
  ASSUME TypeOK, NEW r \in Request, InRules(r), NEW suspicious \in BOOLEAN,
         NEW judged \in BOOLEAN, Found(r, suspicious, judged)
  PROVE  /\ Rewritten
         /\ \A i \in Rows : i # req[r].row => audit'[i] = audit[i]
         /\ suspicious => audit'[req[r].row].flag = "yes"
         /\ ~suspicious => audit'[req[r].row].flag = audit[req[r].row].flag
         /\ audit'[req[r].row].judged = (judged /\ audit[req[r].row].at = now)
<1> DEFINE i == req[r].row
           row == [audit[i] EXCEPT !.flag = IF suspicious THEN "yes" ELSE @,
                                   !.judged = judged /\ audit[i].at = now]
<1>1. i \in Rows /\ audit[i] \in Row
  BY RowsAreDomain DEF TypeOK, InRules, Rows
<1>2. audit' = [audit EXCEPT ![i] = row]
  BY <1>1, RowsAreDomain DEF Found
<1>3. /\ row \in Row /\ row.name = audit[i].name /\ row.device = audit[i].device
      /\ row.at = audit[i].at /\ row.flag = IF suspicious THEN "yes" ELSE audit[i].flag
      /\ row.judged = (judged /\ audit[i].at = now)
  <2> DEFINE f == IF suspicious THEN "yes" ELSE audit[i].flag
             g == judged /\ audit[i].at = now
  <2>1. f \in {"no", "yes", "dismissed"} /\ g \in BOOLEAN
    BY <1>1 DEF Row
  <2>2. row = [audit[i] EXCEPT !.flag = f, !.judged = g]
    OBVIOUS
  <2> HIDE DEF f, g
  <2>3. /\ [audit[i] EXCEPT !.flag = f, !.judged = g] \in Row
        /\ [audit[i] EXCEPT !.flag = f, !.judged = g].name = audit[i].name
        /\ [audit[i] EXCEPT !.flag = f, !.judged = g].device = audit[i].device
        /\ [audit[i] EXCEPT !.flag = f, !.judged = g].at = audit[i].at
        /\ [audit[i] EXCEPT !.flag = f, !.judged = g].flag = f
        /\ [audit[i] EXCEPT !.flag = f, !.judged = g].judged = g
    BY <1>1, <2>1 DEF Row
  <2> HIDE DEF row
  <2> QED
    BY <2>2, <2>3 DEF f, g
<1> HIDE DEF row
<1>4. /\ audit' \in Seq(Row) /\ Len(audit') = Len(audit)
      /\ \A j \in Rows : audit'[j] = IF j = i THEN row ELSE audit[j]
  BY <1>1, <1>2, <1>3, ExceptSeq DEF TypeOK, Rows
<1>5. Rewritten
  BY <1>1, <1>3, <1>4, RowsAreDomain DEF Rewritten, Kept
<1> QED
  BY <1>1, <1>3, <1>4, <1>5

LEMMA DismissEffect ==
  ASSUME TypeOK, NEW i \in DOMAIN audit, Dismiss(i)
  PROVE  /\ Rewritten
         /\ \A j \in Rows : /\ audit'[j].judged = audit[j].judged
                            /\ audit'[j].flag # "no" => audit[j].flag # "no"
<1> DEFINE row == [audit[i] EXCEPT !.flag = "dismissed"]
<1>1. i \in Rows /\ audit[i] \in Row
  BY RowsAreDomain
<1>2. /\ row \in Row /\ row.name = audit[i].name /\ row.device = audit[i].device
      /\ row.at = audit[i].at /\ row.flag = "dismissed" /\ row.judged = audit[i].judged
  BY <1>1 DEF Row
<1>3. audit' = [audit EXCEPT ![i] = row] /\ audit[i].flag = "yes"
  BY DEF Dismiss
<1> HIDE DEF row
<1>4. /\ audit' \in Seq(Row) /\ Len(audit') = Len(audit)
      /\ \A j \in Rows : audit'[j] = IF j = i THEN row ELSE audit[j]
  BY <1>1, <1>2, <1>3, ExceptSeq DEF TypeOK, Rows
<1>5. Rewritten
  BY <1>1, <1>2, <1>4, RowsAreDomain DEF Rewritten, Kept
<1> QED
  BY <1>1, <1>2, <1>3, <1>4, <1>5

LEMMA RestartEffect ==
  ASSUME TypeOK, Restart
  PROVE  /\ Rewritten
         /\ \A i \in Rows : /\ audit'[i].flag = audit[i].flag
                            /\ audit'[i].judged => Settled(i) /\ audit[i].judged
<1> DEFINE new(i) == IF Settled(i) THEN audit[i] ELSE [audit[i] EXCEPT !.judged = FALSE]
<1>1. audit' = [i \in Rows |-> new(i)] /\ Len(audit) \in Nat
  BY RowsAreDomain DEF Restart
<1>2. ASSUME NEW i \in Rows
      PROVE  /\ new(i) \in Row /\ new(i).name = audit[i].name
             /\ new(i).device = audit[i].device /\ new(i).at = audit[i].at
             /\ new(i).flag = audit[i].flag
             /\ new(i).judged => Settled(i) /\ audit[i].judged
  <2>1. audit[i] \in Row
    BY RowsAreDomain
  <2>2. CASE Settled(i)
    BY <2>1, <2>2 DEF Settled
  <2>3. CASE ~Settled(i)
    <3>1. new(i) = [audit[i] EXCEPT !.judged = FALSE]
      BY <2>3
    <3> HIDE DEF new
    <3> QED
      BY <2>1, <3>1 DEF Row
  <2> QED
    BY <2>2, <2>3
<1> HIDE DEF new
<1>3. audit' \in [1..Len(audit) -> Row]
  BY <1>1, <1>2 DEF Rows
<1>4. audit' \in Seq(Row)
  BY <1>1, <1>3, SeqDef
<1>5. Len(audit') = Len(audit)
  BY <1>1, <1>3, <1>4, LenProperties
<1>6. \A i \in Rows : audit'[i] = new(i)
  BY <1>1
<1>7. Rewritten
  BY <1>1, <1>2, <1>4, <1>5, <1>6 DEF Rewritten, Kept
<1> QED
  BY <1>2, <1>6, <1>7

-----------------------------------------------------------------------------
\* What a step does to the check-ins.
Others(r) == \A q \in Request : q # r => req'[q] = req[q]
SameRequest(r) == /\ req'[r].name = req[r].name /\ req'[r].device = req[r].device
                  /\ req'[r].row = req[r].row

LEMMA GotoEffect ==
  ASSUME TypeOK, NEW r \in Request,
         NEW pc \in {"idle", "insert", "audit", "rule1", "rule2", "record"}, Goto(r, pc)
  PROVE  req' \in [Request -> Local] /\ Others(r) /\ SameRequest(r) /\ req'[r].pc = pc
<1>1. req[r] \in Local /\ req' = [req EXCEPT ![r] = [req[r] EXCEPT !.pc = pc]]
  BY DEF TypeOK, Goto
<1>2. /\ [req[r] EXCEPT !.pc = pc] \in Local
      /\ [req[r] EXCEPT !.pc = pc].pc = pc
      /\ [req[r] EXCEPT !.pc = pc].name = req[r].name
      /\ [req[r] EXCEPT !.pc = pc].device = req[r].device
      /\ [req[r] EXCEPT !.pc = pc].row = req[r].row
  BY <1>1 DEF Local
<1> QED
  BY <1>1, <1>2 DEF TypeOK, Others, SameRequest

LEMMA ReturnEffect ==
  ASSUME TypeOK, NEW r \in Request, Return(r)
  PROVE  req' \in [Request -> Local] /\ Others(r) /\ req'[r] = Idle
  BY IdleIsLocal DEF TypeOK, Return, Others

LEMMA CheckEffect ==
  ASSUME TypeOK, NEW r \in Request, NEW n \in Name, NEW d \in Device, Check(r, n, d)
  PROVE  /\ req' \in [Request -> Local] /\ Others(r)
         /\ req'[r].pc = "insert" /\ req'[r].name = n /\ req'[r].device = d
<1>1. [pc |-> "insert", name |-> n, device |-> d, row |-> 0] \in Local
  BY DEF Local
<1> QED
  BY <1>1 DEF TypeOK, Check, Others

LEMMA AuditRequest ==
  ASSUME TypeOK, NEW r \in Request, Audit(r)
  PROVE  /\ req' \in [Request -> Local] /\ Others(r)
         /\ req'[r].pc = "rule1" /\ req'[r].row = Len(audit) + 1
         /\ req'[r].name = req[r].name /\ req'[r].device = req[r].device
<1> DEFINE k == Len(audit) + 1
<1>1. req[r] \in Local /\ k \in Nat
  BY RowsAreDomain DEF TypeOK
<1>2. req' = [req EXCEPT ![r] = [req[r] EXCEPT !.pc = "rule1", !.row = k]]
  BY DEF Audit, TypeOK
<1> HIDE DEF k
<1>3. /\ [req[r] EXCEPT !.pc = "rule1", !.row = k] \in Local
      /\ [req[r] EXCEPT !.pc = "rule1", !.row = k].pc = "rule1"
      /\ [req[r] EXCEPT !.pc = "rule1", !.row = k].row = k
      /\ [req[r] EXCEPT !.pc = "rule1", !.row = k].name = req[r].name
      /\ [req[r] EXCEPT !.pc = "rule1", !.row = k].device = req[r].device
  BY <1>1 DEF Local
<1> QED
  BY <1>2, <1>3 DEF TypeOK, Others, k

\* The rules as one kind of step: a verdict is written, or none.
Verdict(r) == \/ \E s, j \in BOOLEAN : Found(r, s, j)
              \/ audit' = audit

LEMMA RuleEffect ==
  ASSUME TypeOK, NEW r \in Request, Rule1(r) \/ Rule2(r)
  PROVE  /\ InRules(r) /\ Verdict(r)
         /\ req' \in [Request -> Local] /\ Others(r) /\ SameRequest(r)
         /\ req'[r].pc \in {"rule2", "record"}
         /\ UNCHANGED <<now, records, met>>
<1>0. \A i \in Rows : audit[i].judged \in BOOLEAN
  BY RowsAreDomain DEF Row
<1>1. CASE Rule1(r)
  <2>1. InRules(r) /\ UNCHANGED <<now, records, met>>
    BY <1>1 DEF Rule1, At, InRules
  <2>2. Verdict(r)
    <3>1. (Recent(r) \ {req[r].name} # {}) \in BOOLEAN
      OBVIOUS
    <3> QED
      BY <1>1, <3>1 DEF Rule1, Verdict
  <2>3. Goto(r, "record") \/ Goto(r, "rule2")
    BY <1>1 DEF Rule1
  <2> QED
    BY <2>1, <2>2, <2>3, GotoEffect
<1>2. CASE Rule2(r)
  <2>1. InRules(r) /\ UNCHANGED <<now, records, met>> /\ Goto(r, "record")
    BY <1>2 DEF Rule2, At, InRules
  <2>2. req[r].row \in Rows
    BY <2>1, RowsAreDomain DEF TypeOK, InRules
  <2>3. Verdict(r)
    <3> DEFINE c == Cardinality(Today(r)) >= 3
    <3>1. c \in BOOLEAN
      OBVIOUS
    <3>2. Found(r, c, audit[req[r].row].judged) \/ Found(r, FALSE, FALSE)
      BY <1>2 DEF Rule2
    <3> HIDE DEF c
    <3> QED
      BY <1>0, <2>2, <3>1, <3>2 DEF Verdict
  <2> QED
    BY <2>1, <2>3, GotoEffect
<1> QED
  BY <1>1, <1>2

LEMMA VerdictEffect ==
  ASSUME TypeOK, NEW r \in Request, InRules(r), Verdict(r)
  PROVE  Rewritten /\ \A i \in Rows : i # req[r].row => audit'[i] = audit[i]
<1>1. CASE audit' = audit
  BY <1>1, RowsAreDomain DEF Rewritten, Kept, TypeOK
<1>2. CASE \E s, j \in BOOLEAN : Found(r, s, j)
  BY <1>2, FoundEffect
<1> QED
  BY <1>1, <1>2 DEF Verdict

-----------------------------------------------------------------------------
LEMMA TypeStep == TypeInv /\ [Next]_vars => TypeInv'
<1> SUFFICES ASSUME TypeInv, [Next]_vars PROVE TypeInv'
  OBVIOUS
<1>0. /\ TypeOK /\ Len(audit) \in Nat /\ DOMAIN audit = Rows
      /\ \A i \in Rows : audit[i] \in Row
      /\ now \in Nat /\ \A i \in Rows : audit[i].at \in Nat /\ audit[i].at <= now
  BY RowsAreDomain DEF TypeInv, TypeOK, Row
\* A step is typed that keeps the rows and lets one check-in move on.
<1>r. ASSUME NEW r \in Request, req' \in [Request -> Local], Others(r),
             audit' \in Seq(Row), Kept, met' \subseteq Device,
             records' \in [Device -> SUBSET Record], now' = now,
             \A i \in 1..Len(audit') : audit'[i].at <= now,
             req'[r] = Idle \/
               (/\ req'[r].pc # "idle" /\ req'[r].name \in Name /\ req'[r].device \in Device
                /\ req'[r].pc \in {"rule1", "rule2", "record"} =>
                      /\ req'[r].row \in 1..Len(audit')
                      /\ audit'[req'[r].row].name = req'[r].name
                      /\ audit'[req'[r].row].device = req'[r].device)
      PROVE  TypeInv'
  <2>1. DOMAIN audit' = 1..Len(audit')
    BY <1>r, LenProperties
  <2>2. \A q \in Request : req'[q].pc = "idle" => req'[q] = Idle
    BY <1>r DEF TypeInv, Others, At
  <2>3. \A q \in Request : req'[q].pc # "idle" => req'[q].name # None /\ req'[q].device # None
    BY <1>0, <1>r, NoneAssumption DEF TypeOK, Others, At, Idle
  <2>4. \A q \in Request : req'[q].pc \in {"rule1", "rule2", "record"} =>
           /\ req'[q].row \in 1..Len(audit')
           /\ audit'[req'[q].row].name = req'[q].name
           /\ audit'[req'[q].row].device = req'[q].device
    <3>1. CASE req'[r] = Idle
      BY <1>0, <1>r, <3>1 DEF TypeInv, Working, Kept, Others, Rows, Idle
    <3>2. CASE req'[r] # Idle
      BY <1>0, <1>r, <3>2 DEF TypeInv, Working, Kept, Others, Rows
    <3> QED
      BY <3>1, <3>2
  <2>5. TypeOK'
    BY <1>0, <1>r, <2>1, <2>3, <2>4 DEF TypeOK, At
  <2> QED
    BY <1>r, <2>2, <2>4, <2>5 DEF TypeInv, Rows, Working, At
<1>n. \A r \in Request : ~At(r, "idle") => req[r].name \in Name /\ req[r].device \in Device
  BY <1>0 DEF TypeOK, Local
<1>1. ASSUME NEW r \in Request, NEW n \in Name, NEW d \in Device, Check(r, n, d)
      PROVE  TypeInv'
  <2>1. /\ UNCHANGED <<now, records, audit>> /\ met' \subseteq Device
    BY <1>0, <1>1 DEF Check, TypeOK
  <2>2. Kept
    BY <1>0, <2>1 DEF Kept
  <2> QED
    BY <1>0, <1>1, <1>r, <2>1, <2>2, CheckEffect DEF TypeOK, Rows
<1>2. ASSUME NEW r \in Request, Insert(r) PROVE TypeInv'
  <2>1. UNCHANGED <<now, records, audit, met>> /\ ~At(r, "idle")
    BY <1>2 DEF Insert, At
  <2>2. Kept
    BY <1>0, <2>1 DEF Kept
  <2>3. /\ req' \in [Request -> Local] /\ Others(r)
        /\ req'[r] = Idle \/ (req'[r].pc = "audit" /\ SameRequest(r))
    BY <1>0, <1>2, GotoEffect, ReturnEffect DEF Insert
  <2> QED
    BY <1>0, <1>n, <1>r, <2>1, <2>2, <2>3 DEF TypeOK, Rows, SameRequest
<1>3. ASSUME NEW r \in Request, Audit(r) PROVE TypeInv'
  <2>1. UNCHANGED <<now, records, met>> /\ ~At(r, "idle")
    BY <1>3 DEF Audit, At
  <2>2. \A i \in 1..Len(audit') : audit'[i].at <= now
    <3>1. NewRow(r).at = now
      BY DEF NewRow
    <3> QED
      BY <1>0, <1>3, <3>1, AuditEffect DEF Rows
  <2>3. /\ req'[r].row \in 1..Len(audit')
        /\ audit'[req'[r].row].name = req'[r].name
        /\ audit'[req'[r].row].device = req'[r].device
    <3>1. NewRow(r).name = req[r].name /\ NewRow(r).device = req[r].device
      BY DEF NewRow
    <3> QED
      BY <1>0, <1>3, <3>1, AuditEffect, AuditRequest
  <2>4. req'[r].pc # "idle" /\ req'[r].name \in Name /\ req'[r].device \in Device
    BY <1>0, <1>3, <1>n, <2>1, AuditRequest
  <2> QED
    BY <1>0, <1>3, <1>r, <2>1, <2>2, <2>3, <2>4, AuditEffect, AuditRequest DEF TypeOK
<1>4. ASSUME NEW r \in Request, Rule1(r) \/ Rule2(r) PROVE TypeInv'
  <2>1. /\ InRules(r) /\ Verdict(r)
        /\ req' \in [Request -> Local] /\ Others(r) /\ SameRequest(r)
        /\ req'[r].pc \in {"rule2", "record"}
        /\ UNCHANGED <<now, records, met>>
    BY <1>0, <1>4, RuleEffect
  <2>2. Rewritten
    BY <1>0, <2>1, VerdictEffect
  <2>3. \A i \in 1..Len(audit') : audit'[i].at <= now
    BY <1>0, <2>2 DEF Rewritten, Kept, Rows
  <2>4. ~At(r, "idle") /\ Working(r)
    BY <2>1 DEF InRules, At, Working
  <2>5. /\ req'[r].row \in 1..Len(audit')
        /\ audit'[req'[r].row].name = req'[r].name
        /\ audit'[req'[r].row].device = req'[r].device
    BY <2>1, <2>2, <2>4 DEF SameRequest, TypeInv, Rewritten, Kept, Rows
  <2> QED
    BY <1>0, <1>n, <1>r, <2>1, <2>2, <2>3, <2>4, <2>5 DEF TypeOK, Rewritten, SameRequest
<1>5. ASSUME NEW r \in Request, Remember(r) PROVE TypeInv'
  <2>1. UNCHANGED <<now, audit, met>> /\ Return(r) /\ ~At(r, "idle")
    BY <1>5 DEF Remember, At
  <2>2. Kept
    BY <1>0, <2>1 DEF Kept
  <2>3. records' \in [Device -> SUBSET Record]
    BY <1>0, <1>5, <1>n, <2>1 DEF Remember, TypeOK, Record
  <2> QED
    BY <1>0, <1>r, <2>1, <2>2, <2>3, ReturnEffect DEF TypeOK, Rows
<1>6. CASE Cleanup
  BY <1>6 DEF Cleanup, TypeInv, TypeOK, Rows, Working, At
<1>7. ASSUME NEW i \in DOMAIN audit, Dismiss(i) PROVE TypeInv'
  <2>1. Rewritten /\ UNCHANGED <<now, records, req, met>>
    BY <1>0, <1>7, DismissEffect DEF Dismiss
  <2>2. DOMAIN audit' = 1..Len(audit')
    BY <2>1, LenProperties DEF Rewritten
  <2> QED
    BY <1>0, <2>1, <2>2 DEF TypeInv, TypeOK, Rewritten, Kept, Rows, Working, At
<1>8. CASE Tick
  BY <1>0, <1>8 DEF Tick, TypeInv, TypeOK, Rows, Working, At
<1>9. CASE Restart
  <2>1. Rewritten
    BY <1>0, <1>9, RestartEffect
  <2>2. /\ req' = [r \in Request |-> Idle] /\ now' = now
        /\ records' \in [Device -> SUBSET Record] /\ met' \subseteq Device
    BY <1>0, <1>9 DEF Restart, TypeOK
  <2> QED
    BY <1>0, <2>1, <2>2, IdleIsLocal
    DEF TypeInv, TypeOK, Rewritten, Kept, Rows, Working, At, Idle
<1>10. CASE UNCHANGED vars
  BY <1>10 DEF vars, TypeInv, TypeOK, Rows, Working, At
<1> QED
  BY <1>1, <1>2, <1>3, <1>4, <1>5, <1>6, <1>7, <1>8, <1>9, <1>10, Steps

-----------------------------------------------------------------------------
\* The rules count finite sets of students.
LEMMA NamesAreFinite ==
  ASSUME NEW n \in Nat, NEW a, NEW D \in SUBSET (1..n)
  PROVE  IsFiniteSet({a[i].name : i \in D})
<1> DEFINE N == {a[i].name : i \in D}
           f == [i \in D |-> a[i].name]
<1>1. IsFiniteSet(D)
  <2>1. IsFiniteSet(1..n)
    BY FS_Interval
  <2> QED
    BY <2>1, FS_Subset
<1>2. f \in Surjection(D, N)
  BY DEF Surjection
<1> QED
  BY <1>1, <1>2, FS_Surjection

LEMMA ThreeMembers ==
  ASSUME NEW S, IsFiniteSet(S), NEW x \in S, NEW y \in S, NEW z \in S,
         x # y, x # z, y # z
  PROVE  Cardinality(S) \in Nat /\ Cardinality(S) >= 3
<1>1. IsFiniteSet({x}) /\ Cardinality({x}) = 1
  BY FS_Singleton
<1>2. IsFiniteSet({x} \cup {y}) /\ Cardinality({x} \cup {y}) = 2
  <2> DEFINE A == {x}
  <2>1. IsFiniteSet(A) /\ Cardinality(A) = 1 /\ y \notin A
    BY <1>1
  <2> HIDE DEF A
  <2>2. IsFiniteSet(A \cup {y}) /\ Cardinality(A \cup {y}) = 2
    BY <2>1, FS_AddElement
  <2> QED
    BY <2>2 DEF A
<1>3. Cardinality(({x} \cup {y}) \cup {z}) = 3
  <2>1. z \notin {x} \cup {y}
    OBVIOUS
  <2> QED
    BY <1>2, <2>1, FS_AddElement
<1>4. ({x} \cup {y}) \cup {z} \in SUBSET S
  OBVIOUS
<1> QED
  BY <1>3, <1>4, FS_Subset, FS_CardinalityType

-----------------------------------------------------------------------------
LEMMA PairStep == TypeInv /\ PairInv /\ [Next]_vars => PairInv'
<1> SUFFICES ASSUME TypeInv, PairInv, [Next]_vars PROVE PairInv'
  OBVIOUS
<1>0. /\ TypeOK /\ Len(audit) \in Nat /\ DOMAIN audit = Rows
      /\ \A i \in Rows : audit[i].at \in Nat /\ audit[i].at <= now
  BY RowsAreDomain DEF TypeInv, Row
<1>a. CASE audit' = audit
  BY <1>a DEF PairInv, Rows
\* A row that is not judged anew keeps its flag.
<1>b. ASSUME Rewritten,
             \A j \in Rows : audit'[j].judged =>
                audit[j].judged \/ audit'[j].flag # "no"
                \/ \A i \in Rows :
                      ~(/\ i < j /\ audit[i].device = audit[j].device
                        /\ audit[i].name # audit[j].name
                        /\ audit[j].at <= audit[i].at + Window)
      PROVE  PairInv'
  BY <1>b DEF PairInv, Rewritten, Kept, Rows
<1>1. ASSUME NEW r \in Request, Audit(r) PROVE PairInv'
  <2>1. ~NewRow(r).judged
    BY DEF NewRow
  <2>2. ASSUME NEW i \in 1..Len(audit'), NEW j \in 1..Len(audit'),
               i < j /\ audit'[i].device = audit'[j].device /\ audit'[i].name # audit'[j].name
                 /\ audit'[j].at <= audit'[i].at + Window /\ audit'[j].judged
        PROVE  audit'[j].flag # "no"
    <3>1. j # Len(audit) + 1
      BY <1>0, <1>1, <2>1, <2>2, AuditEffect
    <3>2. i \in Rows /\ j \in Rows
      BY <1>0, <1>1, <2>2, <3>1, AuditEffect DEF Rows
    <3>3. audit'[i] = audit[i] /\ audit'[j] = audit[j]
      BY <1>0, <1>1, <3>2, AuditEffect
    <3> QED
      BY <2>2, <3>2, <3>3 DEF PairInv
  <2> QED
    BY <2>2 DEF PairInv, Rows
<1>2. ASSUME NEW r \in Request, Rule1(r) PROVE PairInv'
  <2> DEFINE c == Recent(r) \ {req[r].name} # {}
             k == req[r].row
  <2>1. InRules(r) /\ k \in Rows /\ audit[k].name = req[r].name
        /\ audit[k].device = req[r].device
    BY <1>2 DEF Rule1, At, InRules, Working, TypeInv
  <2>2. CASE Found(r, c, TRUE)
    <3>0. c \in BOOLEAN
      OBVIOUS
    <3>1. ASSUME NEW i \in Rows, audit[i].device = audit[k].device,
                 audit[i].name # audit[k].name, audit[i].at + Window >= now
          PROVE  c
      <4>1. i \in {j \in OfDevice(req[r].device) : audit[j].at + Window >= now}
        BY <1>0, <2>1, <3>1 DEF OfDevice
      <4>2. audit[i].name \in Recent(r)
        BY <4>1 DEF Recent
      <4> QED
        BY <2>1, <3>1, <4>2
    <3> HIDE DEF c
    <3>2. /\ Rewritten /\ \A i \in Rows : i # k => audit'[i] = audit[i]
          /\ c => audit'[k].flag = "yes"
          /\ audit'[k].judged => audit[k].at = now
      BY <1>0, <2>1, <2>2, <3>0, FoundEffect
    <3> QED
      BY <1>b, <2>1, <3>1, <3>2
  <2>3. CASE Found(r, FALSE, FALSE)
    <3>1. /\ Rewritten /\ \A i \in Rows : i # k => audit'[i] = audit[i]
          /\ ~audit'[k].judged
      BY <1>0, <2>1, <2>3, FoundEffect
    <3> QED
      BY <1>b, <2>1, <3>1
  <2> QED
    BY <1>2, <1>a, <2>2, <2>3 DEF Rule1
<1>3. ASSUME NEW r \in Request, Rule2(r) PROVE PairInv'
  <2> DEFINE c == Cardinality(Today(r)) >= 3
             k == req[r].row
  <2>1. InRules(r) /\ k \in Rows /\ audit[k].judged \in BOOLEAN
    BY <1>3, RowsAreDomain DEF Rule2, At, InRules, Working, TypeInv, Row
  <2>2. Found(r, c, audit[k].judged) \/ Found(r, FALSE, FALSE)
    BY <1>3 DEF Rule2
  <2>3. c \in BOOLEAN
    OBVIOUS
  <2> HIDE DEF c
  <2>4. /\ Rewritten /\ \A i \in Rows : i # k => audit'[i] = audit[i]
        /\ audit'[k].judged => audit[k].judged
    BY <1>0, <2>1, <2>2, <2>3, FoundEffect
  <2> QED
    BY <1>b, <2>1, <2>4
<1>4. ASSUME NEW i \in DOMAIN audit, Dismiss(i) PROVE PairInv'
  BY <1>0, <1>4, <1>b, DismissEffect
<1>5. CASE Restart
  BY <1>0, <1>5, <1>b, RestartEffect
<1> QED
  BY <1>a, <1>1, <1>2, <1>3, <1>4, <1>5, Steps
  DEF Check, Insert, Remember, Cleanup, Tick, vars

-----------------------------------------------------------------------------
LEMMA TripleStep == TypeInv /\ TripleInv /\ [Next]_vars => TripleInv'
<1> SUFFICES ASSUME TypeInv, TripleInv, [Next]_vars PROVE TripleInv'
  OBVIOUS
<1>0. /\ TypeOK /\ Len(audit) \in Nat /\ DOMAIN audit = Rows
      /\ \A i \in Rows : audit[i].at \in Nat /\ audit[i].at <= now
  BY RowsAreDomain DEF TypeInv, Row
<1> DEFINE Trio(i, j, k) ==
             /\ i < k /\ j < k
             /\ audit[i].device = audit[k].device /\ audit[j].device = audit[k].device
             /\ audit[i].name # audit[k].name /\ audit[j].name # audit[k].name
             /\ audit[i].name # audit[j].name
             /\ Day(audit[i].at) = Day(audit[k].at) /\ Day(audit[j].at) = Day(audit[k].at)
<1>a. \A i, j, k \in Rows : Trio(i, j, k) /\ Settled(k) => audit[k].flag # "no"
  BY DEF TripleInv
\* No row becomes settled without a flag, or without lacking a trio.
<1>b. ASSUME Rewritten,
             \A k \in Rows : Settled(k)' =>
                Settled(k) \/ audit'[k].flag # "no" \/ \A i, j \in Rows : ~Trio(i, j, k)
      PROVE  TripleInv'
  <2> SUFFICES ASSUME NEW i \in Rows, NEW j \in Rows, NEW k \in Rows,
                      Trio(i, j, k)', Settled(k)'
               PROVE  audit'[k].flag # "no"
    BY <1>b DEF TripleInv, Rewritten, Rows
  <2>1. Trio(i, j, k)
    BY <1>b DEF Rewritten, Kept, Day
  <2> QED
    BY <1>a, <1>b, <2>1 DEF Rewritten
\* Nor does one when the rules of every row in work stay in work.
<1>c. ASSUME UNCHANGED audit,
             \A q \in Request : InRules(q) => InRules(q)' /\ req'[q].row = req[q].row
      PROVE  TripleInv'
  <2>1. \A k \in Rows : Settled(k)' => Settled(k)
    BY <1>c DEF Settled, InRules
  <2>2. Rewritten
    BY <1>0, <1>c DEF Rewritten, Kept, TypeOK
  <2> QED
    BY <1>b, <2>1, <2>2
<1>1. ASSUME NEW r \in Request, NEW n \in Name, NEW d \in Device, Check(r, n, d)
      PROVE  TripleInv'
  <2>1. audit' = audit /\ ~InRules(r) /\ Others(r)
    BY <1>0, <1>1, CheckEffect DEF Check, At, InRules
  <2> QED
    BY <1>c, <2>1 DEF Others, InRules
<1>2. ASSUME NEW r \in Request, Insert(r) \/ Remember(r) PROVE TripleInv'
  <2>1. audit' = audit /\ ~InRules(r) /\ Others(r)
    BY <1>0, <1>2, GotoEffect, ReturnEffect DEF Insert, Remember, At, InRules
  <2> QED
    BY <1>c, <2>1 DEF Others, InRules
<1>3. ASSUME NEW r \in Request, Audit(r) PROVE TripleInv'
  <2>1. ~NewRow(r).judged
    BY DEF NewRow
  <2>2. ASSUME NEW i \in 1..Len(audit'), NEW j \in 1..Len(audit'), NEW k \in 1..Len(audit'),
               Trio(i, j, k)', Settled(k)'
        PROVE  audit'[k].flag # "no"
    <3>1. k # Len(audit) + 1
      BY <1>0, <1>3, <2>1, <2>2, AuditEffect DEF Settled
    <3>2. i \in Rows /\ j \in Rows /\ k \in Rows
      BY <1>0, <1>3, <2>2, <3>1, AuditEffect DEF Rows
    <3>3. audit'[i] = audit[i] /\ audit'[j] = audit[j] /\ audit'[k] = audit[k]
      BY <1>0, <1>3, <3>2, AuditEffect
    <3>4. Trio(i, j, k)
      BY <2>2, <3>3 DEF Day
    <3>5. Settled(k)
      <4>1. Others(r) /\ ~InRules(r)
        BY <1>0, <1>3, AuditRequest DEF Audit, At, InRules
      <4> QED
        BY <2>2, <3>3, <4>1 DEF Settled, Others, InRules
    <3> QED
      BY <1>a, <3>2, <3>3, <3>4, <3>5
  <2> QED
    BY <2>2 DEF TripleInv, Rows
<1>4. ASSUME NEW r \in Request, Rule1(r) \/ Rule2(r) PROVE TripleInv'
  <2>0. PICK row \in Rows : row = req[r].row
    BY <1>0, <1>4, RuleEffect DEF InRules, Working, TypeInv
  <2>1. /\ InRules(r) /\ Verdict(r) /\ Others(r) /\ SameRequest(r)
        /\ audit[row].name = req[r].name
        /\ audit[row].device = req[r].device /\ audit[row].judged \in BOOLEAN
    BY <1>0, <1>4, <2>0, RuleEffect, RowsAreDomain DEF InRules, Working, TypeInv, Row
  <2>2. Rewritten /\ \A i \in Rows : i # row => audit'[i] = audit[i]
    BY <1>0, <2>0, <2>1, VerdictEffect
  <2>3. \A k \in Rows : k # row /\ Settled(k)' => Settled(k)
    BY <2>0, <2>1, <2>2 DEF Settled, Others
  <2>4. ASSUME Settled(row)' PROVE audit'[row].flag # "no" \/ \A i, j \in Rows : ~Trio(i, j, row)
    <3>1. req'[r].pc \notin {"rule1", "rule2"}
      BY <2>0, <2>1, <2>4 DEF Settled, SameRequest
    <3>2. CASE Rule1(r)
      <4> DEFINE c == Recent(r) \ {req[r].name} # {}
      <4>0. c \in BOOLEAN
        OBVIOUS
      <4>1. ~Goto(r, "rule2")
        BY <1>0, <3>1, GotoEffect
      <4>2. (Found(r, c, TRUE) /\ c) \/ Found(r, FALSE, FALSE)
        BY <3>2, <4>1 DEF Rule1
      <4>3. audit'[row].judged
        BY <2>4 DEF Settled
      <4> HIDE DEF c
      <4> QED
        BY <1>0, <2>0, <2>1, <4>0, <4>2, <4>3, FoundEffect
    <3>3. CASE Rule2(r)
      <4> DEFINE c == Cardinality(Today(r)) >= 3
      <4>0. c \in BOOLEAN
        OBVIOUS
      <4>1. Found(r, c, audit[row].judged) \/ Found(r, FALSE, FALSE)
        BY <2>0, <3>3 DEF Rule2
      <4>2. ASSUME NEW i \in Rows, NEW j \in Rows, Trio(i, j, row), audit[row].at = now
            PROVE  c
        <5>1. \A x \in {i, j, row} : audit[x].name \in Today(r)
          BY <1>0, <2>1, <4>2 DEF Today, OfDevice
        <5>2. IsFiniteSet(Today(r))
          BY <1>0, NamesAreFinite DEF Today, OfDevice, Rows
        <5> QED
          BY <4>2, <5>1, <5>2, ThreeMembers
      <4> HIDE DEF c
      <4>3. audit'[row].judged
        BY <2>4 DEF Settled
      <4>4. audit[row].at = now /\ (c => audit'[row].flag = "yes")
        BY <1>0, <2>0, <2>1, <4>0, <4>1, <4>3, FoundEffect
      <4> QED
        BY <4>2, <4>4
    <3> QED
      BY <1>4, <3>2, <3>3
  <2> QED
    BY <1>b, <2>2, <2>3, <2>4
<1>5. ASSUME NEW i \in DOMAIN audit, Dismiss(i) PROVE TripleInv'
  <2>1. Rewritten /\ req' = req /\ \A j \in Rows : audit'[j].judged = audit[j].judged
    BY <1>0, <1>5, DismissEffect DEF Dismiss
  <2>2. \A k \in Rows : Settled(k)' => Settled(k)
    BY <2>1 DEF Settled
  <2> QED
    BY <1>b, <2>1, <2>2
<1>6. CASE Restart
  <2>1. Rewritten /\ \A k \in Rows : Settled(k)' => Settled(k)
    BY <1>0, <1>6, RestartEffect DEF Settled
  <2> QED
    BY <1>b, <2>1
<1>7. CASE Cleanup \/ Tick \/ UNCHANGED vars
  BY <1>7, <1>c DEF Cleanup, Tick, vars, InRules
<1> QED
  BY <1>1, <1>2, <1>3, <1>4, <1>5, <1>6, <1>7, Steps

-----------------------------------------------------------------------------
\* The ground of a flag, and that it does not vanish: rows are kept, days pass.
Near(i) == \E j \in Rows :
              /\ audit[j].device = audit[i].device /\ audit[j].name # audit[i].name
              /\ audit[i].at <= audit[j].at + Window
OfDay(i, t) == {audit[j].name : j \in {k \in Rows : /\ audit[k].device = audit[i].device
                                                    /\ Day(audit[k].at) = Day(t)}}
Ground(i) == Near(i) \/ \E t \in audit[i].at .. now : Cardinality(OfDay(i, t)) >= 3

LEMMA Grounds ==
  TypeOK => (FlagsHaveGrounds <=> \A i \in Rows : audit[i].flag # "no" => Ground(i))
<1> SUFFICES ASSUME TypeOK
             PROVE  FlagsHaveGrounds <=> \A i \in Rows : audit[i].flag # "no" => Ground(i)
  OBVIOUS
<1>1. DOMAIN audit = Rows
  BY RowsAreDomain
<1>2. ASSUME NEW i, NEW t
      PROVE  OfDay(i, t) = {audit[j].name : j \in {k \in OfDevice(audit[i].device) :
                                                        Day(audit[k].at) = Day(t)}}
  BY <1>1 DEF OfDay, OfDevice
<1>3. ASSUME NEW i
      PROVE  Near(i) <=> \E j \in OfDevice(audit[i].device) :
                            audit[j].name # audit[i].name /\ audit[i].at <= audit[j].at + Window
  BY <1>1 DEF Near, OfDevice
<1> HIDE DEF OfDay, Near
<1> QED
  BY <1>1, <1>2, <1>3 DEF FlagsHaveGrounds, Ground

LEMMA GroundStays ==
  ASSUME TypeOK, Kept, now' >= now, now \in Nat, now' \in Nat, NEW i \in Rows, Ground(i)
  PROVE  Ground(i)'
<1>0. /\ Len(audit) \in Nat /\ Len(audit') \in Nat /\ Len(audit) <= Len(audit')
      /\ \A j \in Rows : j \in Rows' /\ audit'[j].name = audit[j].name
                         /\ audit'[j].device = audit[j].device /\ audit'[j].at = audit[j].at
      /\ audit[i].at \in Nat
  BY RowsAreDomain DEF Kept, Rows, Row
<1>1. CASE Near(i)
  BY <1>0, <1>1 DEF Near, Ground
<1>2. CASE \E t \in audit[i].at .. now : Cardinality(OfDay(i, t)) >= 3
  <2>1. PICK t \in audit[i].at .. now : Cardinality(OfDay(i, t)) >= 3
    BY <1>2
  <2>2. t \in audit'[i].at .. now'
    BY <1>0, <2>1
  <2> DEFINE then == OfDay(i, t)
             later == {audit'[j].name : j \in {k \in 1..Len(audit') :
                          audit'[k].device = audit'[i].device /\ Day(audit'[k].at) = Day(t)}}
  <2>3. IsFiniteSet(later) /\ later = OfDay(i, t)'
    <3>1. later = OfDay(i, t)'
      BY DEF OfDay, Rows, Day
    <3> DEFINE D == {k \in 1..Len(audit') : audit'[k].device = audit'[i].device
                                            /\ Day(audit'[k].at) = Day(t)}
    <3>2. D \in SUBSET (1..Len(audit'))
      OBVIOUS
    <3> HIDE DEF D
    <3>3. IsFiniteSet({audit'[j].name : j \in D})
      <4>1. PICK n \in Nat : n = Len(audit')
        BY <1>0
      <4>2. PICK a : a = audit'
        OBVIOUS
      <4>3. IsFiniteSet({a[j].name : j \in D})
        BY <3>2, <4>1, NamesAreFinite
      <4> QED
        BY <4>2, <4>3
    <3> QED
      BY <3>1, <3>3 DEF D
  <2>4. then \in SUBSET later
    BY <1>0 DEF OfDay, Rows
  <2> HIDE DEF then, later
  <2>5. IsFiniteSet(then) /\ Cardinality(then) <= Cardinality(later)
    BY <2>3, <2>4, FS_Subset
  <2>6. Cardinality(then) \in Nat /\ Cardinality(later) \in Nat
    BY <2>3, <2>5, FS_CardinalityType
  <2>7. Cardinality(then) >= 3
    BY <2>1 DEF then
  <2>8. Cardinality(OfDay(i, t)') >= 3
    BY <2>3, <2>5, <2>6, <2>7
  <2> QED
    BY <2>2, <2>8 DEF Ground
<1> QED
  BY <1>1, <1>2 DEF Ground

LEMMA GroundStep == TypeInv /\ FlagsHaveGrounds /\ [Next]_vars => FlagsHaveGrounds'
<1> SUFFICES ASSUME TypeInv, FlagsHaveGrounds, [Next]_vars PROVE FlagsHaveGrounds'
  OBVIOUS
<1>0. /\ TypeOK /\ TypeOK' /\ Len(audit) \in Nat /\ DOMAIN audit = Rows
      /\ now \in Nat /\ now' \in Nat
      /\ \A i \in Rows : audit[i].at \in Nat /\ audit[i].at <= now
  BY TypeStep, RowsAreDomain DEF TypeInv, TypeOK, Row
<1>a. \A i \in Rows : audit[i].flag # "no" => Ground(i)
  BY <1>0, Grounds
<1> SUFFICES \A i \in 1..Len(audit') : audit'[i].flag # "no" => Ground(i)'
  <2>1. (TypeOK => (FlagsHaveGrounds <=> \A i \in Rows : audit[i].flag # "no" => Ground(i)))'
    BY Grounds, PTL
  <2> QED
    BY <1>0, <2>1 DEF Rows
<1>b. ASSUME Kept, now' >= now, Len(audit') = Len(audit),
             \A i \in Rows : audit'[i].flag # "no" => audit[i].flag # "no" \/ Ground(i)
      PROVE  \A i \in 1..Len(audit') : audit'[i].flag # "no" => Ground(i)'
  BY <1>0, <1>a, <1>b, GroundStays DEF Rows
<1>1. CASE audit' = audit /\ now' >= now
  BY <1>0, <1>1, <1>b DEF Kept
<1>2. ASSUME NEW r \in Request, Audit(r)
      PROVE  \A i \in 1..Len(audit') : audit'[i].flag # "no" => Ground(i)'
  <2>1. NewRow(r).flag = "no" /\ now' = now
    BY <1>2 DEF NewRow, Audit
  <2> SUFFICES ASSUME NEW i \in 1..Len(audit'), audit'[i].flag # "no" PROVE Ground(i)'
    OBVIOUS
  <2>2. i \in Rows /\ audit[i].flag # "no"
    BY <1>0, <1>2, <2>1, AuditEffect DEF Rows
  <2> QED
    BY <1>0, <1>2, <1>a, <2>1, <2>2, AuditEffect, GroundStays
<1>3. ASSUME NEW r \in Request, Rule1(r) \/ Rule2(r)
      PROVE  \A i \in 1..Len(audit') : audit'[i].flag # "no" => Ground(i)'
  <2>0. PICK row \in Rows : row = req[r].row
    BY <1>0, <1>3, RuleEffect DEF InRules, Working, TypeInv
  <2>1. /\ InRules(r) /\ Verdict(r) /\ now' = now
        /\ audit[row].name = req[r].name /\ audit[row].device = req[r].device
        /\ audit[row].judged \in BOOLEAN
    BY <1>0, <1>3, <2>0, RuleEffect, RowsAreDomain DEF InRules, Working, TypeInv, Row
  <2>2. Rewritten /\ \A i \in Rows : i # row => audit'[i] = audit[i]
    BY <1>0, <2>0, <2>1, VerdictEffect
  <2>3. ASSUME audit'[row].flag # "no" PROVE audit[row].flag # "no" \/ Ground(row)
    <3>1. CASE Rule1(r)
      <4> DEFINE c == Recent(r) \ {req[r].name} # {}
      <4>0. c \in BOOLEAN
        OBVIOUS
      <4>1. c => Near(row)
        <5> SUFFICES ASSUME NEW n \in Recent(r), n # req[r].name PROVE Near(row)
          OBVIOUS
        <5>1. PICK j \in OfDevice(req[r].device) : audit[j].at + Window >= now
                                                   /\ audit[j].name = n
          BY DEF Recent
        <5>2. j \in Rows /\ audit[j].device = audit[row].device
          BY <1>0, <2>1, <5>1 DEF OfDevice
        <5>3. audit[row].at <= audit[j].at + Window
          BY <1>0, <5>1, <5>2, DelaysAssumption
        <5> QED
          BY <2>1, <5>1, <5>2, <5>3 DEF Near
      <4>2. Found(r, c, TRUE) \/ Found(r, FALSE, FALSE) \/ UNCHANGED audit
        BY <3>1 DEF Rule1
      <4> HIDE DEF c
      <4>3. c \/ audit'[row].flag = audit[row].flag
        BY <1>0, <2>0, <2>1, <4>0, <4>2, FoundEffect
      <4> QED
        BY <2>3, <4>1, <4>3 DEF Ground
    <3>2. CASE Rule2(r)
      <4> DEFINE c == Cardinality(Today(r)) >= 3
      <4>0. c \in BOOLEAN
        OBVIOUS
      <4>1. c => Ground(row)
        <5>1. Today(r) = OfDay(row, now)
          BY <1>0, <2>1 DEF Today, OfDay, OfDevice
        <5>2. now \in audit[row].at .. now
          BY <1>0
        <5> QED
          BY <5>1, <5>2 DEF Ground
      <4>2. Found(r, c, audit[row].judged) \/ Found(r, FALSE, FALSE)
        BY <2>0, <3>2 DEF Rule2
      <4> HIDE DEF c
      <4>3. c \/ audit'[row].flag = audit[row].flag
        BY <1>0, <2>0, <2>1, <4>0, <4>2, FoundEffect
      <4> QED
        BY <2>3, <4>1, <4>3
    <3> QED
      BY <1>3, <3>1, <3>2
  <2>4. \A i \in Rows : audit'[i].flag # "no" => audit[i].flag # "no" \/ Ground(i)
    BY <2>2, <2>3
  <2> QED
    BY <1>0, <1>b, <2>1, <2>2, <2>4 DEF Rewritten
<1>4. ASSUME NEW i \in DOMAIN audit, Dismiss(i)
      PROVE  \A j \in 1..Len(audit') : audit'[j].flag # "no" => Ground(j)'
  <2>1. Rewritten /\ now' = now /\ \A j \in Rows : audit'[j].flag # "no" => audit[j].flag # "no"
    BY <1>0, <1>4, DismissEffect DEF Dismiss
  <2> QED
    BY <1>0, <1>b, <2>1 DEF Rewritten
<1>5. CASE Restart
  <2>1. Rewritten /\ now' = now /\ \A j \in Rows : audit'[j].flag = audit[j].flag
    BY <1>0, <1>5, RestartEffect DEF Restart
  <2> QED
    BY <1>0, <1>b, <2>1 DEF Rewritten
<1>6. ASSUME NEW r \in Request, NEW n \in Name, NEW d \in Device, Check(r, n, d)
      PROVE  audit' = audit /\ now' >= now
  BY <1>0, <1>6 DEF Check
<1>7. ASSUME NEW r \in Request, Insert(r) \/ Remember(r)
      PROVE  audit' = audit /\ now' >= now
  BY <1>0, <1>7 DEF Insert, Remember
<1>8. ASSUME Cleanup \/ Tick \/ UNCHANGED vars PROVE audit' = audit /\ now' >= now
  BY <1>0, <1>8 DEF Cleanup, Tick, vars
<1> QED
  BY <1>1, <1>2, <1>3, <1>4, <1>5, <1>6, <1>7, <1>8, Steps

-----------------------------------------------------------------------------
(* The cooldown *)

Single == \A r, q \in Request :
             req[r].device \in Device \ met /\ req[q].device = req[r].device => r = q
AllRemembered == \A i \in Rows : audit[i].device \notin met => Remembered(i)
MayInsert == \A r \in Request, i \in Rows :
                (/\ req[r].pc \in {"insert", "audit"} /\ req[r].device \notin met
                 /\ audit[i].device = req[r].device /\ audit[i].name # req[r].name)
                    => audit[i].at + Cooldown[audit[i].device] <= now
Apart == \A i, j \in Rows :
            (/\ i < j /\ audit[i].device = audit[j].device
             /\ audit[i].name # audit[j].name /\ audit[i].device \notin met)
                => audit[j].at >= audit[i].at + Cooldown[audit[j].device]

LEMMA SpaceParts ==
  TypeOK => (SpaceInv <=> Single /\ AllRemembered /\ MayInsert /\ Apart)
<1> SUFFICES ASSUME TypeOK PROVE SpaceInv <=> Single /\ AllRemembered /\ MayInsert /\ Apart
  OBVIOUS
<1>1. DOMAIN audit = Rows
  BY RowsAreDomain
<1>2. Spaced <=> Apart
  BY <1>1 DEF Spaced, Apart
<1> QED
  BY <1>2 DEF SpaceInv, Single, AllRemembered, MayInsert

LEMMA SpaceStep == TypeInv /\ SpaceInv /\ [Next]_vars => SpaceInv'
<1> SUFFICES ASSUME TypeInv, SpaceInv, [Next]_vars PROVE SpaceInv'
  OBVIOUS
<1>0. /\ TypeOK /\ TypeOK' /\ Len(audit) \in Nat /\ now \in Nat
      /\ \A i \in Rows : /\ audit[i].at \in Nat /\ audit[i].at <= now
                         /\ audit[i].device \in Device /\ audit[i].name \in Name
      /\ \A i \in Rows : Cooldown[audit[i].device] \in Nat
  BY TypeStep, RowsAreDomain, DelaysAssumption DEF TypeInv, TypeOK, Row
<1>h. Single /\ AllRemembered /\ MayInsert /\ Apart
  BY <1>0, SpaceParts
<1>n. None \notin Device /\ \A r \in Request : req[r].pc = "idle" => req[r].device = None
  BY NoneAssumption DEF TypeInv, At, Idle
<1>p. \A d \in Device : \A p \in records[d] : p.at \in Nat /\ p.name \in Name
  BY <1>0 DEF TypeOK, Record
<1> SUFFICES Single' /\ AllRemembered' /\ MayInsert' /\ Apart'
  <2>1. (TypeOK => (SpaceInv <=> Single /\ AllRemembered /\ MayInsert /\ Apart))'
    BY SpaceParts, PTL
  <2> QED
    BY <1>0, <2>1
\* A step that adds no row and ends no work on one.
<1>k. ASSUME Kept, Len(audit') = Len(audit), UNCHANGED <<now, met, records>>,
             \A q \in Request :
                /\ req'[q].device \in {req[q].device, None}
                /\ Working(q) => Working(q)' /\ req'[q].row = req[q].row
                /\ req'[q].pc \in {"insert", "audit"} =>
                      /\ req[q].pc \in {"insert", "audit"}
                      /\ req'[q].device = req[q].device /\ req'[q].name = req[q].name
      PROVE  Single' /\ AllRemembered' /\ MayInsert' /\ Apart'
  <2>1. Single'
    BY <1>h, <1>k, <1>n DEF Single
  <2>2. AllRemembered'
    BY <1>h, <1>k DEF AllRemembered, Remembered, Kept, Rows
  <2>3. MayInsert'
    BY <1>h, <1>k DEF MayInsert, Kept, Rows
  <2>4. Apart'
    BY <1>h, <1>k DEF Apart, Kept, Rows
  <2> QED
    BY <2>1, <2>2, <2>3, <2>4
<1>1. ASSUME NEW r \in Request, NEW n \in Name, NEW d \in Device, Check(r, n, d)
      PROVE  Single' /\ AllRemembered' /\ MayInsert' /\ Apart'
  <2>1. /\ UNCHANGED <<now, records, audit>> /\ Others(r) /\ req[r].pc = "idle"
        /\ req'[r].pc = "insert" /\ req'[r].name = n /\ req'[r].device = d
        /\ ~TooSoon(n, d)
    BY <1>0, <1>1, CheckEffect DEF Check, At
  <2>2. met \subseteq met' /\ (d \notin met' => \A q \in Request : req[q].device # d)
    BY <1>1 DEF Check, Busy
  <2>3. Single'
    BY <1>h, <2>1, <2>2 DEF Single, Others
  <2>4. AllRemembered'
    BY <1>h, <2>1, <2>2 DEF AllRemembered, Remembered, Rows, Working, Others
  <2>5. ASSUME NEW i \in Rows, d \notin met', audit[i].device = d, audit[i].name # n
        PROVE  audit[i].at + Cooldown[d] <= now
    <3>1. Remembered(i)
      BY <1>h, <2>2, <2>5 DEF AllRemembered
    <3>2. ~\E q \in Request : Working(q) /\ req[q].row = i
      BY <2>2, <2>5 DEF TypeInv
    <3>3. ASSUME NEW p \in records[d], p.name = audit[i].name, p.at >= audit[i].at
          PROVE  audit[i].at + Cooldown[d] <= now
      <4>1. ~(p.at + Cooldown[d] > now)
        BY <2>1, <2>5, <3>3 DEF TooSoon
      <4> QED
        BY <1>0, <1>p, <2>5, <3>3, <4>1
    <3> QED
      BY <2>5, <3>1, <3>2, <3>3 DEF Remembered
  <2>6. MayInsert'
    BY <1>h, <2>1, <2>2, <2>5 DEF MayInsert, Rows, Others
  <2>7. Apart'
    BY <1>h, <2>1, <2>2 DEF Apart, Rows
  <2> QED
    BY <2>3, <2>4, <2>6, <2>7
<1>2. ASSUME NEW r \in Request, Insert(r)
      PROVE  Single' /\ AllRemembered' /\ MayInsert' /\ Apart'
  <2>1. UNCHANGED <<now, records, audit, met>> /\ req[r].pc = "insert" /\ Others(r)
        /\ (req'[r] = Idle \/ (req'[r].pc = "audit" /\ SameRequest(r)))
    BY <1>0, <1>2, GotoEffect, ReturnEffect DEF Insert, At
  <2>2. Kept
    BY <1>0, <2>1 DEF Kept
  <2>3. \A q \in Request :
           /\ req'[q].device \in {req[q].device, None}
           /\ Working(q) => Working(q)' /\ req'[q].row = req[q].row
           /\ req'[q].pc \in {"insert", "audit"} =>
                 /\ req[q].pc \in {"insert", "audit"}
                 /\ req'[q].device = req[q].device /\ req'[q].name = req[q].name
    BY <2>1 DEF Others, SameRequest, Idle, Working
  <2> QED
    BY <1>k, <2>1, <2>2, <2>3
<1>3. ASSUME NEW r \in Request, Audit(r)
      PROVE  Single' /\ AllRemembered' /\ MayInsert' /\ Apart'
  <2>0. PICK k \in Nat : k = Len(audit) + 1
    BY <1>0
  <2>1. /\ UNCHANGED <<now, records, met>> /\ req[r].pc = "audit" /\ Others(r)
        /\ req'[r].pc = "rule1" /\ req'[r].row = k
        /\ req'[r].name = req[r].name /\ req'[r].device = req[r].device
    BY <1>0, <1>3, <2>0, AuditRequest DEF Audit, At
  <2>2. /\ Len(audit') = k /\ \A i \in Rows : audit'[i] = audit[i]
        /\ audit'[k] = NewRow(r)
    BY <1>0, <1>3, <2>0, AuditEffect
  <2>3. /\ NewRow(r).name = req[r].name /\ NewRow(r).device = req[r].device
        /\ NewRow(r).at = now
    BY DEF NewRow
  <2>4. Single'
    BY <1>h, <2>1 DEF Single, Others
  <2>5. \A i \in 1..Len(audit') : i \in Rows \/ i = k
    BY <1>0, <2>0, <2>2 DEF Rows
  <2>6. AllRemembered'
    <3>1. ASSUME NEW i \in Rows, audit'[i].device \notin met' PROVE Remembered(i)'
      <4>1. Remembered(i)
        BY <1>h, <2>1, <2>2, <3>1 DEF AllRemembered
      <4>2. \A q \in Request : Working(q) => Working(q)' /\ req'[q].row = req[q].row
        BY <2>1 DEF Working, Others
      <4> QED
        BY <2>1, <2>2, <4>1, <4>2 DEF Remembered
    <3>2. Remembered(k)'
      <4>1. Working(r)' /\ req'[r].row = k
        BY <2>1 DEF Working
      <4> QED
        BY <4>1 DEF Remembered
    <3> QED
      BY <2>5, <3>1, <3>2 DEF AllRemembered, Rows
  <2>7. MayInsert'
    <3> SUFFICES ASSUME NEW q \in Request, NEW i \in 1..Len(audit'),
                        req'[q].pc \in {"insert", "audit"}, req'[q].device \notin met,
                        audit'[i].device = req'[q].device, audit'[i].name # req'[q].name
                 PROVE  audit'[i].at + Cooldown[audit'[i].device] <= now
      BY <2>1 DEF MayInsert, Rows
    <3>1. q # r /\ req'[q] = req[q]
      BY <2>1 DEF Others
    <3>2. CASE i \in Rows
      BY <1>h, <2>2, <3>1, <3>2 DEF MayInsert
    <3>3. CASE i = k
      <4>1. req[q].device = req[r].device
        BY <2>2, <2>3, <3>1, <3>3
      <4>2. req[r].device \in Device
        BY <1>0, <2>1 DEF TypeOK, Local, At
      <4> QED
        BY <1>h, <3>1, <4>1, <4>2 DEF Single
    <3> QED
      BY <2>5, <3>2, <3>3
  <2>8. Apart'
    <3> SUFFICES ASSUME NEW i \in 1..Len(audit'), NEW j \in 1..Len(audit'),
                        i < j, audit'[i].device = audit'[j].device,
                        audit'[i].name # audit'[j].name, audit'[i].device \notin met
                 PROVE  audit'[j].at >= audit'[i].at + Cooldown[audit'[j].device]
      BY <2>1 DEF Apart, Rows
    <3>1. i \in Rows
      BY <1>0, <2>0, <2>2 DEF Rows
    <3>2. CASE j \in Rows
      BY <1>h, <2>2, <3>1, <3>2 DEF Apart
    <3>3. CASE j = k
      <4>1. /\ audit[i].device = req[r].device /\ audit[i].name # req[r].name
            /\ req[r].device \notin met
        BY <2>2, <2>3, <3>1, <3>3
      <4>2. audit[i].at + Cooldown[audit[i].device] <= now
        BY <1>h, <2>1, <3>1, <4>1 DEF MayInsert
      <4> QED
        BY <1>0, <2>2, <2>3, <3>1, <3>3, <4>1, <4>2
    <3> QED
      BY <2>5, <3>2, <3>3
  <2> QED
    BY <2>4, <2>6, <2>7, <2>8
<1>4. ASSUME NEW r \in Request, Rule1(r) \/ Rule2(r)
      PROVE  Single' /\ AllRemembered' /\ MayInsert' /\ Apart'
  <2>1. /\ InRules(r) /\ Verdict(r) /\ Others(r) /\ SameRequest(r)
        /\ req'[r].pc \in {"rule2", "record"} /\ UNCHANGED <<now, records, met>>
    BY <1>0, <1>4, RuleEffect
  <2>2. Rewritten
    BY <1>0, <2>1, VerdictEffect
  <2>3. \A q \in Request :
           /\ req'[q].device \in {req[q].device, None}
           /\ Working(q) => Working(q)' /\ req'[q].row = req[q].row
           /\ req'[q].pc \in {"insert", "audit"} =>
                 /\ req[q].pc \in {"insert", "audit"}
                 /\ req'[q].device = req[q].device /\ req'[q].name = req[q].name
    BY <2>1 DEF Others, SameRequest, Working, InRules
  <2> QED
    BY <1>k, <2>1, <2>2, <2>3 DEF Rewritten
<1>5. ASSUME NEW r \in Request, Remember(r)
      PROVE  Single' /\ AllRemembered' /\ MayInsert' /\ Apart'
  <2>1. /\ UNCHANGED <<now, audit, met>> /\ Others(r) /\ req'[r] = Idle
        /\ req[r].pc = "record"
    BY <1>0, <1>5, ReturnEffect DEF Remember, At
  <2>2. /\ Working(r) /\ req[r].row \in Rows
        /\ audit[req[r].row].name = req[r].name /\ audit[req[r].row].device = req[r].device
    BY <2>1 DEF Working, TypeInv
  <2>3. req[r].device \in Device
    BY <1>0, <2>2
  <2>4. /\ \A d \in Device : records[d] \subseteq records'[d]
        /\ [name |-> req[r].name, at |-> now] \in records'[req[r].device]
    BY <1>0, <1>5, <2>3 DEF Remember, TypeOK
  <2>5. Single'
    BY <1>h, <1>n, <2>1 DEF Single, Others, Idle
  <2>6. ASSUME NEW i \in Rows, Remembered(i) PROVE Remembered(i)'
    <3>1. CASE req[r].row = i
      <4>1. \E p \in records'[audit[i].device] : p.name = audit[i].name /\ p.at >= audit[i].at
        BY <1>0, <2>2, <2>4, <3>1
      <4> QED
        BY <2>1, <4>1 DEF Remembered
    <3>2. CASE req[r].row # i
      <4>1. \A q \in Request : Working(q) /\ req[q].row = i => Working(q)' /\ req'[q].row = i
        BY <2>1, <3>2 DEF Working, Others
      <4> QED
        BY <1>0, <2>1, <2>4, <2>6, <4>1 DEF Remembered
    <3> QED
      BY <3>1, <3>2
  <2>7. AllRemembered'
    BY <1>h, <2>1, <2>6 DEF AllRemembered, Rows
  <2>8. MayInsert' /\ Apart'
    BY <1>h, <2>1 DEF MayInsert, Apart, Others, Idle, Rows
  <2> QED
    BY <2>5, <2>7, <2>8
<1>6. CASE Cleanup
  <2>1. /\ UNCHANGED <<now, audit, req, met>>
        /\ \A d \in Device : records'[d] = {p \in records[d] : p.at + Keep > now}
    BY <1>6 DEF Cleanup
  <2>2. ASSUME NEW i \in Rows, NEW p \in records[audit[i].device],
               p.at >= audit[i].at, p \notin records'[audit[i].device]
        PROVE  audit[i].at + Cooldown[audit[i].device] <= now
    <3>1. p.at \in Nat /\ ~(p.at + Keep > now)
      BY <1>0, <1>p, <2>1, <2>2
    <3>2. Cooldown[audit[i].device] <= Keep /\ Keep \in Nat
      BY <1>0, DelaysAssumption
    <3> QED
      BY <1>0, <2>2, <3>1, <3>2
  <2>3. AllRemembered'
    BY <1>h, <2>1, <2>2 DEF AllRemembered, Remembered, Rows, Working
  <2> QED
    BY <1>h, <2>1, <2>3 DEF Single, MayInsert, Apart, Rows
<1>7. ASSUME NEW i \in DOMAIN audit, Dismiss(i)
      PROVE  Single' /\ AllRemembered' /\ MayInsert' /\ Apart'
  <2>1. Rewritten /\ UNCHANGED <<now, records, req, met>>
    BY <1>0, <1>7, DismissEffect DEF Dismiss
  <2> QED
    BY <1>k, <2>1 DEF Rewritten, Working
<1>8. CASE Tick
  <2>1. UNCHANGED <<records, audit, req, met>> /\ now' = now + 1
    BY <1>8 DEF Tick
  <2>2. \A i \in Rows : audit[i].at + Cooldown[audit[i].device] <= now =>
                         audit[i].at + Cooldown[audit[i].device] <= now'
    BY <1>0, <2>1
  <2>3. AllRemembered'
    BY <1>h, <2>1, <2>2 DEF AllRemembered, Remembered, Rows, Working
  <2>4. MayInsert'
    BY <1>h, <2>1, <2>2 DEF MayInsert, Rows
  <2> QED
    BY <1>h, <2>1, <2>3, <2>4 DEF Single, Apart, Rows
<1>9. CASE Restart
  <2>1. Rewritten /\ now' = now
    BY <1>0, <1>9, RestartEffect DEF Restart
  <2>2. /\ req' = [r \in Request |-> Idle] /\ met \subseteq met'
        /\ \A d \in Device \ met' : records[d] = {} /\ \A r \in Request : req[r].device # d
    BY <1>9 DEF Restart, Busy
  <2>3. Single' /\ MayInsert'
    BY <1>n, <2>2 DEF Single, MayInsert, Idle
  <2>4. ASSUME NEW i \in Rows, audit[i].device \notin met'
        PROVE  audit[i].at + Cooldown[audit[i].device] <= now
    <3>1. Remembered(i) /\ audit[i].device \in Device
      BY <1>0, <1>h, <2>2, <2>4 DEF AllRemembered
    <3>2. \A q \in Request : ~(Working(q) /\ req[q].row = i)
      BY <2>2, <2>4, <3>1 DEF TypeInv
    <3> QED
      BY <2>2, <2>4, <3>1, <3>2 DEF Remembered
  <2>5. AllRemembered'
    BY <2>1, <2>4 DEF AllRemembered, Remembered, Rewritten, Kept, Rows
  <2>6. Apart'
    BY <1>h, <2>1, <2>2 DEF Apart, Rewritten, Kept, Rows
  <2> QED
    BY <2>3, <2>5, <2>6
<1>10. CASE UNCHANGED vars
  BY <1>h, <1>10 DEF vars, Single, AllRemembered, Remembered, MayInsert, Apart, Rows, Working
<1> QED
  BY <1>1, <1>2, <1>3, <1>4, <1>5, <1>6, <1>7, <1>8, <1>9, <1>10, Steps

-----------------------------------------------------------------------------
LEMMA Invariance == Spec => []IInv
<1>1. IInv /\ [Next]_vars => IInv'
  BY TypeStep, PairStep, TripleStep, GroundStep, SpaceStep DEF IInv
<1> QED
  BY <1>1, InitInv, PTL DEF Spec

\* Two students of one device check in a cooldown apart as long as its check-ins
\* do not overlap and no restart forgets the first: Check and Record enclose the
\* check-in, and cleanup waits for the cooldown.
THEOREM StudentsAreSpaced == Spec => []Spaced
<1>1. IInv => Spaced
  BY DEF IInv, SpaceInv
<1> QED
  BY <1>1, Invariance, PTL

\* A flag of FlagSuspiciousCheckins has its ground in the audit log, and the log
\* is well formed.
THEOREM FlagsStaySound == Spec => []FlagsAreSound
<1>1. IInv => FlagsAreSound
  BY DEF IInv, TypeInv, FlagsAreSound
<1> QED
  BY <1>1, Invariance, PTL

-----------------------------------------------------------------------------
\* What the numbers in TriplesAreFlagged say of three values.
LEMMA PairSize ==
  ASSUME NEW x, NEW y
  PROVE  IsFiniteSet({x, y}) /\ Cardinality({x, y}) \in Nat /\ Cardinality({x, y}) <= 2
<1> DEFINE A == {x}
<1>1. IsFiniteSet(A) /\ Cardinality(A) = 1
  BY FS_Singleton
<1> HIDE DEF A
<1>2. IsFiniteSet(A \cup {y}) /\ Cardinality(A \cup {y}) \in Nat /\ Cardinality(A \cup {y}) <= 2
  BY <1>1, FS_AddElement
<1>3. A \cup {y} = {x, y}
  BY DEF A
<1> QED
  BY <1>2, <1>3

LEMMA AllDistinct ==
  ASSUME NEW x, NEW y, NEW z, Cardinality({x, y, z}) = 3
  PROVE  x # y /\ x # z /\ y # z
<1>1. x = y => {x, y, z} = {x, z}
  OBVIOUS
<1>2. x = z => {x, y, z} = {x, y}
  OBVIOUS
<1>3. y = z => {x, y, z} = {x, y}
  OBVIOUS
<1>4. Cardinality({x, z}) \in Nat /\ Cardinality({x, z}) <= 2
  BY PairSize
<1>5. Cardinality({x, y}) \in Nat /\ Cardinality({x, y}) <= 2
  BY PairSize
<1> QED
  BY <1>1, <1>2, <1>3, <1>4, <1>5

LEMMA AllEqual ==
  ASSUME NEW x, NEW y, NEW z, Cardinality({x, y, z}) = 1
  PROVE  x = y /\ x = z /\ y = z
<1>1. IsFiniteSet({x, y, z})
  <2>1. IsFiniteSet({x, y} \cup {z})
    BY PairSize, FS_AddElement
  <2>2. {x, y} \cup {z} = {x, y, z}
    OBVIOUS
  <2> QED
    BY <2>1, <2>2
<1>2. \E v : {x, y, z} = {v}
  BY <1>1, FS_Singleton
<1> QED
  BY <1>2

\* The log of checkin_audit flags one of every pair of students whom a device
\* brought within the window, and one of every three of a day, however their
\* check-ins interleave: each queries after its own insert.
THEOREM SuspectsGetFlagged == Spec => []SuspectsAreFlagged
<1>1. IInv => SuspectsAreFlagged
  <2> SUFFICES ASSUME IInv PROVE PairsAreFlagged /\ TriplesAreFlagged
    BY DEF SuspectsAreFlagged
  <2>0. DOMAIN audit = Rows /\ TypeInv /\ Len(audit) \in Nat
    BY RowsAreDomain DEF IInv, TypeInv
  <2>1. PairsAreFlagged
    <3> SUFFICES ASSUME NEW i \in Rows, NEW j \in Rows,
                        audit[i].device = audit[j].device, audit[i].name # audit[j].name,
                        Settled(i), Settled(j),
                        audit[i].at <= audit[j].at + Window, audit[j].at <= audit[i].at + Window
                 PROVE  {audit[i].flag, audit[j].flag} # {"no"}
      BY <2>0 DEF PairsAreFlagged
    <3>1. i < j \/ j < i
      BY <2>0 DEF Rows
    <3>2. audit[i].judged /\ audit[j].judged
      BY DEF Settled
    <3>3. audit[i].flag # "no" \/ audit[j].flag # "no"
      BY <3>1, <3>2 DEF IInv, PairInv
    <3> QED
      BY <3>3
  <2>2. TriplesAreFlagged
    <3> SUFFICES ASSUME NEW i \in Rows, NEW j \in Rows, NEW k \in Rows,
                        Cardinality({a.device : a \in {audit[i], audit[j], audit[k]}}) = 1,
                        Cardinality({a.name : a \in {audit[i], audit[j], audit[k]}}) = 3,
                        Settled(i), Settled(j), Settled(k),
                        Cardinality({Day(a.at) : a \in {audit[i], audit[j], audit[k]}}) = 1
                 PROVE  {a.flag : a \in {audit[i], audit[j], audit[k]}} # {"no"}
      BY <2>0 DEF TriplesAreFlagged
    <3>1. audit[i].device = audit[j].device /\ audit[i].device = audit[k].device
      <4>1. {a.device : a \in {audit[i], audit[j], audit[k]}}
               = {audit[i].device, audit[j].device, audit[k].device}
        OBVIOUS
      <4>2. Cardinality({audit[i].device, audit[j].device, audit[k].device}) = 1
        BY <4>1
      <4> QED
        BY <4>2, AllEqual
    <3>2. /\ audit[i].name # audit[j].name /\ audit[i].name # audit[k].name
          /\ audit[j].name # audit[k].name
      <4>1. {a.name : a \in {audit[i], audit[j], audit[k]}}
               = {audit[i].name, audit[j].name, audit[k].name}
        OBVIOUS
      <4>2. Cardinality({audit[i].name, audit[j].name, audit[k].name}) = 3
        BY <4>1
      <4> QED
        BY <4>2, AllDistinct
    <3>3. Day(audit[i].at) = Day(audit[j].at) /\ Day(audit[i].at) = Day(audit[k].at)
      <4>1. {Day(a.at) : a \in {audit[i], audit[j], audit[k]}}
               = {Day(audit[i].at), Day(audit[j].at), Day(audit[k].at)}
        OBVIOUS
      <4>2. Cardinality({Day(audit[i].at), Day(audit[j].at), Day(audit[k].at)}) = 1
        BY <4>1
      <4> QED
        BY <4>2, AllEqual
    <3>4. \/ i < k /\ j < k
          \/ i < j /\ k < j
          \/ j < i /\ k < i
      BY <2>0, <3>2 DEF Rows
    <3>5. audit[i].flag # "no" \/ audit[j].flag # "no" \/ audit[k].flag # "no"
      BY <3>1, <3>2, <3>3, <3>4 DEF IInv, TripleInv
    <3> QED
      BY <3>5
  <2> QED
    BY <2>1, <2>2
<1> QED
  BY <1>1, Invariance, PTL
==============================================================================
