------------------------------ MODULE CheckInDesk ------------------------------
(***************************************************************************)
(* What stands around the attendance row when a student checks in:         *)
(*   RateLimiter                       (internal/handlers/ratelimit.go)    *)
(*   InsertAudit, FlagSuspiciousCheckins, DismissAuditFlag                 *)
(*                                     (internal/database/audit.go)        *)
(* as HandleCheckIn (internal/handlers/api.go) calls them.                 *)
(*                                                                         *)
(* The limiter keeps its records in memory, behind a mutex; the flags are  *)
(* columns of checkin_audit.  Check and Record are critical sections at    *)
(* the two ends of a check-in, and each flagging rule is a query of its    *)
(* own, so that check-ins from one device meet in between.                 *)
(***************************************************************************)
EXTENDS Naturals, Sequences, FiniteSets

CONSTANTS
    Request,    \* check-ins in flight at one time
    Name,       \* student_name as posted
    Device,     \* client_ip, fingerprint, device_id
    None,       \* no student, no device
    Cooldown,   \* ticks between two students of a device: its page posts device_type
    Window,     \* ticks: "5 minutes" of rule 1
    Keep,       \* ticks after which cleanup drops a record
    DayLen,     \* ticks of a day
    MaxTime,    \* bound: the last tick
    MaxAudit    \* bound: check-ins

ASSUME NoneAssumption == None \notin Name \cup Device
ASSUME DelaysAssumption ==
    /\ Cooldown \in [Device -> Nat] /\ Window \in Nat /\ Keep \in Nat /\ DayLen \in Nat \ {0}
    /\ \A d \in Device : Cooldown[d] <= Keep
ASSUME BoundsAssumption == MaxTime \in Nat /\ MaxAudit \in Nat

VARIABLES
    now,        \* the time of day and the date, in ticks
    records,    \* RateLimiter.records, by device
    audit,      \* checkin_audit; a row's id is its position
    req,        \* the local state of every check-in
    met         \* history: devices whose check-ins overlapped, or lost records

vars == <<now, records, audit, req, met>>

-----------------------------------------------------------------------------
Record == [name : Name, at : Nat]
\* judged is history: the rules ran in the tick of the row, no query failed
Row    == [name : Name, device : Device, at : Nat, flag : {"no", "yes", "dismissed"},
           judged : BOOLEAN]
Local  == [pc : {"idle", "insert", "audit", "rule1", "rule2", "record"},
           name : Name \cup {None}, device : Device \cup {None}, row : Nat]

Idle == [pc |-> "idle", name |-> None, device |-> None, row |-> 0]

Day(t) == t \div DayLen
At(r, pc) == req[r].pc = pc
Goto(r, pc) == req' = [req EXCEPT ![r].pc = pc]
Return(r) == req' = [req EXCEPT ![r] = Idle]

\* One type invariant; a running check-in knows its student and device.
TypeOK ==
    /\ now \in Nat
    /\ records \in [Device -> SUBSET Record]
    /\ audit \in Seq(Row)
    /\ req \in [Request -> Local]
    /\ met \subseteq Device
    /\ \A r \in Request : ~At(r, "idle") => req[r].name # None /\ req[r].device # None
    /\ \A r \in Request : req[r].pc \in {"rule1", "rule2"} => req[r].row \in DOMAIN audit

Busy(d) == \E r \in Request : req[r].device = d

-----------------------------------------------------------------------------
(* HandleCheckIn *)

\* (mutant) the remaining time is rounded down
TooSoon_Boundary(n, d) ==
    \E p \in records[d] : p.name # n /\ p.at + Cooldown[d] > now + 1
\* RateLimiter.Check: another student within the cooldown
TooSoon(n, d) ==
    \E p \in records[d] : p.name # n /\ p.at + Cooldown[d] > now

\* Name and PIN are accepted; a request that comes too soon is refused.
Check(r, n, d) ==
    /\ At(r, "idle") /\ ~TooSoon(n, d)
    /\ Len(audit) + Cardinality({q \in Request : req[q].pc \in {"insert", "audit"}})
         < MaxAudit
    /\ req' = [req EXCEPT ![r] = [pc |-> "insert", name |-> n, device |-> d, row |-> 0]]
    /\ met' = IF Busy(d) THEN met \cup {d} ELSE met
    /\ UNCHANGED <<now, records, audit>>

\* The student has an open session ("Already checked in today!"), or the
\* insert fails, or there is a new session: module Attendance.
Insert(r) ==
    /\ At(r, "insert")
    /\ Goto(r, "audit") \/ Return(r)
    /\ UNCHANGED <<now, records, audit, met>>

NewRow(r) == [name |-> req[r].name, device |-> req[r].device, at |-> now,
              flag |-> "no", judged |-> FALSE]

\* Its error is discarded, not modelled: the rules then update the id 0 in vain.
Audit(r) ==
    /\ At(r, "audit")
    /\ audit' = Append(audit, NewRow(r))
    /\ req' = [req EXCEPT ![r].pc = "rule1", ![r].row = Len(audit) + 1]
    /\ UNCHANGED <<now, records, met>>

OfDevice(d) == {i \in DOMAIN audit : audit[i].device = d}
\* The students of the device's entries of the last five minutes
Recent(r) ==
    {audit[i].name : i \in {j \in OfDevice(req[r].device) : audit[j].at + Window >= now}}
\* (mutant) a day is the last DayLen ticks
Today_Sliding(r) ==
    {audit[i].name : i \in {j \in OfDevice(req[r].device) : audit[j].at + DayLen >= now}}
Today(r) ==
    {audit[i].name : i \in {j \in OfDevice(req[r].device) : Day(audit[j].at) = Day(now)}}

\* What the rules find is written to the request's own row.
Found(r, suspicious, judged) ==
    LET i == req[r].row IN
    audit' = [audit EXCEPT ![i].flag = IF suspicious THEN "yes" ELSE @,
                           ![i].judged = judged /\ audit[i].at = now]

\* "2+ different students from same device in last 5 minutes"; a query that
\* fails counts nobody, an update that fails is the end of it.
Rule1(r) ==
    LET suspicious == Recent(r) \ {req[r].name} # {} IN
    /\ At(r, "rule1")
    /\ \/ Found(r, suspicious, TRUE) /\ Goto(r, IF suspicious THEN "record" ELSE "rule2")
       \/ UNCHANGED audit /\ Goto(r, "rule2")
       \/ suspicious /\ Found(r, FALSE, FALSE) /\ Goto(r, "record")
    /\ UNCHANGED <<now, records, met>>

\* (mutant) the student of the row itself is not counted
Rule2_Others(r) ==
    /\ At(r, "rule2")
    /\ \/ Found(r, Cardinality(Today(r) \ {req[r].name}) >= 3, audit[req[r].row].judged)
       \/ Found(r, FALSE, FALSE)
    /\ Goto(r, "record")
    /\ UNCHANGED <<now, records, met>>
\* "3+ different students from same device today"
Rule2(r) ==
    /\ At(r, "rule2")
    /\ \/ Found(r, Cardinality(Today(r)) >= 3, audit[req[r].row].judged)
       \/ Found(r, FALSE, FALSE)
    /\ Goto(r, "record")
    /\ UNCHANGED <<now, records, met>>

\* RateLimiter.Record, the last step of a successful check-in
Remember(r) ==
    /\ At(r, "record")
    /\ records' = [records EXCEPT ![req[r].device] =
                      @ \cup {[name |-> req[r].name, at |-> now]}]
    /\ Return(r)
    /\ UNCHANGED <<now, audit, met>>

-----------------------------------------------------------------------------
(* Beside the check-ins *)

\* RateLimiter.cleanup, from a ticker: at any time
Cleanup ==
    /\ records' = [d \in Device |-> {p \in records[d] : p.at + Keep > now}]
    /\ records' # records
    /\ UNCHANGED <<now, audit, req, met>>

\* An admin reviews a flag (HandleDismissFlag).
Dismiss(i) ==
    /\ audit[i].flag = "yes"
    /\ audit' = [audit EXCEPT ![i].flag = "dismissed"]
    /\ UNCHANGED <<now, records, req, met>>

Tick ==
    /\ now < MaxTime
    /\ now' = now + 1
    /\ UNCHANGED <<records, audit, req, met>>

\* The rules of FlagSuspiciousCheckins are done with row i.
Settled(i) ==
    /\ audit[i].judged
    /\ \A r \in Request : req[r].pc \in {"rule1", "rule2"} => req[r].row # i

\* The records were in memory only, and so were the requests.  What they had
\* not settled stays unsettled (history).
Restart ==
    /\ audit' = [i \in DOMAIN audit |->
                    IF Settled(i) THEN audit[i] ELSE [audit[i] EXCEPT !.judged = FALSE]]
    /\ records' = [d \in Device |-> {}]
    /\ req' = [r \in Request |-> Idle]
    /\ met' = met \cup {d \in Device : Busy(d) \/ records[d] # {}}
    /\ UNCHANGED now

-----------------------------------------------------------------------------
Init ==
    /\ now = 0
    /\ records = [d \in Device |-> {}]
    /\ audit = <<>>
    /\ req = [r \in Request |-> Idle]
    /\ met = {}

CheckInStep(r) ==
    \/ \E n \in Name, d \in Device : Check(r, n, d)
    \/ Insert(r)
    \/ Audit(r)
    \/ Rule1(r)
    \/ Rule2(r)
    \/ Remember(r)

Next ==
    \/ \E r \in Request : CheckInStep(r)
    \/ Cleanup
    \/ \E i \in DOMAIN audit : Dismiss(i)
    \/ Tick
    \/ Restart

Spec == Init /\ [][Next]_vars

-----------------------------------------------------------------------------
(* Properties *)

\* Two students of one device are a cooldown apart, the later one's, as long
\* as its check-ins did not overlap and the program ran on: Check and Record
\* are two critical sections, and cleanup drops nothing that Check still
\* needs (ratelimit.go:44).
Spaced ==
    \A i, j \in DOMAIN audit :
        LET a == audit[i]  b == audit[j] IN
        i < j /\ a.device = b.device /\ a.name # b.name /\ a.device \notin met
            => b.at >= a.at + Cooldown[b.device]

\* However two check-ins of different students from one device interleave,
\* one of them is flagged: each queries after its own insert (audit.go:31).
PairsAreFlagged ==
    \A i, j \in DOMAIN audit :
        LET a == audit[i]  b == audit[j] IN
        (/\ a.device = b.device /\ a.name # b.name
         /\ Settled(i) /\ Settled(j)
         /\ a.at <= b.at + Window /\ b.at <= a.at + Window)
            => {a.flag, b.flag} # {"no"}

\* The same for three students of one day, which the second rule is to find
\* however far apart they are.
TriplesAreFlagged ==
    \A i, j, k \in DOMAIN audit :
        LET rows == {audit[i], audit[j], audit[k]} IN
        (/\ Cardinality({a.device : a \in rows}) = 1
         /\ Cardinality({a.name : a \in rows}) = 3
         /\ Settled(i) /\ Settled(j) /\ Settled(k)
         /\ Cardinality({Day(a.at) : a \in rows}) = 1)
            => {a.flag : a \in rows} # {"no"}

\* A flag has a ground that the audit log still shows: another student of the
\* device near in time, or three of a day since.
FlagsHaveGrounds ==
    \A i \in DOMAIN audit :
        audit[i].flag # "no" =>
            \/ \E j \in OfDevice(audit[i].device) :
                  audit[j].name # audit[i].name /\ audit[i].at <= audit[j].at + Window
            \/ \E t \in audit[i].at .. now :
                  Cardinality({audit[j].name : j \in {k \in OfDevice(audit[i].device) :
                                                          Day(audit[k].at) = Day(t)}}) >= 3

\* What the flags are for: neither a pair nor a triple of students stays
\* without one (audit.go:31).
SuspectsAreFlagged == PairsAreFlagged /\ TriplesAreFlagged

\* The audit log at every moment: well formed, and nobody flagged without a
\* ground in it (audit.go:40-66).
FlagsAreSound == TypeOK /\ FlagsHaveGrounds
=============================================================================
