--------------------------- MODULE AttendanceLedger ---------------------------
(***************************************************************************)
(* What classgo promises about attendance, without requests, failures or   *)
(* interleavings: a ledger of sessions and of the answers given to todos.  *)
(* A student arrives, leaves together with the answers that were asked     *)
(* for, or has an answer entered late.  Attendance is shown to implement   *)
(* this module.                                                            *)
(***************************************************************************)
EXTENDS Naturals, Sequences, FiniteSets

CONSTANTS
    Person, Student, Item, NameOf, StudentOf,
    DueDate,    \* days a late sign-off may name
    Limited,    \* TRUE: a name arrives only with fewer open sessions than
    Limit       \*       this

VARIABLES day, sec, attendance, responses

vars == <<day, sec, attendance, responses>>

Sessions(n, d) == {i \in DOMAIN attendance :
                      NameOf[attendance[i].who] = n /\ attendance[i].day = d}
OpenSessions(n, d) == {i \in Sessions(n, d) : ~attendance[i].out}

Init ==
    /\ day = 0 /\ sec = 0
    /\ attendance = <<>>
    /\ responses = {}

Arrive(w) ==
    /\ Limited => Cardinality(OpenSessions(NameOf[w], day)) < Limit
    /\ attendance' = Append(attendance,
                         [who |-> w, day |-> day, sec |-> sec, out |-> FALSE])
    /\ UNCHANGED <<day, sec, responses>>

\* What a departure on day d answers: items, each with the date of its answer.
\* Midnight may fall between the departure and an answer, never the reverse.
Answers(d) == {a \in SUBSET (Item \X (d..day)) :
                  \A x, y \in a : x[1] = y[1] => x = y}

\* All sessions of the name and day that are open end at once, and every
\* answer is attached to one session of the name and day.
Leave(w, d, answers) ==
    LET n == NameOf[w] IN
    /\ OpenSessions(n, d) # {}
    /\ attendance' = [i \in DOMAIN attendance |->
                        [attendance[i] EXCEPT
                            !.out = @ \/ i \in OpenSessions(n, d)]]
    /\ \E i \in Sessions(n, d) :
          responses' = responses \cup
              {[student |-> StudentOf[w], item |-> a[1],
                due |-> a[2], row |-> i] : a \in answers}
    /\ d = day \/ answers # {}
    /\ UNCHANGED <<day, sec>>

SignOffLate(s, it, d) ==
    /\ responses' = responses \cup
          {[student |-> s, item |-> it, due |-> d, row |-> 0]}
    /\ UNCHANGED <<day, sec, attendance>>

TimePasses ==
    /\ \/ day' = day /\ sec' = sec + 1
       \/ day' = day + 1 /\ sec' = 0
    /\ UNCHANGED <<attendance, responses>>

Next ==
    \/ \E w \in Person : \/ Arrive(w)
                         \/ \E d \in 0..day : \E a \in Answers(d) : Leave(w, d, a)
    \/ \E s \in Student, it \in Item, d \in DueDate : SignOffLate(s, it, d)
    \/ TimePasses

Spec == Init /\ [][Next]_vars
=============================================================================
