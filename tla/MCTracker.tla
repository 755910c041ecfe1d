------------------------------- MODULE MCTracker -------------------------------
(* Instances of Tracker. *)
EXTENDS Tracker, TLC

CONSTANTS r1, r2

Symmetry == Permutations({r1, r2})

\* A draft of every recurrence, two of one name, one outside the first day
\* and one that is never a profile gap.
MCForm(n, t, rec, from, until, gap) ==
    [name |-> n, type |-> t, rec |-> rec, start |-> from, until |-> until,
     fits |-> Student, gap |-> gap]
MCDraft ==
    {MCForm("n1", "todo", "daily", 1, MaxDay, Student),
     MCForm("n1", "todo", "none", 1, 2, Student),
     MCForm("n2", "todo", "weekly", 1, MaxDay, {}),
     MCForm("n2", "todo", "monthly", 2, MaxDay, Student)}
MCName == {"n1", "n2"}
=============================================================================
