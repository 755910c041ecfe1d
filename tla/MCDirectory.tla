----------------------------- MODULE MCDirectory -----------------------------
(* Small instances of Directory. *)
EXTENDS Directory, TLC

CONSTANTS r1, r2, w1, w2

\* Two tables stand for the five.
TwoTables == <<"students", "schedules">>

Symmetry == Permutations({r1, r2}) \cup Permutations({w1, w2})
=============================================================================
