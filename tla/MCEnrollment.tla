----------------------------- MODULE MCEnrollment -----------------------------
(* Small instances of Enrollment. *)
EXTENDS Enrollment, TLC

CONSTANTS r1, r2, ann, bob, lab

\* One room that is full with one student.
OneSeat == lab :> 1

Symmetry == Permutations({r1, r2}) \cup Permutations({ann, bob})
=============================================================================
