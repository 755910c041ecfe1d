----------------------------- MODULE MCAttendance -----------------------------
(***************************************************************************)
(* Small instances of Attendance: two students with a name each, or one.   *)
(***************************************************************************)
EXTENDS Attendance, TLC

CONSTANTS ann, bob, nAnn, nBob, sAnn, sBob, r1, r2

TwoNames    == ann :> nAnn @@ bob :> nBob
TwoStudents == ann :> sAnn @@ bob :> sBob
OneName     == ann :> nAnn
OneStudent  == ann :> sAnn

RequestSymmetry == Permutations({r1, r2})
=============================================================================
