---------------------------- MODULE MCCheckInDesk ----------------------------
(* Small instances of CheckInDesk. *)
EXTENDS CheckInDesk, TLC

CONSTANTS r1, r2, ann, bob, cat, kiosk

\* One tick between two students of the kiosk
OneTick == kiosk :> 1

Symmetry == Permutations({r1, r2}) \cup Permutations({ann, bob, cat})
=============================================================================
