---------------------------- MODULE MCPinControl ----------------------------
(* Small instances of PinControl. *)
EXTENDS PinControl, TLC

CONSTANTS r1, r2

Symmetry == Permutations({r1, r2})
=============================================================================
