----------------------------- MODULE MCAccounts -----------------------------
(* Small instances of Accounts. *)
EXTENDS Accounts, TLC

CONSTANTS r1, r2, ann, bob

Symmetry == Permutations({r1, r2}) \cup Permutations({ann, bob})
=============================================================================
