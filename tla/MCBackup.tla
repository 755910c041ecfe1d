------------------------------- MODULE MCBackup -------------------------------
(* Small instances of Backup. *)
EXTENDS Backup, TLC

CONSTANTS ann, bob

Symmetry == Permutations({ann, bob})
=============================================================================
