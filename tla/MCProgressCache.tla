---------------------------- MODULE MCProgressCache ----------------------------
(* Small instances of ProgressCache. *)
EXTENDS ProgressCache, TLC

CONSTANTS m1, m2, ann, bob

Symmetry == Permutations({m1, m2}) \cup Permutations({ann, bob})
                \cup Permutations(Range)
=============================================================================
