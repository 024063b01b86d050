---------------------------- MODULE MCEmployment ----------------------------
(* Small instances of Employment. *)
EXTENDS Employment, TLC

CONSTANTS e1, e2, e3, c1, c2, a1, engineer, lead

Symmetry == Permutations({engineer, lead}) \union Permutations({c1, c2})
=============================================================================
