--------------------------- MODULE MCLeavePolicies ---------------------------
(* Small instances of LeavePolicies. *)
EXTENDS LeavePolicies, TLC

CONSTANTS annual, w1, w2

Symmetry == Permutations({w1, w2})
=============================================================================
