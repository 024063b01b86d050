----------------------------- MODULE MCSessions -----------------------------
(* Small instances of Sessions. *)
EXTENDS Sessions, TLC

CONSTANTS t1, c1, c2, c3

OnePage == [c \in Calls |-> t1]
=============================================================================
