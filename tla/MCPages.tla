------------------------------- MODULE MCPages -------------------------------
(***************************************************************************)
(* Two calls of a page at a time; two notifications; three documents, one  *)
(* confidential and one of a type that is refused; two editors, a request  *)
(* that goes on when nobody hears its answer, and a job that takes the     *)
(* employee out of their sight.                                            *)
(***************************************************************************)
EXTENDS Pages

CONSTANTS c1, c2, n1, n2, letter, review, program, editor1, editor2, lost1, here, elsewhere

\* With an email that is taken nothing is saved, so one form stands for the rest.
OneRefusedForm ==
  [workEmail : {"own"}, phoneNumber : {"", "number"}, status : {"ACTIVE", "PROBATION"}]
    \union {[workEmail |-> "taken", phoneNumber |-> "", status |-> "ACTIVE"]}
=============================================================================
