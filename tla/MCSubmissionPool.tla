-------------------------- MODULE MCSubmissionPool --------------------------
(***************************************************************************)
(* Four submissions, two of them of one person, behind two connections.    *)
(***************************************************************************)
EXTENDS SubmissionPool, TLC

CONSTANTS s1, s2, s3, s4, e1, e2, e3

OwnerOf == (s1 :> e1) @@ (s2 :> e1) @@ (s3 :> e2) @@ (s4 :> e3)
=============================================================================
