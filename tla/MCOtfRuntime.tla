---------------------------- MODULE MCOtfRuntime ----------------------------
(***************************************************************************)
(* A small instance of OtfRuntime.  Selections s1 and s2 ask for the same  *)
(* queries, s1 and s3 for different queries with the same rows, s4 has     *)
(* rows of its own and s5 only structural zeros.  Parameters p1 and p2     *)
(* project to the same prepared slots.                                     *)
(***************************************************************************)
EXTENDS OtfRuntime, TLC

CONSTANTS s1, s2, s3, s4, s5, q1, q2, q3, q4, f1, f2, p1, p2, p3, v1, v2

MCRequests == s1 :> q1 @@ s2 :> q1 @@ s3 :> q2 @@ s4 :> q3 @@ s5 :> q4
MCFamilyOf == q1 :> f1 @@ q2 :> f1 @@ q3 :> f2 @@ q4 :> None
MCProjection == p1 :> v1 @@ p2 :> v1 @@ p3 :> v2
=============================================================================
