------------------------- MODULE MCAttemptHistory -------------------------
(***************************************************************************)
(* A small instance of AttemptHistory: a selected-flow cell s that may be  *)
(* timed again, and an all-flow cell f that must reuse its artifact.       *)
(***************************************************************************)
EXTENDS AttemptHistory, TLC

CONSTANTS f, s, w1, w2

MCEquivalent == f :> {s} @@ s :> {}
MCConsumers == f :> {f, s} @@ s :> {f, s}
MCSymmetry == Permutations({w1, w2})
=============================================================================
