--------------------------- MODULE MCGuardedWork ---------------------------
(***************************************************************************)
(* A small instance of GuardedWork: two pairs of isomorphic processes, of  *)
(* which one has a template domain that its identity remap refuses; two    *)
(* controllers on one slot, an interrupt each and one kill; a worker with  *)
(* a descendant, a guarded command with two.                               *)
(***************************************************************************)
EXTENDS GuardedWork

MCClass == <<"v", "v", "u", "u">>

ASSUME MCAssumption == PartsAssumption
=============================================================================
