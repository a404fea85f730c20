---------------------------- MODULE MCAdminKeys ----------------------------
(* AdminKeys on a small instance: handlers in flight are interchangeable.   *)
EXTENDS AdminKeys, TLC

Symmetry == Permutations(Jobs)
=============================================================================
