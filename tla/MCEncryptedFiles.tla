-------------------------- MODULE MCEncryptedFiles --------------------------
(* EncryptedFiles on a small instance: handlers in flight are               *)
(* interchangeable.                                                         *)
EXTENDS EncryptedFiles, TLC

Symmetry == Permutations(Jobs)
=============================================================================
