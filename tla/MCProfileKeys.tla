--------------------------- MODULE MCProfileKeys ---------------------------
(* ProfileKeys on a small instance: handlers in flight are interchangeable, *)
(* and so are passwords.                                                    *)
EXTENDS ProfileKeys, TLC

Symmetry == Permutations(Jobs) \cup Permutations(Passwords)
=============================================================================
