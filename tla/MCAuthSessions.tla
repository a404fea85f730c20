--------------------------- MODULE MCAuthSessions ---------------------------
(* Constants and symmetry of the TLC runs of AuthSessions.                 *)
EXTENDS AuthSessions, TLC

RequestSymmetry == Permutations(Requests)
=============================================================================
