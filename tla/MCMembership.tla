---------------------------- MODULE MCMembership ----------------------------
(* Constants and symmetry of the TLC runs of Membership.                   *)
EXTENDS Membership, TLC

RequestSymmetry == Permutations(Requests)
=============================================================================
