---------------------------- MODULE MCWebSession ----------------------------
(* WebSession on a small instance: jobs, tabs and journalists are alike.      *)
EXTENDS WebSession, TLC

Symmetry == Permutations(Jobs) \cup Permutations(Tabs) \cup Permutations(Users \ Admins)
=============================================================================
