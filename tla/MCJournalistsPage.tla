-------------------------- MODULE MCJournalistsPage --------------------------
(* JournalistsPage with two journalists, two cards and two requests at once.  *)
EXTENDS JournalistsPage, TLC

Symmetry == Permutations(Calls) \cup Permutations(Journalists) \cup Permutations(Cards)
=============================================================================
