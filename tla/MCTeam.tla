------------------------------- MODULE MCTeam -------------------------------
(***************************************************************************)
(* Small teams for TLC.  Nothing in Team tells rows, handlers or sign-ups  *)
(* apart, so each of these sets is symmetric.                              *)
(***************************************************************************)
EXTENDS Team, TLC

Symmetry == Permutations(Row) \cup Permutations(Handler) \cup Permutations(Founder)
=============================================================================
