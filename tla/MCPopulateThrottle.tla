------------------------- MODULE MCPopulateThrottle -------------------------
(* Three completion routines at a limit of one outstanding population.       *)
EXTENDS PopulateThrottle, TLC
CONSTANTS c1, c2, c3
MCRoutines == {c1, c2, c3}
Sym == Permutations(MCRoutines)
=============================================================================
