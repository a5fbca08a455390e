----------------------------- MODULE MCControl -----------------------------
(* The resources of a context, the rate limit and the statistics.  The three *)
(* models share no state: a behaviour is one of one of them.                 *)
EXTENDS Lifecycle, PopulateThrottle, Statistics, TLC
CONSTANTS t1, pnp, u1, disk, other1, other2, c1, c2, r1, r2
MCRoutines  == {c1, c2}
MCRecorders == {r1, r2}
Sym ==
  Permutations({other1, other2}) \cup Permutations(MCRoutines)

VARIABLE side

MCInit ==
  Init /\ TInit /\ SInit /\ side \in {"context", "limit", "statistics"}
MCNext ==
  \/ side = "context"    /\ Next  /\ UNCHANGED <<tvars, svars, side>>
  \/ side = "limit"      /\ TNext /\ UNCHANGED <<vars, svars, side>>
  \/ side = "statistics" /\ SNext /\ UNCHANGED <<vars, tvars, side>>
MCSpec == MCInit /\ [][MCNext]_<<vars, tvars, svars, side>>
=============================================================================
