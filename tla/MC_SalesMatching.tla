-------------------------- MODULE MC_SalesMatching --------------------------
(* An instance of SalesMatching for TLC.                                   *)
EXTENDS SalesMatching, TLC

CONSTANTS j1, j2, t1, t2, c1, c2, p1, p2

MCAmount == (j1 :> 3) @@ (j2 :> 2)
MCProposals == {{t1}, {t1, t2}}
\* One target, both targets, and more than j2 has.
MCSubmissions == {t1 :> 2, (t1 :> 1) @@ (t2 :> 2), t2 :> 1}

Symmetry == Permutations({c1, c2}) \cup Permutations({p1, p2})
=============================================================================
