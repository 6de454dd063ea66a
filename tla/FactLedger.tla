----------------------------- MODULE FactLedger -----------------------------
(***************************************************************************)
(* What an anchor/revision store of facts promises its readers: for every  *)
(* business identity the attribute values that are known about it, which   *)
(* are first asserted, then supplemented (an unknown attribute becomes     *)
(* known) or corrected (a known attribute gets another value), and never   *)
(* forgotten.  A transaction may do so for several identities at once.     *)
(***************************************************************************)
CONSTANTS Identities, Fields, Values, None

VARIABLE known      \* known[i]: the current projection of identity i, or None

Projections == [Fields -> Values \cup {None}]
KnownFields(v) == {f \in Fields : v[f] # None}

FirstAsserted(i) == known[i] = None /\ known'[i] \in Projections

Supplemented(i) ==
    /\ known[i] # None /\ known'[i] \in Projections
    /\ \A f \in KnownFields(known[i]) : known'[i][f] = known[i][f]

Corrected(i) ==
    /\ known[i] # None /\ known'[i] \in Projections
    /\ KnownFields(known'[i]) = KnownFields(known[i])

Unchanged(i) == known'[i] = known[i]

Init == known = [i \in Identities |-> None]
Next == \A i \in Identities :
            Unchanged(i) \/ FirstAsserted(i) \/ Supplemented(i) \/ Corrected(i)
Spec == Init /\ [][Next]_known
=============================================================================
