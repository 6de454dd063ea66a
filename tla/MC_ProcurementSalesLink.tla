---------------------- MODULE MC_ProcurementSalesLink ----------------------
(* Instances of ProcurementSalesLink for TLC.                              *)
EXTENDS ProcurementSalesLink, TLC

CONSTANTS pA, sX, sY, b1, b2

\* One relationship, and one more for the same procurement contract.
OneKey  == {<<pA, sX>>}
TwoKeys == {<<pA, sX>>, <<pA, sY>>}

\* Ledger files: the same two relationships in opposite order (lock cycles).
OneRow      == b1 :> <<<<pA, sX>>>>
CrossedRows == b1 :> <<<<pA, sX>>, <<pA, sY>>>> @@ b2 :> <<<<pA, sY>>, <<pA, sX>>>>

IdSymmetry == Permutations(LinkIds)
HumanAndIdSymmetry == Permutations(LinkIds) \cup Permutations(Humans)
=============================================================================
