------------------------ MODULE MC_SalesContractFacts ------------------------
(* Instances of SalesContractFacts for TLC.                                *)
EXTENDS SalesContractFacts, TLC

CONSTANTS iA, iB, customer, currency, v1, v2, b1, b2, f1, f2, f3

Nothing == <<>>     \* the assertion of no field: what a ledger row asserts

\* Two ledgers that name the same scopes in opposite order.  The rows of the
\* first assert nothing but the scope; the entries of the second share one
\* fragment, disagree with each other, and one of them lacks its identity.
TwoFiles ==
    b1 :> <<Entry(iA, Nothing, f1), Entry(iB, Nothing, f2)>>
    @@ b2 :> <<Entry(iB, customer :> v1, f3), Entry(iB, customer :> v2, f3),
               Entry(iA, Nothing, f3), Entry(None, Nothing, f3)>>

SomeCreations == {<<iA, Nothing>>, <<iA, customer :> v1>>, <<None, Nothing>>}
SomeAmendments == {customer :> v1, customer :> v2, currency :> v1}

HumanAndIdSymmetry == Permutations(RevIds) \cup Permutations(Humans)
=============================================================================
