-------------------------- MODULE MC_PurchaseFacts --------------------------
(* A small instance of PurchaseFacts for TLC: one contract number, one item *)
(* key, and shipments on one day with and without a reference.              *)
EXTENDS PurchaseFacts, TLC

CONSTANTS n1, k1, x, day, v1, v2, p, led, con, shp, pk,
          f1, f2, f3, f4, f5, r1, r2, r3, r4, r5, r6, r7, r8, r9, r10

MCFields == [CONTRACT |-> {"gross"}, ITEM |-> {"cost"}, SHIPMENT |-> {"item", "quantity"}]

\* A ledger, a backfill that disagrees with it, a batch of shipments from one
\* document with an incomplete row, and a fact pack.
MCFiles ==
    led :> <<Entry("CONTRACT", n1, None, "gross" :> v1, f1)>>
    @@ con :> <<Entry("CONTRACT", n1, None, "gross" :> v2, f2)>>
    @@ shp :> <<Entry("SHIPMENT", n1, <<x, day>>, "item" :> k1, f3),
                Entry("SHIPMENT", None, <<None, day>>, "quantity" :> v2, f3)>>
    @@ pk :> <<Entry("ITEM", n1, k1, "cost" :> v1, f4), Entry("FACT", n1, k1, <<>>, f5)>>

NoReferenceYet == Entry("SHIPMENT", n1, <<None, day>>, "quantity" :> v1, None)
MCSubmissions ==
    {Entry("ITEM", n1, k1, "cost" :> v2, None),
     Entry("SHIPMENT", n1, <<x, day>>, "item" :> k1, None), NoReferenceYet,
     Confirmed(NoReferenceYet)}
MCAmendments == {<<"ITEM", "cost" :> v2>>, <<"SHIPMENT", "item" :> k1>>}

MCPool ==
    p :> {r1} @@ led :> {r3} @@ con :> {r5} @@ shp :> {r6} @@ pk :> {r8}
\* Bounds: races are between two transactions at a time, and a history has
\* few rows.
Small ==
    /\ Cardinality({s \in Sessions : pc[s] # "idle"}) <= 2
    /\ Cardinality({r \in RevIds : Exists(r)}) <= 4
    /\ Cardinality(evidence) <= 3
=============================================================================
