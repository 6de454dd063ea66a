--------------------------- MODULE MC_PeriodClose ---------------------------
(* An instance of PeriodClose for TLC: one contract with two items, a       *)
(* purchase invoice with a line in each of two periods.                     *)
EXTENDS PeriodClose, TLC

CONSTANTS i1, i2, c1, l1, l2, n1, n2, pack, late, byHand, cutover, s1, s2, f1, f2, f3, f4, f5, f6, f7, f8, f9, f10, f11, e1

MCContractOf    == (i1 :> c1) @@ (i2 :> c1)
MCInvoiceOf     == (l1 :> n1) @@ (l2 :> n2)
MCLineQuantity  == (l1 :> 2) @@ (l2 :> 2)
MCLineNet       == (l1 :> 9) @@ (l2 :> 9)
MCIssueDate     == (n1 :> 1) @@ (n2 :> 2)

Asserts(type, scope, content) == [type |-> type, scope |-> scope, content |-> content]
Allocates(line, item, q, net) == Asserts("ALLOCATION", <<line, item>>, [quantity |-> q, net |-> net])
Accrued(item, period, q, cost) == Asserts("HISTORICAL", <<item, period>>, [quantity |-> q, cost |-> cost])
Reversed(item, period, line, q, cost) ==
    [type |-> "REVERSAL", accrual |-> <<item, period>>, scope |-> <<line, item>>,
     content |-> [quantity |-> q, cost |-> cost]]

\* The pack leaves an accrual of 3 units at 10 cents in all, one of them
\* reversed before the system went live; the cutover pack knows its fact.
\* Two documents compete for each line.
MCEntries ==
    (pack :> <<Asserts("COST", c1, [date |-> 1]), Asserts("BASIS", <<c1, i2>>, [quantity |-> 1, cost |-> 5]),
               Accrued(i1, 1, 3, 10), Allocates(l2, i1, 1, 4), Reversed(i1, 1, l2, 1, 3)>>)
    @@ (byHand :> <<Allocates(l2, i1, 2, 5)>>)
    @@ (late :> <<Accrued(i1, 2, 1, 5), Allocates(l1, i1, 1, 4)>>)
    @@ (cutover :> <<Accrued(i1, 1, 3, 10), Allocates(l1, i1, 2, 8)>>)

Replaced(type, content, fragment) == [type |-> type, content |-> content, fragment |-> fragment]
MCReplacements == {Replaced("ALLOCATION", [quantity |-> 2, net |-> 8], e1)}

MCPool == (pack :> {f1, f2, f3, f4}) @@ (byHand :> {f5}) @@ (late :> {f6, f11}) @@ (cutover :> {f7, f8}) @@ (e1 :> {f9, f10})

\* The instance is one where an accrual is cleared exactly.
ASSUME PortionsFitHere == PortionsFit

Symmetry == Permutations({s1, s2})
=============================================================================
