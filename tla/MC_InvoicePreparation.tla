------------------------ MODULE MC_InvoicePreparation ------------------------
(* An instance of InvoicePreparation for TLC.                              *)
EXTENDS InvoicePreparation, TLC

CONSTANTS t1, t2, c1, c2, i1, i2, s1, s2, p1, p2, q1, q2, x1, y1, z1, o1, a1, a2, a3, a4

Row(table, scope) == [table |-> table, scope |-> scope]
Sales(id, amount, quantity) ==
    Row("sales_contracts", Absent) @@ [id |-> id, amount |-> amount, currency |-> "USD",
                                     quantity |-> quantity, unit |-> "kg"]
Contract(id, amount) == Row("contracts", Absent) @@ [id |-> id, amount |-> amount, currency |-> "CNY"]
Item(id, c, quantity) ==
    Row("items", c) @@ [id |-> id, name |-> "tea", quantity |-> quantity, unit |-> "kg", code |-> Absent]
Shipment(id, c, item, amount) ==
    Row("shipments", c) @@ [id |-> id, item |-> item, quantity |-> 3, amount |-> amount, currency |-> "USD"]
LineOf(id)  == [id |-> id, name |-> "tea", quantity |-> 3, unit |-> "kg"]
Bill(id, direction, lines) ==
    [id |-> id, direction |-> direction, amount |-> 4, currency |-> "CNY", lines |-> lines]
P1 == Bill(p1, "PURCHASE", {LineOf(x1)})
P2 == Bill(p2, "PURCHASE", {LineOf(z1)})
Q1 == Bill(q1, "SALES", {LineOf(y1)})
Q2 == Bill(q2, "SALES", {})
Billed(c, bill)     == Row("invoices", c) @@ [invoice |-> bill]
Sold(t, bill)       == Row("sales_invoices", t) @@ [invoice |-> bill]
PaidTo(c, id)       == Row("payments", c) @@ [payment |-> [id |-> id, direction |-> "OUT"]]
Allocated(id, item, bill, line, quantity) ==
    Row("lines", item) @@ [id |-> id, invoice |-> bill, line |-> LineOf(line), quantity |-> quantity]
Split(id, item, bill, line) == Allocated(id, item, bill, line, 3)
LinkTo(c, t)        == Row("links", t) @@ [contract |-> c]
Rate(day, rate)     == Row("rates", Absent) @@ [source |-> "SAFE", day |-> day, rate |-> rate]

Adds(rows) == [add |-> rows, drop |-> {}]
Replaces(old, new) == [add |-> new, drop |-> old]

MCBase ==
    {Sales(t1, 3, Absent), Contract(c1, 4), Contract(c2, 5), Item(i1, c1, 3), Item(i2, c2, 3),
     LinkTo(c1, t1), Rate(1, 17), Rate(2, 13)}

\* Paying, invoicing and splitting lines on two contracts.
Suppliers ==
    {Adds({PaidTo(c1, o1)}), Adds({Billed(c1, P1)}), Adds({Billed(c1, P2)}),
     Adds({Split(a1, i1, P1, x1)}), Adds({Split(a2, i2, P1, x1)}), Adds({Split(a3, i1, Q1, y1)})}

\* One confirmation for two sales contracts, links that come and go.
SalesSide ==
    {Adds({Sales(t2, 3, 3)}), Adds({Sold(t1, Q1)}), Adds({Sold(t1, Q2), Sold(t2, Q2)}),
     Replaces({Sales(t1, 3, Absent)}, {Sales(t1, 3, 3)}), Adds({LinkTo(c2, t1)}),
     Replaces({LinkTo(c1, t1)}, {LinkTo(c1, t2)}),
     Adds({Shipment(s1, c1, i1, 3)})}

\* Corrections of what is compared, a superseded allocation and two shipments.
Corrections ==
    {Replaces({Item(i1, c1, 3)}, {Item(i1, c1, 2)}),
     Adds({Shipment(s1, c1, i1, 3)}), Replaces({Shipment(s1, c1, i1, 3)}, {Shipment(s1, c1, Absent, 2)}),
     Adds({Shipment(s2, c1, Absent, 3)}), Adds({Split(a4, i1, P1, x1)}),
     Replaces({Split(a4, i1, P1, x1)}, {Allocated(a4, i1, P1, x1, 2)})}

\* An amount that turns out to be unknown, an invoice and a rate.
Amounts ==
    {Replaces({Contract(c1, 4)}, {Contract(c1, Absent)}), Adds({Billed(c1, P1)}), Adds({Rate(3, 17)})}

MCScenarios == {Suppliers, SalesSide, Corrections, Amounts}
MCRequests ==
    {[month |-> 1, rates |-> <<Rate(3, 17)>>], [month |-> 2, rates |-> <<Rate(1, 17), Rate(2, 13)>>]}
MCSalesOrder == <<t1, t2>>
MCContractOrder == <<c1, c2>>
=============================================================================
