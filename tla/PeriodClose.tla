---------------------------- MODULE PeriodClose ----------------------------
(***************************************************************************)
(* The preview of a period close, computed from the committed facts: what  *)
(* prior accruals are to be reversed now that an invoice has arrived       *)
(* (R001, R006), which new accruals are required (R002, R003), candidates  *)
(* (R007), and what blocks a decision.  Nothing is stored.                 *)
(***************************************************************************)
EXTENDS CloseFacts

CONSTANTS
    Purchases,  \* invoices of direction PURCHASE
    IssueDate,  \* the period an invoice was issued in, or None
    CompleteItems, \* items with a quantity
    Scale       \* unit costs are computed to 1/Scale of a cent

ASSUME ScaleAssumption == Scale \in Nat \ {0}

\* What a reader sees.
Booked == reversals \ UNION {draft[d].reversals : d \in Documents}
Known  == {a \in Accruals : accruals[a] # None /\ \A d \in Documents : a \notin draft[d].accruals}

\* A purchase invoice issued by the end of period p.
InPeriod(invoice, p) ==
    invoice \in Purchases /\ IssueDate[invoice] # None /\ IssueDate[invoice] <= p

Invoiced(contract, p) == \E i \in Invoices : <<i, contract>> \in confirmed /\ InPeriod(i, p)

-----------------------------------------------------------------------------
(* R001 and R006: reversals of prior accruals.                             *)

IsOpen(a) == a \in Known /\ RemainingQuantity(a, Booked) > 0 /\ RemainingCost(a, Booked) > 0
OpenAccruals(item) == {a \in Accruals : a[1] = item /\ IsOpen(a)}

Qualifying(item, p) ==
    {f \in Current("ALLOCATION") : facts[f].scope[2] = item /\ InPeriod(InvoiceOf[facts[f].scope[1]], p)}

\* Reversals on an allocation consume it, whichever accrual they belong to.
Consumed(f)  == Total("quantity", {r \in Booked : r.allocation = f})
Unclaimed(f) == facts[f].content.quantity - Consumed(f)
Available(item, p) == SumFunction([f \in Qualifying(item, p) |-> Unclaimed(f)])
Sources(item, p) == {f \in Qualifying(item, p) : Unclaimed(f) > 0}

\* Any allocation of the item will do, whenever its invoice was issued.
ItemMatchRequired_Unallocated(item, p) ==
    OpenAccruals(item) # {} /\ Invoiced(ContractOf[item], p)
        /\ \A f \in Current("ALLOCATION") : facts[f].scope[2] # item
ItemMatchRequired(item, p) ==
    OpenAccruals(item) # {} /\ Qualifying(item, p) = {} /\ Invoiced(ContractOf[item], p)
Claimable(item, p) == Qualifying(item, p) # {} /\ Available(item, p) > 0
Contested(item, p) == Claimable(item, p) /\ Cardinality(OpenAccruals(item)) > 1
Ambiguous(item, p) ==
    Claimable(item, p) /\ Cardinality(OpenAccruals(item)) = 1 /\ Cardinality(Sources(item, p)) # 1

RoundHalfUp(n, d) == (2 * n + d) \div (2 * d)
\* The cost of q units, given what `quantity' units cost.
Cost(cost, quantity, q) == RoundHalfUp(RoundHalfUp(cost * Scale, quantity) * q, Scale)

\* No exact clear: every reversal is rounded.
ReversalCost_Rounded(a, q) == Cost(accruals[a].cost, accruals[a].quantity, q)
\* The last reversal takes what is left.
ReversalCost(a, q) ==
    IF q = RemainingQuantity(a, Booked) THEN RemainingCost(a, Booked)
    ELSE Cost(accruals[a].cost, accruals[a].quantity, q)

ReversalOf(a, f) ==
    LET q == IF Unclaimed(f) < RemainingQuantity(a, Booked) THEN Unclaimed(f)
             ELSE RemainingQuantity(a, Booked)
    IN  [accrual |-> a, allocation |-> f, quantity |-> q, cost |-> ReversalCost(a, q),
         actual |-> Cost(facts[f].content.net, facts[f].content.quantity, q)]

\* One open accrual and one allocation with unclaimed quantity: no guess.
ReversalsOf(item, p) ==
    IF Claimable(item, p) /\ Cardinality(OpenAccruals(item)) = 1 /\ Cardinality(Sources(item, p)) = 1
    THEN {ReversalOf(a, f) : a \in OpenAccruals(item), f \in Sources(item, p)}
    ELSE {}
Reversals(p) == UNION {ReversalsOf(item, p) : item \in Items}

\* actual_net_cost against the estimate that is reversed (R005).
Difference(r) == r.actual - r.cost

-----------------------------------------------------------------------------
(* R002, R003 and R007: new accruals, per contract.                        *)

ItemsOf(contract) == {i \in Items : ContractOf[i] = contract}
Recognised(contract, p) ==
    \E f \in Current("COST") : facts[f].scope = contract /\ facts[f].content.date <= p
BasesOf(contract) == {f \in Current("BASIS") : facts[f].scope[1] = contract}
Considered(contract, p) == Recognised(contract, p) /\ ~Invoiced(contract, p)

\* Of several bases of an item the code takes the last the database returns:
\* any of them.
Required(contract, p) ==
    IF ~Considered(contract, p) THEN {}
    ELSE {[item |-> facts[f].scope[2], basis |-> f] :
             f \in {b \in BasesOf(contract) : /\ facts[b].scope[2] \in CompleteItems \cap ItemsOf(contract)
                                              /\ OpenAccruals(facts[b].scope[2]) = {}}}

MissingBasis(contract, p) ==
    /\ Considered(contract, p) /\ Required(contract, p) = {}
    /\ IF BasesOf(contract) = {} THEN \A i \in ItemsOf(contract) : OpenAccruals(i) = {}
       ELSE CompleteItems \cap ItemsOf(contract) # {}

Candidates(contract, p) ==
    IF Considered(contract, p) /\ Required(contract, p) = {} /\ CompleteItems \cap ItemsOf(contract) = {}
    THEN {f \in BasesOf(contract) : facts[f].scope[2] = None} ELSE {}

-----------------------------------------------------------------------------
(* A pack that books what the preview proposed: the accrual and the        *)
(* allocation exist, so that its only effect is the reversal.              *)

Book(r) ==
    /\ writeLock = None
    /\ \A q \in RowsOf(r.accrual, reversals) : q.allocation # r.allocation
    /\ reversals' = reversals \cup
            {[accrual |-> r.accrual, allocation |-> r.allocation, quantity |-> r.quantity,
              cost |-> r.cost, document |-> None]}
    /\ accruals' = Refreshed({r.accrual}, reversals')
    /\ UNCHANGED <<facts, confirmed, documents, callersLock, session, plan>>

CloseNext == Next \/ \E p \in Periods : \E r \in Reversals(p) : Book(r)
CloseSpec == Init /\ [][CloseNext]_vars

-----------------------------------------------------------------------------
(* Properties.                                                             *)

\* Safety constraint 11-B: packs, manual commands and supersessions never
\* allocate a line beyond its quantity, provided that the callers of
\* supersessions take the write lock and no cutover pack, which takes none,
\* allocates the line too (item_allocation.py, import_close_facts.py).
\* A line without a quantity takes nothing, nor does one of a red invoice.
Capacity(l) == IF LineQuantity[l] = None \/ LineQuantity[l] < 0 THEN 0 ELSE LineQuantity[l]
WithinLine(l) == Sum(Current("ALLOCATION"), l) <= Capacity(l)
CutoverAllocates(l) ==
    \E d \in Cutovers : \E n \in DOMAIN Entries[d] :
        Entries[d][n].type = "ALLOCATION" /\ Entries[d][n].scope[1] = l
CapacityKept == callersLock => \A l \in Lines : CutoverAllocates(l) \/ WithinLine(l)

\* A fact is superseded at most once, by a fact about the same business, from
\* other Evidence, and the loser of a race leaves nothing behind: every
\* replacement has replaced something (whole_fact_supersession.py).
Replaces(new, old) == Exists(old) /\ facts[old].next = new
SupersededOnce ==
    \A f \in FactIds : Exists(f) =>
        /\ \A g, h \in FactIds : Replaces(f, g) /\ Replaces(f, h) => g = h
        /\ (\E new \in Replacements : new.fragment = facts[f].fragment) => \E g \in FactIds : Replaces(f, g)
        /\ facts[f].next # None =>
             /\ Exists(facts[f].next)
             /\ facts[facts[f].next].type = facts[f].type
             /\ facts[facts[f].next].scope = facts[f].scope
             /\ facts[facts[f].next].fragment # facts[f].fragment

\* Reversing what the previews proposed, in whatever portions the invoices
\* arrive, an accrual's cost is used up exactly when its quantity is.
ClearedExactly ==
    \A a \in Known :
        /\ RemainingQuantity(a, Booked) >= 0 /\ RemainingCost(a, Booked) >= 0
        /\ RemainingQuantity(a, Booked) = 0 <=> RemainingCost(a, Booked) = 0

\* When it holds.  A portion may round up by half a cent and by what its unit
\* cost was rounded; the last one takes what is left, which must be something,
\* and it must not be a pack's: a pack that brings portions brings the accrual
\* too, and they are not all of it.
Accruing(d, a) == {n \in DOMAIN Entries[d] : Entries[d][n].type = "HISTORICAL" /\ Entries[d][n].scope = a}
Portions(d, a) == {n \in DOMAIN Entries[d] : Entries[d][n].type = "REVERSAL" /\ Entries[d][n].accrual = a}
Outlasts(whole) ==
    /\ whole.quantity \in Nat \ {0} /\ whole.cost \in Nat
    /\ whole.quantity * (whole.quantity - 1) * (Scale + 1) < 2 * Scale * whole.cost
Fair(whole, part) ==
    2 * Scale * whole.quantity * part.cost
        <= part.quantity * (2 * Scale * whole.cost + whole.quantity * (Scale + 1))
PortionsFit ==
    \A a \in Accruals, d \in Documents \ Cutovers : \A n \in Accruing(d, a) :
        LET whole == Entries[d][n].content IN
        /\ Outlasts(whole)
        /\ \A e \in Documents : Portions(e, a) # {} => e = d
        /\ \A m \in Portions(d, a) :
              LET part == Entries[d][m].content
              IN  part.quantity \in Nat \ {0} /\ part.cost \in Nat /\ Fair(whole, part)
        /\ SumFunction([m \in Portions(d, a) |-> Entries[d][m].content.quantity]) < whole.quantity

\* R001: an open accrual whose purchase is invoiced is reversed or the preview
\* says what blocks it, unless its allocations are used up.  (A pack may claim
\* more than an allocation has: then the preview is silent.)
Answered(item, p) ==
    ItemMatchRequired(item, p) \/ Contested(item, p) \/ Ambiguous(item, p) \/ ReversalsOf(item, p) # {}
EveryOpenAccrualAnswered ==
    (\A f \in Current("ALLOCATION") : Unclaimed(f) >= 0) =>
        \A p \in Periods, item \in Items :
            OpenAccruals(item) # {} /\ Invoiced(ContractOf[item], p)
                /\ (Qualifying(item, p) = {} \/ \E f \in Qualifying(item, p) : Unclaimed(f) > 0)
            => Answered(item, p)

\* R001-R003 never produce opposite conclusions from the same facts: where a
\* reversal or a scope is called for, no accrual is required.
NoOppositeConclusions ==
    \A p \in Periods, c \in Contracts : Required(c, p) # {} =>
        \A item \in ItemsOf(c) : ~Answered(item, p)
=============================================================================
