-------------------------- MODULE InvoicePreparation --------------------------
(***************************************************************************)
(* The Invoice Preparation Workbench: one read of the ledger, statement by *)
(* statement, then two pure evaluations of what was read, one per sales    *)
(* contract (sales_invoice_preparation.py) and one per procurement         *)
(* contract (supplier_invoice_request.py).                                 *)
(*                                                                         *)
(* Every statement sees what is committed when it runs; matching, people   *)
(* and imports commit in between.  The ledger is here a set of current     *)
(* rows: a row has the table it is in, the scope it is listed under and,   *)
(* joined in, the immutable invoice, line or payment it names.  What       *)
(* commits is modelled in full elsewhere (ProcurementMatching,             *)
(* SalesMatching, ProcurementSalesLink, PurchaseFacts, SalesContractFacts, *)
(* CloseFacts): here it is a set of rows that come and rows that go.       *)
(*                                                                         *)
(* Left out: unresolved work and receipts, which the page only shows, and  *)
(* associations that name no fact, which no foreign key lets in.           *)
(***************************************************************************)
EXTENDS Integers, Sequences, Functions

CONSTANTS
    SalesOrder,     \* sales contract ids in the order of their numbers
    ContractOrder,  \* procurement contract ids in the order of their numbers
    Base,           \* the rows that are there from the start
    Scenarios,      \* sets of commits that may happen (a bound)
    Requests,       \* what people ask for: a month, and rates by their evidence
    RateScale,      \* units of a rate in one
    Absent

AllRows == Base \cup UNION {w.add : w \in UNION Scenarios}

\* A correction, or the supersession of a line's allocation, replaces the
\* current row of a fact; its id is that of the fact through all of them.
Revised == {"sales_contracts", "contracts", "items", "shipments", "lines"}
SameFact(row, other) == row.table = other.table /\ row.scope = other.scope /\ row.id = other.id
Corrects(w, row) ==
    row.table \in Revised /\ \E other \in w.add : SameFact(row, other)

ASSUME RateScaleAssumption == RateScale \in Nat \ {0}
ASSUME OrdersAssumption ==
    /\ IsInjective(SalesOrder) /\ IsInjective(ContractOrder)
    /\ \A row \in AllRows :
          /\ row.table = "sales_contracts" => row.scope = Absent /\ row.id \in Range(SalesOrder)
          /\ row.table = "contracts" => row.scope = Absent /\ row.id \in Range(ContractOrder)
\* A row is inserted once: it has the id of its fact, revision or assertion.
\* Links are withdrawn, facts are corrected, and nothing else is taken away.
ASSUME CommitsAssumption ==
    \A scenario \in Scenarios : \A w \in scenario :
        /\ w.add # {} /\ w.add \cap (w.drop \cup Base) = {}
        /\ \A v \in scenario : v # w => v.add \cap w.add = {}
        /\ \A row \in w.drop : row.table = "links" \/ Corrects(w, row)
\* A shipment stays with its contract and an allocation with its line; lines
\* are immutable and of one invoice.
ASSUME IdsAssumption ==
    \A row, other \in AllRows :
        /\ row.table = "shipments" /\ other.table = "shipments" /\ row.id = other.id =>
              row.scope = other.scope
        /\ row.table = "lines" /\ other.table = "lines" =>
              (row.id = other.id \/ row.line.id = other.line.id =>
                  row.line = other.line /\ row.invoice = other.invoice)
\* What a row is listed under is there.
Owner == [items |-> "contracts", shipments |-> "contracts", invoices |-> "contracts",
          payments |-> "contracts", lines |-> "items",
          links |-> "sales_contracts", sales_invoices |-> "sales_contracts"]
Owned(rows) ==
    \A row \in rows : row.table \in DOMAIN Owner =>
        \E other \in rows : other.table = Owner[row.table] /\ other.id = row.scope
ASSUME BaseAssumption == Owned(Base)

VARIABLES
    ledger,   \* the committed current rows
    todo,     \* commits that have not happened yet
    request,  \* what the page being built was asked for; Absent when there is none
    context,  \* what each statement that was executed has returned
    began,    \* the ledger when the page was begun (what the properties compare with)
    page      \* the last page shown

pageVars == <<ledger, todo, request, context, began, page>>

-----------------------------------------------------------------------------
(* The statements.                                                         *)

Statement(table, scope) == [table |-> table, scope |-> scope]

SalesTables    == {"links", "sales_invoices"}
SupplierTables == {"items", "shipments", "invoices", "payments", "lines"}
Statements ==
    {Statement(table, Absent) : table \in {"sales_contracts", "contracts", "rates"}}
    \cup {Statement(table, t) : table \in SalesTables, t \in Range(SalesOrder)}
    \cup {Statement(table, c) : table \in SupplierTables, c \in Range(ContractOrder)}

\* The order of the statements: by phase, then contract by contract.
Phase == [sales_contracts |-> 1, links |-> 2, sales_invoices |-> 2, contracts |-> 3,
          items |-> 4, shipments |-> 4, invoices |-> 4, payments |-> 4, lines |-> 4, rates |-> 5]
Turn  == [sales_contracts |-> 1, links |-> 1, sales_invoices |-> 2, contracts |-> 1,
          items |-> 1, shipments |-> 2, invoices |-> 3, payments |-> 4, lines |-> 5, rates |-> 1]
Earlier(order, s, t) == \E i, j \in DOMAIN order : i < j /\ order[i] = s /\ order[j] = t
Before(p, q) ==
    \/ Phase[p.table] < Phase[q.table]
    \/ /\ Phase[p.table] = Phase[q.table]
       /\ \/ Earlier(SalesOrder, p.scope, q.scope)
          \/ Earlier(ContractOrder, p.scope, q.scope)
          \/ p.scope = q.scope /\ Turn[p.table] < Turn[q.table]
Predecessors == [q \in Statements |-> {p \in Statements : Before(p, q)}]

\* What the page has of a table, for one scope.
Seen(ctx, table, scope) == ctx[Statement(table, scope)]
Contracts(ctx)      == Seen(ctx, "contracts", Absent)
SalesContracts(ctx) == Seen(ctx, "sales_contracts", Absent)
IdsOf(rows) == {row.id : row \in rows}

\* Only the scopes a list returned are read.
Listed(ctx, q) ==
    \/ q.scope = Absent
    \/ q.table \in SalesTables /\ q.scope \in IdsOf(SalesContracts(ctx))
    \/ q.table \in SupplierTables /\ q.scope \in IdsOf(Contracts(ctx))

\* Allocations of invoice lines are found by the items already read.
ScopesOf(ctx, q) ==
    IF q.table = "lines" THEN IdsOf(Seen(ctx, "items", q.scope)) ELSE {q.scope}

Result(ctx, q) ==
    IF Listed(ctx, q)
    THEN {row \in ledger : row.table = q.table /\ row.scope \in ScopesOf(ctx, q)}
    ELSE {}

-----------------------------------------------------------------------------
(* Shared by both evaluations.                                             *)

Sole(S) == CHOOSE x \in S : TRUE
Several(S) == \E x, y \in S : x # y
Compare(actual, expected) == IF actual = expected THEN "MATCH" ELSE "DEVIATION"
Compared == {"MATCH", "DEVIATION"}

\* A comparison, what it is made with, and its outcome.  A deviation and a
\* currency mismatch are also shown as a reminder, a comparison that cannot be
\* made for an item as a request to a person: both follow from the outcome.
Check(name, scope, against, outcome) ==
    [check |-> name, scope |-> scope, against |-> against, outcome |-> outcome]
Finding(code, scope, about) == [code |-> code, scope |-> scope, about |-> about]

-----------------------------------------------------------------------------
(* One sales contract.                                                     *)

LinkedContracts(ctx, t) == {row.contract : row \in Seen(ctx, "links", t.id)}
ShipmentsOn(ctx, c) ==
    IF c \in IdsOf(Contracts(ctx)) THEN Seen(ctx, "shipments", c) ELSE {}
LinkedShipments(ctx, t) == UNION {ShipmentsOn(ctx, c) : c \in LinkedContracts(ctx, t)}

\* The shipment input is judged only under a single link.
SalesInputs(ctx, t) ==
    [scope |-> t.id,
     linked |-> LinkedContracts(ctx, t),
     shipped |-> IF Several(LinkedContracts(ctx, t)) THEN "NOT_JUDGED_UNDER_MN_UNRESOLVED"
                 ELSE IF LinkedContracts(ctx, t) = {} THEN "NOT_JUDGED_NO_LINKED_CONTRACT"
                 ELSE IF LinkedShipments(ctx, t) = {} THEN "EXPORT_COMPARISON_UNAVAILABLE"
                 ELSE "PRESENT"]

\* Takes one of several invoices.
SalesInvoices_Newest(ctx, t) ==
    LET found == {row.invoice : row \in Seen(ctx, "sales_invoices", t.id)}
    IN  IF found = {} THEN {} ELSE {Sole(found)}
\* _resolve_confirmed_sales_invoice: one is usable, none is absent, more are
\* ambiguous.
SalesInvoices(ctx, t) ==
    {invoice \in {row.invoice : row \in Seen(ctx, "sales_invoices", t.id)} :
        invoice.direction = "SALES"}

\* The given rates that may apply, by their place in the request: the same
\* evidence given twice counts twice.
ValidRates(asked) ==
    {i \in DOMAIN asked.rates : asked.rates[i].source = "SAFE" /\ asked.rates[i].day <= asked.month}
ApplicableRates(asked) ==
    {i \in ValidRates(asked) : \A j \in ValidRates(asked) : asked.rates[j].day <= asked.rates[i].day}
FxReason(asked) ==
    IF asked.month = Absent \/ ValidRates(asked) = {} THEN "FX_MISSING"
    ELSE IF Several(ApplicableRates(asked)) THEN "FX_AMBIGUOUS"
    ELSE Absent

\* Rounded half up to the cent.
ExpectedCny(t, asked) ==
    (2 * t.amount * asked.rates[Sole(ApplicableRates(asked))].rate + RateScale) \div (2 * RateScale)

AmountOutcome(t, invoices, asked) ==
    IF t.currency # "USD" \/ t.amount = Absent THEN "MISSING_FACT"
    ELSE IF FxReason(asked) # Absent THEN FxReason(asked)
    ELSE IF Several(invoices) THEN "AMBIGUOUS_SCOPE"
    ELSE IF \A invoice \in invoices : invoice.currency = Absent THEN "MISSING_FACT"
    ELSE IF Sole(invoices).currency # "CNY" THEN "CURRENCY_MISMATCH"
    ELSE Compare(Sole(invoices).amount, ExpectedCny(t, asked))

InvoiceQuantityOutcome(t, invoices) ==
    LET lines == UNION {invoice.lines : invoice \in invoices} IN
    IF Absent \in {t.quantity, t.unit} THEN "MISSING_FACT"
    ELSE IF Several(invoices) THEN "AMBIGUOUS_SCOPE"
    ELSE IF lines = {} THEN "MISSING_FACT"
    ELSE IF Several(lines) THEN "AMBIGUOUS_SCOPE"
    ELSE IF Sole(lines).unit # t.unit THEN "UNIT_MISMATCH"
    ELSE IF Sole(lines).quantity = Absent THEN "MISSING_FACT"
    ELSE Compare(Sole(lines).quantity, t.quantity)

CustomsOutcome(ctx, t, shipments) ==
    IF Several(LinkedContracts(ctx, t)) \/ Several(shipments) THEN "AMBIGUOUS_SCOPE"
    ELSE IF \/ shipments = {}
            \/ Absent \in {t.amount, t.currency, Sole(shipments).amount, Sole(shipments).currency}
         THEN "MISSING_FACT"
    ELSE IF Sole(shipments).currency # t.currency THEN "CURRENCY_MISMATCH"
    ELSE Compare(Sole(shipments).amount, t.amount)

UnitOf(ctx, shipment) ==
    LET item == {i \in Seen(ctx, "items", shipment.scope) : i.id = shipment.item}
    IN  IF item = {} THEN Absent ELSE Sole(item).unit

\* Without a single link this check is ambiguous, several shipments it takes
\* for a missing fact.
ShippedQuantityOutcome(ctx, t, shipments) ==
    IF Absent \in {t.quantity, t.unit} THEN "MISSING_FACT"
    ELSE IF LinkedContracts(ctx, t) = {} \/ Several(LinkedContracts(ctx, t)) THEN "AMBIGUOUS_SCOPE"
    ELSE IF \/ shipments = {} \/ Several(shipments)
            \/ Absent \in {Sole(shipments).quantity, UnitOf(ctx, Sole(shipments))}
         THEN "MISSING_FACT"
    ELSE IF UnitOf(ctx, Sole(shipments)) # t.unit THEN "UNIT_MISMATCH"
    ELSE Compare(Sole(shipments).quantity, t.quantity)

SalesChecks(ctx, t, asked) ==
    LET invoices  == SalesInvoices(ctx, t)
        shipments == LinkedShipments(ctx, t)
    IN  {Check("sales amount", t.id, IdsOf(invoices), AmountOutcome(t, invoices, asked)),
         Check("sales quantity", t.id, IdsOf(invoices), InvoiceQuantityOutcome(t, invoices)),
         Check("customs", t.id, IdsOf(shipments), CustomsOutcome(ctx, t, shipments)),
         Check("shipped quantity", t.id, IdsOf(shipments), ShippedQuantityOutcome(ctx, t, shipments))}

-----------------------------------------------------------------------------
(* One procurement contract.                                               *)

ItemsOf(ctx, c) == Seen(ctx, "items", c.id)
LinesOf(ctx, c) == Seen(ctx, "lines", c.id)

\* Takes an invoice for received once one of its lines is allocated.
PurchaseInvoices_ByLine(ctx, c) ==
    {row.invoice : row \in Seen(ctx, "invoices", c.id) \cup LinesOf(ctx, c)}
PurchaseInvoices(ctx, c) ==
    {invoice \in {row.invoice : row \in Seen(ctx, "invoices", c.id)} :
        invoice.direction = "PURCHASE"}

IsPurchase(row) == row.invoice.direction = "PURCHASE"

\* _build_invoice_contract_map, over all scopes.
ContractsOf(ctx, invoice) ==
    {c.id : c \in {c \in Contracts(ctx) : invoice \in PurchaseInvoices(ctx, c)}}

\* Stops at the first contract that has anything.
ItemsOfLine_First(ctx, line) ==
    LET found == {i \in DOMAIN ContractOrder : Seen(ctx, "lines", ContractOrder[i]) # {}}
        first == CHOOSE i \in found : \A j \in found : i <= j
    IN  {row.scope : row \in {row \in Seen(ctx, "lines", ContractOrder[first]) :
                                 IsPurchase(row) /\ row.line = line}}
\* _build_invoice_item_contract_item_map: the items, of whatever contract, a
\* line is allocated to.
ItemsOfLine(ctx, line) ==
    {row.scope : row \in {row \in UNION {LinesOf(ctx, c) : c \in Contracts(ctx)} :
                             IsPurchase(row) /\ row.line = line}}

PurchaseAmountOutcome(c, invoice) ==
    IF Absent \in {c.amount, c.currency, invoice.currency} THEN "MISSING_FACT"
    ELSE IF invoice.currency # c.currency THEN "CURRENCY_MISMATCH"
    ELSE Compare(invoice.amount, c.amount)

\* One confirmed invoice is compared; a single association with anything else
\* is shown as not comparable.
PurchaseAmountChecks(ctx, c) ==
    LET confirmed == PurchaseInvoices(ctx, c)
        all       == {row.invoice : row \in Seen(ctx, "invoices", c.id)}
    IN  IF confirmed # {} /\ ~Several(confirmed)
        THEN {Check("purchase amount", c.id, IdsOf(confirmed),
                    PurchaseAmountOutcome(c, Sole(confirmed)))}
        ELSE IF confirmed = {} /\ all # {} /\ ~Several(all)
        THEN {Check("purchase amount", c.id, IdsOf(all), "MISSING_FACT")}
        ELSE {}

Named(ctx, c, row) == Sole({i \in ItemsOf(ctx, c) : i.id = row.scope}).name
NameOutcome(ctx, c, row) ==
    IF ~IsPurchase(row) \/ Absent \in {Named(ctx, c, row), row.line.name} THEN "MISSING_FACT"
    ELSE Compare(Named(ctx, c, row), row.line.name)
NameChecks(ctx, c) ==
    {Check("name", row.scope, {row.line.id}, NameOutcome(ctx, c, row)) : row \in LinesOf(ctx, c)}

AllocationsOf(ctx, c, item) == {row \in LinesOf(ctx, c) : row.scope = item.id}
\* An item or its line takes part in another allocation: a person decides.
ManyToMany(ctx, c, item) ==
    LET rows == AllocationsOf(ctx, c, item)
    IN  Several(rows) \/ \E row \in rows : Several(ItemsOfLine(ctx, row.line))
OneToOne(ctx, c, item) == AllocationsOf(ctx, c, item) # {} /\ ~ManyToMany(ctx, c, item)

\* The quantity allocated to this item, never that of the whole line.
LineQuantityOutcome(item, row) ==
    IF ~IsPurchase(row) \/ Absent \in {item.quantity, item.unit} \/ row.line.unit # item.unit
    THEN "HUMAN_CONFIRMATION_REQUIRED"
    ELSE Compare(row.quantity, item.quantity)
LineQuantityChecks(ctx, c) ==
    {LET row == Sole(AllocationsOf(ctx, c, item))
     IN  Check("line quantity", item.id, {row.line.id}, LineQuantityOutcome(item, row)) :
        item \in {item \in ItemsOf(ctx, c) : OneToOne(ctx, c, item)}}

ShipmentsOf(ctx, c, item) == {s \in ShipmentsOn(ctx, c.id) : s.item = item.id}
ShipmentQuantityOutcome(item, shipment) ==
    IF Absent \in {item.quantity, shipment.quantity} THEN "HUMAN_CONFIRMATION_REQUIRED"
    ELSE Compare(shipment.quantity, item.quantity)
ShipmentQuantityChecks(ctx, c) ==
    {LET shipment == Sole(ShipmentsOf(ctx, c, item))
     IN  Check("shipment quantity", item.id, {shipment.id}, ShipmentQuantityOutcome(item, shipment)) :
        item \in {item \in ItemsOf(ctx, c) : ShipmentsOf(ctx, c, item) # {}
                                             /\ ~Several(ShipmentsOf(ctx, c, item))}}

SupplierChecks(ctx, c) ==
    PurchaseAmountChecks(ctx, c) \cup NameChecks(ctx, c)
    \cup LineQuantityChecks(ctx, c) \cup ShipmentQuantityChecks(ctx, c)

\* What a person has to confirm: facts of items, and associations nobody may
\* guess.
ItemRequirements(ctx, c) ==
    {Finding("MISSING_CONTRACT_ITEM_FACTS", c.id, {}) : x \in {x \in {c} : ItemsOf(ctx, c) = {}}}
    \cup {Finding("MISSING_TAX_CLASSIFICATION_CODE", i.id, {}) :
             i \in {i \in ItemsOf(ctx, c) : i.code = Absent}}
    \cup {Finding("MISSING_CONTRACT_ITEM_QUANTITY_OR_UNIT", i.id, {}) :
             i \in {i \in ItemsOf(ctx, c) : Absent \in {i.quantity, i.unit}}}
AssociationRequirements(ctx, c) ==
    {Finding("MANY_TO_MANY_INVOICE_ITEM_ALLOCATION", i.id,
             {row.line.id : row \in AllocationsOf(ctx, c, i)}) :
        i \in {i \in ItemsOf(ctx, c) : ManyToMany(ctx, c, i)}}
    \cup {Finding("SHIPMENT_CONTRACT_ITEM_ASSOCIATION_UNKNOWN", c.id, {s.id}) :
             s \in {s \in ShipmentsOn(ctx, c.id) : s.item \notin IdsOf(ItemsOf(ctx, c))}}
    \cup {Finding("MANY_TO_MANY_SHIPMENT_QUANTITY_SCOPE", i.id, IdsOf(ShipmentsOf(ctx, c, i))) :
             i \in {i \in ItemsOf(ctx, c) : Several(ShipmentsOf(ctx, c, i))}}

\* Reminders about how many invoices there are, and about paying before one.
Cardinalities(ctx, c) ==
    LET confirmed == PurchaseInvoices(ctx, c)
        paid == \E row \in Seen(ctx, "payments", c.id) : row.payment.direction = "OUT"
    IN  {Finding("MULTIPLE_PURCHASE_INVOICES_ON_CONTRACT", c.id, IdsOf(confirmed)) :
            x \in {x \in {c} : Several(confirmed)}}
        \cup {Finding("PURCHASE_INVOICE_SPANS_MULTIPLE_CONTRACTS", c.id, {invoice.id}) :
                 invoice \in {j \in confirmed : Several(ContractsOf(ctx, j))}}
        \cup {Finding("SUPPLIER_INVOICE_FOLLOW_UP_RECOMMENDED", c.id, {}) :
                 x \in {x \in {c} : paid /\ confirmed = {}}}

\* The only blocker there is; the status follows from it alone.
Blockers(c) ==
    {Finding("MISSING_CONTRACT_GROSS_AMOUNT", c.id, {}) : x \in {x \in {c} : c.amount = Absent}}

-----------------------------------------------------------------------------
\* The two reports over the same context.
Page(ctx, asked) ==
    [inputs |-> {SalesInputs(ctx, t) : t \in SalesContracts(ctx)},
     checks |-> (UNION {SalesChecks(ctx, t, asked) : t \in SalesContracts(ctx)})
                \cup (UNION {SupplierChecks(ctx, c) : c \in Contracts(ctx)}),
     findings |-> UNION {Blockers(c) \cup Cardinalities(ctx, c) \cup ItemRequirements(ctx, c)
                         \cup AssociationRequirements(ctx, c) : c \in Contracts(ctx)}]

PageInit ==
    /\ ledger = Base
    /\ todo \in Scenarios
    /\ request = Absent
    /\ context = <<>>
    /\ began = Base
    /\ page = Absent

\* Somebody else's transaction commits; foreign keys let in no row without
\* its owner.
Change(w) ==
    /\ w \in todo /\ w.drop \subseteq ledger
    /\ ledger' = (ledger \ w.drop) \cup w.add
    /\ Owned(ledger')
    /\ todo' = todo \ {w}
    /\ UNCHANGED <<request, context, began, page>>

Ask(asked) ==
    /\ request = Absent
    /\ request' = asked
    /\ context' = <<>>
    /\ began' = ledger
    /\ page' = Absent
    /\ UNCHANGED <<ledger, todo>>

\* The next statement.
Due(q) ==
    /\ request # Absent
    /\ q \in Statements \ DOMAIN context
    /\ Predecessors[q] \subseteq DOMAIN context
Unconfirmed == \E i \in DOMAIN request.rates : request.rates[i] \notin ledger

Read(q) ==
    /\ Due(q) /\ (q.table = "rates" => ~Unconfirmed)
    /\ context' = [p \in DOMAIN context \cup {q} |-> IF p = q THEN Result(context, q) ELSE context[p]]
    /\ UNCHANGED <<ledger, todo, request, began, page>>

\* A rate that is not confirmed evidence: FxRateEvidenceError.
Refuse ==
    /\ Due(Statement("rates", Absent)) /\ Unconfirmed
    /\ request' = Absent /\ context' = <<>>
    /\ UNCHANGED <<ledger, todo, began, page>>

Show ==
    /\ request # Absent /\ DOMAIN context = Statements
    /\ page' = Page(context, request)
    /\ request' = Absent /\ context' = <<>>
    /\ UNCHANGED <<ledger, todo, began>>

PageNext ==
    \/ \E w \in todo : Change(w)
    \/ \E asked \in Requests : Ask(asked)
    \/ \E q \in Statements : Read(q)
    \/ Refuse \/ Show

PageSpec == PageInit /\ [][PageNext]_pageVars

-----------------------------------------------------------------------------
(* Properties.  Confirmed facts are corrected but never taken away, so     *)
(* what was there when the page was begun was there, as it was or          *)
(* corrected, at every statement, and what is not there now was not there  *)
(* at any.                                                                 *)

In(rows, table, scope) == {row \in rows : row.table = table /\ row.scope = scope}
Invoiced(rows, c) == \E row \in In(rows, "invoices", c) : row.invoice.direction = "PURCHASE"
Paid(rows, c)     == \E row \in In(rows, "payments", c) : row.payment.direction = "OUT"
Line(row) == row.line.id
ItemsWith(rows, line) ==
    {row.scope : row \in {row \in rows : row.table = "lines" /\ Line(row) = line /\ IsPurchase(row)}}

\* P09, "gone on recomputation once one is" (supplier_invoice_request.py:57-64):
\* a page never recommends to chase an invoice that was associated before it
\* was begun, nor for a contract without a payment, and it does recommend it
\* for a contract that was paid and without an invoice all the time.
FollowUpTruthful ==
    page # Absent =>
        \A row \in In(began, "contracts", Absent) :
            LET c == row.id
                advised == Finding("SUPPLIER_INVOICE_FOLLOW_UP_RECOMMENDED", c, {}) \in page.findings
            IN  /\ advised => ~Invoiced(began, c) /\ Paid(ledger, c)
                /\ Paid(began, c) /\ ~Invoiced(ledger, c) => advised

\* "M:N must be found globally" (supplier_invoice_request.py:584-587): no
\* quantity of an item is compared with a line that is split, or with one of
\* several allocations, and every item of a split line asks for a person,
\* whatever contract it belongs to and whatever is read in between.
OneToOneOnly ==
    page # Absent =>
        /\ \A k \in page.checks : k.check = "line quantity" /\ k.outcome \in Compared =>
              /\ ~Several(IdsOf(In(began, "lines", k.scope)))
              /\ \A line \in k.against : ItemsWith(began, line) \subseteq {k.scope}
        /\ \A row \in {row \in began : row.table = "lines"} :
              Several(ItemsWith(began, Line(row))) /\ IsPurchase(row) =>
                  \E f \in page.findings :
                      /\ f.code = "MANY_TO_MANY_INVOICE_ITEM_ALLOCATION" /\ f.scope = row.scope
                      /\ Line(row) \in f.about

\* "no sum, no apportionment, no arbitrary selection" (sales_invoice_preparation.py
\* :46-49): what is compared with a contract is the only candidate there was
\* when the page was begun, and two links that were there all the time leave
\* its shipments alone.
InvoicesOf(rows, table, scope, direction) ==
    {row.invoice.id : row \in {row \in In(rows, table, scope) : row.invoice.direction = direction}}
LinkedBy(rows, t) == {row.contract : row \in In(rows, "links", t)}
NoArbitraryChoice ==
    page # Absent => \A k \in page.checks : k.outcome \in Compared \cup {"CURRENCY_MISMATCH"} =>
        /\ ~Several(k.against)
        /\ k.check \in {"sales amount", "sales quantity"} =>
              InvoicesOf(began, "sales_invoices", k.scope, "SALES") \subseteq k.against
        /\ k.check = "purchase amount" =>
              InvoicesOf(began, "invoices", k.scope, "PURCHASE") \subseteq k.against
        /\ k.check \in {"customs", "shipped quantity"} =>
              /\ ~Several(LinkedBy(began \cap ledger, k.scope))
              /\ \A row \in {row \in ledger : row.table = "shipments" /\ row.id \in k.against} :
                    IdsOf(In(began, "shipments", row.scope)) \subseteq k.against

=============================================================================
