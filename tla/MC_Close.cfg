SPECIFICATION CloseSpec
CONSTANTS
    i1 = i1
    i2 = i2
    c1 = c1
    l1 = l1
    l2 = l2
    n1 = n1
    n2 = n2
    pack = pack
    late = late
    byHand = byHand
    cutover = cutover
    s1 = s1
    s2 = s2
    f1 = f1
    f2 = f2
    f3 = f3
    f4 = f4
    f5 = f5
    f6 = f6
    f7 = f7
    f8 = f8
    f9 = f9
    f10 = f10
    f11 = f11
    e1 = e1
    Items = {i1, i2}
    Contracts = {c1}
    ContractOf <- MCContractOf
    Lines = {l1, l2}
    Invoices = {n1, n2}
    InvoiceOf <- MCInvoiceOf
    LineQuantity <- MCLineQuantity
    LineNet <- MCLineNet
    Periods = {1, 2}
    Documents = {pack, late, byHand, cutover}
    Entries <- MCEntries
    Manual = {byHand}
    Cutovers = {cutover}
    Replacements <- MCReplacements
    Superseders = {s1, s2}
    Pool <- MCPool
    None = None
    Purchases = {n1, n2}
    IssueDate <- MCIssueDate
    CompleteItems = {i1, i2}
    Scale = 1000
SYMMETRY Symmetry
CHECK_DEADLOCK FALSE
INVARIANTS CapacityKept SupersededOnce ClearedExactly EveryOpenAccrualAnswered NoOppositeConclusions
