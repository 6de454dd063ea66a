SPECIFICATION Spec
CONSTANTS
  None = None
  iA = iA iB = iB customer = customer currency = currency v1 = v1 v2 = v2
  b1 = b1 b2 = b2 f1 = f1 f2 = f2 f3 = f3
  Identities = {iA, iB}
  Fields = {customer, currency}
  Customer = customer
  Values = {v1, v2}
  RevIds = {r1, r2, r3, r4}
  Humans = {h1, h2}
  Backfills = {b1, b2}
  Files <- TwoFiles
  Creations <- SomeCreations
  Amendments <- SomeAmendments
  RowFragments = {f1, f2, f3}
SYMMETRY HumanAndIdSymmetry
INVARIANTS OneAnchorPerIdentity HistoryIsAChain CustomerTaskTruthful EvidenceAccountedFor IInv
PROPERTIES LedgerSpec
CHECK_DEADLOCK FALSE
