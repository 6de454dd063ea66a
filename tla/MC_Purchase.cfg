SPECIFICATION Spec
CONSTANTS
    None = None
    n1 = n1 k1 = k1 x = x day = day v1 = v1 v2 = v2
    p = p led = led con = con shp = shp pk = pk
    f1 = f1 f2 = f2 f3 = f3 f4 = f4 f5 = f5
    r1 = r1 r2 = r2 r3 = r3 r4 = r4 r5 = r5 r6 = r6 r7 = r7 r8 = r8 r9 = r9 r10 = r10
    Fields <- MCFields
    Values = {v1, v2}
    Pool <- MCPool
    Spare = {r9, r10}
    People = {p}
    Ledgers = {led}
    Backfills = {con, shp}
    Packs = {pk}
    Files <- MCFiles
    Submissions <- MCSubmissions
    Amendments <- MCAmendments
CONSTRAINT Small
CHECK_DEADLOCK FALSE
INVARIANTS OneAnchorPerKey EvidenceAccountedFor DependentsTold
PROPERTY LedgerSpec
