SPECIFICATION PageSpec
CONSTANTS
    t1 = t1 t2 = t2 c1 = c1 c2 = c2 i1 = i1 i2 = i2 s1 = s1 s2 = s2
    p1 = p1 p2 = p2 q1 = q1 q2 = q2 x1 = x1 y1 = y1 z1 = z1
    o1 = o1 a1 = a1 a2 = a2 a3 = a3 a4 = a4
    Absent = Absent
    RateScale = 10
    SalesOrder <- MCSalesOrder
    ContractOrder <- MCContractOrder
    Base <- MCBase
    Scenarios <- MCScenarios
    Requests <- MCRequests
INVARIANTS FollowUpTruthful OneToOneOnly NoArbitraryChoice
