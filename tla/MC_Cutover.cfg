SPECIFICATION Spec
CONSTANTS
    None = None
    plan = plan later = later imp = imp
    con = con inv = inv oth = oth stm = stm led = led odd = odd odder = odder
    A = A Z = Z c1 = c1 i1 = i1 i2 = i2 p1 = p1 p2 = p2 s1 = s1 s2 = s2
    good = good bad = bad k1 = k1 k2 = k2 k3 = k3 k4 = k4
    Plans = {plan, later}
    Importers = {imp}
    Files <- MCFiles
    Program <- MCProgram
    Pack <- MCPack
    Matchable = {good}
    Disputed = {s2}
    Baselines <- MCBaselines
    Crashing = {plan}
    MaxCrashes = 1
    MaxOpen = 2
CHECK_DEADLOCK FALSE
INVARIANTS RowsAccountedFor NothingTwice
PROPERTIES GatePassIsTrue 
