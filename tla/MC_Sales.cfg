SPECIFICATION Spec
CONSTANTS
    j1 = j1
    j2 = j2
    t1 = t1
    t2 = t2
    c1 = c1
    c2 = c2
    p1 = p1
    p2 = p2
    Subjects = {j1, j2}
    Amount <- MCAmount
    Targets = {t1, t2}
    Proposals <- MCProposals
    Submissions <- MCSubmissions
    CaseIds = {c1, c2}
    Persons = {p1, p2}
    None = None
SYMMETRY Symmetry
INVARIANTS WholeSubmissions WithinAmount AnswersTrue
PROPERTY Final
