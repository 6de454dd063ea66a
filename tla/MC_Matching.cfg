\* Two runs, two contracts, two subjects: imports, people and runs interleave.
CONSTANTS
    ContractIds <- TwoIds
    SubjectIds <- TwoIds
    ContractFacts <- LedgerContracts
    SubjectFacts <- LedgerSubjects
    Runs = {r1, r2}
    None = None
SPECIFICATION Spec
CHECK_DEADLOCK FALSE
INVARIANTS OneCasePerSubject CaseMatchesAllocation
PROPERTIES NeverOverAllocates DecisionsAreFinal
