\* An import commits between the two reads of a run.
CONSTANTS
    ContractIds <- TwoIds
    SubjectIds <- TwoIds
    Runs = {r1}
    None = None
CHECK_DEADLOCK FALSE
CONSTANTS
    ContractFacts <- FixedContracts
    SubjectFacts <- FixedSubjects
SPECIFICATION SkewSpec
INVARIANT UnmatchedMeansNoContract
