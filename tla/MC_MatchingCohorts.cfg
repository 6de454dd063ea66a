\* One run over three contracts and three rival invoices.
CONSTANTS
    ContractIds <- TwoIds
    SubjectIds <- ThreeIds
    ContractFacts <- CohortContracts
    SubjectFacts <- CohortSubjects
    Runs = {r1}
    None = None
SPECIFICATION Spec
CHECK_DEADLOCK FALSE
INVARIANTS NoManufacturedUniqueness ChronologyRespected CapacityTaskMeansFull CanonicalIsOneToOne
