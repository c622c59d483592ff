CONSTANTS
    None = None
    r1 = r1
    r2 = r2
    k1 = k1
    k2 = k2
    Requests = {r1, r2}
    KeyIds = {k1, k2}
    Tenants = {"t1", "t2"}
    MaxParallelJudgements = 1
    RerankCandidates = 2
    NeutralRating = 1
    Unrated = Unrated
    Pending = Pending
    Malformed = Malformed
    Third = 10
    Chunks = {"a", "b", "c"}
    TopKPerStep = 2
    Scenarios <- MCScenarios
    Replies <- MCReplies
SPECIFICATION FairSpec
INVARIANTS SlotsConserved WithinBudget BestKept JudgedOrder
PROPERTIES RevocationIsFinal EveryRequestEnds
CHECK_DEADLOCK FALSE
