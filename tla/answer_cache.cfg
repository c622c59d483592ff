CONSTANTS
    None = None
    r1 = r1
    r2 = r2
    r3 = r3
    Req = {r1, r2, r3}
    Query = {q1, q2}
    ExternalIds = {"a"}
    Texts = {"long", "short"}
    Large = {"long"}
    Unparsable = {}
    Titles = {"first", "second"}
    Groups = {"staff"}
    Calls <- CacheCalls
    MaxAttempts = 1
    MaxTries = 1
    Faults = {}
SYMMETRY MCSymmetry
SPECIFICATION CacheSpec
INVARIANTS AnswersWithinScope AccessChangesInvalidate DeletedIsNotServed
