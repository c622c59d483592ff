CONSTANTS
    None = None
    r1 = r1
    r2 = r2
    r3 = r3
    Req = {r1, r2}
    ExternalIds = {"a"}
    Texts = {"long", "longer", "short", "broken"}
    Large = {"long", "longer", "broken"}
    Unparsable = {"broken"}
    Titles = {"first", "second", "file"}
    Groups = {"staff"}
    Calls <- AllCalls
    MaxAttempts = 3
    MaxTries = 2
    Faults = {"embed", "cache", "queue", "crash", "redeliver", "timeout"}
SYMMETRY MCSymmetry
SPECIFICATION Spec
INVARIANTS TypeOK 
PROPERTIES SearchableUntilSwapped ImplementsCorpus
