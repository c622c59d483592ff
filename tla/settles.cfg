CONSTANTS
    None = None
    r1 = r1
    r2 = r2
    r3 = r3
    Req = {r1, r2, r3}
    ExternalIds = {"a"}
    Texts = {"long", "longer", "short", "broken"}
    Large = {"long", "longer", "broken"}
    Unparsable = {"broken"}
    Titles = {"first", "second", "file"}
    Groups = {"staff"}
    Calls <- SteadyCalls
    MaxAttempts = 1
    MaxTries = 2
    Faults = {"embed"}
SPECIFICATION FairSpec
INVARIANTS PendingIsOwned
PROPERTIES Settles
