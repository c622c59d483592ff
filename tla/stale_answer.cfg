CONSTANTS
    None = None
    r1 = r1
    r2 = r2
    r3 = r3
    Req = {r1, r2}
    Query = {q1}
    ExternalIds = {"a"}
    Texts = {"long", "short", "shorter"}
    Large = {"long"}
    Unparsable = {}
    Titles = {"first", "second"}
    Groups = {"staff"}
    Calls <- ReplaceCalls
    MaxAttempts = 3
    MaxTries = 1
    Faults = {}
SPECIFICATION CacheSpec
INVARIANT CurrentEntriesAreFresh
