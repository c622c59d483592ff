CONSTANTS
    None = None
    Miss = Miss
    m1 = m1
    m2 = m2
    Models = {m1, m2}
    Vocabulary <- MCVocabulary
    ChunkSize = 9
    ChunkOverlap = 4
    ChunkMinSize = 8
    Begins <- MCBegins
    Ends <- MCEnds
    Inside <- MCInside
    Or <- OrWord
    StopWords <- MCStopWords
    Candidates = 2
    MinChunksForTermFrequency = 3
    MaxTermShare <- MCShare
    RarityWeighting = TRUE
    MinOverlap = 3
    NeighbourDistance = 1
    MaxContextChars = 28
    Sessions <- JoinedSessions
    Questions <- MCQuestions
SPECIFICATION Spec
INVARIANT MergedWithinBound
CHECK_DEADLOCK FALSE
