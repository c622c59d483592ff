CONSTANTS
    None = None
    Miss = Miss
    m1 = m1
    m2 = m2
    Models = {m1, m2}
    Vocabulary <- MCVocabulary
    ChunkSize = 8
    ChunkOverlap = 4
    ChunkMinSize = 4
    Begins <- MCBegins
    Ends <- MCEnds
    Inside <- MCInside
    Or <- OrWord
    StopWords <- MCStopWords
    Candidates = 2
    MinChunksForTermFrequency = 3
    MaxTermShare <- MCShare
    RarityWeighting = TRUE
    MinOverlap = 3
    NeighbourDistance = 1
    MaxContextChars = 28
    Sessions <- MCSessions
    Questions <- MCQuestions
SPECIFICATION Spec
INVARIANTS TextKept NoChunkEndsOnAHeading NoShortChunk FitsUnlessJoined VectorsOfTheirTexts HiddenChunksDoNotMatter KeywordArmFinds FusedByPosition NeighboursFit ReadInOrder WrittenOnce
CHECK_DEADLOCK FALSE
