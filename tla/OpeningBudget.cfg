CONSTANTS
    Subjects = {"opening"}
    Chars = {"a", "b"}
    StopSets <- AllStopSets
    MaxText = 6
    MaxChunk = 3
    Vocabulary = 3
    SamplingConfigs <- Settings
    LogitVectors <- Vectors
    Histories <- TokenHistories
    CalledTwice <- Twice
    Openings <- ConvoOpenings
    Replies <- ConvoReplies
    RawOutputs <- Generated
    Parsings <- EditedAnswers
    Json <- JsonReadings
    PieceOrder <- Alphabetic
    MaxMessages = 4
    GgufFiles <- SmallFiles
    MaxStringBytes = 40
    MaxArrayElements = 5
    MaxTensors = 3
    MaxMetadataEntries = 2
    MaxMetadataBytes = 200
    MaxDimensions = 4
    MaxU64 = 51199
    U32Bits = 11
    Directories <- SmallDirectories
    MaxShards = 2
    Hy3Cases <- ModelSets
    Hy3Configs <- SmallConfigs
    OpeningCases <- ModelOpenings
    ModelFiles <- Versions
    FullLength = 1
    MaxReplaced = 1
SPECIFICATION AlgorithmsSpec
INVARIANTS PreflightConservative
CHECK_DEADLOCK FALSE
