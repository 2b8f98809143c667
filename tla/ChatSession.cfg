CONSTANTS
    Tokens = {"a", "b", "eos"}
    Eos = "eos"
    Layers = 2
    ContextLength = 3
    Prompts <- SmallPrompts
    MaxNew = 2
SPECIFICATION FairSpec
INVARIANTS SessionConsistent SnapshotsRestorable PromptIsPrefix
PROPERTIES CallsReturn CancelStopsEvaluation
