CONSTANTS
    Sessions = {"a", "b"}
    MoeLayers = 2
    Experts = {e1, e2}
    TopK = 1
    ExpertBytes <- MCExpertBytes
    Capacity = 4
    AdmitAfter = 1
    HeatCap = 1
    Parallel = FALSE
    Context = 1
    MaxTokens <- MCTokens
SPECIFICATION FairSpec
INVARIANTS SizedNeverRefuses
PROPERTIES EvaluationsEnd
CHECK_DEADLOCK FALSE
