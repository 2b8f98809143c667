CONSTANTS
    Sessions = {"a", "b"}
    MoeLayers = 1
    Experts = {e1, e2, e3}
    TopK = 2
    ExpertBytes <- MCExpertBytes
    Capacity = 3
    AdmitAfter = 2
    HeatCap = 2
    Parallel = TRUE
    Context = 2
    MaxTokens <- MCTokens
SYMMETRY Symmetry
SPECIFICATION Spec
INVARIANTS ComputesOnRouted SessionsReusable
CHECK_DEADLOCK FALSE
