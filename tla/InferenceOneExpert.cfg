CONSTANTS
    Sessions = {"a"}
    MoeLayers = 1
    Experts = {e1, e2, e3}
    TopK = 2
    ExpertBytes <- MCExpertBytes
    Capacity = 1
    AdmitAfter = 2
    HeatCap = 2
    Parallel = TRUE
    Context = 2
    MaxTokens <- MCOneToken
SYMMETRY Symmetry
SPECIFICATION Spec
INVARIANTS OneExpertSuffices
CHECK_DEADLOCK FALSE
