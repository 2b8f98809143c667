CONSTANTS
    MoeLayers = 2
    Experts = 2
    Models = {"base", "tuned", "other"}
    Directory <- MCDirectory
    SegmentSizes = {1, 3}
    HeaderBytes = 2
    MinAlignment = 2
    MaxOffset = 50
    Alignments = {1, 2, 3, 4}
    Deltas <- MCDeltas
    ReplacedDuring = FALSE
SPECIFICATION Spec
INVARIANTS LayoutAccepted ReadsExactly
CHECK_DEADLOCK FALSE
