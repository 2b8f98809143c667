CONSTANTS
    l1 = l1
    l2 = l2
    Layers = {l1, l2}
    r1 = r1
    r2 = r2
    Rows = {r1, r2}
    Zero = Zero
    NonFinite = NonFinite
    NoPage = NoPage
    PageTokens = 2
    TokenCapacity = 3
    Eager = FALSE
    modelA = modelA
    modelB = modelB
    Bindings = {modelA, modelB}
    MaxBatch = 2
    MaxRuns = 3
    Old = old
    None = none
    p1 = p1
    p2 = p2
    Pids = {p1, p2}
    MaxAttempts = 2
    MaxBytes = 1
    Sizes = {1, 2}
    MaxCommands = 2
    MaxLosses = 1
SPECIFICATION StorageSpec
SYMMETRY StorageSymmetry
INVARIANTS StorageTypeOK PairNeverMixed NothingLost FilesWhole
PROPERTIES ImplementsLog AllOrNothing
CHECK_DEADLOCK FALSE
