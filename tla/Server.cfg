CONSTANTS
    r1 = r1
    r2 = r2
    Clients = {r1, r2}
    Attentive = {r1}
    Slots = 1
    Buffer = 2
    MaxChunks = 2
    Unwinds = TRUE
SPECIFICATION FairSpec
INVARIANTS TypeOK StreamsWellFormed
PROPERTIES BusyOnlyWhenFull LeaversFreeSlots ReadersAnswered
