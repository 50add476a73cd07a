SPECIFICATION FairSpec
CONSTANTS
    g1 = g1
    g2 = g2
    g3 = g3
    w1 = w1
    w2 = w2
    Dates = {1, 2}
    Calls = {c1}
    Workers = {w1, w2}
    Nobody = Nobody
    Guests = {g1, g2, g3}
    InHouse = {g1, g3}
    Extended = {g1}
    CycleEnds = {1, 2}
    MaxFolios = 3
    Scenes <- NightsAndQueue
INVARIANTS FolioChargedOnce NoShowOnce CompletedIsBooked
INVARIANTS LedgerIsComplete RollsOncePerAudit
PROPERTIES CompletedMeansCharged JobConcludes
CHECK_DEADLOCK FALSE
