SPECIFICATION FairSpec
CONSTANTS
    Dates = {1}
    Calls = {c1}
    Workers = {w1}
    w1 = w1
    w2 = w2
    g1 = g1
    g2 = g2
    g3 = g3
    Nobody = Nobody
    Guests = {g1}
    InHouse = {g1}
    Extended = {}
    CycleEnds = {}
    MaxFolios = 1
    Scenes <- OneNightOneFault
PROPERTY AuditConcludes
CHECK_DEADLOCK FALSE
