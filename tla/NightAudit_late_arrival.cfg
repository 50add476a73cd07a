SPECIFICATION Spec
CONSTANTS
    Dates = {1}
    Calls = {c1}
    Workers = {w1}
    w1 = w1
    w2 = w2
    g1 = g1
    g2 = g2
    g3 = g3
    Nobody = Nobody
    Guests = {g2}
    InHouse = {}
    Extended = {}
    CycleEnds = {}
    MaxFolios = 1
    Scenes <- OneQuietNight
PROPERTY SeatedGuestStays
CHECK_DEADLOCK FALSE
