SPECIFICATION FairSpec
CONSTANTS
    s1 = s1
    w1 = w1  w2 = w2
    r1 = r1  r2 = r2
    p1 = p1  p2 = p2
    NoTask = NoTask
    Slots = {s1}
    Personas = {s1}
    PersonaOf <- DistinctPersonas
    Workers = {w1, w2}
    Requests = {r1, r2}
    Cost = 1
    Faults = {"redis", "abort", "database", "late", "escape", "expiry", "persona", "early"}
    MaxFaults = 1
PROPERTIES AnsweringEnds
CHECK_DEADLOCK FALSE
