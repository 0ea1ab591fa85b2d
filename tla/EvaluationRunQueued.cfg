SPECIFICATION FairSpec
CONSTANTS
    s1 = s1
    w1 = w1
    r1 = r1
    p1 = p1  p2 = p2
    NoTask = NoTask
    Slots = {s1}
    Personas = {s1}
    PersonaOf <- DistinctPersonas
    Workers = {w1}
    Requests = {r1}
    Cost = 1
    Faults = {"crash", "timeLimit"}
    MaxFaults = 1
PROPERTIES QueuedEnds
CHECK_DEADLOCK FALSE
