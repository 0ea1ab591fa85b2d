SPECIFICATION Spec
CONSTANTS
    s1 = s1  s2 = s2
    w1 = w1
    r1 = r1
    p1 = p1  p2 = p2
    NoTask = NoTask
    Slots = {s1, s2}
    Personas = {s1, s2}
    PersonaOf <- DistinctPersonas
    Workers = {w1}
    Requests = {r1}
    Cost = 1
    Faults = {"persona", "crash"}
    MaxFaults = 1
INVARIANTS RefundsCovered
CHECK_DEADLOCK FALSE
