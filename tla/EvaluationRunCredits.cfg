SPECIFICATION Spec
CONSTANTS
    s1 = s1  s2 = s2  s3 = s3
    w1 = w1  w2 = w2
    r1 = r1  r2 = r2
    p1 = p1  p2 = p2
    NoTask = NoTask
    Slots = {s1, s2, s3}
    Personas = {p1, p2}
    PersonaOf <- RepeatedPersona
    Workers = {w1, w2}
    Requests = {r1, r2}
    Cost = 1
    Faults = {"persona", "database", "expiry"}
    MaxFaults = 2
SYMMETRY ProcessSymmetry
INVARIANTS Settled RefundsCovered
CHECK_DEADLOCK FALSE
