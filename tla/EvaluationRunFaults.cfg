SPECIFICATION Spec
CONSTANTS
    s1 = s1  s2 = s2
    w1 = w1  w2 = w2
    r1 = r1  r2 = r2
    p1 = p1  p2 = p2
    NoTask = NoTask
    Slots = {s1, s2}
    Personas = {s1, s2}
    PersonaOf <- DistinctPersonas
    Workers = {w1, w2}
    Requests = {r1, r2}
    Cost = 1
    Faults = {"crash", "timeLimit", "redis", "abort", "database", "late", "escape", "expiry", "persona", "early", "overlap"}
    MaxFaults = 1
SYMMETRY Symmetry
INVARIANTS TypeOK SectionBound DoneMeansAnswered ProgressBacked
PROPERTIES CancelIsFinal WatchdogSparesRunning Implements
CHECK_DEADLOCK FALSE
