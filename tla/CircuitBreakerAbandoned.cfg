SPECIFICATION FairSpec
CONSTANTS
    c1 = c1  c2 = c2  c3 = c3
    Calls = {c1, c2, c3}
    FailureThreshold = 3
    SuccessThreshold = 2
    Abandoned = {"normal", "probe"}

PROPERTY Recovers
