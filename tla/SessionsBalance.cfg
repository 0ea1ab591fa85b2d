SPECIFICATION Spec
CONSTANTS
    Tokens = {1}
    Requests = {r1}
    MaxUpdates = 1
INVARIANT CachedBalanceIsCurrent
