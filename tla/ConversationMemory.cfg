SPECIFICATION Spec
CONSTANTS
    Creates = {c1}
    Sends = {1}
    NoSend = NoSend
    Limit = 2
CHECK_DEADLOCK FALSE
INVARIANT TurnRemembered
