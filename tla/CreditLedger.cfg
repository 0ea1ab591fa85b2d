SPECIFICATION FairSpec
CONSTANTS
    u1 = u1
    u2 = u2
    Users = {u1, u2}
    Requests = {1, 2, 3}
    Nobody = Nobody
    Evaluations = {e1, e2}
    OwnerOf <- Owner
    Orders = {o1}
    BuyerOf <- Buyer
    Existing = {u1}
    Cost = 30
    MaxRunning = 1
    MaxDay = 1
CHECK_DEADLOCK FALSE
INVARIANTS TypeOK BalanceIsSum NeverNegative AwardsBacked RunningBound
PROPERTY SessionsEnd
