\* Every way a delivery can be refused; termination under fairness.
SPECIFICATION FairSpec
CONSTANTS
    o1 = o1
    o2 = o2
    o3 = o3
    h1 = h1
    h2 = h2
    u1 = u1
    u2 = u2
    own = own
    taken = taken
    orphan = orphan
    fresh1 = fresh1
    fresh2 = fresh2
    gone = gone
    NoOrder = NoOrder
    NoUser = NoUser
    NoProfile = NoProfile
    Orders = {o1, o2, o3}
    Users = {u1, u2}
    Profiles = {own, taken, orphan, fresh1, fresh2, gone}
    Handlers = {h1}
    Buyer <- DeadEndBuyer
    Channel <- DeadEndChannel
    PurchaseTarget <- DeadEndTarget
    DaysOrdered <- MCDays
    Capped = {o3}
    Undeliverable = {o1}
    Candidate <- MCCandidate
    InitialPanel <- MCPanel
    InitialLink <- MCLink
    MaxNames = 2
    MaxAttempts = 3
    MaxWebhooks = 4
    MaxLate = 1
    MaxCrashes = 1
    AlertMayFail = TRUE
PROPERTIES
    HandlerEnds
\* Everything is delivered, given up or out of webhooks.
CHECK_DEADLOCK FALSE
