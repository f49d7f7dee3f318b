\* Two handlers, duplicate webhooks, a profile two accounts can claim.
SPECIFICATION Spec
CONSTANTS
    o1 = o1
    o2 = o2
    o3 = o3
    h1 = h1
    h2 = h2
    u1 = u1
    u2 = u2
    own = own
    taken = taken
    orphan = orphan
    fresh1 = fresh1
    fresh2 = fresh2
    gone = gone
    NoOrder = NoOrder
    NoUser = NoUser
    NoProfile = NoProfile
    Orders = {o1, o2, o3}
    Users = {u1, u2}
    Profiles = {own, taken, orphan, fresh1, fresh2, gone}
    Handlers = {h1, h2}
    Buyer <- OverlapBuyer
    Channel <- OverlapChannel
    PurchaseTarget <- OverlapTarget
    DaysOrdered <- MCDays
    Capped = {}
    Undeliverable = {}
    Candidate <- MCCandidate
    InitialPanel <- MCPanel
    InitialLink <- MCLink
    MaxNames = 3
    MaxAttempts = 2
    MaxWebhooks = 2
    MaxLate = 1
    MaxCrashes = 1
    AlertMayFail = TRUE
INVARIANTS
    DeliveredToTarget
    OwnProfileOnly
    ClaimHasWorker
\* Everything is delivered, given up or out of webhooks.
CHECK_DEADLOCK FALSE
