\* Two renewals of one profile by a single handler.
SPECIFICATION Spec
CONSTANTS
    o1 = o1
    o2 = o2
    o3 = o3
    h1 = h1
    h2 = h2
    u1 = u1
    u2 = u2
    own = own
    taken = taken
    orphan = orphan
    fresh1 = fresh1
    fresh2 = fresh2
    gone = gone
    NoOrder = NoOrder
    NoUser = NoUser
    NoProfile = NoProfile
    Orders = {o1, o2}
    Users = {u1, u2}
    Profiles = {own, taken, orphan, fresh1, fresh2, gone}
    Handlers = {h1}
    Buyer <- RenewalBuyer
    Channel <- RenewalChannel
    PurchaseTarget <- RenewalTarget
    DaysOrdered <- MCDays
    Capped = {}
    Undeliverable = {}
    Candidate <- MCCandidate
    InitialPanel <- MCPanel
    InitialLink <- MCLink
    MaxNames = 3
    MaxAttempts = 3
    MaxWebhooks = 3
    MaxLate = 0
    MaxCrashes = 0
    AlertMayFail = FALSE
INVARIANTS
    DaysExact
\* Everything is delivered, given up or out of webhooks.
CHECK_DEADLOCK FALSE
