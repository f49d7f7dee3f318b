\* One order, no crash; only the admin alert may fail.
SPECIFICATION Spec
CONSTANTS
    o1 = o1
    o2 = o2
    o3 = o3
    h1 = h1
    h2 = h2
    u1 = u1
    u2 = u2
    own = own
    taken = taken
    orphan = orphan
    fresh1 = fresh1
    fresh2 = fresh2
    gone = gone
    NoOrder = NoOrder
    NoUser = NoUser
    NoProfile = NoProfile
    Orders = {o1}
    Users = {u1, u2}
    Profiles = {own, taken, orphan, fresh1, fresh2, gone}
    Handlers = {h1}
    Buyer <- SeqBuyer
    Channel <- SeqChannel
    PurchaseTarget <- PlainTarget
    DaysOrdered <- MCDays
    Capped = {}
    Undeliverable = {}
    Candidate <- MCCandidate
    InitialPanel <- MCPanel
    InitialLink <- MCLink
    MaxNames = 3
    MaxAttempts = 3
    MaxWebhooks = 2
    MaxLate = 0
    MaxCrashes = 0
    AlertMayFail = TRUE
INVARIANTS
    NeverStranded
\* Everything is delivered, given up or out of webhooks.
CHECK_DEADLOCK FALSE
