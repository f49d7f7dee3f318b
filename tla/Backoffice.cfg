SPECIFICATION Spec

CONSTANTS
    NoUser = NoUser
    NoEvent = NoEvent
    NoHolder = NoHolder
    Users = {u1, u2}
    Requests = {r1, r2}
    Apart = FALSE
    MaxMishaps = 1
    Events = {e1}
    MaxCampaigns = 2
    Workers = {w1, w2}
    Known = {u1}
    Segment = {u1, u2}
    ProgressEvery = 2
    MaxExtras = 1
    Rules = {q1, q2}
    Jobs = {w1, w2}
    Reachable = {u1}
    MaxWebhooks = 3
    MaxTrouble = 2
    Devices = {t1, t2}
    Runs = {1, 2}
    MaxOutages = 2
    LastMinute = 3
    MaxRequests = 2
    MaxServed = 4
    SafeAfter = 0
    KeyTtl = 2
    RollUpAfter = 2
    MaxQuiet = 1
    Callers = {c1, c2, c3, c4}
    MaxCancels = 1
    Tickets = {k1, k2}
    Posts = {r1, r2, r3}
    MaxOpen = 1
    MaxImages = 2
    MaxUpdates = 4
    MaxFailures = 1
    Profiles = {p1, p2}
    NoProfile = NoProfile
    Nodes = {n1, n2, n3}
    NoNode = NoNode
    Services = {"dashboard", "bot"}
    Polled = {"dashboard"}
    MaxSaves = 2

SYMMETRY Slots

INVARIANTS
    TypeOK
    GrantedOncePerLaunch
    
    NotForgotten
    CooldownKept
    PushLaunchesSound
    TelemetrySound
    WaitersAnswered
    MenuSells
    SupportSound
    ConfigSound
    


    

CHECK_DEADLOCK FALSE
